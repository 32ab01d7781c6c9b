--------------------------- MODULE MCFrameReceive ---------------------------
(* Instances of FrameReceive for TLC.                                       *)
EXTENDS FrameReceive

M(parts, ch, sid) == [parts |-> parts, ch |-> ch, sid |-> sid, bye |-> FALSE]
Bye == [parts |-> 1, ch |-> Unordered, sid |-> 0, bye |-> TRUE]

Disorderly ==
    { \* a message in two fragments between two whole ones of the same channel
      <<M(1, 0, 0), M(2, 0, 0), M(1, 0, 0)>>,
      \* a goodbye between an unordered message in two fragments and an ordered one
      <<M(2, Unordered, 0), Bye, M(1, 1, 0)>>,
      \* a message of too many parts
      <<M(4, 0, 1), M(1, 0, 0)>>,
      \* messages of different lengths with one split id
      <<M(2, 0, 0), M(3, 0, 0)>>,
      \* an order index that comes round
      <<M(1, 0, 0), M(1, 0, 0), M(1, 0, 0), M(1, 0, 0)>> }

(* All shapes on three channels.                                            *)
Mixed == <<M(1, 0, 0), M(2, 0, 0), M(1, 1, 0), M(2, Unordered, 1), M(1, 0, 0)>>

AllCases == {[script |-> s, orderly |-> FALSE] : s \in Disorderly}
                \cup {[script |-> Mixed, orderly |-> TRUE]}

(* Two ordered messages on a network that reorders.                         *)
TwoOrdered == {[script |-> <<M(1, 0, 0), M(1, 0, 0)>>, orderly |-> FALSE]}
=============================================================================
