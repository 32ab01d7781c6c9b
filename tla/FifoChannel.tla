----------------------------- MODULE FifoChannel ----------------------------
(***************************************************************************)
(* What a reliable, ordered transport promises: message n is delivered     *)
(* after message n - 1, once, and not before it was sent.  A channel that  *)
(* has lost its integrity still delivers nothing but messages that were    *)
(* sent.                                                                   *)
(***************************************************************************)
EXTENDS Naturals, Sequences

VARIABLES sent,   \* number of messages sent
          got,    \* the messages delivered
          intact  \* the channel is one that keeps order, and has lost nothing

vars == <<sent, got, intact>>

Init == sent = 0 /\ got = <<>> /\ intact \in BOOLEAN

SendOne == sent' = sent + 1 /\ UNCHANGED <<got, intact>>

Break == intact /\ intact' = FALSE /\ UNCHANGED <<sent, got>>

DeliverNext == /\ intact /\ Len(got) < sent
               /\ got' = Append(got, Len(got) + 1)
               /\ UNCHANGED <<sent, intact>>

DeliverAny == /\ ~intact
              /\ \E m \in 1..sent : got' = Append(got, m)
              /\ UNCHANGED <<sent, intact>>

Spec == Init /\ [][SendOne \/ Break \/ DeliverNext \/ DeliverAny]_vars
=============================================================================
