--------------------------- MODULE MCReliableSend --------------------------
(* Instances of ReliableSend for TLC.                                       *)
EXTENDS ReliableSend, TLC

M(parts, reliable, ordered) == [parts |-> parts, reliable |-> reliable, ordered |-> ordered]

CONSTANTS m1, m2, m3

(* A message in two fragments, and a single one that is not reliable.       *)
SplitAndLoose == m1 :> M(2, TRUE, TRUE) @@ m3 :> M(1, FALSE, TRUE)
(* Two single messages.                                                     *)
TwoSingle == m1 :> M(1, TRUE, TRUE) @@ m2 :> M(1, TRUE, TRUE)

(* No action or property names a task (no liveness is checked with this).   *)
SenderSymmetry == Permutations(Senders)
=============================================================================
