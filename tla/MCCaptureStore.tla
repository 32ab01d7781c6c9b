--------------------------- MODULE MCCaptureStore ---------------------------
(* Instances of CaptureStore for TLC.                                       *)
EXTENDS CaptureStore, TLC

CONSTANTS c1, c2, c3

(* Two captures of one player and skin, and a player whose name ends in the *)
(* number of a duplicate.                                                   *)
CollidingNames == (c1 :> <<7>>) @@ (c2 :> <<7>>) @@ (c3 :> <<7, 1>>)

(* Files of earlier runs: a whole pair, an image alone, a sidecar alone.    *)
FirstName == {<<7>>}
SecondName == {<<7, 1>>}
NoName == {}
=============================================================================
