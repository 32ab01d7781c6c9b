-------------------------- MODULE MCCaptureService --------------------------
(* Two sessions whose players have different names, for TLC.                *)
EXTENDS CaptureService, TLC

CONSTANTS s1, s2

Names == (s1 :> <<7>>) @@ (s2 :> <<8>>)
NoName == {}
FirstName == {<<7>>}

SomeBatches ==
    { [enc |-> "raw", pkts |-> <<"NetworkSettings", "Login">>, first |-> "plain"],
      [enc |-> "raw", pkts |-> <<"OddSkinLogin">>, first |-> "plain"] }
=============================================================================
