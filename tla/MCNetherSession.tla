--------------------------- MODULE MCNetherSession --------------------------
(* An instance of NetherSession for TLC: the batches of the negotiation, in *)
(* and out of turn, alone and with other packets before or after them, some *)
(* behind the marker of RakNet, and raw ones whose length begins like it.   *)
EXTENDS NetherSession

Raw(pkts, first) == [enc |-> "raw", pkts |-> pkts, first |-> first]
Deflate(pkts, first) == [enc |-> "deflate", pkts |-> pkts, first |-> first]

SomeBatches ==
    { Raw(<<"NetworkSettings">>, "marker"), Raw(<<"NetworkSettings", "Login">>, "plain"),
      Raw(<<"Login", "Login">>, "plain"), Raw(<<"Other", "Login">>, "length"),
      Deflate(<<"NetworkSettings">>, "plain"), Deflate(<<"Other", "Login">>, "marker"),
      Deflate(<<"OddSkinLogin">>, "plain"), Deflate(<<>>, "plain"),
      [enc |-> "stored", pkts |-> <<"Unparsable", "Login">>, first |-> "plain"] }
=============================================================================
