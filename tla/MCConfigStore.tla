--------------------------- MODULE MCConfigStore ---------------------------
(* An instance of ConfigStore for TLC: every literal of up to three         *)
(* characters as the version, and the texts that try each key.              *)
EXTENDS ConfigStore, SequencesExt

Literals == BoundedSeq(Chars, 3)
Address == <<"letter", "n">>
OddAddress == <<"letter", "backslash", "quote">>

Text(version, protocol, port, bind, savemode) ==
    [version |-> version, protocol |-> protocol, port |-> port, bind_addr |-> bind,
     savemode |-> savemode]

MCAddresses == {Address}
MCDefault == Text(<<"letter", "letter">>, 1, 0, Address, 2)
MCLatestVersion == <<"n", "letter">>

OneKeyEach ==
    {Text(Missing, p, 1, Address, 1) : p \in {0, 2, Missing}}
        \cup {Text(<<"u">>, 0, 1, b, 3) : b \in {Address, OddAddress, Missing}}
        \cup {Text(<<"blank">>, 2, Missing, Address, s) : s \in {0, 3, Missing}}

AllTexts == {Text(v, 0, 1, Address, 3) : v \in Literals} \cup OneKeyEach
=============================================================================
