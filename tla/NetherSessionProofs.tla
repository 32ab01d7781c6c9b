------------------------- MODULE NetherSessionProofs ------------------------
(***************************************************************************)
(* Proofs about NetherSession, for any sessions, batches and numbers of    *)
(* messages: types, the single answer, its encoding, and the negotiation.  *)
(***************************************************************************)
EXTENDS NetherSession, SequenceTheorems, TLAPS

(* What a client may send is a batch.                                       *)
LEMMA BatchType == ASSUME NEW b \in Batches PROVE b.enc \in Encodings /\ b.pkts \in Seq(Packets)
BY BatchesAssumption

(* A batch taken from a channel leaves packets to handle, or the loop receiving. *)
LEMMA TakeBatchType ==
    ASSUME TypeOK, NEW s \in Sessions, NEW b \in Batches, pc[s] = "recv", TakeBatch(s, b)
    PROVE  /\ work' \in [Sessions -> Seq(Packets)] /\ pc' \in [Sessions -> PC]
           /\ dropped' \in [Sessions -> BOOLEAN] /\ trimmed' \in [Sessions -> BOOLEAN]
           /\ \A r \in Sessions : pc'[r] \in {"packets", "sendSettings"} => work'[r] # <<>>
<1>1. ASSUME NEW pkts \in Seq(Packets), Take(s, pkts)
      PROVE  /\ work' \in [Sessions -> Seq(Packets)] /\ pc' \in [Sessions -> PC]
             /\ \A r \in Sessions : pc'[r] \in {"packets", "sendSettings"} => work'[r] # <<>>
  BY <1>1 DEF Take, TypeOK, Goto, PC
<1>2. b.pkts \in Seq(Packets) /\ Misreadings \subseteq Seq(Packets)
  BY BatchType, EmptySeq DEF Misreadings
<1>3. \/ \E pkts \in Seq(Packets) : Take(s, pkts)
      \/ UNCHANGED <<work, pc>>
  BY <1>2 DEF TakeBatch
<1>4. (dropped[s] \/ b.pkts # <<>>) \in BOOLEAN /\ (trimmed[s] \/ b.first = "length") \in BOOLEAN
  OBVIOUS
<1>5. dropped' \in [Sessions -> BOOLEAN] /\ trimmed' \in [Sessions -> BOOLEAN]
  BY <1>4, Zenon DEF TakeBatch, TypeOK
<1> QED BY <1>1, <1>3, <1>5 DEF TypeOK

(* So does a packet that has been handled.                                  *)
LEMMA AfterPacketType ==
    ASSUME TypeOK, NEW s \in Sessions, pc[s] \in {"packets", "sendSettings"}, AfterPacket(s)
    PROVE  /\ work' \in [Sessions -> Seq(Packets)] /\ pc' \in [Sessions -> PC]
           /\ \A r \in Sessions : pc'[r] \in {"packets", "sendSettings"} => work'[r] # <<>>
<1>1. work[s] \in Seq(Packets) /\ work[s] # <<>> BY DEF TypeOK
<1>2. Tail(work[s]) \in Seq(Packets) BY <1>1
<1> QED BY <1>2 DEF AfterPacket, TypeOK, Goto, PC

(* What is sent is one of the responses.                                    *)
LEMMA SendType ==
    ASSUME TypeOK, NEW s \in Sessions, NEW r \in Responses, Send(s, r)
    PROVE  out' \in [Sessions -> Seq(Responses)] /\ sendFailed' \in [Sessions -> BOOLEAN]
<1>1. Append(out[s], r) \in Seq(Responses) BY DEF TypeOK
<1> QED BY <1>1 DEF Send, TypeOK

(* The types hold at first.                                                 *)
LEMMA TypeInit == Init => TypeOK
BY BoundAssumption DEF Init, TypeOK, PC

(* Every step keeps the types.                                              *)
LEMMA TypeStep == TypeOK /\ [Next]_vars => TypeOK'
<1> SUFFICES ASSUME TypeOK, [Next]_vars PROVE TypeOK' OBVIOUS
<1> USE DEF vars, clientVars, serverVars
<1>1. ASSUME UNCHANGED vars PROVE TypeOK' BY <1>1 DEF TypeOK
<1>2. ASSUME NEW s \in Sessions, ServerStep(s) PROVE TypeOK'
  <2>1. CASE RecvReliable(s)
    <3>1. pc[s] = "recv" /\ TakeBatch(s, Head(reliable[s])) BY <2>1 DEF RecvReliable, Receiving
    <3>2. reliable[s] \in Seq(Batches) /\ reliable[s] # <<>> BY <2>1 DEF TypeOK, RecvReliable
    <3>3. Head(reliable[s]) \in Batches /\ Tail(reliable[s]) \in Seq(Batches) BY <3>2
    <3>4. reliable' \in [Sessions -> Seq(Batches)] BY <2>1, <3>3 DEF RecvReliable, TypeOK
    <3> QED BY <2>1, <3>1, <3>3, <3>4, TakeBatchType DEF RecvReliable, TypeOK
  <2>2. ASSUME NEW b \in Batches, RecvUnreliable(s, b) PROVE TypeOK'
    <3>1. pc[s] = "recv" /\ TakeBatch(s, b) BY <2>2 DEF RecvUnreliable, Receiving
    <3>2. unreliable' \in [Sessions -> SUBSET Batches] BY <2>2 DEF RecvUnreliable, TypeOK
    <3> QED BY <2>2, <3>1, <3>2, TakeBatchType DEF RecvUnreliable, TypeOK
  <2>3. ASSUME NEW ch \in Channels, ChannelClosed(s, ch) PROVE TypeOK'
    <3>1. open' \in [Sessions -> SUBSET Channels] BY <2>3 DEF ChannelClosed, TypeOK
    <3>2. pc' = pc \/ pc' = [pc EXCEPT ![s] = "ended"] BY <2>3 DEF ChannelClosed, Goto
    <3> QED BY <2>3, <3>1, <3>2 DEF ChannelClosed, TypeOK, PC
  <2>4. CASE IgnorePacket(s)
    BY <2>4, AfterPacketType DEF IgnorePacket, NextPacketIs, TypeOK
  <2>5. CASE RequestNetworkSettings(s)
    BY <2>5 DEF RequestNetworkSettings, NextPacketIs, Enable, Goto, TypeOK, PC
  <2>6. CASE SendSettings(s)
    <3>1. Settings \in Responses BY DEF Responses
    <3> QED BY <2>6, <3>1, SendType, AfterPacketType DEF SendSettings, TypeOK
  <2>7. CASE Login(s) BY <2>7 DEF Login, NextPacketIs, Goto, TypeOK, PC
  <2>8. CASE SaveReturned(s) BY <2>8 DEF SaveReturned, Goto, TypeOK, PC
  <2>9. CASE SendBundle(s)
    <3>1. Bundle(BundleEncoding(s)) \in Responses BY DEF Responses, BundleEncoding
    <3>2. out' \in [Sessions -> Seq(Responses)] /\ sendFailed' \in [Sessions -> BOOLEAN]
      BY <2>9, <3>1, SendType DEF SendBundle
    <3> QED BY <2>9, <3>2 DEF SendBundle, Goto, TypeOK, PC
  <2>10. CASE SleepOver(s) BY <2>10 DEF SleepOver, Goto, TypeOK, PC
  <2>11. CASE Close(s) BY <2>11 DEF Close, Goto, TypeOK, PC
  <2> QED BY <1>2, <2>1, <2>2, <2>3, <2>4, <2>5, <2>6, <2>7, <2>8, <2>9, <2>10, <2>11
        DEF ServerStep, HandlePacket
<1>3. ASSUME NEW s \in Sessions, RecvError(s) PROVE TypeOK'
  BY <1>3 DEF RecvError, Goto, TypeOK, PC
<1>4. ASSUME NEW s \in Sessions, NEW b \in Batches, NEW ch \in Channels, ClientSend(s, b, ch)
      PROVE  TypeOK'
  <2>1. reliable' \in [Sessions -> Seq(Batches)] /\ unreliable' \in [Sessions -> SUBSET Batches]
    <3>1. Append(reliable[s], b) \in Seq(Batches) BY DEF TypeOK
    <3>2. CASE /\ reliable' = [reliable EXCEPT ![s] = Append(@, b)]
               /\ unreliable' = unreliable
      BY <3>1, <3>2 DEF TypeOK
    <3>3. CASE /\ unreliable' = [unreliable EXCEPT ![s] = @ \cup {b}]
               /\ reliable' = reliable
      BY <3>3 DEF TypeOK
    <3> QED BY <1>4, <3>2, <3>3 DEF ClientSend
  <2>2. sends' \in [Sessions -> 0..MaxSends] BY <1>4, BoundAssumption DEF ClientSend, TypeOK
  <2>3. conforming' \in [Sessions -> BOOLEAN]
    <3>1. (conforming[s] /\ InTurn(s, b, ch)) \in BOOLEAN OBVIOUS
    <3> QED BY <1>4, <3>1, Zenon DEF ClientSend, TypeOK
  <2>4. requested' \in [Sessions -> BOOLEAN]
    <3>1. (requested[s] \/ "NetworkSettings" \in PacketsIn(b.pkts)) \in BOOLEAN OBVIOUS
    <3> QED BY <1>4, <3>1, Zenon DEF ClientSend, TypeOK
  <2> QED BY <1>4, <2>1, <2>2, <2>3, <2>4 DEF ClientSend, TypeOK
<1>5. ASSUME NEW s \in Sessions, NEW ch \in Channels, ClientClose(s, ch) PROVE TypeOK'
  <2>1. clientEnd' \in [Sessions -> SUBSET Channels] BY <1>5 DEF ClientClose, TypeOK
  <2> QED BY <1>5, <2>1 DEF ClientClose, TypeOK
<1>6. ASSUME NEW s \in Sessions, NEW b \in Batches, Lose(s, b) PROVE TypeOK'
  <2>1. unreliable' \in [Sessions -> SUBSET Batches] BY <1>6 DEF Lose, TypeOK
  <2> QED BY <1>6, <2>1 DEF Lose, TypeOK
<1> QED BY <1>1, <1>2, <1>3, <1>4, <1>5, <1>6 DEF Next, Client

(* The variables of the sessions have their types, and a session at work on *)
(* a batch has a packet left to handle (main.rs, handle_session).           *)
THEOREM TypeCorrect == Spec => []TypeOK
<1>1. Init => TypeOK BY TypeInit
<1>2. TypeOK /\ [Next]_vars => TypeOK' BY TypeStep
<1> QED BY <1>1, <1>2, PTL DEF Spec

(***************************************************************************)
(* One answer, and its encoding                                            *)
(***************************************************************************)

(* Nothing is sent once the bundle is out: the task has left the loop.      *)
AnswerInv(s) ==
    /\ \A i \in DOMAIN out[s] : out[s][i].kind = "Bundle" =>
          i = Len(out[s]) /\ pc[s] \in {"sleep", "closing", "closed"}

(* While no send has failed, the flag is set exactly when NetworkSettings   *)
(* is out, or is about to be sent.                                          *)
SettingsOut(s) == \E i \in DOMAIN out[s] : out[s][i] = Settings
EncodingInv(s) ==
    ~sendFailed[s] =>
       /\ compression[s] <=> (SettingsOut(s) \/ pc[s] = "sendSettings")
       /\ \A i \in DOMAIN out[s] : out[s][i].kind = "Bundle" =>
             (out[s][i].enc = "deflate" <=> \E j \in 1..(i - 1) : out[s][j] = Settings)

(* A batch with the request is the last one of a client that keeps to the   *)
(* negotiation until NetworkSettings is out, so that nothing raw is left    *)
(* behind the packet that sets the flag; unless a batch has lost a byte.    *)
Asks(pkts) == "NetworkSettings" \in PacketsIn(pkts)
TurnInv(s) ==
    /\ pc[s] = "sendSettings" => compression[s]
    /\ SettingsOut(s) => compression[s]
    /\ conforming[s] /\ ~trimmed[s] =>
         /\ ~dropped[s] /\ unreliable[s] = {}
         /\ compression[s] => requested[s]
         /\ \A i \in DOMAIN reliable[s] : (reliable[s][i].enc = "raw") = ~compression[s]
         /\ ~compression[s] =>
              /\ \A i \in DOMAIN reliable[s] : Asks(reliable[s][i].pkts) =>
                    requested[s] /\ i = Len(reliable[s])
              /\ Asks(work[s]) => requested[s] /\ reliable[s] = <<>>

StepOf(s) == ServerStep(s) \/ RecvError(s) \/ Client(s)
Same(r) == /\ reliable'[r] = reliable[r] /\ unreliable'[r] = unreliable[r]
           /\ pc'[r] = pc[r] /\ work'[r] = work[r] /\ compression'[r] = compression[r]
           /\ out'[r] = out[r] /\ requested'[r] = requested[r]
           /\ conforming'[r] = conforming[r] /\ dropped'[r] = dropped[r]
           /\ trimmed'[r] = trimmed[r]
           /\ sendFailed'[r] = sendFailed[r]

(* A step of one session or its client leaves the others as they are.       *)
LEMMA OthersStand ==
    ASSUME TypeOK, NEW s \in Sessions, NEW r \in Sessions, r # s, StepOf(s)
    PROVE  Same(r)
<1> USE DEF TypeOK, Same, clientVars, serverVars, Goto
<1>1. CASE ServerStep(s)
  <2>1. CASE RecvReliable(s) BY <2>1 DEF RecvReliable, TakeBatch, Take
  <2>2. ASSUME NEW b \in Batches, RecvUnreliable(s, b) PROVE Same(r)
    BY <2>2 DEF RecvUnreliable, TakeBatch, Take
  <2>3. ASSUME NEW ch \in Channels, ChannelClosed(s, ch) PROVE Same(r)
    BY <2>3 DEF ChannelClosed
  <2>4. CASE IgnorePacket(s) \/ SendSettings(s)
    BY <2>4 DEF IgnorePacket, AfterPacket, SendSettings, Send
  <2>5. CASE RequestNetworkSettings(s) \/ Login(s)
    BY <2>5 DEF RequestNetworkSettings, Enable, Login
  <2>6. CASE SaveReturned(s) \/ SendBundle(s) \/ SleepOver(s) \/ Close(s)
    BY <2>6 DEF SaveReturned, SendBundle, Send, SleepOver, Close
  <2> QED BY <1>1, <2>1, <2>2, <2>3, <2>4, <2>5, <2>6 DEF ServerStep, HandlePacket
<1>2. CASE RecvError(s) BY <1>2 DEF RecvError
<1>3. CASE Client(s)
  <2>1. ASSUME NEW b \in Batches, NEW ch \in Channels, ClientSend(s, b, ch) PROVE Same(r)
    BY <2>1 DEF ClientSend
  <2>2. ASSUME NEW ch \in Channels, ClientClose(s, ch) PROVE Same(r) BY <2>2 DEF ClientClose
  <2>3. ASSUME NEW b \in Batches, Lose(s, b) PROVE Same(r) BY <2>3 DEF Lose
  <2> QED BY <1>3, <2>1, <2>2, <2>3 DEF Client
<1> QED BY <1>1, <1>2, <1>3 DEF StepOf

(* What the steps of a session mean for its answers: nothing is sent, or    *)
(* one response is, from the place of the loop that sends it.               *)
Answered == {"sleep", "closing", "closed"}
Quiet(s) == /\ out'[s] = out[s] /\ sendFailed'[s] = sendFailed[s]
            /\ pc[s] \in Answered => pc'[s] \in Answered
            /\ (compression'[s] # compression[s] \/ pc'[s] = "sendSettings") =>
                 \/ compression'[s] /\ pc'[s] = "sendSettings"
                 \/ compression'[s] = compression[s] /\ pc'[s] = pc[s]
            /\ pc[s] = "sendSettings" => pc'[s] = "sendSettings"
Says(s, r) == /\ \/ out'[s] = Append(out[s], r) /\ sendFailed'[s] = sendFailed[s]
                 \/ out'[s] = out[s] /\ sendFailed'[s]
              /\ compression'[s] = compression[s]

(* A step of a session is quiet, or sends one response from its place.      *)
LEMMA StepSays ==
    ASSUME TypeOK, NEW s \in Sessions, StepOf(s)
    PROVE  \/ Quiet(s)
           \/ pc[s] = "sendSettings" /\ pc'[s] \in {"recv", "packets"} /\ Says(s, Settings)
           \/ pc[s] = "sendBundle" /\ pc'[s] = "sleep" /\ Says(s, Bundle(BundleEncoding(s)))
<1> USE DEF TypeOK, clientVars, serverVars, Goto, Answered
<1>1. CASE ServerStep(s)
  <2>1. CASE RecvReliable(s) BY <2>1 DEF RecvReliable, Receiving, TakeBatch, Take, Quiet
  <2>2. ASSUME NEW b \in Batches, RecvUnreliable(s, b) PROVE Quiet(s)
    BY <2>2 DEF RecvUnreliable, Receiving, TakeBatch, Take, Quiet
  <2>3. ASSUME NEW ch \in Channels, ChannelClosed(s, ch) PROVE Quiet(s)
    BY <2>3 DEF ChannelClosed, Receiving, Quiet
  <2>4. CASE IgnorePacket(s) BY <2>4 DEF IgnorePacket, NextPacketIs, AfterPacket, Quiet
  <2>5. CASE RequestNetworkSettings(s)
    BY <2>5 DEF RequestNetworkSettings, NextPacketIs, Enable, Quiet
  <2>6. CASE Login(s) BY <2>6 DEF Login, NextPacketIs, Quiet
  <2>7. CASE SaveReturned(s) \/ SleepOver(s) \/ Close(s)
    BY <2>7 DEF SaveReturned, SleepOver, Close, Quiet
  <2>8. CASE SendSettings(s) BY <2>8 DEF SendSettings, Send, AfterPacket, Says
  <2>9. CASE SendBundle(s) BY <2>9 DEF SendBundle, Send, Says
  <2> QED BY <1>1, <2>1, <2>2, <2>3, <2>4, <2>5, <2>6, <2>7, <2>8, <2>9
        DEF ServerStep, HandlePacket
<1>2. CASE RecvError(s) BY <1>2 DEF RecvError, Quiet
<1>3. CASE Client(s)
  <2>1. ASSUME NEW b \in Batches, NEW ch \in Channels, ClientSend(s, b, ch) PROVE Quiet(s)
    BY <2>1 DEF ClientSend, Quiet
  <2>2. ASSUME NEW ch \in Channels, ClientClose(s, ch) PROVE Quiet(s)
    BY <2>2 DEF ClientClose, Quiet
  <2>3. ASSUME NEW b \in Batches, Lose(s, b) PROVE Quiet(s) BY <2>3 DEF Lose, Quiet
  <2> QED BY <1>3, <2>1, <2>2, <2>3 DEF Client
<1> QED BY <1>1, <1>2, <1>3 DEF StepOf

(* A step of a session keeps what is known of its answer.                   *)
LEMMA AnswerStep ==
    ASSUME TypeOK, NEW s \in Sessions, AnswerInv(s), StepOf(s) PROVE AnswerInv(s)'
<1>1. CASE Quiet(s) BY <1>1 DEF Quiet, AnswerInv, Answered
<1>2. ASSUME NEW r \in Responses, Says(s, r), pc[s] \in {"sendSettings", "sendBundle"},
             r.kind = "Bundle" => pc'[s] = "sleep"
      PROVE  AnswerInv(s)'
  <2>1. out[s] \in Seq(Responses) BY DEF TypeOK
  <2>2. \A i \in DOMAIN out[s] : out[s][i].kind # "Bundle" BY <1>2 DEF AnswerInv
  <2> QED BY <1>2, <2>1, <2>2 DEF Says, AnswerInv
<1>3. Settings \in Responses /\ Settings.kind # "Bundle"
  BY DEF Settings, Responses
<1>4. Bundle(BundleEncoding(s)) \in Responses BY DEF Responses, BundleEncoding
<1> QED BY <1>1, <1>2, <1>3, <1>4, StepSays

(* A step keeps what is known of NetworkSettings and of the encoding of the answer. *)
LEMMA EncodingStep ==
    ASSUME TypeOK, NEW s \in Sessions, EncodingInv(s), AnswerInv(s), StepOf(s)
    PROVE  EncodingInv(s)'
<1> SUFFICES ASSUME ~sendFailed'[s] PROVE EncodingInv(s)' BY DEF EncodingInv
<1>0. out[s] \in Seq(Responses) /\ compression[s] \in BOOLEAN BY DEF TypeOK
<1>1. CASE Quiet(s) BY <1>1 DEF Quiet, EncodingInv, SettingsOut
<1>2. CASE pc[s] = "sendSettings" /\ pc'[s] \in {"recv", "packets"} /\ Says(s, Settings)
  <2>1. out'[s] = Append(out[s], Settings) /\ ~sendFailed[s] BY <1>2 DEF Says
  <2>2. \A i \in DOMAIN out[s] : out[s][i].kind # "Bundle" BY <1>2 DEF AnswerInv
  <2>3. Settings.kind # "Bundle" BY DEF Settings
  <2>4. \A i \in DOMAIN out'[s] : out'[s][i].kind # "Bundle" BY <1>0, <2>1, <2>2, <2>3
  <2>5. compression'[s] BY <1>2, <2>1 DEF EncodingInv, Says
  <2>6. out'[s][Len(out[s]) + 1] = Settings /\ Len(out[s]) + 1 \in DOMAIN out'[s] BY <1>0, <2>1
  <2> QED BY <2>4, <2>5, <2>6 DEF EncodingInv, SettingsOut
<1>3. CASE pc[s] = "sendBundle" /\ pc'[s] = "sleep" /\ Says(s, Bundle(BundleEncoding(s)))
  <2>1. out'[s] = Append(out[s], Bundle(BundleEncoding(s))) /\ ~sendFailed[s] BY <1>3 DEF Says
  <2>2. \A i \in DOMAIN out[s] : out[s][i].kind # "Bundle" BY <1>3 DEF AnswerInv
  <2>3. compression[s] <=> SettingsOut(s) BY <1>3, <2>1 DEF EncodingInv
  <2>4. (BundleEncoding(s) = "deflate") <=> compression[s] BY <1>0 DEF BundleEncoding
  <2>5. Bundle(BundleEncoding(s)).enc = BundleEncoding(s) /\ Bundle(BundleEncoding(s)) # Settings
    BY DEF Bundle, Settings
  <2> DEFINE n == Len(out[s]) + 1
  <2>6. /\ DOMAIN out'[s] = 1..n /\ out'[s][n] = Bundle(BundleEncoding(s))
        /\ \A i \in 1..(n - 1) : out'[s][i] = out[s][i] /\ i \in DOMAIN out[s]
        /\ DOMAIN out[s] = 1..(n - 1)
    BY <1>0, <2>1
  <2>7. SettingsOut(s) <=> (\E j \in 1..(n - 1) : out'[s][j] = Settings) BY <2>6 DEF SettingsOut
  <2>8. SettingsOut(s)' <=> SettingsOut(s) BY <1>0, <2>5, <2>6, <2>7 DEF SettingsOut
  <2>9. compression'[s] = compression[s] BY <1>3 DEF Says
  <2>10. \A i \in DOMAIN out'[s] : out'[s][i].kind = "Bundle" => i = n BY <1>0, <2>2, <2>6
  <2> HIDE DEF n
  <2>11. \A i \in DOMAIN out'[s] : out'[s][i].kind = "Bundle" =>
            (out'[s][i].enc = "deflate" <=> \E j \in 1..(i - 1) : out'[s][j] = Settings)
    BY <2>3, <2>4, <2>5, <2>6, <2>7, <2>10
  <2> QED BY <1>3, <2>3, <2>8, <2>9, <2>11 DEF EncodingInv
<1> QED BY <1>1, <1>2, <1>3, StepSays

(***************************************************************************)
(* The negotiation                                                         *)
(***************************************************************************)
(* What is left of a sequence without its head.                             *)
LEMMA TailOf ==
    ASSUME NEW S, NEW q \in Seq(S), q # <<>>
    PROVE  /\ Head(q) \in S /\ Head(q) = q[1] /\ 1 \in DOMAIN q
           /\ Tail(q) \in Seq(S) /\ Len(Tail(q)) = Len(q) - 1
           /\ \A i \in DOMAIN Tail(q) : i \in Nat /\ i + 1 \in DOMAIN q /\ Tail(q)[i] = q[i + 1]
           /\ Len(q) = 1 => Tail(q) = <<>>
<1>1. Len(q) \in Nat /\ Len(q) # 0 /\ DOMAIN q = 1..Len(q) OBVIOUS
<1>2. Head(q) \in S /\ Head(q) = q[1] /\ 1 \in DOMAIN q BY <1>1
<1>3. Tail(q) \in Seq(S) /\ Len(Tail(q)) = Len(q) - 1 OBVIOUS
<1>4. \A i \in 1..(Len(q) - 1) : Tail(q)[i] = q[i + 1] OBVIOUS
<1>5. \A i \in DOMAIN Tail(q) : i \in Nat /\ i + 1 \in DOMAIN q /\ Tail(q)[i] = q[i + 1]
  BY <1>1, <1>3, <1>4
<1>6. Len(q) = 1 => Tail(q) = <<>>
  <2>1. Tail(q) # <<>> => Len(Tail(q)) \in Nat \ {0} BY <1>3, EmptySeq, Zenon
  <2> QED BY <1>3, <2>1
<1> QED BY <1>2, <1>3, <1>5, <1>6

(* A batch is taken from the reliable channel: it is of the kind the flag   *)
(* asks for, and the last one when it carries the request.                  *)
LEMMA TurnReceive ==
    ASSUME TypeOK, NEW s \in Sessions, TurnInv(s), RecvReliable(s) PROVE TurnInv(s)'
<1> DEFINE b == Head(reliable[s])
<1>1. reliable[s] \in Seq(Batches) /\ reliable[s] # <<>> /\ compression[s] \in BOOLEAN
  BY DEF TypeOK, RecvReliable
<1>2. /\ b \in Batches /\ b = reliable[s][1] /\ 1 \in DOMAIN reliable[s]
      /\ Tail(reliable[s]) \in Seq(Batches) /\ Len(Tail(reliable[s])) = Len(reliable[s]) - 1
      /\ \A i \in DOMAIN Tail(reliable[s]) :
            i + 1 \in DOMAIN reliable[s] /\ Tail(reliable[s])[i] = reliable[s][i + 1] /\ i \in Nat
      /\ Len(reliable[s]) = 1 => Tail(reliable[s]) = <<>>
  BY <1>1, TailOf
<1>3. /\ reliable'[s] = Tail(reliable[s]) /\ TakeBatch(s, b)
      /\ unreliable' = unreliable /\ compression' = compression /\ out' = out
      /\ requested' = requested /\ conforming' = conforming /\ pc[s] = "recv"
  BY DEF RecvReliable, Receiving, clientVars, TypeOK
<1>4. pc'[s] # "sendSettings" BY <1>3 DEF TakeBatch, Take, Goto, TypeOK
<1>5. (pc[s] = "sendSettings" => compression[s])' /\ (SettingsOut(s) => compression[s])'
  BY <1>3, <1>4 DEF TurnInv, SettingsOut
<1>6. CASE ~conforming[s] \/ trimmed'[s] BY <1>3, <1>5, <1>6 DEF TurnInv
<1>7. CASE conforming[s] /\ ~trimmed'[s]
  <2>0. ~trimmed[s] BY <1>3, <1>7 DEF TakeBatch, TypeOK
  <2>1. Decodes(b, compression[s]) BY <1>1, <1>2, <1>7, <2>0 DEF TurnInv, Decodes
  <2>2. work'[s] = b.pkts /\ dropped' = dropped
    <3>1. b.first \in FirstBytes BY <1>2, BatchesAssumption
    <3>2. CASE Whole(b) BY <1>3, <2>1, <3>2 DEF TakeBatch, Take, TypeOK
    <3>3. CASE ~Whole(b)
      <4>1. b.first = "length" BY <3>1, <3>3 DEF Whole, Stripped, FirstBytes
      <4>2. trimmed' = [trimmed EXCEPT ![s] = @ \/ b.first = "length"]
        BY <1>3, <2>1, <3>3 DEF TakeBatch
      <4>3. trimmed'[s] BY <4>1, <4>2 DEF TypeOK
      <4> QED BY <1>7, <4>3
    <3> QED BY <3>2, <3>3
  <2>3. \A i \in DOMAIN reliable'[s] : (reliable'[s][i].enc = "raw") <=> ~compression'[s]
    BY <1>2, <1>3, <1>7, <2>0 DEF TurnInv
  <2>4. ASSUME ~compression[s], NEW i \in DOMAIN reliable'[s], Asks(reliable'[s][i].pkts)
        PROVE  requested'[s] /\ i = Len(reliable'[s])
    <3>1. reliable'[s][i] = reliable[s][i + 1] /\ i + 1 \in DOMAIN reliable[s] BY <1>2, <1>3
    <3>2. requested[s] /\ i + 1 = Len(reliable[s]) BY <1>7, <2>0, <2>4, <3>1 DEF TurnInv
    <3> QED BY <1>2, <1>3, <3>2
  <2>5. ASSUME ~compression[s], Asks(work'[s]) PROVE requested'[s] /\ reliable'[s] = <<>>
    <3>1. requested[s] /\ 1 = Len(reliable[s]) BY <1>2, <1>7, <2>0, <2>2, <2>5 DEF TurnInv
    <3> QED BY <1>2, <1>3, <3>1
  <2>6. ~dropped'[s] /\ unreliable'[s] = {} /\ (compression'[s] => requested'[s])
    BY <1>3, <1>7, <2>0, <2>2 DEF TurnInv
  <2>7. Asks(work[s])' <=> Asks(work'[s]) BY DEF Asks, PacketsIn
  <2>8. \A i \in DOMAIN reliable'[s] : Asks(reliable[s][i].pkts)' <=> Asks(reliable'[s][i].pkts)
    BY DEF Asks, PacketsIn
  <2> QED BY <1>3, <1>5, <1>7, <2>3, <2>4, <2>5, <2>6, <2>7, <2>8 DEF TurnInv
<1> QED BY <1>6, <1>7

(* The client sends: raw until its request, and nothing after that until    *)
(* NetworkSettings is out and the flag is set.                              *)
LEMMA TurnSend ==
    ASSUME TypeOK, NEW s \in Sessions, TurnInv(s),
           NEW b \in Batches, NEW ch \in Channels, ClientSend(s, b, ch)
    PROVE  TurnInv(s)'
<1>1. /\ UNCHANGED <<pc, work, compression, out, dropped, trimmed>>
      /\ conforming'[s] <=> conforming[s] /\ InTurn(s, b, ch)
      /\ requested'[s] <=> requested[s] \/ Asks(b.pkts)
  BY DEF ClientSend, serverVars, TypeOK, Asks
<1>2. (pc[s] = "sendSettings" => compression[s])' /\ (SettingsOut(s) => compression[s])'
  BY <1>1 DEF TurnInv, SettingsOut
<1>3. CASE ~conforming'[s] \/ trimmed'[s] BY <1>1, <1>2, <1>3 DEF TurnInv
<1>4. CASE conforming'[s] /\ ~trimmed'[s]
  <2>1. conforming[s] /\ ~trimmed[s] /\ InTurn(s, b, ch) BY <1>1, <1>4
  <2>2. /\ reliable'[s] = Append(reliable[s], b) /\ unreliable' = unreliable
        /\ reliable[s] \in Seq(Batches) /\ compression[s] \in BOOLEAN
    BY <2>1 DEF ClientSend, InTurn, TypeOK
  <2>3. (b.enc = "raw") <=> ~compression[s]
    <3>1. CASE Settings \in Sent(s) BY <2>1, <3>1 DEF InTurn, TurnInv, SettingsOut, Sent
    <3>2. CASE Settings \notin Sent(s) BY <2>1, <3>2 DEF InTurn, TurnInv
    <3> QED BY <3>1, <3>2
  <2>4. ~compression[s] => ~requested[s]
    BY <2>1 DEF InTurn, TurnInv, SettingsOut, Sent
  <2> DEFINE n == Len(reliable[s])
  <2>5. /\ DOMAIN reliable[s] = 1..n /\ DOMAIN reliable'[s] = 1..(n + 1) /\ n \in Nat
        /\ \A i \in 1..n : reliable'[s][i] = reliable[s][i]
        /\ reliable'[s][n + 1] = b /\ Len(reliable'[s]) = n + 1
    BY <2>2
  <2> HIDE DEF n
  <2>6. \A i \in DOMAIN reliable'[s] : i \in 1..n \/ i = n + 1 BY <2>5
  <2>7. \A i \in DOMAIN reliable'[s] : (reliable'[s][i].enc = "raw") <=> ~compression'[s]
    BY <1>1, <2>1, <2>3, <2>5, <2>6 DEF TurnInv
  <2>8. ~compression[s] => \A i \in DOMAIN reliable'[s] : Asks(reliable'[s][i].pkts) =>
            requested'[s] /\ i = Len(reliable'[s])
    BY <1>1, <2>1, <2>4, <2>5, <2>6 DEF TurnInv
  <2>9. ~compression[s] => ~Asks(work[s]) BY <2>1, <2>4 DEF TurnInv
  <2>10. ~dropped'[s] /\ unreliable'[s] = {} /\ (compression'[s] => requested'[s])
    BY <1>1, <2>1, <2>2 DEF TurnInv
  <2>11. (Asks(work[s])' <=> Asks(work[s])) /\
         \A i \in DOMAIN reliable'[s] : Asks(reliable[s][i].pkts)' <=> Asks(reliable'[s][i].pkts)
    BY <1>1 DEF Asks, PacketsIn
  <2> QED BY <1>1, <1>2, <2>7, <2>8, <2>9, <2>10, <2>11 DEF TurnInv
<1> QED BY <1>3, <1>4

(* A packet handled by a session whose client keeps to its turn.            *)
LEMMA TurnPacket ==
    ASSUME TypeOK, NEW s \in Sessions, TurnInv(s), pc[s] \in {"packets", "sendSettings"},
           AfterPacket(s), compression' = compression, dropped' = dropped, trimmed' = trimmed,
           reliable' = reliable, unreliable' = unreliable, requested' = requested,
           conforming' = conforming, SettingsOut(s)' => compression[s]
    PROVE  TurnInv(s)'
<1>1. work[s] \in Seq(Packets) /\ work[s] # <<>> BY DEF TypeOK
<1>2. work'[s] = Tail(work[s]) /\ pc'[s] # "sendSettings" BY DEF AfterPacket, Goto, TypeOK
<1>3. Asks(work'[s]) => Asks(work[s]) BY <1>1, <1>2 DEF Asks, PacketsIn
<1>4. Asks(work[s])' <=> Asks(work'[s]) BY DEF Asks, PacketsIn
<1>5. \A i \in DOMAIN reliable[s] : Asks(reliable[s][i].pkts)' <=> Asks(reliable[s][i].pkts)
  BY DEF Asks, PacketsIn
<1> QED BY <1>2, <1>3, <1>4, <1>5 DEF TurnInv

(* A step of another session.                                               *)
LEMMA TurnStill ==
    ASSUME NEW s \in Sessions, TurnInv(s), Same(s) PROVE TurnInv(s)'
<1>1. (Asks(work[s])' <=> Asks(work[s])) /\ (SettingsOut(s)' <=> SettingsOut(s))
  BY DEF Same, Asks, PacketsIn, SettingsOut
<1>2. \A i \in DOMAIN reliable[s] : Asks(reliable[s][i].pkts)' <=> Asks(reliable[s][i].pkts)
  BY DEF Same, Asks, PacketsIn
<1> QED BY <1>1, <1>2 DEF TurnInv, Same

(* Every step of a session keeps what is known of a conforming client.      *)
LEMMA TurnStep ==
    ASSUME TypeOK, NEW s \in Sessions, TurnInv(s), StepOf(s) PROVE TurnInv(s)'
<1> DEFINE Kept == UNCHANGED <<reliable, unreliable, requested, conforming, dropped, trimmed, work, out>>
<1>0. ASSUME Kept, compression' = compression, pc'[s] # "sendSettings" PROVE TurnInv(s)'
  BY <1>0 DEF TurnInv, Asks, PacketsIn, SettingsOut
<1> USE DEF clientVars, serverVars, Goto
<1>1. CASE ServerStep(s)
  <2>1. CASE RecvReliable(s) BY <2>1, TurnReceive
  <2>2. ASSUME NEW b \in Batches, RecvUnreliable(s, b) PROVE TurnInv(s)'
    <3>1. (~conforming[s] \/ trimmed[s]) /\ conforming' = conforming BY <2>2 DEF RecvUnreliable, TurnInv
    <3>2. /\ pc'[s] # "sendSettings" /\ compression' = compression /\ out' = out
          /\ trimmed[s] => trimmed'[s]
      BY <2>2 DEF RecvUnreliable, Receiving, TakeBatch, Take, TypeOK
    <3> QED BY <3>1, <3>2 DEF TurnInv, SettingsOut
  <2>3. ASSUME NEW ch \in Channels, ChannelClosed(s, ch) PROVE TurnInv(s)'
    <3>1. pc'[s] # "sendSettings" BY <2>3 DEF ChannelClosed, Receiving, TypeOK
    <3> QED BY <1>0, <2>3, <3>1 DEF ChannelClosed
  <2>4. CASE IgnorePacket(s)
    <3>1. SettingsOut(s)' => compression[s] BY <2>4 DEF IgnorePacket, SettingsOut, TurnInv
    <3> QED BY <2>4, <3>1, TurnPacket DEF IgnorePacket, NextPacketIs
  <2>5. CASE RequestNetworkSettings(s)
    <3>1. /\ Kept /\ compression'[s] /\ Head(work[s]) = "NetworkSettings"
      BY <2>5 DEF RequestNetworkSettings, NextPacketIs, Enable, TypeOK
    <3>2. work[s] \in Seq(Packets) /\ work[s] # <<>>
      BY <2>5 DEF RequestNetworkSettings, NextPacketIs, TypeOK
    <3>3. Asks(work[s]) BY <3>1, <3>2, TailOf DEF Asks, PacketsIn
    <3>4. compression[s] \/ (conforming[s] /\ ~trimmed[s] => requested[s] /\ reliable[s] = <<>>)
      BY <3>3 DEF TurnInv
    <3> QED BY <3>1, <3>4 DEF TurnInv
  <2>6. CASE SendSettings(s)
    <3>1. compression[s] BY <2>6 DEF SendSettings, TurnInv
    <3> QED BY <2>6, <3>1, TurnPacket DEF SendSettings
  <2>7. CASE Login(s) \/ SaveReturned(s) \/ SleepOver(s) \/ Close(s)
    <3>1. pc'[s] # "sendSettings" BY <2>7 DEF Login, SaveReturned, SleepOver, Close, TypeOK
    <3> QED BY <1>0, <2>7, <3>1 DEF Login, SaveReturned, SleepOver, Close
  <2>8. CASE SendBundle(s)
    <3>1. /\ UNCHANGED <<reliable, unreliable, requested, conforming, dropped, trimmed, work, compression>>
          /\ pc'[s] # "sendSettings"
      BY <2>8 DEF SendBundle, TypeOK
    <3>2. SettingsOut(s)' => SettingsOut(s)
      <4>1. out[s] \in Seq(Responses) BY DEF TypeOK
      <4>2. Bundle(BundleEncoding(s)) # Settings BY DEF Bundle, Settings
      <4>3. out'[s] = Append(out[s], Bundle(BundleEncoding(s))) \/ out'[s] = out[s]
        BY <2>8 DEF SendBundle, Send, TypeOK
      <4> QED BY <4>1, <4>2, <4>3 DEF SettingsOut
    <3> QED BY <3>1, <3>2 DEF TurnInv, Asks, PacketsIn
  <2> QED BY <1>1, <2>1, <2>2, <2>3, <2>4, <2>5, <2>6, <2>7, <2>8 DEF ServerStep, HandlePacket
<1>2. CASE RecvError(s)
  <2>1. pc'[s] # "sendSettings" BY <1>2 DEF RecvError, TypeOK
  <2> QED BY <1>0, <1>2, <2>1 DEF RecvError
<1>3. CASE Client(s)
  <2>1. ASSUME NEW b \in Batches, NEW ch \in Channels, ClientSend(s, b, ch) PROVE TurnInv(s)'
    BY <2>1, TurnSend
  <2>2. ASSUME NEW ch \in Channels, ClientClose(s, ch) PROVE TurnInv(s)'
    <3>1. Same(s) BY <2>2 DEF ClientClose, Same
    <3> QED BY <3>1, TurnStill
  <2>3. ASSUME NEW b \in Batches, Lose(s, b) PROVE TurnInv(s)'
    <3>1. (~conforming[s] \/ trimmed[s]) /\ UNCHANGED <<conforming, trimmed, pc, compression, out>> BY <2>3 DEF Lose, TurnInv
    <3> QED BY <3>1 DEF TurnInv, SettingsOut
  <2> QED BY <1>3, <2>1, <2>2, <2>3 DEF Client
<1> QED BY <1>1, <1>2, <1>3 DEF StepOf

(***************************************************************************)
(* The theorems                                                            *)
(***************************************************************************)
SessionInv == TypeOK /\ \A s \in Sessions : AnswerInv(s) /\ EncodingInv(s) /\ TurnInv(s)

(* The invariant holds at first.                                            *)
LEMMA SessionInit == Init => SessionInv
<1> SUFFICES ASSUME Init PROVE SessionInv OBVIOUS
<1>1. TypeOK BY TypeInit
<1>2. \A s \in Sessions : AnswerInv(s) /\ EncodingInv(s) BY DEF Init, AnswerInv, EncodingInv, SettingsOut
<1>3. \A s \in Sessions : TurnInv(s) BY DEF Init, TurnInv, SettingsOut, Asks, PacketsIn
<1> QED BY <1>1, <1>2, <1>3 DEF SessionInv

(* Every step keeps the invariant.                                          *)
LEMMA SessionStep == SessionInv /\ [Next]_vars => SessionInv'
<1> SUFFICES ASSUME SessionInv, [Next]_vars PROVE SessionInv' OBVIOUS
<1>1. TypeOK /\ TypeOK' BY TypeStep DEF SessionInv
<1>2. SUFFICES ASSUME NEW r \in Sessions PROVE (AnswerInv(r) /\ EncodingInv(r) /\ TurnInv(r))'
  BY <1>1 DEF SessionInv
<1>3. AnswerInv(r) /\ EncodingInv(r) /\ TurnInv(r) BY DEF SessionInv
<1>4. CASE StepOf(r) BY <1>1, <1>3, <1>4, AnswerStep, EncodingStep, TurnStep
<1>5. CASE Same(r)
  <2>1. AnswerInv(r)' /\ EncodingInv(r)' BY <1>3, <1>5 DEF Same, AnswerInv, EncodingInv, SettingsOut
  <2> QED BY <1>3, <1>5, <2>1, TurnStill
<1>6. StepOf(r) \/ Same(r)
  <2>1. CASE UNCHANGED vars BY <2>1 DEF vars, clientVars, serverVars, Same
  <2>2. ASSUME NEW s \in Sessions, StepOf(s) PROVE StepOf(r) \/ Same(r)
    BY <1>1, <2>2, OthersStand
  <2> QED BY <2>1, <2>2 DEF Next, StepOf
<1> QED BY <1>4, <1>5, <1>6

(* The invariant of a session always holds.                                 *)
LEMMA SessionAlways == Spec => []SessionInv
BY SessionInit, SessionStep, PTL DEF Spec

(* What the invariant means for a client.                                   *)
LEMMA SessionMeans == SessionInv => ConformingClientIsHeard /\ ClientCanDecode /\ BundleIsLast
<1>1. SessionInv => BundleIsLast BY DEF SessionInv, AnswerInv, BundleIsLast
<1>2. SessionInv => ClientCanDecode
  <2> SUFFICES ASSUME SessionInv, NEW s \in Sessions, ~sendFailed[s], NEW i \in DOMAIN out[s],
                      out[s][i].kind = "Bundle"
               PROVE  (out[s][i].enc = "deflate") = (\E j \in 1..(i - 1) : out[s][j] = Settings)
    BY DEF ClientCanDecode
  <2>1. out[s][i].enc = "deflate" <=> \E j \in 1..(i - 1) : out[s][j] = Settings
    BY DEF SessionInv, EncodingInv
  <2> QED BY <2>1
<1>3. SessionInv => ConformingClientIsHeard BY DEF SessionInv, TurnInv, ConformingClientIsHeard
<1> QED BY <1>1, <1>2, <1>3

(* The bundle is the last thing a client is sent, whatever packets follow   *)
(* its Login (main.rs, handle_session).                                     *)
THEOREM AnsweredOnce == Spec => []BundleIsLast
BY SessionMeans, SessionAlways, PTL

(* The bundle is compressed exactly when NetworkSettings went before it,    *)
(* unless a send has failed (main.rs, handle_session and build_batch).      *)
THEOREM AnswerIsReadable == Spec => []ClientCanDecode
BY SessionMeans, SessionAlways, PTL

(* A batch of a client that keeps to the negotiation is read as what it is, *)
(* with the marker in front or without, although the flag is set before the *)
(* answer is sent; unless one of its raw batches has lost the first byte of *)
(* a length to the stripping of the marker (main.rs, handle_session).       *)
THEOREM NegotiationIsHeard == Spec => []ConformingClientIsHeard
BY SessionMeans, SessionAlways, PTL
=============================================================================
