---------------------------- MODULE NetherSession ---------------------------
(***************************************************************************)
(* The NetherNet sessions of the running program: handle_session of        *)
(* src/main.rs, one task per accepted connection, and its client.          *)
(*                                                                         *)
(* A session reads two data channels: a reliable, ordered one and an       *)
(* unreliable one that loses and reorders.  Every message is a batch of    *)
(* Bedrock packets, raw or compressed, and is decoded according to a flag  *)
(* that RequestNetworkSettings sets.  The first Login that parses is saved *)
(* (CaptureService refines that step to CaptureStore), answered with one   *)
(* bundle, and the connection is closed.                                   *)
(*                                                                         *)
(* Every await of the task is a step boundary.  The client may send any    *)
(* batch of the set Batches at any time; "conforming" records whether it   *)
(* has kept to the negotiation the README describes.                       *)
(***************************************************************************)
EXTENDS Naturals, Sequences, FiniteSets

CONSTANTS Sessions,  \* the accepted connections
          Batches,   \* what clients may send: records [enc, pkts, first]
          MaxSends,  \* bound on the messages a client sends
          LinkFails  \* whether recv and send of the transport may return errors

Encodings == {"raw", "deflate", "stored"}
Packets == {"NetworkSettings", "Login", "OddSkinLogin", "Unparsable", "Other"}

(* A message may carry the batch marker 0xfe of RakNet in front.  A raw     *)
(* batch may begin with that byte all the same: it is the first of the      *)
(* length of a packet of 254, 382, 510 ... bytes.                           *)
FirstBytes == {"plain", "marker", "length"}

ASSUME BatchesAssumption ==
    /\ Batches \subseteq [enc : Encodings, pkts : Seq(Packets), first : FirstBytes]
    /\ \A b \in Batches : b.first = "length" => b.enc = "raw" /\ b.pkts # <<>>
ASSUME BoundAssumption == MaxSends \in Nat /\ LinkFails \in BOOLEAN

VARIABLES reliable,    \* batches on the way on the reliable channel
          unreliable,  \* batches on the way on the unreliable channel
          clientEnd,   \* the channels the client has closed
          open,        \* reliable_open and unreliable_open
          pc,          \* where the task of each session is
          work,        \* the packets of the current batch still to be handled
          compression, \* compression_enabled
          out,         \* what was sent to the client, in order
          sends,       \* number of messages the client has sent
          requested,   \* the client has sent a RequestNetworkSettings
          conforming,  \* the client has kept to the negotiation
          dropped,     \* a batch with packets in it was not read as what it is
          trimmed,     \* and that was one that had lost a byte of a length
          sendFailed   \* a send of the server returned an error

clientVars == <<clientEnd, sends, requested, conforming>>
serverVars == <<open, pc, work, compression, out, dropped, trimmed, sendFailed>>
vars == <<reliable, unreliable, clientVars, serverVars>>

Channels == {"reliable", "unreliable"}
PC == {"recv", "packets", "sendSettings", "saving", "sendBundle", "sleep",
       "closing", "closed", "ended", "errored"}
Gone == {"closed", "ended", "errored"}

Settings == [kind |-> "NetworkSettings", enc |-> "raw"]
Bundle(enc) == [kind |-> "Bundle", enc |-> enc]
Responses == {Settings} \cup {Bundle(e) : e \in {"raw", "deflate"}}

Sent(s) == {out[s][i] : i \in DOMAIN out[s]}
PacketsIn(seq) == {seq[i] : i \in DOMAIN seq}

Init == /\ reliable = [s \in Sessions |-> <<>>]
        /\ unreliable = [s \in Sessions |-> {}]
        /\ clientEnd = [s \in Sessions |-> {}]
        /\ open = [s \in Sessions |-> Channels]
        /\ pc = [s \in Sessions |-> "recv"]
        /\ work = [s \in Sessions |-> <<>>]
        /\ compression = [s \in Sessions |-> FALSE]
        /\ out = [s \in Sessions |-> <<>>]
        /\ sends = [s \in Sessions |-> 0]
        /\ requested = [s \in Sessions |-> FALSE]
        /\ conforming = [s \in Sessions |-> TRUE]
        /\ dropped = [s \in Sessions |-> FALSE]
        /\ trimmed = [s \in Sessions |-> FALSE]
        /\ sendFailed = [s \in Sessions |-> FALSE]

(***************************************************************************)
(* The client                                                              *)
(***************************************************************************)

(* The negotiation: everything goes over the reliable channel, raw up to    *)
(* the batch with the request, then nothing until NetworkSettings arrives,  *)
(* then compressed (or marked as stored).                                   *)
InTurn(s, b, ch) ==
    /\ ch = "reliable"
    /\ IF Settings \in Sent(s) THEN b.enc # "raw" ELSE b.enc = "raw" /\ ~requested[s]

ClientSend(s, b, ch) ==
    /\ sends[s] < MaxSends /\ ch \notin clientEnd[s]
    /\ sends' = [sends EXCEPT ![s] = @ + 1]
    /\ conforming' = [conforming EXCEPT ![s] = @ /\ InTurn(s, b, ch)]
    /\ requested' = [requested EXCEPT ![s] = @ \/ "NetworkSettings" \in PacketsIn(b.pkts)]
    /\ IF ch = "reliable"
         THEN /\ reliable' = [reliable EXCEPT ![s] = Append(@, b)]
              /\ UNCHANGED unreliable
         ELSE /\ unreliable' = [unreliable EXCEPT ![s] = @ \cup {b}]
              /\ UNCHANGED reliable
    /\ UNCHANGED <<clientEnd, serverVars>>

ClientClose(s, ch) ==
    /\ ch \notin clientEnd[s]
    /\ clientEnd' = [clientEnd EXCEPT ![s] = @ \cup {ch}]
    /\ UNCHANGED <<reliable, unreliable, sends, requested, conforming, serverVars>>

Lose(s, b) ==
    /\ b \in unreliable[s]
    /\ unreliable' = [unreliable EXCEPT ![s] = @ \ {b}]
    /\ UNCHANGED <<reliable, clientVars, serverVars>>

(***************************************************************************)
(* The session task                                                        *)
(***************************************************************************)
Goto(s, l) == pc' = [pc EXCEPT ![s] = l]

(* A leading 0xfe is taken off every message, for the marker some clients   *)
(* still send; nothing tells it from the first byte of a length.            *)
StrippedNever(b) == FALSE          \* mutant: the marker is handed to decompress_batch
Stripped(b) == b.first # "plain"
Whole(b) == Stripped(b) = (b.first = "marker")

(* decompress_batch and parse_batch: without compression the bytes are      *)
(* taken as they are, with it they must carry an algorithm byte.  Bytes of  *)
(* the other kind yield an error or no known packet: the batch is skipped.  *)
Decodes(b, enabled) == (b.enc = "raw") = ~enabled

Take(s, pkts) ==
    /\ work' = [work EXCEPT ![s] = pkts]
    /\ Goto(s, IF pkts = <<>> THEN "recv" ELSE "packets")

(* What is left of a raw batch without its first byte reads as anything: as *)
(* other packets, or as none.                                               *)
Misreadings == {<<>>} \cup {b.pkts : b \in Batches}

TakeBatch(s, b) ==
    \/ /\ Decodes(b, compression[s]) /\ Whole(b)
       /\ Take(s, b.pkts)
       /\ UNCHANGED <<dropped, trimmed>>
    \/ /\ Decodes(b, compression[s]) /\ ~Whole(b)
       /\ \E pkts \in Misreadings : Take(s, pkts)
       /\ dropped' = [dropped EXCEPT ![s] = @ \/ b.pkts # <<>>]
       /\ trimmed' = [trimmed EXCEPT ![s] = @ \/ b.first = "length"]
    \/ /\ ~Decodes(b, compression[s])
       /\ dropped' = [dropped EXCEPT ![s] = @ \/ b.pkts # <<>>]
       /\ UNCHANGED <<work, pc, trimmed>>

Receiving(s, ch) == pc[s] = "recv" /\ ch \in open[s]

RecvReliable(s) ==
    /\ Receiving(s, "reliable") /\ reliable[s] # <<>>
    /\ reliable' = [reliable EXCEPT ![s] = Tail(@)]
    /\ TakeBatch(s, Head(reliable[s]))
    /\ UNCHANGED <<unreliable, clientVars, open, compression, out, sendFailed>>

RecvUnreliable(s, b) ==
    /\ Receiving(s, "unreliable") /\ b \in unreliable[s]
    /\ unreliable' = [unreliable EXCEPT ![s] = @ \ {b}]
    /\ TakeBatch(s, b)
    /\ UNCHANGED <<reliable, clientVars, open, compression, out, sendFailed>>

ChannelClosedForgotten(s, ch) ==   \* mutant: the closed channel is polled again
    /\ Receiving(s, ch) /\ ch \in clientEnd[s]
    /\ UNCHANGED vars

(* recv returned None: that channel is not read again, and with the second  *)
(* one the loop ends.                                                       *)
ChannelClosed(s, ch) ==
    /\ Receiving(s, ch) /\ ch \in clientEnd[s]
    /\ IF ch = "reliable" THEN reliable[s] = <<>> ELSE unreliable[s] = {}
    /\ open' = [open EXCEPT ![s] = @ \ {ch}]
    /\ IF open[s] = {ch} THEN Goto(s, "ended") ELSE UNCHANGED pc
    /\ UNCHANGED <<reliable, unreliable, clientVars, work, compression, out, dropped, trimmed, sendFailed>>

(* recv returned an error: the task returns it, the session is dropped.     *)
RecvError(s) ==
    /\ LinkFails
    /\ pc[s] = "recv"
    /\ Goto(s, "errored")
    /\ UNCHANGED <<reliable, unreliable, clientVars, open, work, compression, out, dropped, trimmed, sendFailed>>

AfterPacket(s) ==
    /\ work' = [work EXCEPT ![s] = Tail(@)]
    /\ Goto(s, IF Tail(work[s]) = <<>> THEN "recv" ELSE "packets")

NextPacketIs(s, kinds) == pc[s] = "packets" /\ Head(work[s]) \in kinds

(* A packet of no interest, or a Login that does not parse.                 *)
IgnorePacket(s) ==
    /\ NextPacketIs(s, {"Other", "Unparsable"})
    /\ AfterPacket(s)
    /\ UNCHANGED <<reliable, unreliable, clientVars, open, compression, out, dropped, trimmed, sendFailed>>

EnableNot(s) == UNCHANGED compression \* mutant: compression is not enabled

Enable(s) == compression' = [compression EXCEPT ![s] = TRUE]

(* The flag is set before the answer is sent, and stays set if that fails.  *)
RequestNetworkSettings(s) ==
    /\ NextPacketIs(s, {"NetworkSettings"})
    /\ Enable(s)
    /\ Goto(s, "sendSettings")
    /\ UNCHANGED <<reliable, unreliable, clientVars, open, work, out, dropped, trimmed, sendFailed>>

Send(s, response) ==
    \/ out' = [out EXCEPT ![s] = Append(@, response)] /\ UNCHANGED sendFailed
    \/ /\ LinkFails
       /\ sendFailed' = [sendFailed EXCEPT ![s] = TRUE]
       /\ UNCHANGED out

SendSettings(s) ==
    /\ pc[s] = "sendSettings"
    /\ Send(s, Settings)
    /\ AfterPacket(s)
    /\ UNCHANGED <<reliable, unreliable, clientVars, open, compression, dropped, trimmed>>

(* A Login that parsed.  One whose skin does not have the announced size is *)
(* not saved, and answered all the same.                                    *)
Login(s) ==
    /\ NextPacketIs(s, {"Login", "OddSkinLogin"})
    /\ Goto(s, IF Head(work[s]) = "Login" THEN "saving" ELSE "sendBundle")
    /\ UNCHANGED <<reliable, unreliable, clientVars, open, work, compression, out, dropped, trimmed, sendFailed>>

(* save_login_capture returned; its error would only be logged.             *)
SaveReturned(s) ==
    /\ pc[s] = "saving"
    /\ Goto(s, "sendBundle")
    /\ UNCHANGED <<reliable, unreliable, clientVars, open, work, compression, out, dropped, trimmed, sendFailed>>

AlwaysRaw(s) == "raw"              \* mutant: the bundle is never compressed

BundleEncoding(s) == IF compression[s] THEN "deflate" ELSE "raw"

SendBundle(s) ==
    /\ pc[s] = "sendBundle"
    /\ Send(s, Bundle(BundleEncoding(s)))
    /\ Goto(s, "sleep")
    /\ UNCHANGED <<reliable, unreliable, clientVars, open, work, compression, dropped, trimmed>>

SleepOver(s) ==
    /\ pc[s] = "sleep"
    /\ Goto(s, "closing")
    /\ UNCHANGED <<reliable, unreliable, clientVars, open, work, compression, out, dropped, trimmed, sendFailed>>

CloseAndGoOn(s) ==                 \* mutant: the loop goes on after the Login
    /\ pc[s] = "closing"
    /\ AfterPacket(s)
    /\ UNCHANGED <<reliable, unreliable, clientVars, open, compression, out, dropped, trimmed, sendFailed>>

Close(s) ==
    /\ pc[s] = "closing"
    /\ Goto(s, "closed")
    /\ UNCHANGED <<reliable, unreliable, clientVars, open, work, compression, out, dropped, trimmed, sendFailed>>

HandlePacket(s) == \/ IgnorePacket(s) \/ RequestNetworkSettings(s) \/ SendSettings(s)
                   \/ Login(s) \/ SaveReturned(s) \/ SendBundle(s) \/ SleepOver(s) \/ Close(s)

ServerStep(s) == \/ RecvReliable(s)
                 \/ \E b \in Batches : RecvUnreliable(s, b)
                 \/ \E ch \in Channels : ChannelClosed(s, ch)
                 \/ HandlePacket(s)

Client(s) == \/ \E b \in Batches, ch \in Channels : ClientSend(s, b, ch)
             \/ \E ch \in Channels : ClientClose(s, ch)
             \/ \E b \in Batches : Lose(s, b)

Next == \E s \in Sessions : ServerStep(s) \/ RecvError(s) \/ Client(s)

(* The runtime polls a session task that can go on.  A client owes nothing. *)
Spec == Init /\ [][Next]_vars /\ \A s \in Sessions : WF_vars(ServerStep(s))

(***************************************************************************)
(* Properties                                                              *)
(***************************************************************************)
TypeOK ==
    /\ reliable \in [Sessions -> Seq(Batches)]
    /\ unreliable \in [Sessions -> SUBSET Batches]
    /\ clientEnd \in [Sessions -> SUBSET Channels]
    /\ open \in [Sessions -> SUBSET Channels]
    /\ pc \in [Sessions -> PC]
    /\ work \in [Sessions -> Seq(Packets)]
    /\ compression \in [Sessions -> BOOLEAN]
    /\ out \in [Sessions -> Seq(Responses)]
    /\ sends \in [Sessions -> 0..MaxSends]
    /\ requested \in [Sessions -> BOOLEAN]
    /\ conforming \in [Sessions -> BOOLEAN]
    /\ dropped \in [Sessions -> BOOLEAN]
    /\ trimmed \in [Sessions -> BOOLEAN]
    /\ sendFailed \in [Sessions -> BOOLEAN]
    /\ \A s \in Sessions : pc[s] \in {"packets", "sendSettings"} => work[s] # <<>>

(* A client that keeps to the negotiation is heard: the server reads every  *)
(* batch it receives from it as what it is, with the marker of RakNet or    *)
(* without, although the flag is switched before NetworkSettings is sent    *)
(* and the client sends on its own time.  Only a raw batch whose own length *)
(* begins with 0xfe is not safe: it loses that byte.                        *)
ConformingClientIsHeard == \A s \in Sessions : conforming[s] /\ dropped[s] => trimmed[s]

(* The client can read what it gets: the bundle is compressed exactly when  *)
(* NetworkSettings was sent before it (and no send of the server failed).   *)
ClientCanDecode ==
    \A s \in Sessions : ~sendFailed[s] =>
        \A i \in DOMAIN out[s] : out[s][i].kind = "Bundle" =>
            (out[s][i].enc = "deflate") = (\E j \in 1..(i - 1) : out[s][j] = Settings)

(* One Login is answered once: nothing is sent after the bundle, whatever   *)
(* packets follow the Login in its batch or in later ones.                  *)
BundleIsLast ==
    \A s \in Sessions : \A i \in DOMAIN out[s] : out[s][i].kind = "Bundle" => i = Len(out[s])

(* A Login of a conforming client that reached the reliable channel is      *)
(* handled, and the connection goes away, unless the client leaves the      *)
(* negotiation before that, or a raw batch of it loses a byte of a length.  *)
LoginOnTheWay(s) ==
    /\ conforming[s]
    /\ \E i \in DOMAIN reliable[s] : "Login" \in PacketsIn(reliable[s][i].pkts)
LoginEndsSession ==
    \A s \in Sessions :
        LoginOnTheWay(s) ~> pc[s] \in {"closed", "errored"} \/ ~conforming[s] \/ trimmed[s]

(* A session whose client has closed both channels does not linger.         *)
AbandonedSessionEnds == \A s \in Sessions : clientEnd[s] = Channels ~> pc[s] \in Gone
=============================================================================
