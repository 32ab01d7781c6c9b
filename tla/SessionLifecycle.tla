-------------------------- MODULE SessionLifecycle --------------------------
(***************************************************************************)
(* The session table of the RakNet server (src/raknet/server): who opens,  *)
(* changes and drops the ClientSession of a peer, from handle_packet down  *)
(* to the Login that captures a skin.                                      *)
(*                                                                         *)
(* A task is one call of handle_packet.  A caller with one task is the     *)
(* receive loop the tests of mod.rs drive, which handles a datagram to its *)
(* end before it takes the next; with more it spawns a task per datagram,  *)
(* which the locks of RakNetServer are there for.  Each lock that is       *)
(* taken, each send and each sleep is a step of its own; a lock that is    *)
(* held while another is waited for, and that of the split buffers always, *)
(* is given back by a step of its own too.                                 *)
(*                                                                         *)
(* A datagram is handled frame by frame, and a frame yields the payloads   *)
(* it releases from the split buffers and the ordered channels: which      *)
(* these are is FrameReceive's, what lies behind send_frame is             *)
(* ReliableSend's.  A version string is modelled by the protocol of the    *)
(* table it belongs to.  Fields nothing reads are left out                 *)
(* (raknet_protocol, username, skin_path, compression_algo).               *)
(***************************************************************************)
EXTENDS Naturals, Sequences

CONSTANTS Peers,          \* the addresses clients send from
          Tasks,          \* the calls of handle_packet there may be at once
          NoTask,         \* none of them
          Protocols,      \* the Bedrock protocol numbers, 32 bits wide, clients name
          Unread,         \* in place of the number of a request that is too short for one
          Known,          \* the protocols PROTOCOL_MAP has a version for
          ConfigProtocol, \* RakNetConfig.protocol_version, its version being of it
          Callers         \* who calls handle_packet: the tasks it has, the peers that send,
                          \* what they may send, [id, frames], and how many datagrams at most

Offline == {"UnconnectedPing", "OpenRequest1", "ShortOpenRequest1", "OpenRequest2",
            "ConnectionRequest"}
Packets == [kind : {"NetworkSettings", "Unparsable", "Other"}, protocol : Protocols \cup {Unread}]
             \cup [kind : {"Login", "OddSkinLogin"}, protocol : Protocols]
Bodies == [kind : {"ConnectionRequest", "NewIncoming", "Disconnect", "ConnectedPing",
                   "Batch", "Headless"},
           enc : {"raw", "deflate"}, pkts : Seq(Packets)]

NoBody == [kind |-> "NewIncoming", enc |-> "raw", pkts |-> <<>>]

(* A frame is a fragment or not, and releases payloads in order: none (a    *)
(* fragment of an unfinished message, a payload ahead of its turn, a split  *)
(* of no or too many parts), one or several.  A datagram that is no frame   *)
(* set is dropped behind the expiry, which changes nothing that is kept     *)
(* here.                                                                    *)
Frames == [split : BOOLEAN, emits : Seq(Bodies)]
Datagrams == [id : Offline \cup {"FrameSet"}, frames : Seq(Frames)]

ASSUME CallersAssumption ==
    \A c \in Callers : /\ c.tasks \subseteq Tasks /\ c.peers \subseteq Peers
                       /\ c.datagrams \subseteq Datagrams /\ c.arrivals \in Nat
ASSUME ConstantsAssumption ==
    /\ Protocols \subseteq Nat /\ Known \subseteq Nat /\ Unread \notin Nat
    /\ ConfigProtocol \in Protocols /\ ConfigProtocol < 65536
    /\ NoTask \notin Tasks /\ Peers # {}

VARIABLES caller,      \* the one there is
          connections, \* the session of each peer, or NoSession
          lives,       \* how many sessions each peer has had
          runtime,     \* runtime_protocol_version and runtime_version
          lock,        \* the task that keeps connections locked beyond a step
          splitLock,   \* the task that has split_buffers locked
          task,        \* what each task is doing
          frames,      \* the frames sent to each peer
          pongs,       \* the pairs advertised in pongs
          captures,    \* for each peer, the lives whose Login was saved, in order
          arrivals,    \* how many datagrams have been taken
          overlapped   \* two tasks were inside sync_client_version at once

vars == <<caller, connections, lives, runtime, lock, splitLock, task, frames, pongs, captures,
          arrivals, overlapped>>

(* A protocol is kept in 16 bits (`as u16`).  resolve_version knows the     *)
(* protocols of the table, and gives any other the latest version.          *)
AsU16(n) == n % 65536
Latest == CHOOSE n \in Known : \A k \in Known : k <= n
Resolve(n) == IF n \in Known THEN n ELSE Latest

Numbers == Protocols \cup {AsU16(n) : n \in Protocols}
Versions == {Resolve(n) : n \in Numbers}
Pairs == [protocol : Numbers, version : Versions]

(* The version is that of the whole number, whatever becomes of this.       *)
PairOf(n) == [protocol |-> AsU16(n), version |-> Resolve(n)]
Agree(pair) == pair.version = Resolve(pair.protocol)

NoSession == [life |-> 0]

Replies == [msg : {"Accepted", "Pong", "NetworkSettings", "Bundle", "Disconnect", "Goodbye"},
            enc : {"raw", "deflate"}]
Reply(msg, enc) == [msg |-> msg, enc |-> enc]

PC == {"idle", "ping", "pingVersion", "pong", "request1", "connect", "active", "prune", "pruned",
       "queues", "open", "frame", "split", "assemble", "payload", "accept", "confirm", "drop",
       "echo", "readFlag", "decode", "packet", "settings", "compress", "announce", "syncProtocol",
       "syncVersion", "save", "record", "bundle", "disconnect", "goodbye", "send", "unmark",
       "remove", "count", "counted", "clear", "cleared"}

Begun(p) == [pc |-> "idle", peer |-> p, inbox |-> <<>>, emit |-> <<>>, body |-> NoBody,
            compressed |-> FALSE, todo |-> <<>>, seen |-> PairOf(ConfigProtocol),
            reply |-> Reply("Pong", "raw"), next |-> "payload", life |-> 0, dropped |-> FALSE]
Idle == Begun(CHOOSE p \in Peers : TRUE)

Init == /\ caller \in Callers
        /\ connections = [p \in Peers |-> NoSession]
        /\ lives = [p \in Peers |-> 0]
        /\ runtime = PairOf(ConfigProtocol)
        /\ lock = NoTask /\ splitLock = NoTask
        /\ task = [t \in Tasks |-> Idle]
        /\ frames = [p \in Peers |-> <<>>]
        /\ pongs = {}
        /\ captures = [p \in Peers |-> <<>>]
        /\ arrivals = 0
        /\ overlapped = FALSE

At(t, l) == task[t].pc = l
Goto(t, l) == task' = [task EXCEPT ![t].pc = l]
Finish(t) == task' = [task EXCEPT ![t] = Idle]
Peer(t) == task[t].peer
Has(p) == connections[p] # NoSession
Session(t) == connections[Peer(t)]
Current(t) == Head(task[t].todo)

NextPacket(t) == task' = [task EXCEPT ![t].pc = "packet", ![t].todo = Tail(@)]
SendThen(t, reply, l) ==
    task' = [task EXCEPT ![t].pc = "send", ![t].reply = reply, ![t].next = l]

(* Nobody else keeps the table locked.                                      *)
Free(t) == lock \in {NoTask, t}

(* get_mut: an absent session is left absent.                               *)
UpdateIfThere(t, s) ==
    connections' = [connections EXCEPT ![Peer(t)] = IF Has(Peer(t)) THEN s ELSE @]

history == <<frames, pongs, captures, arrivals, overlapped>>
locks == <<lock, splitLock>>
tableOnly == <<caller, lives, runtime, locks, history>>
taskOnly == <<connections, tableOnly>>

(***************************************************************************)
(* ensure_session and create_session: an absent session is made under the  *)
(* write lock of the table; the runtime protocol and the runtime version   *)
(* are read one after the other, each under a lock of its own.             *)
(***************************************************************************)
Ensuring == {"request1", "connect", "open", "frame", "accept", "send"}

ReadProtocol(t) ==
    /\ task[t].pc \in Ensuring /\ ~Has(Peer(t)) /\ lock = NoTask
    /\ lock' = t
    /\ task' = [task EXCEPT ![t].seen.protocol = runtime.protocol]
    /\ UNCHANGED <<caller, connections, lives, runtime, splitLock, history>>

ReadVersion(t) ==
    /\ lock = t /\ task[t].pc \in Ensuring /\ ~Has(Peer(t))
    /\ lives' = [lives EXCEPT ![Peer(t)] = @ + 1]
    /\ connections' = [connections EXCEPT ![Peer(t)] =
          [life |-> lives'[Peer(t)], connected |-> ~At(t, "request1"), compressed |-> FALSE,
           pair |-> [protocol |-> task[t].seen.protocol, version |-> runtime.version]]]
    /\ UNCHANGED <<caller, runtime, locks, task, history>>

ReleaseForgotten == lock       \* mutant: the guard of the table outlives the block
Release == NoTask

Ensured(t, l) == At(t, l) /\ Free(t) /\ Has(Peer(t))

(***************************************************************************)
(* handle_packet, and the datagrams outside any session                    *)
(***************************************************************************)
Entry == [UnconnectedPing |-> "ping", OpenRequest1 |-> "request1",
          ShortOpenRequest1 |-> "idle", OpenRequest2 |-> "idle",
          ConnectionRequest |-> "connect", FrameSet |-> "active"]

Arrive(t, p, d) ==
    /\ At(t, "idle") /\ arrivals < caller.arrivals
    /\ arrivals' = arrivals + 1
    /\ task' = [task EXCEPT ![t] = [Begun(p) EXCEPT !.pc = Entry[d.id], !.inbox = d.frames]]
    /\ UNCHANGED <<caller, connections, lives, runtime, locks, frames, pongs, captures, overlapped>>

PingProtocol(t) ==
    /\ At(t, "ping")
    /\ task' = [task EXCEPT ![t].pc = "pingVersion", ![t].seen.protocol = runtime.protocol]
    /\ UNCHANGED taskOnly

PingVersion(t) ==
    /\ At(t, "pingVersion")
    /\ task' = [task EXCEPT ![t].pc = "pong", ![t].seen.version = runtime.version]
    /\ UNCHANGED taskOnly

Pong(t) ==
    /\ At(t, "pong") /\ Free(t)
    /\ pongs' = pongs \cup {IF Has(Peer(t)) THEN Session(t).pair ELSE task[t].seen}
    /\ Finish(t)
    /\ UNCHANGED <<caller, connections, lives, runtime, locks, frames, captures, arrivals, overlapped>>

OpenRequest1(t) ==
    /\ Ensured(t, "request1") /\ lock' = Release /\ Finish(t)
    /\ UNCHANGED <<caller, connections, lives, runtime, splitLock, history>>

Connect(t) ==
    /\ Ensured(t, "connect") /\ lock' = Release /\ Finish(t)
    /\ UNCHANGED <<caller, connections, lives, runtime, splitLock, history>>

(***************************************************************************)
(* The split buffers have a lock of their own.  It is taken alone to       *)
(* expire and to clear those of a peer, and inside that of the table to    *)
(* put a fragment in its place and to count what a dropped session leaves. *)
(***************************************************************************)
Taken == [prune |-> "pruned", split |-> "assemble", count |-> "counted", clear |-> "cleared"]

TakeSplits(t) ==
    /\ task[t].pc \in DOMAIN Taken /\ splitLock = NoTask
    /\ splitLock' = t
    /\ Goto(t, Taken[task[t].pc])
    /\ UNCHANGED <<caller, connections, lives, runtime, lock, history>>

(***************************************************************************)
(* handle_game_packet: a peer without a session is ignored, but the check  *)
(* and each ensure_session after it take the lock separately.              *)
(***************************************************************************)
IsActiveUnchecked(t) == TRUE   \* mutant: no is_active_connection
IsActive(t) == Has(Peer(t))

CheckActive(t) ==
    /\ At(t, "active") /\ Free(t)
    /\ IF IsActive(t) THEN Goto(t, "prune") ELSE Finish(t)
    /\ UNCHANGED taskOnly

KeptForTheTable(t) ==          \* mutant: the guard of the buffers outlives their expiry
    /\ At(t, "pruned") /\ Free(t)
    /\ splitLock' = NoTask
    /\ Goto(t, "open")
    /\ UNCHANGED <<caller, connections, lives, runtime, lock, history>>

Pruned(t) ==
    /\ At(t, "pruned")
    /\ splitLock' = NoTask
    /\ Goto(t, "queues")
    /\ UNCHANGED <<caller, connections, lives, runtime, lock, history>>

PruneQueues(t) == At(t, "queues") /\ Free(t) /\ Goto(t, "open") /\ UNCHANGED taskOnly

Open(t) ==
    /\ Ensured(t, "open") /\ lock' = Release
    /\ connections' = [connections EXCEPT ![Peer(t)].connected = TRUE]
    /\ Goto(t, "payload")
    /\ UNCHANGED <<caller, lives, runtime, splitLock, history>>

Handler == [ConnectionRequest |-> "accept", NewIncoming |-> "confirm", Disconnect |-> "drop",
            ConnectedPing |-> "echo", Batch |-> "readFlag", Headless |-> "readFlag"]

(* The payloads a frame has released go first, then the next frame.         *)
NextPayload(t) ==
    /\ At(t, "payload") /\ task[t].emit # <<>>
    /\ LET body == Head(task[t].emit)
       IN task' = [task EXCEPT ![t].pc = Handler[body.kind], ![t].body = body,
                               ![t].emit = Tail(@)]
    /\ UNCHANGED taskOnly

NextFrame(t) ==
    /\ At(t, "payload") /\ task[t].emit = <<>>
    /\ IF task[t].inbox # <<>> THEN Goto(t, "frame") ELSE Finish(t)
    /\ UNCHANGED taskOnly

Emit(t) == task' = [task EXCEPT ![t].pc = "payload", ![t].emit = Head(task[t].inbox).emits,
                                ![t].inbox = Tail(@)]

TakeFrame(t) ==
    /\ Ensured(t, "frame")
    /\ IF Head(task[t].inbox).split
         THEN lock' = t /\ Goto(t, "split")
         ELSE lock' = Release /\ Emit(t)
    /\ UNCHANGED <<caller, connections, lives, runtime, splitLock, history>>

Assemble(t) ==
    /\ At(t, "assemble") /\ Emit(t)
    /\ lock' = NoTask /\ splitLock' = NoTask
    /\ UNCHANGED <<caller, connections, lives, runtime, history>>

(***************************************************************************)
(* dispatch_raknet_packet                                                  *)
(***************************************************************************)
Accept(t) ==
    /\ Ensured(t, "accept") /\ lock' = Release
    /\ connections' = [connections EXCEPT ![Peer(t)].connected = TRUE]
    /\ SendThen(t, Reply("Accepted", "raw"), "payload")
    /\ UNCHANGED <<caller, lives, runtime, splitLock, history>>

Confirm(t) ==
    /\ At(t, "confirm") /\ Free(t)
    /\ UpdateIfThere(t, [Session(t) EXCEPT !.connected = TRUE])
    /\ Goto(t, "payload")
    /\ UNCHANGED tableOnly

Echo(t) ==
    /\ At(t, "echo")
    /\ SendThen(t, Reply("Pong", "raw"), "payload")
    /\ UNCHANGED taskOnly

(***************************************************************************)
(* drop_connection_state, under the table's lock until the fragments that  *)
(* are left are counted, or, without a session, are cleared.               *)
(***************************************************************************)
DroppedOnlyInName(t) ==        \* mutant: the session is marked, not removed
    UpdateIfThere(t, [Session(t) EXCEPT !.connected = FALSE])

Dropped(t) == connections' = [connections EXCEPT ![Peer(t)] = NoSession]
Leftovers(t) == IF Has(Peer(t)) THEN "count" ELSE "clear"

Drop(t) ==
    /\ At(t, "drop") /\ lock = NoTask /\ lock' = t
    /\ Dropped(t)
    /\ task' = [task EXCEPT ![t].pc = Leftovers(t), ![t].next = "payload", ![t].dropped = TRUE]
    /\ UNCHANGED <<caller, lives, runtime, splitLock, history>>

Counted(t) ==
    /\ At(t, "counted")
    /\ lock' = NoTask /\ splitLock' = NoTask
    /\ Goto(t, "clear")
    /\ UNCHANGED <<caller, connections, lives, runtime, history>>

Cleared(t) ==
    /\ At(t, "cleared")
    /\ lock' = (IF lock = t THEN NoTask ELSE lock) /\ splitLock' = NoTask
    /\ Goto(t, task[t].next)
    /\ UNCHANGED <<caller, connections, lives, runtime, history>>

(***************************************************************************)
(* process_bedrock_packet: the flag is read before the bytes are handed to *)
(* a blocking thread.                                                      *)
(***************************************************************************)
CompressionOf(t) == Has(Peer(t)) /\ Session(t).compressed

ReadFlag(t) ==
    /\ At(t, "readFlag") /\ Free(t)
    /\ task' = [task EXCEPT ![t].pc = "decode", ![t].compressed = CompressionOf(t)]
    /\ UNCHANGED taskOnly

(* decompress_batch and parse_batch yield the packets when the bytes are of *)
(* the kind the flag says; otherwise an error or no known packet.  A batch  *)
(* without its first byte is tried only when the flag is set.               *)
Decodes(t) == IF task[t].compressed THEN task[t].body.enc = "deflate"
              ELSE task[t].body.enc = "raw" /\ task[t].body.kind = "Batch"

Decode(t) ==
    /\ At(t, "decode")
    /\ IF Decodes(t)
         THEN task' = [task EXCEPT ![t].pc = "packet", ![t].todo = task[t].body.pkts]
         ELSE Goto(t, "payload")
    /\ UNCHANGED taskOnly

(***************************************************************************)
(* process_single_bedrock_packet, for each packet of the batch             *)
(***************************************************************************)
BatchDone(t) ==
    At(t, "packet") /\ task[t].todo = <<>> /\ Goto(t, "payload") /\ UNCHANGED taskOnly

ProcessPacket(t) ==
    /\ At(t, "packet") /\ task[t].todo # <<>> /\ Free(t)
    /\ CASE ~Has(Peer(t)) -> NextPacket(t)
         [] Has(Peer(t)) /\ Current(t).kind = "NetworkSettings" -> Goto(t, "settings")
         [] Has(Peer(t)) /\ Current(t).kind \in {"Login", "OddSkinLogin"} ->
              task' = [task EXCEPT ![t].pc = "syncProtocol", ![t].life = Session(t).life]
         [] OTHER -> NextPacket(t)
    /\ UNCHANGED taskOnly

(* A request without a readable number stands for the runtime protocol.     *)
NumberOf(t) == IF Current(t).protocol = Unread THEN runtime.protocol ELSE Current(t).protocol

ReadNumber(t) ==
    /\ At(t, "settings")
    /\ task' = [task EXCEPT ![t].pc = "compress", ![t].seen.protocol = NumberOf(t)]
    /\ UNCHANGED taskOnly

SetCompression(t) ==
    /\ At(t, "compress") /\ Free(t)
    /\ UpdateIfThere(t, [Session(t) EXCEPT !.pair = PairOf(task[t].seen.protocol),
                                           !.compressed = TRUE])
    /\ Goto(t, "announce")
    /\ UNCHANGED tableOnly

SettingsEncodingByFlag(t) ==   \* mutant: force_uncompressed is not given
    IF CompressionOf(t) THEN "deflate" ELSE "raw"

(* NetworkSettings itself is forced to stay uncompressed.                   *)
SettingsEncoding(t) == "raw"

Announce(t) ==
    /\ At(t, "announce")
    /\ task' = [task EXCEPT ![t].pc = "send", ![t].next = "packet", ![t].todo = Tail(@),
                            ![t].reply = Reply("NetworkSettings", SettingsEncoding(t))]
    /\ UNCHANGED taskOnly

(***************************************************************************)
(* handle_login_packet                                                     *)
(***************************************************************************)
Syncing == {t \in Tasks : At(t, "syncVersion")}

SyncProtocol(t) ==
    /\ At(t, "syncProtocol")
    /\ runtime' = [runtime EXCEPT !.protocol = AsU16(Current(t).protocol)]
    /\ overlapped' = (overlapped \/ Syncing # {})
    /\ Goto(t, "syncVersion")
    /\ UNCHANGED <<caller, connections, lives, locks, frames, pongs, captures, arrivals>>

VersionKept(t) == runtime.version     \* mutant: only the number is written
ResolvedVersion(t) == Resolve(AsU16(Current(t).protocol))

SyncVersion(t) ==
    /\ At(t, "syncVersion")
    /\ runtime' = [runtime EXCEPT !.version = ResolvedVersion(t)]
    /\ IF Current(t).kind = "Login" THEN Goto(t, "save") ELSE NextPacket(t)
    /\ UNCHANGED <<caller, connections, lives, locks, history>>

Save(t) ==
    /\ At(t, "save")
    /\ captures' = [captures EXCEPT ![Peer(t)] = Append(@, task[t].life)]
    /\ Goto(t, "record")
    /\ UNCHANGED <<caller, connections, lives, runtime, locks, frames, pongs, arrivals, overlapped>>

SaveFails(t) == At(t, "save") /\ NextPacket(t) /\ UNCHANGED taskOnly

Record(t) ==
    /\ At(t, "record") /\ Free(t)
    /\ UpdateIfThere(t, [Session(t) EXCEPT !.pair = PairOf(Current(t).protocol),
                                           !.connected = TRUE])
    /\ Goto(t, "bundle")
    /\ UNCHANGED tableOnly

EncodingOf(t) == IF CompressionOf(t) THEN "deflate" ELSE "raw"

Bundle(t) ==
    /\ At(t, "bundle") /\ Free(t)
    /\ SendThen(t, Reply("Bundle", EncodingOf(t)), "disconnect")
    /\ UNCHANGED taskOnly

Disconnect(t) ==
    /\ At(t, "disconnect") /\ Free(t)
    /\ SendThen(t, Reply("Disconnect", EncodingOf(t)), "goodbye")
    /\ UNCHANGED taskOnly

Goodbye(t) ==
    /\ At(t, "goodbye")
    /\ SendThen(t, Reply("Goodbye", "raw"), "unmark")
    /\ UNCHANGED taskOnly

Unmark(t) ==
    /\ At(t, "unmark") /\ Free(t)
    /\ UpdateIfThere(t, [Session(t) EXCEPT !.connected = FALSE])
    /\ Goto(t, "remove")
    /\ UNCHANGED tableOnly

Remove(t) ==
    /\ At(t, "remove") /\ lock = NoTask /\ lock' = t
    /\ Dropped(t)
    /\ task' = [task EXCEPT ![t].pc = Leftovers(t), ![t].next = "packet", ![t].dropped = TRUE,
                            ![t].todo = Tail(@)]
    /\ UNCHANGED <<caller, lives, runtime, splitLock, history>>

(* send_frame: the session, made anew if it is gone, numbers the frame.     *)
Send(t) ==
    /\ Ensured(t, "send") /\ lock' = Release
    /\ frames' = [frames EXCEPT ![Peer(t)] =
                    Append(@, [reply |-> task[t].reply, life |-> Session(t).life])]
    /\ Goto(t, task[t].next)
    /\ UNCHANGED <<caller, connections, lives, runtime, splitLock, pongs, captures, arrivals, overlapped>>

Step(t) == \/ ReadProtocol(t) \/ ReadVersion(t) \/ TakeSplits(t)
           \/ PingProtocol(t) \/ PingVersion(t) \/ Pong(t) \/ OpenRequest1(t) \/ Connect(t)
           \/ CheckActive(t) \/ Pruned(t) \/ PruneQueues(t) \/ Open(t)
           \/ NextPayload(t) \/ NextFrame(t) \/ TakeFrame(t) \/ Assemble(t)
           \/ Accept(t) \/ Confirm(t) \/ Echo(t) \/ Drop(t) \/ Counted(t) \/ Cleared(t)
           \/ ReadFlag(t) \/ Decode(t) \/ BatchDone(t) \/ ProcessPacket(t)
           \/ ReadNumber(t) \/ SetCompression(t) \/ Announce(t)
           \/ SyncProtocol(t) \/ SyncVersion(t) \/ Save(t) \/ SaveFails(t) \/ Record(t)
           \/ Bundle(t) \/ Disconnect(t) \/ Goodbye(t) \/ Unmark(t) \/ Remove(t) \/ Send(t)

Next == \E t \in caller.tasks :
           Step(t) \/ \E p \in caller.peers, d \in caller.datagrams : Arrive(t, p, d)

Spec == Init /\ [][Next]_vars

(* Sleeps end, locks are handed out in order and nothing a handler awaits   *)
(* depends on the peer; nobody has to send anything.                        *)
Fairness == \A t \in Tasks : WF_vars(Step(t))
FairSpec == Spec /\ Fairness

(***************************************************************************)
(* Properties                                                              *)
(***************************************************************************)
Sessions == [life : Nat \ {0}, connected : BOOLEAN, compressed : BOOLEAN, pair : Pairs]

LockKept == Ensuring \cup {"split", "assemble", "count", "counted", "clear", "cleared"}
SplitsKept == {"pruned", "assemble", "counted", "cleared"}

(* Sessions, tasks and histories are of their types, a session is the       *)
(* latest its peer has had, and a lock is kept only by a task that is where *)
(* the code holds its guard.                                                *)
TypeOK ==
    /\ caller \in Callers
    /\ connections \in [Peers -> Sessions \cup {NoSession}]
    /\ lives \in [Peers -> Nat]
    /\ \A p \in Peers : connections[p].life \in {0, lives[p]}
    /\ runtime \in Pairs
    /\ lock \in Tasks \cup {NoTask} /\ splitLock \in Tasks \cup {NoTask}
    /\ lock # NoTask => task[lock].pc \in LockKept
    /\ splitLock # NoTask => task[splitLock].pc \in SplitsKept
    /\ task \in [Tasks -> [pc : PC, peer : Peers, inbox : Seq(Frames), emit : Seq(Bodies),
                           body : Bodies, compressed : BOOLEAN, todo : Seq(Packets),
                           seen : Pairs, reply : Replies,
                           next : PC, life : Nat, dropped : BOOLEAN]]
    /\ frames \in [Peers -> Seq([reply : Replies, life : Nat \ {0}])]
    /\ pongs \subseteq Pairs
    /\ captures \in [Peers -> Seq(Nat \ {0})]
    /\ arrivals \in 0 .. caller.arrivals
    /\ overlapped \in BOOLEAN

OneAtATime == \E t \in Tasks : caller.tasks = {t}

(* handle_login_packet, one datagram at a time: a session is over with its  *)
(* Login.  One that is sent again, or twice in a batch, is not captured on  *)
(* the same session twice, because the first removes the session it came    *)
(* on (a second one in a later frame of the datagram opens the next session *)
(* and is captured on that); and nothing is sent on a session after the     *)
(* RakNet disconnect notification.                                          *)
LoginEndsLife ==
    OneAtATime => \A p \in Peers :
        /\ \A i, j \in DOMAIN captures[p] : captures[p][i] = captures[p][j] => i = j
        /\ \A i, j \in DOMAIN frames[p] :
              i < j /\ frames[p][i].reply.msg = "Goodbye" => frames[p][j].life # frames[p][i].life

(* send_bedrock_response and send_bedrock_bundle, one datagram at a time:   *)
(* a compressed reply goes out only on a session that has been sent its     *)
(* NetworkSettings, uncompressed, before.                                   *)
CompressedOnlyAfterSettings ==
    OneAtATime => \A p \in Peers : \A i \in DOMAIN frames[p] :
        frames[p][i].reply.enc = "deflate" =>
            \E j \in 1 .. i - 1 :
                /\ frames[p][j].life = frames[p][i].life
                /\ frames[p][j].reply = Reply("NetworkSettings", "raw")

(* handle_game_packet, one datagram at a time: besides OpenRequest1 and     *)
(* ConnectionRequest only a datagram that has itself dropped the session of *)
(* its peer opens one, for a frame, or the reply to one, behind the goodbye *)
(* or the Login; the datagrams that come after it never do.                 *)
LivesStartAtHandshake ==
    [][OneAtATime => \A p \in Peers : lives'[p] # lives[p] =>
          \E t \in Tasks : /\ Peer(t) = p
                           /\ task[t].pc \in {"request1", "connect"} \/ task[t].dropped]_vars

Advertised == pongs \cup {connections[p].pair : p \in {q \in Peers : Has(q)}}
Wide == {n \in Protocols : n >= 65536}

(* sync_client_version and its readers: one datagram at a time, protocol    *)
(* and version in a pong, and those of a session, agree, unless a peer has  *)
(* named a number that does not fit the 16 bits the protocol is kept in:    *)
(* then the version is the whole number's and the protocol what the cast    *)
(* leaves of it.  However the tasks interleave, only two overlapping calls  *)
(* leave the runtime pair torn when none is under way (the test             *)
(* test_sync_client_version_updates_runtime expects it whole).              *)
VersionPairsAgree ==
    /\ OneAtATime => \A pair \in Advertised : Agree(pair) \/ \E n \in Wide : pair = PairOf(n)
    /\ ~overlapped /\ Syncing = {} => Agree(runtime)

Captured(p) == \E i \in DOMAIN captures[p] : captures[p][i] = connections[p].life

(* However the tasks interleave, a session whose Login was captured is      *)
(* dropped in the end (remove_connection after the last sleep), with or     *)
(* without its client.                                                      *)
CapturedSessionEnds ==
    \A p \in Peers : Captured(p) ~> ~Captured(p)

(* However the tasks interleave, every call of handle_packet returns: no    *)
(* lock is kept, and the one of the split buffers is waited for with that   *)
(* of the table in hand, never the other way round.                         *)
CallsReturn == \A t \in Tasks : ~At(t, "idle") ~> At(t, "idle")
=============================================================================
