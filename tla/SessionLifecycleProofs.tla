------------------------ MODULE SessionLifecycleProofs ------------------------
(***************************************************************************)
(* Proofs about SessionLifecycle, for any peers and tasks.  What each step *)
(* does to the table, the calls and the logs comes first, once for each    *)
(* kind of step (the lemmas named ...Does); the invariants are shown from  *)
(* that, and not from the actions again.                                   *)
(***************************************************************************)
EXTENDS SessionLifecycle, SequenceTheorems, TLAPS

(* A call of handle_packet, and what is handed to it.                       *)
Calls == [pc : PC, peer : Peers, inbox : Seq(Frames), emit : Seq(Bodies), body : Bodies,
          compressed : BOOLEAN, todo : Seq(Packets), seen : Pairs, reply : Replies, next : PC,
          life : Nat, dropped : BOOLEAN]

(* In the middle of a packet, the batch still has it at its head.           *)
MidPacket == {"settings", "compress", "announce", "syncProtocol", "syncVersion", "save", "record",
              "bundle", "disconnect", "goodbye", "unmark", "remove"}
InPacket(t) == task[t].pc \in MidPacket \/ (At(t, "send") /\ task[t].next \in MidPacket)
LoggingIn(t) == task[t].pc \in {"syncProtocol", "syncVersion", "save"}
Clearing == {"count", "counted", "clear", "cleared"}
Sound(t) ==
    /\ InPacket(t) => task[t].todo # <<>>
    /\ task[t].pc \in {"frame", "split", "assemble"} => task[t].inbox # <<>>
    /\ LoggingIn(t) => task[t].life # 0
    /\ LoggingIn(t) \/ At(t, "record") => Current(t).protocol \in Protocols
    /\ task[t].pc \in Clearing => task[t].next \in {"payload", "packet"}
    /\ At(t, "send") =>
          /\ task[t].next \in {"payload", "packet", "disconnect", "goodbye", "unmark"}
          /\ task[t].next = "payload" =>
                task[t].reply \in {Reply("Accepted", "raw"), Reply("Pong", "raw")}
PacketInv == \A t \in Tasks : Sound(t)

TypeInv == TypeOK /\ PacketInv

(***************************************************************************)
(* Protocols in 16 bits and the versions of them                           *)
(***************************************************************************)

(* What is left of a number is itself left as it is, and below 65536.       *)
LEMMA CastDoes ==
    ASSUME NEW n \in Nat
    PROVE  /\ AsU16(n) \in Nat /\ AsU16(n) < 65536
           /\ n < 65536 => AsU16(n) = n
BY SMT DEF AsU16

(* An advertised pair is right, or that of a number too wide for it.        *)
Whole(pair) == Agree(pair) \/ \E n \in Wide : pair = PairOf(n)

(* The numbers there are fit, or a peer has named them.                     *)
LEMMA NumberTyped ==
    ASSUME NEW n \in Numbers
    PROVE  n \in Nat /\ AsU16(n) \in Numbers /\ (n < 65536 \/ n \in Wide)
<1>1. CASE n \in Protocols
  <2>1. n \in Nat
    BY <1>1, ConstantsAssumption
  <2>2. n < 65536 \/ n >= 65536
    BY <2>1
  <2> QED
    BY <1>1, <2>1, <2>2 DEF Numbers, Wide
<1>2. ASSUME NEW m \in Protocols, n = AsU16(m) PROVE n \in Nat /\ AsU16(n) \in Numbers /\ (n < 65536 \/ n \in Wide)
  <2>1. m \in Nat
    BY ConstantsAssumption
  <2>2. n \in Nat /\ n < 65536
    BY <1>2, <2>1, CastDoes
  <2>3. AsU16(n) = n
    BY <2>2, CastDoes
  <2> QED
    BY <2>2, <2>3
<1> QED
  BY <1>1, <1>2 DEF Numbers

(* PairOf makes a pair that is whole, and right when the number fits.       *)
LEMMA PairTyped ==
    ASSUME NEW n \in Numbers
    PROVE  PairOf(n) \in Pairs /\ Whole(PairOf(n)) /\ (n < 65536 => Agree(PairOf(n)))
<1>1. n \in Nat /\ AsU16(n) \in Numbers /\ (n < 65536 \/ n \in Wide)
  BY NumberTyped
<1>2. PairOf(n) \in Pairs
  BY <1>1 DEF PairOf, Pairs, Versions
<1>3. n < 65536 => Agree(PairOf(n))
  <2>1. n < 65536 => AsU16(n) = n
    BY <1>1, CastDoes
  <2> QED
    BY <2>1 DEF PairOf, Agree
<1> QED
  BY <1>1, <1>2, <1>3 DEF Whole

(* The runtime pair at the start.                                           *)
LEMMA ConfigTyped == PairOf(ConfigProtocol) \in Pairs /\ Agree(PairOf(ConfigProtocol))
<1>1. ConfigProtocol \in Numbers /\ ConfigProtocol < 65536
  BY ConstantsAssumption DEF Numbers
<1> QED
  BY <1>1, PairTyped

(***************************************************************************)
(* Calls                                                                   *)
(***************************************************************************)

(* A call that has not begun, or just has, is of its type.                  *)
LEMMA IdleTyped == Idle \in Calls /\ \A p \in Peers : Begun(p) \in Calls
<1>1. (CHOOSE p \in Peers : TRUE) \in Peers
  BY ConstantsAssumption
<1>2. ASSUME NEW p \in Peers PROVE Begun(p) \in Calls
  <2>1. NoBody \in Bodies
    BY EmptySeq DEF NoBody, Bodies
  <2>2. Reply("Pong", "raw") \in Replies /\ PairOf(ConfigProtocol) \in Pairs
    BY ConfigTyped DEF Reply, Replies
  <2>3. <<>> \in Seq(Frames) /\ <<>> \in Seq(Bodies) /\ <<>> \in Seq(Packets)
    BY EmptySeq
  <2>4. "idle" \in PC /\ "payload" \in PC
    BY DEF PC
  <2> QED
    BY <2>1, <2>2, <2>3, <2>4 DEF Begun, Calls
<1> QED
  BY <1>1, <1>2 DEF Idle

(* The initial state is of its types.                                       *)
LEMMA TypeInit == Init => TypeInv
<1> SUFFICES ASSUME Init PROVE TypeInv
  OBVIOUS
<1>1. task \in [Tasks -> Calls]
  BY IdleTyped DEF Init
<1>2. PacketInv
  BY DEF Init, PacketInv, Sound, InPacket, LoggingIn, At, Idle, Begun, MidPacket, Clearing
<1>3. /\ connections \in [Peers -> Sessions \cup {NoSession}] /\ lives \in [Peers -> Nat]
      /\ \A p \in Peers : connections[p].life \in {0, lives[p]}
  BY DEF Init, NoSession
<1>4. runtime \in Pairs
  BY ConfigTyped DEF Init
<1>5. arrivals \in 0 .. caller.arrivals /\ caller \in Callers
  BY CallersAssumption DEF Init
<1>6. frames \in [Peers -> Seq([reply : Replies, life : Nat \ {0}])] /\ captures \in [Peers -> Seq(Nat \ {0})]
  BY EmptySeq DEF Init
<1> QED
  BY <1>1, <1>2, <1>3, <1>4, <1>5, <1>6 DEF Init, TypeInv, TypeOK, Calls

(* A log that gets one more entry.                                          *)
Appended(f, p, e) == [f EXCEPT ![p] = Append(@, e)]

(* It keeps what it had and ends in the new entry.                          *)
LEMMA AppendAt ==
    ASSUME NEW S, NEW f \in [Peers -> Seq(S)], NEW p \in Peers, NEW e \in S,
           NEW g, g = Appended(f, p, e)
    PROVE  /\ g \in [Peers -> Seq(S)]
           /\ \A q \in Peers : q # p => g[q] = f[q]
           /\ Len(f[p]) \in Nat /\ DOMAIN f[p] = 1 .. Len(f[p]) /\ DOMAIN g[p] = 1 .. Len(f[p]) + 1
           /\ \A i \in DOMAIN f[p] : g[p][i] = f[p][i]
           /\ g[p][Len(f[p]) + 1] = e
<1>1. f[p] \in Seq(S)
  OBVIOUS
<1>2. /\ Append(f[p], e) \in Seq(S) /\ Len(Append(f[p], e)) = Len(f[p]) + 1
      /\ \A i \in 1 .. Len(f[p]) : Append(f[p], e)[i] = f[p][i]
      /\ Append(f[p], e)[Len(f[p]) + 1] = e
  BY <1>1, AppendProperties
<1>3. Len(f[p]) \in Nat /\ DOMAIN f[p] = 1 .. Len(f[p]) /\ DOMAIN Append(f[p], e) = 1 .. Len(f[p]) + 1
  BY <1>1, <1>2, LenProperties
<1>4. g[p] = Append(f[p], e) /\ g \in [Peers -> Seq(S)] /\ \A q \in Peers : q # p => g[q] = f[q]
  BY <1>2 DEF Appended
<1> QED
  BY <1>2, <1>3, <1>4

(* A call changes its own record only.                                      *)
OwnStep(t) == task' \in [Tasks -> Calls] /\ \A u \in Tasks : u # t => task'[u] = task[u]

(* What it is about is left, unless the call ends.                          *)
Stays(t) == /\ task'[t].peer = task[t].peer /\ task'[t].inbox = task[t].inbox
            /\ task'[t].dropped = task[t].dropped

(* A record put in its place is such a change.                              *)
LEMMA TaskPut ==
    ASSUME task \in [Tasks -> Calls], NEW t \in Tasks, NEW r \in Calls,
           task' = [task EXCEPT ![t] = r]
    PROVE  OwnStep(t) /\ task'[t] = r
BY DEF OwnStep

(* Goto leaves everything of the call but its place.                        *)
LEMMA GotoDoes ==
    ASSUME task \in [Tasks -> Calls], NEW t \in Tasks, NEW l \in PC, Goto(t, l)
    PROVE  /\ OwnStep(t) /\ Stays(t)
           /\ task'[t].pc = l /\ task'[t].todo = task[t].todo
           /\ task'[t].seen = task[t].seen /\ task'[t].reply = task[t].reply
           /\ task'[t].next = task[t].next /\ task'[t].life = task[t].life
<1> DEFINE r == [task[t] EXCEPT !.pc = l]
<1>1. task[t] \in Calls /\ task' = [task EXCEPT ![t] = r]
  BY DEF Goto
<1>2. /\ r \in Calls
      /\ r.pc = l /\ r.peer = task[t].peer /\ r.inbox = task[t].inbox
      /\ r.dropped = task[t].dropped /\ r.todo = task[t].todo /\ r.seen = task[t].seen
      /\ r.reply = task[t].reply /\ r.next = task[t].next /\ r.life = task[t].life
  BY <1>1 DEF Calls
<1> HIDE DEF r
<1>3. OwnStep(t) /\ task'[t] = r
  BY <1>1, <1>2, TaskPut
<1> QED
  BY <1>2, <1>3 DEF Stays

(* SendThen also sets what is sent and what comes after.                    *)
LEMMA SendThenDoes ==
    ASSUME task \in [Tasks -> Calls], NEW t \in Tasks, NEW reply \in Replies, NEW l \in PC, SendThen(t, reply, l)
    PROVE  /\ OwnStep(t) /\ Stays(t)
           /\ task'[t].pc = "send" /\ task'[t].todo = task[t].todo
           /\ task'[t].seen = task[t].seen /\ task'[t].reply = reply /\ task'[t].next = l
           /\ task'[t].life = task[t].life
<1> DEFINE r == [task[t] EXCEPT !.pc = "send", !.reply = reply, !.next = l]
<1>1. task[t] \in Calls /\ task' = [task EXCEPT ![t] = r]
  BY DEF SendThen
<1>2. /\ r \in Calls
      /\ r.pc = "send" /\ r.peer = task[t].peer /\ r.inbox = task[t].inbox
      /\ r.dropped = task[t].dropped /\ r.todo = task[t].todo /\ r.seen = task[t].seen
      /\ r.reply = reply /\ r.next = l /\ r.life = task[t].life
  <2>1. "send" \in PC
    BY DEF PC
  <2> QED
    BY <1>1, <2>1 DEF Calls
<1> HIDE DEF r
<1>3. OwnStep(t) /\ task'[t] = r
  BY <1>1, <1>2, TaskPut
<1> QED
  BY <1>2, <1>3 DEF Stays

(* NextPacket drops the packet that was handled.                            *)
LEMMA NextPacketDoes ==
    ASSUME task \in [Tasks -> Calls], NEW t \in Tasks, task[t].todo # <<>>, NextPacket(t)
    PROVE  OwnStep(t) /\ Stays(t) /\ task'[t].pc = "packet"
<1> DEFINE r == [task[t] EXCEPT !.pc = "packet", !.todo = Tail(@)]
<1>1. task[t] \in Calls /\ task' = [task EXCEPT ![t] = r]
  BY DEF NextPacket
<1>2. /\ r \in Calls /\ r.pc = "packet" /\ r.peer = task[t].peer /\ r.inbox = task[t].inbox
      /\ r.dropped = task[t].dropped
  BY <1>1, HeadTailProperties DEF Calls, PC
<1> HIDE DEF r
<1>3. OwnStep(t) /\ task'[t] = r
  BY <1>1, <1>2, TaskPut
<1> QED
  BY <1>2, <1>3 DEF Stays

(* Emit turns to what the frame at the head has released.                   *)
LEMMA EmitDoes ==
    ASSUME task \in [Tasks -> Calls], NEW t \in Tasks, task[t].inbox # <<>>, Emit(t)
    PROVE  /\ OwnStep(t) /\ task'[t].pc = "payload"
           /\ task'[t].peer = task[t].peer /\ task'[t].dropped = task[t].dropped
<1> DEFINE r == [task[t] EXCEPT !.pc = "payload", !.emit = Head(task[t].inbox).emits, !.inbox = Tail(@)]
<1>1. task[t] \in Calls /\ task' = [task EXCEPT ![t] = r]
  BY DEF Emit
<1>2. Head(task[t].inbox) \in Frames /\ Tail(task[t].inbox) \in Seq(Frames)
  BY <1>1, HeadTailProperties DEF Calls
<1>3. Head(task[t].inbox).emits \in Seq(Bodies)
  BY <1>2 DEF Frames
<1>4. /\ r \in Calls /\ r.pc = "payload" /\ r.peer = task[t].peer
      /\ r.dropped = task[t].dropped
  BY <1>1, <1>2, <1>3 DEF Calls, PC
<1> HIDE DEF r
<1>5. OwnStep(t) /\ task'[t] = r
  BY <1>1, <1>4, TaskPut
<1> QED
  BY <1>4, <1>5

(* Finish forgets the call.                                                 *)
LEMMA FinishDoes ==
    ASSUME task \in [Tasks -> Calls], NEW t \in Tasks, Finish(t)
    PROVE  OwnStep(t) /\ task'[t] = Idle /\ task'[t].pc = "idle"
<1>1. OwnStep(t) /\ task'[t] = Idle
  BY TaskPut, IdleTyped DEF Finish
<1> QED
  BY <1>1 DEF Idle, Begun

(***************************************************************************)
(* Types                                                                   *)
(***************************************************************************)
TableTyped ==
    /\ connections \in [Peers -> Sessions \cup {NoSession}] /\ lives \in [Peers -> Nat]
    /\ \A p \in Peers : connections[p].life \in {0, lives[p]}
LocksTyped ==
    /\ lock \in Tasks \cup {NoTask} /\ splitLock \in Tasks \cup {NoTask}
    /\ lock # NoTask => task[lock].pc \in LockKept
    /\ splitLock # NoTask => task[splitLock].pc \in SplitsKept
RuntimeTyped == caller \in Callers /\ runtime \in Pairs /\ overlapped \in BOOLEAN /\ arrivals \in 0 .. caller.arrivals
LogsTyped ==
    /\ frames \in [Peers -> Seq([reply : Replies, life : Nat \ {0}])] /\ pongs \subseteq Pairs
    /\ captures \in [Peers -> Seq(Nat \ {0})]
TaskTyped == task \in [Tasks -> Calls] /\ PacketInv

(* Together they are the type invariant.                                    *)
LEMMA TypeParts ==
    TypeInv <=> TableTyped /\ LocksTyped /\ RuntimeTyped /\ LogsTyped /\ TaskTyped
BY DEF TypeInv, TypeOK, Calls, TableTyped, LocksTyped, RuntimeTyped, LogsTyped, TaskTyped

(* The call, what is known of it, and the runtime pair.                     *)
LEMMA CallTyped ==
    ASSUME TypeInv, NEW t \in Tasks
    PROVE  /\ task \in [Tasks -> Calls] /\ task[t] \in Calls /\ Sound(t)
           /\ runtime \in Pairs /\ runtime.protocol \in Numbers /\ runtime.version \in Versions
BY TypeParts DEF TaskTyped, PacketInv, RuntimeTyped, Pairs

(* The packets of a batch: a Login has named its protocol.                  *)
LEMMA CurrentTyped ==
    ASSUME TypeInv, NEW t \in Tasks, task[t].todo # <<>>
    PROVE  /\ Current(t).protocol \in Protocols \cup {Unread}
           /\ Current(t).kind \in {"Login", "OddSkinLogin"} => Current(t).protocol \in Protocols
<1>1. task[t].todo \in Seq(Packets)
  BY CallTyped DEF Calls
<1>2. Current(t) \in Packets
  BY <1>1, HeadTailProperties DEF Current
<1> QED
  BY <1>2 DEF Packets

(* What a peer has named is a number, in 16 bits too, and has a version.    *)
LEMMA NamedTyped ==
    ASSUME NEW n \in Protocols
    PROVE  n \in Numbers /\ AsU16(n) \in Numbers /\ Resolve(AsU16(n)) \in Versions
BY DEF Numbers, Versions

(* The call and the session of its peer, if it has one.                     *)
LEMMA SessionTyped ==
    ASSUME TypeInv, NEW t \in Tasks
    PROVE  /\ Peer(t) \in Peers /\ task[t] \in Calls
           /\ ~Has(Peer(t)) => Session(t) = NoSession
           /\ Has(Peer(t)) => /\ Session(t) \in Sessions /\ Session(t).life = lives[Peer(t)]
                              /\ Session(t).life \in Nat \ {0} /\ Session(t).pair \in Pairs
                              /\ Session(t).compressed \in BOOLEAN
<1>1. task[t] \in Calls
  BY CallTyped
<1>2. Peer(t) \in Peers
  BY <1>1 DEF Calls, Peer
<1> QED
  BY <1>1, <1>2, TypeParts DEF TableTyped, Has, Session, Sessions

(* A lock a step leaves with its call, it leaves where the code has its     *)
(* guard; but for the making of a session, not where one is made.           *)
LocksFit(t) ==
    /\ lock' \in {lock, t, NoTask} /\ (lock' = t => task'[t].pc \in LockKept \ Ensuring)
    /\ splitLock' \in {splitLock, t, NoTask} /\ (splitLock' = t => task'[t].pc \in SplitsKept)

(* A call has a lock only where the code has its guard.                     *)
LEMMA LockHeld ==
    ASSUME TypeInv, NEW t \in Tasks
    PROVE  /\ t # NoTask
           /\ lock = t => task[t].pc \in LockKept
           /\ splitLock = t => task[t].pc \in SplitsKept
BY TypeParts, ConstantsAssumption DEF LocksTyped

(* A step from elsewhere that leaves the locks.                             *)
LEMMA LocksLeft ==
    ASSUME TypeInv, NEW t \in Tasks, task[t].pc \notin LockKept \cup SplitsKept, UNCHANGED locks
    PROVE  LocksFit(t)
BY LockHeld DEF LocksFit, locks

(* The steps of a call that touch nothing but the call.                     *)
Quiet(t) == \/ PingProtocol(t) \/ PingVersion(t) \/ CheckActive(t) \/ PruneQueues(t)
            \/ NextPayload(t) \/ NextFrame(t) \/ Echo(t) \/ ReadFlag(t)
            \/ Decode(t) \/ BatchDone(t) \/ ProcessPacket(t) \/ ReadNumber(t) \/ Announce(t) \/ SaveFails(t)
            \/ Bundle(t) \/ Disconnect(t) \/ Goodbye(t)

From(t, a, b) == task[t].pc = a /\ task'[t].pc = b
Sends(t, a, reply, next) == From(t, a, "send") /\ task'[t].reply = reply /\ task'[t].next = next

(* A reply has the parts it is made from.                                   *)
LEMMA ReplyTyped ==
    ASSUME NEW m \in {"Accepted", "Pong", "NetworkSettings", "Bundle", "Disconnect", "Goodbye"},
           NEW e \in {"raw", "deflate"}
    PROVE  Reply(m, e) \in Replies /\ Reply(m, e).msg = m /\ Reply(m, e).enc = e
BY DEF Reply, Replies

(* What the quiet steps read, where they lead and what they send.           *)
LEMMA QuietDoes ==
    ASSUME TypeInv, NEW t \in Tasks, Quiet(t)
    PROVE  /\ OwnStep(t) /\ UNCHANGED taskOnly
           /\ \/ task'[t].pc = "idle" /\ task[t].pc \in {"active", "payload"}
              \/ /\ Stays(t)
                 /\ \/ /\ task'[t].todo = task[t].todo
                       /\ \/ From(t, "ping", "pingVersion") /\ task'[t].seen.protocol = runtime.protocol
                          \/ /\ From(t, "pingVersion", "pong")
                             /\ task'[t].seen = [protocol |-> task[t].seen.protocol, version |-> runtime.version]
                          \/ From(t, "active", "prune") /\ Has(Peer(t))
                          \/ From(t, "queues", "open")
                          \/ /\ task[t].pc = "payload"
                             /\ task'[t].pc \in {"accept", "confirm", "drop", "echo", "readFlag"}
                          \/ From(t, "payload", "frame") /\ task[t].inbox # <<>>
                          \/ Sends(t, "echo", Reply("Pong", "raw"), "payload")
                          \/ From(t, "readFlag", "decode")
                          \/ /\ Has(Peer(t)) /\ task[t].todo # <<>>
                             /\ \/ From(t, "packet", "settings")
                                \/ /\ From(t, "packet", "syncProtocol") /\ task'[t].life = Session(t).life
                                   /\ Current(t).protocol \in Protocols
                          \/ From(t, "settings", "compress")
                          \/ \E e \in {"raw", "deflate"} :
                                /\ e = "deflate" => Has(Peer(t)) /\ Session(t).compressed
                                /\ \/ Sends(t, "bundle", Reply("Bundle", e), "disconnect")
                                   \/ Sends(t, "disconnect", Reply("Disconnect", e), "goodbye")
                          \/ Sends(t, "goodbye", Reply("Goodbye", "raw"), "unmark")
                    \/ From(t, "decode", "packet") \/ From(t, "packet", "packet") \/ From(t, "save", "packet")
                    \/ From(t, "decode", "payload") \/ From(t, "packet", "payload")
                    \/ Sends(t, "announce", Reply("NetworkSettings", "raw"), "packet")
<1> USE DEF From, Sends, At, Peer
<1>0. task \in [Tasks -> Calls] /\ task[t] \in Calls
  BY CallTyped
<1>a. InPacket(t) => task[t].todo # <<>>
  BY CallTyped DEF Sound
<1>b. runtime \in Pairs /\ runtime.protocol \in Numbers /\ runtime.version \in Versions
  BY CallTyped
<1>p. /\ "payload" \in PC /\ "prune" \in PC /\ "open" \in PC /\ "frame" \in PC /\ "settings" \in PC
      /\ "disconnect" \in PC /\ "goodbye" \in PC /\ "unmark" \in PC /\ "pingVersion" \in PC
      /\ "pong" \in PC /\ "decode" \in PC /\ "packet" \in PC /\ "syncProtocol" \in PC
      /\ "compress" \in PC /\ "send" \in PC
  BY DEF PC
<1>1. CASE PingProtocol(t)
  <2> DEFINE r == [task[t] EXCEPT !.pc = "pingVersion", !.seen.protocol = runtime.protocol]
  <2>1. task' = [task EXCEPT ![t] = r]
    BY <1>1 DEF PingProtocol
  <2>2. r \in Calls /\ r.pc = "pingVersion" /\ r.peer = task[t].peer /\ r.inbox = task[t].inbox
        /\ r.dropped = task[t].dropped /\ r.todo = task[t].todo /\ r.seen.protocol = runtime.protocol
    BY <1>0, <1>b, <1>p DEF Calls, Pairs
  <2> HIDE DEF r
  <2>3. OwnStep(t) /\ task'[t] = r
    BY <1>0, <2>1, <2>2, TaskPut
  <2> QED
    BY <1>1, <2>2, <2>3 DEF PingProtocol, Stays
<1>2. CASE PingVersion(t)
  <2> DEFINE r == [task[t] EXCEPT !.pc = "pong", !.seen.version = runtime.version]
  <2>1. task' = [task EXCEPT ![t] = r]
    BY <1>2 DEF PingVersion
  <2>2. r \in Calls /\ r.pc = "pong" /\ r.peer = task[t].peer /\ r.inbox = task[t].inbox
        /\ r.dropped = task[t].dropped /\ r.todo = task[t].todo
        /\ r.seen = [protocol |-> task[t].seen.protocol, version |-> runtime.version]
    BY <1>0, <1>b, <1>p DEF Calls, Pairs
  <2> HIDE DEF r
  <2>3. OwnStep(t) /\ task'[t] = r
    BY <1>0, <2>1, <2>2, TaskPut
  <2> QED
    BY <1>2, <2>2, <2>3 DEF PingVersion, Stays
<1>3. CASE CheckActive(t)
  <2>1. CASE IsActive(t)
    <3>1. Goto(t, "prune") /\ Has(Peer(t))
      BY <1>3, <2>1 DEF CheckActive, IsActive
    <3> QED
      BY <1>0, <1>p, <1>3, <3>1, GotoDoes DEF CheckActive
  <2>2. CASE ~IsActive(t)
    BY <1>0, <1>3, <2>2, FinishDoes DEF CheckActive
  <2> QED
    BY <2>1, <2>2
<1>14. CASE PruneQueues(t)
  BY <1>0, <1>p, <1>14, GotoDoes DEF PruneQueues
<1>15. CASE NextPayload(t)
  <2> DEFINE body == Head(task[t].emit)
             r == [task[t] EXCEPT !.pc = Handler[body.kind], !.body = body, !.emit = Tail(@)]
  <2>1. task' = [task EXCEPT ![t] = r]
    BY <1>15 DEF NextPayload
  <2>2. body \in Bodies /\ Tail(task[t].emit) \in Seq(Bodies)
    BY <1>0, <1>15, HeadTailProperties DEF NextPayload, Calls
  <2>3. Handler[body.kind] \in {"accept", "confirm", "drop", "echo", "readFlag"}
    BY <2>2 DEF Bodies, Handler
  <2>4. Handler[body.kind] \in PC
    BY <2>3 DEF PC
  <2> HIDE DEF body
  <2>5. r \in Calls /\ r.pc = Handler[body.kind] /\ r.peer = task[t].peer /\ r.inbox = task[t].inbox
        /\ r.dropped = task[t].dropped /\ r.todo = task[t].todo
    BY <1>0, <2>2, <2>4 DEF Calls
  <2> HIDE DEF r
  <2>6. OwnStep(t) /\ task'[t] = r
    BY <1>0, <2>1, <2>5, TaskPut
  <2> QED
    BY <1>15, <2>3, <2>5, <2>6 DEF NextPayload, Stays
<1>16. CASE NextFrame(t)
  <2>1. CASE task[t].inbox # <<>>
    BY <1>0, <1>p, <1>16, <2>1, GotoDoes DEF NextFrame
  <2>2. CASE task[t].inbox = <<>>
    BY <1>0, <1>16, <2>2, FinishDoes DEF NextFrame
  <2> QED
    BY <2>1, <2>2
<1>4. CASE Echo(t)
  <2>1. SendThen(t, Reply("Pong", "raw"), "payload") /\ Reply("Pong", "raw") \in Replies
    BY <1>4, ReplyTyped DEF Echo
  <2> QED
    BY <1>0, <1>p, <1>4, <2>1, SendThenDoes DEF Echo
<1>5. CASE ReadFlag(t)
  <2> DEFINE r == [task[t] EXCEPT !.pc = "decode", !.compressed = CompressionOf(t)]
  <2>1. task' = [task EXCEPT ![t] = r]
    BY <1>5 DEF ReadFlag
  <2>0. CompressionOf(t) \in BOOLEAN
    BY SessionTyped DEF CompressionOf
  <2>2. r \in Calls /\ r.pc = "decode" /\ r.peer = task[t].peer /\ r.inbox = task[t].inbox
        /\ r.dropped = task[t].dropped /\ r.todo = task[t].todo
    BY <1>0, <1>p, <2>0 DEF Calls
  <2> HIDE DEF r
  <2>3. OwnStep(t) /\ task'[t] = r
    BY <1>0, <2>1, <2>2, TaskPut
  <2> QED
    BY <1>5, <2>2, <2>3 DEF ReadFlag, Stays
<1>6. CASE Decode(t)
  <2>1. CASE Decodes(t)
    <3> DEFINE r == [task[t] EXCEPT !.pc = "packet", !.todo = task[t].body.pkts]
    <3>1. task' = [task EXCEPT ![t] = r]
      BY <1>6, <2>1 DEF Decode
    <3>2. r \in Calls /\ r.pc = "packet" /\ r.peer = task[t].peer /\ r.inbox = task[t].inbox
          /\ r.dropped = task[t].dropped
      BY <1>0, <1>p DEF Calls, Bodies
    <3> HIDE DEF r
    <3>3. OwnStep(t) /\ task'[t] = r
      BY <1>0, <3>1, <3>2, TaskPut
    <3> QED
      BY <1>6, <3>2, <3>3 DEF Decode, Stays
  <2>2. CASE ~Decodes(t)
    BY <1>0, <1>p, <1>6, <2>2, GotoDoes DEF Decode
  <2> QED
    BY <2>1, <2>2
<1>7. CASE BatchDone(t)
  BY <1>0, <1>p, <1>7, GotoDoes DEF BatchDone
<1>8. CASE ProcessPacket(t)
  <2>1. CASE NextPacket(t)
    BY <1>0, <1>8, <2>1, NextPacketDoes DEF ProcessPacket
  <2>2. CASE Has(Peer(t)) /\ Goto(t, "settings")
    BY <1>0, <1>p, <1>8, <2>2, GotoDoes DEF ProcessPacket
  <2>3. CASE /\ Has(Peer(t)) /\ Current(t).kind \in {"Login", "OddSkinLogin"}
             /\ task' = [task EXCEPT ![t].pc = "syncProtocol", ![t].life = Session(t).life]
    <3> DEFINE r == [task[t] EXCEPT !.pc = "syncProtocol", !.life = Session(t).life]
    <3>1. task' = [task EXCEPT ![t] = r]
      BY <2>3
    <3>0. Session(t).life \in Nat
      BY <2>3, SessionTyped
    <3>2. r \in Calls /\ r.pc = "syncProtocol" /\ r.peer = task[t].peer /\ r.inbox = task[t].inbox
          /\ r.dropped = task[t].dropped /\ r.todo = task[t].todo /\ r.life = Session(t).life
      BY <1>0, <1>p, <3>0 DEF Calls
    <3> HIDE DEF r
    <3>3. OwnStep(t) /\ task'[t] = r
      BY <1>0, <3>1, <3>2, TaskPut
    <3>4. Current(t).protocol \in Protocols /\ task[t].todo # <<>>
      BY <1>8, <2>3, CurrentTyped DEF ProcessPacket
    <3> QED
      BY <1>8, <2>3, <3>2, <3>3, <3>4 DEF ProcessPacket, Stays
  <2> QED
    BY <1>8, <2>1, <2>2, <2>3 DEF ProcessPacket
<1>17. CASE ReadNumber(t)
  <2> DEFINE r == [task[t] EXCEPT !.pc = "compress", !.seen.protocol = NumberOf(t)]
  <2>1. task' = [task EXCEPT ![t] = r]
    BY <1>17 DEF ReadNumber
  <2>0. NumberOf(t) \in Numbers
    BY <1>17, <1>a, <1>b, CurrentTyped, NamedTyped DEF ReadNumber, NumberOf, InPacket, MidPacket
  <2>2. r \in Calls /\ r.pc = "compress" /\ r.peer = task[t].peer /\ r.inbox = task[t].inbox
        /\ r.dropped = task[t].dropped /\ r.todo = task[t].todo
    BY <1>0, <1>p, <2>0 DEF Calls, Pairs
  <2> HIDE DEF r
  <2>3. OwnStep(t) /\ task'[t] = r
    BY <1>0, <2>1, <2>2, TaskPut
  <2> QED
    BY <1>17, <2>2, <2>3 DEF ReadNumber, Stays
<1>9. CASE Announce(t)
  <2> DEFINE r == [task[t] EXCEPT !.pc = "send", !.next = "packet", !.todo = Tail(@),
                                  !.reply = Reply("NetworkSettings", "raw")]
  <2>1. task' = [task EXCEPT ![t] = r]
    BY <1>9 DEF Announce, SettingsEncoding
  <2>0. task[t].todo # <<>> /\ task[t].todo \in Seq(Packets) /\ Tail(task[t].todo) \in Seq(Packets)
    BY <1>0, <1>9, <1>a, HeadTailProperties DEF Announce, InPacket, MidPacket, Calls
  <2>2. r \in Calls /\ r.pc = "send" /\ r.peer = task[t].peer /\ r.inbox = task[t].inbox
        /\ r.dropped = task[t].dropped /\ r.next = "packet" /\ r.reply = Reply("NetworkSettings", "raw")
    BY <1>0, <1>p, <2>0, ReplyTyped DEF Calls
  <2> HIDE DEF r
  <2>3. OwnStep(t) /\ task'[t] = r
    BY <1>0, <2>1, <2>2, TaskPut
  <2> QED
    BY <1>9, <2>2, <2>3 DEF Announce, Stays
<1>10. CASE SaveFails(t)
  <2>1. task[t].todo # <<>>
    BY <1>10, <1>a DEF SaveFails, InPacket, MidPacket
  <2> QED
    BY <1>0, <1>10, <2>1, NextPacketDoes DEF SaveFails
<1>11. CASE Bundle(t)
  <2> DEFINE e == EncodingOf(t)
  <2>1. e \in {"raw", "deflate"} /\ (e = "deflate" => Has(Peer(t)) /\ Session(t).compressed)
    BY DEF EncodingOf, CompressionOf
  <2>2. SendThen(t, Reply("Bundle", e), "disconnect") /\ Reply("Bundle", e) \in Replies
    BY <1>11, <2>1, ReplyTyped DEF Bundle
  <2> HIDE DEF e
  <2> QED
    BY <1>0, <1>p, <1>11, <2>1, <2>2, SendThenDoes DEF Bundle
<1>12. CASE Disconnect(t)
  <2> DEFINE e == EncodingOf(t)
  <2>1. e \in {"raw", "deflate"} /\ (e = "deflate" => Has(Peer(t)) /\ Session(t).compressed)
    BY DEF EncodingOf, CompressionOf
  <2>2. SendThen(t, Reply("Disconnect", e), "goodbye") /\ Reply("Disconnect", e) \in Replies
    BY <1>12, <2>1, ReplyTyped DEF Disconnect
  <2> HIDE DEF e
  <2> QED
    BY <1>0, <1>p, <1>12, <2>1, <2>2, SendThenDoes DEF Disconnect
<1>13. CASE Goodbye(t)
  <2>1. SendThen(t, Reply("Goodbye", "raw"), "unmark") /\ Reply("Goodbye", "raw") \in Replies
    BY <1>13, ReplyTyped DEF Goodbye
  <2> QED
    BY <1>0, <1>p, <1>13, <2>1, SendThenDoes DEF Goodbye
<1> QED
  BY <1>1, <1>2, <1>3, <1>4, <1>5, <1>6, <1>7, <1>8, <1>9, <1>10, <1>11, <1>12, <1>13, <1>14, <1>15,
     <1>16, <1>17 DEF Quiet

(* The quiet steps have no lock in hand.                                    *)
LEMMA QuietUnlocks ==
    ASSUME TypeInv, NEW t \in Tasks, Quiet(t)
    PROVE  LocksFit(t)
<1>1. task[t].pc \notin LockKept \cup SplitsKept
  BY DEF Quiet, PingProtocol, PingVersion, CheckActive, PruneQueues, NextPayload, NextFrame, Echo,
         ReadFlag, Decode, BatchDone, ProcessPacket, ReadNumber, Announce, SaveFails, Bundle,
         Disconnect, Goodbye, At, LockKept, SplitsKept, Ensuring
<1> QED
  BY <1>1, QuietDoes, LocksLeft DEF taskOnly, tableOnly

(* The steps that change a session there is, and leave its life as it is.   *)
Marking(t) == Open(t) \/ Accept(t) \/ Confirm(t) \/ SetCompression(t) \/ Record(t) \/ Unmark(t)

(* The sessions of the other peers stay as they are.                        *)
Elsewhere(t) == \A p \in Peers : p # Peer(t) => connections'[p] = connections[p]

(* UpdateIfThere changes one session, or none.                              *)
LEMMA UpdateDoes ==
    ASSUME TypeInv, NEW t \in Tasks, NEW s,
           connections' = [connections EXCEPT ![Peer(t)] = IF Has(Peer(t)) THEN s ELSE @],
           Has(Peer(t)) => s \in Sessions
    PROVE  /\ connections' \in [Peers -> Sessions \cup {NoSession}] /\ Elsewhere(t)
           /\ ~Has(Peer(t)) => connections'[Peer(t)] = NoSession
           /\ Has(Peer(t)) => connections'[Peer(t)] = s
BY SessionTyped, TypeParts DEF TableTyped, Elsewhere, Has

(* The session keeps its life; only SetCompression changes the flag.        *)
LEMMA MarkingDoes ==
    ASSUME TypeInv, NEW t \in Tasks, Marking(t)
    PROVE  /\ OwnStep(t) /\ LocksFit(t) /\ Stays(t) /\ task'[t].todo = task[t].todo
           /\ UNCHANGED <<caller, lives, runtime, frames, pongs, captures, arrivals, overlapped>>
           /\ connections' \in [Peers -> Sessions \cup {NoSession}] /\ Elsewhere(t)
           /\ ~Has(Peer(t)) => connections'[Peer(t)] = NoSession
           /\ Has(Peer(t)) =>
                 /\ connections'[Peer(t)] \in Sessions
                 /\ connections'[Peer(t)].life = Session(t).life
                 /\ connections'[Peer(t)].compressed = Session(t).compressed \/ task[t].pc = "compress"
                 /\ connections'[Peer(t)].pair = Session(t).pair \/ Whole(connections'[Peer(t)].pair)
           /\ \/ From(t, "open", "payload") /\ Has(Peer(t))
              \/ Sends(t, "accept", Reply("Accepted", "raw"), "payload") /\ Has(Peer(t))
              \/ From(t, "confirm", "payload")
              \/ From(t, "compress", "announce")
              \/ From(t, "record", "bundle") \/ From(t, "unmark", "remove")
<1> USE DEF From, Sends, At, Peer
<1>0. task \in [Tasks -> Calls] /\ task[t] \in Calls
  BY CallTyped
<1>a. InPacket(t) => task[t].todo # <<>>
  BY CallTyped DEF Sound
<1>p. "payload" \in PC /\ "announce" \in PC /\ "bundle" \in PC /\ "remove" \in PC
  BY DEF PC
<1> DEFINE s == Session(t)
           opened == [s EXCEPT !.connected = TRUE]
<1>b. Has(Peer(t)) => /\ opened \in Sessions /\ opened.life = s.life
                      /\ opened.compressed = s.compressed /\ opened.pair = s.pair
  <2>1. SUFFICES ASSUME Has(Peer(t)) PROVE /\ opened \in Sessions /\ opened.life = s.life
                      /\ opened.compressed = s.compressed /\ opened.pair = s.pair
    OBVIOUS
  <2>2. s \in Sessions
    BY <2>1, SessionTyped
  <2> HIDE DEF s
  <2> QED
    BY <2>2 DEF Sessions
<1>1. CASE Open(t)
  <2>1. Has(Peer(t)) /\ At(t, "open") /\ lock' = NoTask /\ splitLock' = splitLock
    BY <1>1 DEF Open, Ensured, Release
  <2>2. connections' = [connections EXCEPT ![Peer(t)] = IF Has(Peer(t)) THEN opened ELSE @]
    BY <1>1, <2>1 DEF Open, Session
  <2>4. OwnStep(t) /\ Stays(t) /\ task'[t].pc = "payload" /\ task'[t].todo = task[t].todo
    BY <1>0, <1>p, <1>1, GotoDoes DEF Open
  <2>3. LocksFit(t)
    BY <2>1, LockHeld DEF LocksFit, SplitsKept
  <2> HIDE DEF opened, s
  <2>5. /\ connections' \in [Peers -> Sessions \cup {NoSession}] /\ Elsewhere(t)
        /\ connections'[Peer(t)] = opened
    BY <1>b, <2>1, <2>2, UpdateDoes
  <2>6. UNCHANGED <<caller, lives, runtime, frames, pongs, captures, arrivals, overlapped>>
    BY <1>1 DEF Open, history
  <2> QED
    BY <1>b, <2>1, <2>3, <2>4, <2>5, <2>6 DEF s
<1>2. CASE Accept(t)
  <2>1. Has(Peer(t)) /\ At(t, "accept") /\ lock' = NoTask /\ splitLock' = splitLock
    BY <1>2 DEF Accept, Ensured, Release
  <2>2. connections' = [connections EXCEPT ![Peer(t)] = IF Has(Peer(t)) THEN opened ELSE @]
    BY <1>2, <2>1 DEF Accept, Session
  <2>4. /\ OwnStep(t) /\ Stays(t) /\ task'[t].pc = "send"
        /\ task'[t].reply = Reply("Accepted", "raw") /\ task'[t].next = "payload" /\ task'[t].todo = task[t].todo
    <3>1. SendThen(t, Reply("Accepted", "raw"), "payload") /\ Reply("Accepted", "raw") \in Replies
      BY <1>2, ReplyTyped DEF Accept
    <3> QED
      BY <1>0, <1>p, <3>1, SendThenDoes
  <2>3. LocksFit(t)
    BY <2>1, LockHeld DEF LocksFit, SplitsKept
  <2> HIDE DEF opened, s
  <2>5. /\ connections' \in [Peers -> Sessions \cup {NoSession}] /\ Elsewhere(t)
        /\ connections'[Peer(t)] = opened
    BY <1>b, <2>1, <2>2, UpdateDoes
  <2>6. UNCHANGED <<caller, lives, runtime, frames, pongs, captures, arrivals, overlapped>>
    BY <1>2 DEF Accept, history
  <2> QED
    BY <1>b, <2>1, <2>3, <2>4, <2>5, <2>6 DEF s
<1>3. CASE Confirm(t)
  <2>1. At(t, "confirm") /\ UNCHANGED locks
    BY <1>3 DEF Confirm, tableOnly
  <2>2. connections' = [connections EXCEPT ![Peer(t)] = IF Has(Peer(t)) THEN opened ELSE @]
    BY <1>3 DEF Confirm, UpdateIfThere
  <2>3. LocksFit(t)
    BY <2>1, LocksLeft DEF LockKept, SplitsKept, Ensuring
  <2>4. OwnStep(t) /\ Stays(t) /\ task'[t].pc = "payload" /\ task'[t].todo = task[t].todo
    BY <1>0, <1>p, <1>3, GotoDoes DEF Confirm
  <2> HIDE DEF opened, s
  <2>5. /\ connections' \in [Peers -> Sessions \cup {NoSession}] /\ Elsewhere(t)
        /\ ~Has(Peer(t)) => connections'[Peer(t)] = NoSession
        /\ Has(Peer(t)) => connections'[Peer(t)] = opened
    BY <1>b, <2>2, UpdateDoes
  <2>6. UNCHANGED <<caller, lives, runtime, frames, pongs, captures, arrivals, overlapped>>
    BY <1>3 DEF Confirm, tableOnly, history
  <2> QED
    BY <1>b, <2>1, <2>3, <2>4, <2>5, <2>6 DEF s
<1>4. CASE SetCompression(t)
  <2> DEFINE pair == PairOf(task[t].seen.protocol)
             new == [s EXCEPT !.pair = pair, !.compressed = TRUE]
  <2>1. At(t, "compress") /\ UNCHANGED locks
    BY <1>4 DEF SetCompression, tableOnly
  <2>c. pair \in Pairs /\ Whole(pair)
    BY <1>0, PairTyped DEF Calls, Pairs
  <2>7. LocksFit(t)
    BY <2>1, LocksLeft DEF LockKept, SplitsKept, Ensuring
  <2>2. OwnStep(t) /\ Stays(t) /\ task'[t].pc = "announce" /\ task'[t].todo = task[t].todo
    BY <1>0, <1>p, <1>4, GotoDoes DEF SetCompression
  <2>3. connections' = [connections EXCEPT ![Peer(t)] = IF Has(Peer(t)) THEN new ELSE @]
    BY <1>4 DEF SetCompression, UpdateIfThere
  <2> HIDE DEF pair
  <2>4. Has(Peer(t)) => new \in Sessions /\ new.life = s.life /\ Whole(new.pair)
    <3>1. SUFFICES ASSUME Has(Peer(t)) PROVE new \in Sessions /\ new.life = s.life /\ new.pair = pair
      BY <2>c
    <3>2. s \in Sessions
      BY <3>1, SessionTyped
    <3> HIDE DEF s
    <3> QED
      BY <3>2, <2>c DEF Sessions
  <2> HIDE DEF new, s
  <2>5. /\ connections' \in [Peers -> Sessions \cup {NoSession}] /\ Elsewhere(t)
        /\ ~Has(Peer(t)) => connections'[Peer(t)] = NoSession
        /\ Has(Peer(t)) => connections'[Peer(t)] = new
    BY <2>4, <2>3, UpdateDoes
  <2>6. UNCHANGED <<caller, lives, runtime, frames, pongs, captures, arrivals, overlapped>>
    BY <1>4 DEF SetCompression, tableOnly, history
  <2> QED
    BY <2>1, <2>2, <2>4, <2>5, <2>6, <2>7 DEF s
<1>5. CASE Record(t)
  <2> DEFINE pair == PairOf(Current(t).protocol)
             new == [s EXCEPT !.pair = pair, !.connected = TRUE]
  <2>1. At(t, "record") /\ UNCHANGED locks
    BY <1>5 DEF Record, tableOnly
  <2>c. pair \in Pairs /\ Whole(pair)
    BY <2>1, CallTyped, NamedTyped, PairTyped DEF Sound
  <2>7. LocksFit(t)
    BY <2>1, LocksLeft DEF LockKept, SplitsKept, Ensuring
  <2>2. OwnStep(t) /\ Stays(t) /\ task'[t].pc = "bundle" /\ task'[t].todo = task[t].todo
    BY <1>0, <1>p, <1>5, GotoDoes DEF Record
  <2>3. connections' = [connections EXCEPT ![Peer(t)] = IF Has(Peer(t)) THEN new ELSE @]
    BY <1>5 DEF Record, UpdateIfThere
  <2> HIDE DEF pair
  <2>4. Has(Peer(t)) => /\ new \in Sessions /\ new.life = s.life /\ Whole(new.pair)
                        /\ new.compressed = s.compressed
    <3>1. SUFFICES ASSUME Has(Peer(t))
                   PROVE  new \in Sessions /\ new.life = s.life /\ new.pair = pair /\ new.compressed = s.compressed
      BY <2>c
    <3>2. s \in Sessions
      BY <3>1, SessionTyped
    <3> HIDE DEF s
    <3> QED
      BY <3>2, <2>c DEF Sessions
  <2> HIDE DEF new, s
  <2>5. /\ connections' \in [Peers -> Sessions \cup {NoSession}] /\ Elsewhere(t)
        /\ ~Has(Peer(t)) => connections'[Peer(t)] = NoSession
        /\ Has(Peer(t)) => connections'[Peer(t)] = new
    BY <2>4, <2>3, UpdateDoes
  <2>6. UNCHANGED <<caller, lives, runtime, frames, pongs, captures, arrivals, overlapped>>
    BY <1>5 DEF Record, tableOnly, history
  <2> QED
    BY <2>1, <2>2, <2>4, <2>5, <2>6, <2>7 DEF s
<1>6. CASE Unmark(t)
  <2> DEFINE new == [s EXCEPT !.connected = FALSE]
  <2>1. At(t, "unmark") /\ UNCHANGED locks
    BY <1>6 DEF Unmark, tableOnly
  <2>7. LocksFit(t)
    BY <2>1, LocksLeft DEF LockKept, SplitsKept, Ensuring
  <2>2. OwnStep(t) /\ Stays(t) /\ task'[t].pc = "remove" /\ task'[t].todo = task[t].todo
    BY <1>0, <1>p, <1>6, GotoDoes DEF Unmark
  <2>3. connections' = [connections EXCEPT ![Peer(t)] = IF Has(Peer(t)) THEN new ELSE @]
    BY <1>6 DEF Unmark, UpdateIfThere
  <2>4. Has(Peer(t)) => /\ new \in Sessions /\ new.life = s.life /\ new.pair = s.pair
                        /\ new.compressed = s.compressed
    <3>1. SUFFICES ASSUME Has(Peer(t))
                   PROVE  new \in Sessions /\ new.life = s.life /\ new.pair = s.pair /\ new.compressed = s.compressed
      OBVIOUS
    <3>2. s \in Sessions
      BY <3>1, SessionTyped
    <3> HIDE DEF s
    <3> QED
      BY <3>2 DEF Sessions
  <2> HIDE DEF new, s
  <2>5. /\ connections' \in [Peers -> Sessions \cup {NoSession}] /\ Elsewhere(t)
        /\ ~Has(Peer(t)) => connections'[Peer(t)] = NoSession
        /\ Has(Peer(t)) => connections'[Peer(t)] = new
    BY <2>4, <2>3, UpdateDoes
  <2>6. UNCHANGED <<caller, lives, runtime, frames, pongs, captures, arrivals, overlapped>>
    BY <1>6 DEF Unmark, tableOnly, history
  <2> QED
    BY <2>1, <2>2, <2>4, <2>5, <2>6, <2>7 DEF s
<1> QED
  BY <1>1, <1>2, <1>3, <1>4, <1>5, <1>6 DEF Marking

(* The steps that take a session out of the table.                          *)
LEMMA DroppingDoes ==
    ASSUME TypeInv, NEW t \in Tasks, Drop(t) \/ Remove(t)
    PROVE  /\ OwnStep(t) /\ LocksFit(t)
           /\ UNCHANGED <<caller, lives, runtime, frames, pongs, captures, arrivals, overlapped>>
           /\ connections' \in [Peers -> Sessions \cup {NoSession}] /\ Elsewhere(t)
           /\ connections'[Peer(t)] = NoSession
           /\ task[t].pc \in {"drop", "remove"} /\ task'[t].pc \in {"count", "clear"}
           /\ task'[t].next \in {"payload", "packet"}
           /\ task'[t].peer = task[t].peer /\ task'[t].dropped = TRUE
<1>0. task \in [Tasks -> Calls] /\ task[t] \in Calls /\ (InPacket(t) => task[t].todo # <<>>)
  BY CallTyped DEF Sound
<1>1. /\ connections' \in [Peers -> Sessions \cup {NoSession}] /\ Elsewhere(t)
      /\ connections'[Peer(t)] = NoSession
  BY SessionTyped, TypeParts DEF Drop, Remove, Dropped, TableTyped, Elsewhere
<1>2. /\ UNCHANGED <<caller, lives, runtime, frames, pongs, captures, arrivals, overlapped>>
      /\ lock' = t /\ splitLock' = splitLock /\ task[t].pc \in {"drop", "remove"}
  BY DEF Drop, Remove, history, At
<1>p. /\ Leftovers(t) \in {"count", "clear"} /\ Leftovers(t) \in PC /\ "payload" \in PC /\ "packet" \in PC
  BY DEF Leftovers, PC
<1>3. /\ OwnStep(t) /\ task'[t].pc \in {"count", "clear"}
      /\ task'[t].next \in {"payload", "packet"}
      /\ task'[t].peer = task[t].peer /\ task'[t].dropped = TRUE
  <2>1. CASE Drop(t)
    <3> DEFINE r == [task[t] EXCEPT !.pc = Leftovers(t), !.next = "payload", !.dropped = TRUE]
    <3>1. task' = [task EXCEPT ![t] = r]
      BY <2>1 DEF Drop
    <3>2. r \in Calls /\ r.pc = Leftovers(t) /\ r.next = "payload" /\ r.peer = task[t].peer /\ r.dropped = TRUE
      BY <1>0, <1>p DEF Calls
    <3> HIDE DEF r
    <3>3. OwnStep(t) /\ task'[t] = r
      BY <1>0, <3>1, <3>2, TaskPut
    <3> QED
      BY <1>p, <3>2, <3>3
  <2>2. CASE Remove(t)
    <3> DEFINE r == [task[t] EXCEPT !.pc = Leftovers(t), !.next = "packet", !.dropped = TRUE, !.todo = Tail(@)]
    <3>1. task' = [task EXCEPT ![t] = r]
      BY <2>2 DEF Remove
    <3>0. Tail(task[t].todo) \in Seq(Packets)
      BY <1>0, <2>2, HeadTailProperties DEF Remove, At, InPacket, MidPacket, Calls
    <3>2. r \in Calls /\ r.pc = Leftovers(t) /\ r.next = "packet" /\ r.peer = task[t].peer /\ r.dropped = TRUE
      BY <1>0, <1>p, <3>0 DEF Calls
    <3> HIDE DEF r
    <3>3. OwnStep(t) /\ task'[t] = r
      BY <1>0, <3>1, <3>2, TaskPut
    <3> QED
      BY <1>p, <3>2, <3>3
  <2> QED
    BY <2>1, <2>2
<1>4. LocksFit(t)
  BY <1>2, <1>3, LockHeld DEF LocksFit, LockKept, SplitsKept, Ensuring
<1> QED
  BY <1>1, <1>2, <1>3, <1>4

(* The steps that take and give back the locks, and with them the frames.   *)
Locking(t) == TakeSplits(t) \/ Pruned(t) \/ TakeFrame(t) \/ Assemble(t) \/ Counted(t) \/ Cleared(t)

(* Where they lead.                                                         *)
LEMMA LockingDoes ==
    ASSUME TypeInv, NEW t \in Tasks, Locking(t)
    PROVE  /\ OwnStep(t) /\ LocksFit(t)
           /\ UNCHANGED <<caller, connections, lives, runtime, frames, pongs, captures, arrivals, overlapped>>
           /\ task'[t].peer = task[t].peer /\ task'[t].dropped = task[t].dropped
           /\ \/ /\ Stays(t) /\ task'[t].next = task[t].next
                 /\ \/ From(t, "prune", "pruned") \/ From(t, "pruned", "queues")
                    \/ From(t, "frame", "split") \/ From(t, "split", "assemble")
                    \/ From(t, "count", "counted") \/ From(t, "counted", "clear")
                    \/ From(t, "clear", "cleared")
                    \/ task[t].pc = "cleared" /\ task'[t].pc = task[t].next
              \/ From(t, "frame", "payload") \/ From(t, "assemble", "payload")
<1> USE DEF From, At
<1>0. /\ task \in [Tasks -> Calls] /\ task[t] \in Calls
      /\ task[t].pc \in {"frame", "split", "assemble"} => task[t].inbox # <<>>
  BY CallTyped DEF Sound
<1>h. /\ t # NoTask /\ (lock = t => task[t].pc \in LockKept) /\ (splitLock = t => task[t].pc \in SplitsKept)
  BY LockHeld
<1>p. /\ "pruned" \in PC /\ "queues" \in PC /\ "split" \in PC /\ "assemble" \in PC /\ "counted" \in PC
      /\ "clear" \in PC /\ "cleared" \in PC
  BY DEF PC
<1>1. CASE TakeSplits(t)
  <2>1. /\ task[t].pc \in {"prune", "split", "count", "clear"} /\ splitLock' = t /\ lock' = lock
        /\ Goto(t, Taken[task[t].pc])
        /\ UNCHANGED <<caller, connections, lives, runtime, frames, pongs, captures, arrivals, overlapped>>
    BY <1>1 DEF TakeSplits, Taken, history
  <2>2. \/ task[t].pc = "prune" /\ Taken[task[t].pc] = "pruned"
        \/ task[t].pc = "split" /\ Taken[task[t].pc] = "assemble"
        \/ task[t].pc = "count" /\ Taken[task[t].pc] = "counted"
        \/ task[t].pc = "clear" /\ Taken[task[t].pc] = "cleared"
    BY <2>1 DEF Taken
  <2>3. OwnStep(t) /\ Stays(t) /\ task'[t].pc = Taken[task[t].pc] /\ task'[t].next = task[t].next
    BY <1>0, <1>p, <2>1, <2>2, GotoDoes
  <2>4. LocksFit(t)
    BY <1>h, <2>1, <2>2, <2>3 DEF LocksFit, LockKept, SplitsKept, Ensuring
  <2> QED
    BY <2>1, <2>2, <2>3, <2>4 DEF Stays
<1>2. CASE Pruned(t)
  <2>1. OwnStep(t) /\ Stays(t) /\ task'[t].pc = "queues" /\ task'[t].next = task[t].next
    BY <1>0, <1>p, <1>2, GotoDoes DEF Pruned
  <2>2. LocksFit(t)
    BY <1>h, <1>2 DEF Pruned, LocksFit, LockKept, Ensuring
  <2> QED
    BY <1>2, <2>1, <2>2 DEF Pruned, history, Stays
<1>3. CASE TakeFrame(t)
  <2>0. /\ task[t].pc = "frame" /\ splitLock' = splitLock
        /\ UNCHANGED <<caller, connections, lives, runtime, frames, pongs, captures, arrivals, overlapped>>
    BY <1>3 DEF TakeFrame, Ensured, history
  <2>1. CASE lock' = t /\ Goto(t, "split")
    <3>1. OwnStep(t) /\ Stays(t) /\ task'[t].pc = "split" /\ task'[t].next = task[t].next
      BY <1>0, <1>p, <2>1, GotoDoes
    <3>2. LocksFit(t)
      BY <1>h, <2>0, <2>1, <3>1 DEF LocksFit, LockKept, SplitsKept, Ensuring
    <3> QED
      BY <2>0, <3>1, <3>2 DEF Stays
  <2>2. CASE lock' = NoTask /\ Emit(t)
    <3>1. OwnStep(t) /\ task'[t].pc = "payload" /\ task'[t].peer = task[t].peer /\ task'[t].dropped = task[t].dropped
      BY <1>0, <2>0, <2>2, EmitDoes
    <3>2. LocksFit(t)
      BY <1>h, <2>0, <2>2 DEF LocksFit, SplitsKept
    <3> QED
      BY <2>0, <3>1, <3>2
  <2> QED
    BY <1>3, <2>1, <2>2 DEF TakeFrame, Release
<1>4. CASE Assemble(t)
  <2>1. OwnStep(t) /\ task'[t].pc = "payload" /\ task'[t].peer = task[t].peer /\ task'[t].dropped = task[t].dropped
    BY <1>0, <1>4, EmitDoes DEF Assemble
  <2>2. LocksFit(t)
    BY <1>h, <1>4 DEF Assemble, LocksFit
  <2> QED
    BY <1>4, <2>1, <2>2 DEF Assemble, history
<1>5. CASE Counted(t)
  <2>1. OwnStep(t) /\ Stays(t) /\ task'[t].pc = "clear" /\ task'[t].next = task[t].next
    BY <1>0, <1>p, <1>5, GotoDoes DEF Counted
  <2>2. LocksFit(t)
    BY <1>h, <1>5 DEF Counted, LocksFit
  <2> QED
    BY <1>5, <2>1, <2>2 DEF Counted, history, Stays
<1>6. CASE Cleared(t)
  <2>1. task[t].next \in PC
    BY <1>0 DEF Calls
  <2>2. OwnStep(t) /\ Stays(t) /\ task'[t].pc = task[t].next /\ task'[t].next = task[t].next
    BY <1>0, <1>6, <2>1, GotoDoes DEF Cleared
  <2>3. LocksFit(t)
    BY <1>h, <1>6 DEF Cleared, LocksFit
  <2> QED
    BY <1>6, <2>2, <2>3 DEF Cleared, history, Stays
<1> QED
  BY <1>1, <1>2, <1>3, <1>4, <1>5, <1>6 DEF Locking

(* The answers outside a session that end a call.                           *)
LEMMA AnsweringDoes ==
    ASSUME TypeInv, NEW t \in Tasks, Pong(t) \/ OpenRequest1(t) \/ Connect(t)
    PROVE  /\ OwnStep(t) /\ LocksFit(t) /\ task'[t].pc = "idle"
           /\ task[t].pc \in {"pong", "request1", "connect"}
           /\ UNCHANGED <<caller, connections, lives, runtime, frames, captures, arrivals, overlapped>>
           /\ \/ pongs' = pongs
              \/ pongs' = pongs \cup {Session(t).pair} /\ Has(Peer(t))
              \/ pongs' = pongs \cup {task[t].seen} /\ task[t].pc = "pong"
<1>0. task \in [Tasks -> Calls]
  BY CallTyped
<1>1. CASE Pong(t)
  <2>1. LocksFit(t)
    BY <1>1, LocksLeft DEF Pong, At, LockKept, SplitsKept, Ensuring
  <2> QED
    BY <1>0, <1>1, <2>1, FinishDoes DEF Pong, At
<1>2. CASE OpenRequest1(t) \/ Connect(t)
  <2>1. /\ task[t].pc \in {"request1", "connect"} /\ lock' = NoTask /\ splitLock' = splitLock /\ Finish(t)
        /\ UNCHANGED <<caller, connections, lives, runtime, frames, pongs, captures, arrivals, overlapped>>
    BY <1>2 DEF OpenRequest1, Connect, Ensured, Release, At, history
  <2>2. LocksFit(t)
    BY <2>1, LockHeld DEF LocksFit, SplitsKept
  <2> QED
    BY <1>0, <2>1, <2>2, FinishDoes
<1> QED
  BY <1>1, <1>2

(* The two halves of sync_client_version.                                   *)
LEMMA SyncProtocolDoes ==
    ASSUME TypeInv, NEW t \in Tasks, SyncProtocol(t)
    PROVE  /\ OwnStep(t) /\ Stays(t) /\ LocksFit(t)
           /\ From(t, "syncProtocol", "syncVersion") /\ task[t].todo # <<>>
           /\ task'[t].todo = task[t].todo /\ task'[t].life = task[t].life
           /\ runtime' \in Pairs /\ runtime'.protocol = AsU16(Current(t).protocol)
           /\ overlapped' = (overlapped \/ Syncing # {})
           /\ UNCHANGED <<caller, connections, lives, frames, pongs, captures, arrivals>>
<1>0. task \in [Tasks -> Calls] /\ runtime \in Pairs /\ Sound(t)
  BY CallTyped
<1>1. task[t].pc = "syncProtocol" /\ task[t].todo # <<>> /\ Goto(t, "syncVersion") /\ "syncVersion" \in PC
  BY <1>0 DEF SyncProtocol, At, InPacket, MidPacket, PC, Sound
<1>2. AsU16(Current(t).protocol) \in Numbers
  BY <1>0, <1>1, NamedTyped DEF Sound, LoggingIn
<1>3. runtime' \in Pairs /\ runtime'.protocol = AsU16(Current(t).protocol)
  BY <1>0, <1>2 DEF SyncProtocol, Pairs
<1>4. LocksFit(t)
  BY <1>1, LocksLeft DEF SyncProtocol, LockKept, SplitsKept, Ensuring
<1> QED
  BY <1>0, <1>1, <1>3, <1>4, GotoDoes DEF SyncProtocol, From

(* The second half completes the pair.                                      *)
LEMMA SyncVersionDoes ==
    ASSUME TypeInv, NEW t \in Tasks, SyncVersion(t)
    PROVE  /\ OwnStep(t) /\ Stays(t) /\ LocksFit(t)
           /\ \/ From(t, "syncVersion", "save") /\ task'[t].todo = task[t].todo /\ task'[t].life = task[t].life
              \/ From(t, "syncVersion", "packet")
           /\ runtime' \in Pairs /\ runtime'.protocol = runtime.protocol
           /\ runtime'.version = Resolve(AsU16(Current(t).protocol))
           /\ UNCHANGED <<caller, connections, lives, frames, pongs, captures, arrivals, overlapped>>
<1>0. task \in [Tasks -> Calls] /\ runtime \in Pairs /\ Sound(t)
  BY CallTyped
<1>1. task[t].pc = "syncVersion" /\ task[t].todo # <<>> /\ "save" \in PC
  BY <1>0 DEF SyncVersion, At, InPacket, MidPacket, PC, Sound
<1>2. Resolve(AsU16(Current(t).protocol)) \in Versions
  BY <1>0, <1>1, NamedTyped DEF Sound, LoggingIn
<1>3. /\ runtime' \in Pairs /\ runtime'.protocol = runtime.protocol
      /\ runtime'.version = Resolve(AsU16(Current(t).protocol))
  BY <1>0, <1>2 DEF SyncVersion, ResolvedVersion, Pairs
<1>l. LocksFit(t)
  BY <1>1, LocksLeft DEF SyncVersion, LockKept, SplitsKept, Ensuring
<1>u. UNCHANGED <<caller, connections, lives, frames, pongs, captures, arrivals, overlapped>>
  BY DEF SyncVersion, history
<1>4. CASE Goto(t, "save")
  BY <1>0, <1>1, <1>3, <1>4, <1>l, <1>u, GotoDoes DEF From
<1>5. CASE NextPacket(t)
  BY <1>0, <1>1, <1>3, <1>5, <1>l, <1>u, NextPacketDoes DEF From
<1> QED
  BY <1>4, <1>5 DEF SyncVersion

(* A capture is logged under the life the Login came on.                    *)
LEMMA SaveDoes ==
    ASSUME TypeInv, NEW t \in Tasks, Save(t)
    PROVE  /\ OwnStep(t) /\ Stays(t) /\ LocksFit(t) /\ From(t, "save", "record")
           /\ task'[t].todo = task[t].todo
           /\ captures' = Appended(captures, Peer(t), task[t].life)
           /\ UNCHANGED <<caller, connections, lives, runtime, frames, pongs, arrivals, overlapped>>
<1>0. task \in [Tasks -> Calls] /\ "record" \in PC
  BY CallTyped DEF PC
<1>1. LocksFit(t)
  BY LocksLeft DEF Save, At, LockKept, SplitsKept, Ensuring
<1> QED
  BY <1>0, <1>1, GotoDoes DEF Save, Appended, From, At

(* The frame that send_frame puts on the wire.                              *)
Framed(t) == [reply |-> task[t].reply, life |-> Session(t).life]

(* A frame goes out on the session there is, and the call goes on.          *)
LEMMA SendDoes ==
    ASSUME TypeInv, NEW t \in Tasks, Send(t)
    PROVE  /\ OwnStep(t) /\ Stays(t) /\ LocksFit(t) /\ task[t].pc = "send" /\ Has(Peer(t))
           /\ task'[t].pc = task[t].next
           /\ task'[t].pc \in {"payload", "packet", "disconnect", "goodbye", "unmark"}
           /\ task'[t].todo = task[t].todo /\ task'[t].next = task[t].next
           /\ frames' = Appended(frames, Peer(t), Framed(t))
           /\ Framed(t) \in [reply : Replies, life : Nat \ {0}]
           /\ UNCHANGED <<caller, connections, lives, runtime, pongs, captures, arrivals, overlapped>>
<1>0. task \in [Tasks -> Calls] /\ task[t].next \in PC /\ task[t].reply \in Replies
  BY CallTyped DEF Calls
<1>1. task[t].pc = "send" /\ Has(Peer(t)) /\ lock' = NoTask /\ splitLock' = splitLock
  BY DEF Send, Ensured, At, Release
<1>2. Framed(t) \in [reply : Replies, life : Nat \ {0}]
  BY <1>0, <1>1, SessionTyped DEF Framed
<1>3. LocksFit(t)
  BY <1>1, LockHeld DEF LocksFit, SplitsKept
<1>4. task[t].next \in {"payload", "packet", "disconnect", "goodbye", "unmark"}
  BY <1>1, CallTyped DEF Sound, At
<1> QED
  BY <1>0, <1>1, <1>2, <1>3, <1>4, GotoDoes DEF Send, Appended, Framed

(* Making a session.                                                        *)
LEMMA ReadProtocolDoes ==
    ASSUME TypeInv, NEW t \in Tasks, ReadProtocol(t)
    PROVE  /\ OwnStep(t) /\ Stays(t) /\ task[t].pc \in Ensuring /\ ~Has(Peer(t))
           /\ lock' = t /\ splitLock' = splitLock
           /\ task'[t].pc = task[t].pc /\ task'[t].todo = task[t].todo
           /\ task'[t].reply = task[t].reply /\ task'[t].next = task[t].next
           /\ task'[t].life = task[t].life /\ task'[t].seen.protocol = runtime.protocol
           /\ UNCHANGED <<caller, connections, lives, runtime, frames, pongs, captures, arrivals, overlapped>>
<1>0. task \in [Tasks -> Calls] /\ task[t] \in Calls /\ runtime.protocol \in Numbers
  BY CallTyped
<1> DEFINE r == [task[t] EXCEPT !.seen.protocol = runtime.protocol]
<1>1. task' = [task EXCEPT ![t] = r]
  BY DEF ReadProtocol
<1>2. /\ r \in Calls /\ r.pc = task[t].pc /\ r.peer = task[t].peer /\ r.inbox = task[t].inbox
      /\ r.dropped = task[t].dropped /\ r.todo = task[t].todo
      /\ r.reply = task[t].reply /\ r.next = task[t].next
      /\ r.life = task[t].life /\ r.seen.protocol = runtime.protocol
  BY <1>0 DEF Calls, Pairs
<1> HIDE DEF r
<1>3. OwnStep(t) /\ task'[t] = r
  BY <1>0, <1>1, <1>2, TaskPut
<1> QED
  BY <1>2, <1>3 DEF ReadProtocol, Stays, history

(* The new session is the next life of its peer, uncompressed.              *)
LEMMA ReadVersionDoes ==
    ASSUME TypeInv, NEW t \in Tasks, ReadVersion(t)
    PROVE  /\ lock = t /\ ~Has(Peer(t)) /\ task[t].pc \in Ensuring
           /\ lives' \in [Peers -> Nat] /\ lives'[Peer(t)] = lives[Peer(t)] + 1
           /\ \A p \in Peers : p # Peer(t) => lives'[p] = lives[p]
           /\ connections' \in [Peers -> Sessions \cup {NoSession}] /\ Elsewhere(t)
           /\ connections'[Peer(t)] \in Sessions
           /\ connections'[Peer(t)].life = lives[Peer(t)] + 1
           /\ connections'[Peer(t)].compressed = FALSE
           /\ connections'[Peer(t)].pair = [protocol |-> task[t].seen.protocol, version |-> runtime.version]
           /\ UNCHANGED <<caller, runtime, lock, splitLock, task, frames, pongs, captures, arrivals, overlapped>>
<1>1. /\ lives \in [Peers -> Nat] /\ connections \in [Peers -> Sessions \cup {NoSession}]
      /\ task[t].seen \in Pairs /\ runtime \in Pairs /\ Peer(t) \in Peers
  BY TypeParts, SessionTyped DEF TableTyped, TaskTyped, RuntimeTyped, Calls
<1>2. lock = t /\ task[t].pc \in Ensuring
  BY DEF ReadVersion
<1>3. /\ lives' \in [Peers -> Nat] /\ lives'[Peer(t)] = lives[Peer(t)] + 1
      /\ \A p \in Peers : p # Peer(t) => lives'[p] = lives[p]
  BY <1>1 DEF ReadVersion
<1> DEFINE new == [life |-> lives'[Peer(t)], connected |-> ~At(t, "request1"), compressed |-> FALSE,
                   pair |-> [protocol |-> task[t].seen.protocol, version |-> runtime.version]]
<1>4. connections' = [connections EXCEPT ![Peer(t)] = new]
  BY DEF ReadVersion
<1>5. new \in Sessions /\ new.life = lives[Peer(t)] + 1 /\ new.compressed = FALSE
      /\ new.pair = [protocol |-> task[t].seen.protocol, version |-> runtime.version]
  <2>1. lives'[Peer(t)] \in Nat \ {0} /\ At(t, "request1") \in BOOLEAN
    BY <1>1, <1>3 DEF At
  <2>2. [protocol |-> task[t].seen.protocol, version |-> runtime.version] \in Pairs
    BY <1>1 DEF Pairs
  <2> QED
    BY <1>3, <2>1, <2>2 DEF Sessions
<1> HIDE DEF new
<1>6. connections' \in [Peers -> Sessions \cup {NoSession}] /\ Elsewhere(t) /\ connections'[Peer(t)] = new
  BY <1>1, <1>4, <1>5 DEF Elsewhere
<1>7. ~Has(Peer(t)) /\ UNCHANGED <<caller, runtime, lock, splitLock, task, frames, pongs, captures, arrivals, overlapped>>
  BY DEF ReadVersion, locks, history
<1> QED
  BY <1>1, <1>2, <1>3, <1>5, <1>6, <1>7

(* A datagram begins a call.                                                *)
LEMMA ArriveDoes ==
    ASSUME TypeInv, NEW t \in Tasks, NEW p \in caller.peers, NEW d \in caller.datagrams, Arrive(t, p, d)
    PROVE  /\ OwnStep(t) /\ LocksFit(t) /\ task[t].pc = "idle" /\ arrivals' \in 0 .. caller.arrivals
           /\ task'[t].pc \in {"idle", "ping", "request1", "connect", "active"}
           /\ UNCHANGED <<caller, connections, lives, runtime, frames, pongs, captures, overlapped>>
<1>1. /\ task \in [Tasks -> Calls] /\ caller \in Callers /\ arrivals \in 0 .. caller.arrivals
      /\ caller.arrivals \in Nat /\ p \in Peers /\ d \in Datagrams
  BY TypeParts, CallersAssumption DEF TaskTyped, RuntimeTyped
<1> DEFINE r == [Begun(p) EXCEPT !.pc = Entry[d.id], !.inbox = d.frames]
<1>2. task' = [task EXCEPT ![t] = r]
  BY DEF Arrive
<1>3. Entry[d.id] \in {"idle", "ping", "request1", "connect", "active"}
  BY <1>1 DEF Datagrams, Offline, Entry
<1>4. r \in Calls /\ r.pc = Entry[d.id]
  <2>1. Begun(p) \in Calls /\ d.frames \in Seq(Frames) /\ Entry[d.id] \in PC
    BY <1>1, <1>3, IdleTyped DEF Datagrams, PC
  <2> QED
    BY <2>1 DEF Calls
<1> HIDE DEF r
<1>5. OwnStep(t) /\ task'[t] = r
  BY <1>1, <1>2, <1>4, TaskPut
<1>6. arrivals' \in 0 .. caller.arrivals
  BY <1>1 DEF Arrive
<1>7. LocksFit(t)
  BY LocksLeft DEF Arrive, At, LockKept, SplitsKept, Ensuring
<1> QED
  BY <1>3, <1>4, <1>5, <1>6, <1>7 DEF Arrive, At

(* The kinds of step a call takes.                                          *)
Kinds(t) == \/ Quiet(t) \/ Marking(t) \/ Drop(t) \/ Remove(t) \/ Locking(t)
            \/ Pong(t) \/ OpenRequest1(t) \/ Connect(t)
            \/ SyncProtocol(t) \/ SyncVersion(t) \/ Save(t) \/ Send(t) \/ ReadProtocol(t) \/ ReadVersion(t)

(* Every step of a call is one of those.                                    *)
LEMMA StepKinds ==
    ASSUME NEW t \in Tasks, Step(t)
    PROVE  Kinds(t)
BY DEF Step, Quiet, Marking, Locking, Kinds

(* A step of the system is a step of one call of the caller.                *)
LEMMA NextKinds ==
    ASSUME TypeInv, [Next]_vars
    PROVE  \/ \E t \in Tasks : t \in caller.tasks /\
                 (Step(t) \/ \E p \in caller.peers, d \in caller.datagrams : Arrive(t, p, d))
           \/ UNCHANGED vars
<1>1. caller.tasks \subseteq Tasks
  BY TypeParts, CallersAssumption DEF RuntimeTyped
<1> QED
  BY <1>1 DEF Next

(* The parts of the type invariant, kept by what a step has been shown to do. *)
LEMMA PacketKept ==
    ASSUME PacketInv, NEW t \in Tasks, OwnStep(t), Sound(t)'
    PROVE  PacketInv'
<1>1. \A u \in Tasks : u # t => (Sound(u) => Sound(u)')
  BY DEF OwnStep, Sound, InPacket, LoggingIn, At, Current
<1> QED
  BY <1>1 DEF PacketInv

(* The locks stay with calls that are where the code has the guards.        *)
LEMMA LocksStay ==
    ASSUME LocksTyped, NEW t \in Tasks, OwnStep(t), LocksFit(t)
    PROVE  LocksTyped'
BY DEF LocksTyped, OwnStep, LocksFit

(* A session that is changed or dropped stays the latest of its peer.       *)
LEMMA TableKept ==
    ASSUME TypeInv, NEW t \in Tasks, lives' = lives, Elsewhere(t),
           connections' \in [Peers -> Sessions \cup {NoSession}],
           connections'[Peer(t)] = NoSession \/ (Has(Peer(t)) /\ connections'[Peer(t)].life = Session(t).life)
    PROVE  TableTyped'
<1>1. /\ lives \in [Peers -> Nat] /\ \A p \in Peers : connections[p].life \in {0, lives[p]}
      /\ NoSession.life = 0
  BY TypeParts DEF TableTyped, NoSession
<1>2. \A p \in Peers : connections'[p].life \in {0, lives[p]}
  BY <1>1, SessionTyped DEF Elsewhere, Session
<1> QED
  BY <1>1, <1>2 DEF TableTyped

(* Every step keeps the types.                                              *)
LEMMA TypeStep == TypeInv /\ [Next]_vars => TypeInv'
<1> SUFFICES ASSUME TypeInv, [Next]_vars PROVE TypeInv'
  OBVIOUS
<1>0. /\ TableTyped /\ LocksTyped /\ RuntimeTyped /\ LogsTyped /\ TaskTyped
  BY TypeParts
<1>p. PacketInv
  BY <1>0 DEF TaskTyped
<1>a. SUFFICES TableTyped' /\ LocksTyped' /\ RuntimeTyped' /\ LogsTyped' /\ TaskTyped'
  <2>1. TableTyped' /\ LocksTyped' /\ RuntimeTyped' /\ LogsTyped' /\ TaskTyped' => TypeInv'
    BY TypeParts, PTL
  <2> QED
    BY <2>1
<1>r. /\ Reply("Pong", "raw") \in {Reply("Accepted", "raw"), Reply("Pong", "raw")}
      /\ Reply("Accepted", "raw") \in {Reply("Accepted", "raw"), Reply("Pong", "raw")}
  OBVIOUS
<1>1. ASSUME NEW t \in Tasks, Quiet(t)
      PROVE  TableTyped' /\ LocksTyped' /\ RuntimeTyped' /\ LogsTyped' /\ TaskTyped'
  <2>2. OwnStep(t) /\ UNCHANGED taskOnly /\ LocksFit(t)
    BY <1>1, QuietDoes, QuietUnlocks
  <2>s. Sound(t) /\ (Has(Peer(t)) => Session(t).life # 0)
    BY <1>p, SessionTyped DEF PacketInv
  <2>1. Sound(t)'
    <3> HIDE DEF Reply
    <3> QED
      BY <1>1, <2>s, <1>r, QuietDoes
      DEF Sound, InPacket, LoggingIn, At, From, Sends, MidPacket, Clearing, Current, Stays
  <2>3. TaskTyped'
    BY <1>p, <2>1, <2>2, PacketKept DEF TaskTyped, OwnStep
  <2>4. LocksTyped'
    BY <1>0, <2>2, LocksStay
  <2> QED
    BY <1>0, <2>2, <2>3, <2>4 DEF taskOnly, tableOnly, history, TableTyped, RuntimeTyped, LogsTyped
<1>2. ASSUME NEW t \in Tasks, Marking(t)
      PROVE  TableTyped' /\ LocksTyped' /\ RuntimeTyped' /\ LogsTyped' /\ TaskTyped'
  <2>1. Sound(t)'
    BY <1>2, <1>p, <1>r, MarkingDoes
    DEF PacketInv, Sound, InPacket, LoggingIn, At, From, Sends, MidPacket, Clearing, Current, Stays
  <2>3. TaskTyped'
    BY <1>2, <1>p, <2>1, MarkingDoes, PacketKept DEF TaskTyped, OwnStep
  <2>4. LocksTyped'
    BY <1>0, <1>2, MarkingDoes, LocksStay
  <2>5. TableTyped'
    BY <1>2, MarkingDoes, TableKept
  <2> QED
    BY <1>0, <1>2, <2>3, <2>4, <2>5, MarkingDoes DEF RuntimeTyped, LogsTyped
<1>3. ASSUME NEW t \in Tasks, Drop(t) \/ Remove(t)
      PROVE  TableTyped' /\ LocksTyped' /\ RuntimeTyped' /\ LogsTyped' /\ TaskTyped'
  <2>1. Sound(t)'
    BY <1>3, DroppingDoes DEF Sound, InPacket, LoggingIn, At, MidPacket, Clearing
  <2>3. TaskTyped'
    BY <1>3, <1>p, <2>1, DroppingDoes, PacketKept DEF TaskTyped, OwnStep
  <2>4. LocksTyped'
    BY <1>0, <1>3, DroppingDoes, LocksStay
  <2>5. TableTyped'
    BY <1>3, DroppingDoes, TableKept
  <2> QED
    BY <1>0, <1>3, <2>3, <2>4, <2>5, DroppingDoes DEF RuntimeTyped, LogsTyped
<1>13. ASSUME NEW t \in Tasks, Locking(t)
       PROVE  TableTyped' /\ LocksTyped' /\ RuntimeTyped' /\ LogsTyped' /\ TaskTyped'
  <2>1. Sound(t)'
    BY <1>13, <1>p, LockingDoes
    DEF PacketInv, Sound, InPacket, LoggingIn, At, From, MidPacket, Clearing, Stays
  <2>3. TaskTyped'
    BY <1>13, <1>p, <2>1, LockingDoes, PacketKept DEF TaskTyped, OwnStep
  <2>4. LocksTyped'
    BY <1>0, <1>13, LockingDoes, LocksStay
  <2> QED
    BY <1>0, <1>13, <2>3, <2>4, LockingDoes DEF RuntimeTyped, LogsTyped, TableTyped
<1>4. ASSUME NEW t \in Tasks, Pong(t) \/ OpenRequest1(t) \/ Connect(t)
      PROVE  TableTyped' /\ LocksTyped' /\ RuntimeTyped' /\ LogsTyped' /\ TaskTyped'
  <2>1. Sound(t)'
    BY <1>4, AnsweringDoes DEF Sound, InPacket, LoggingIn, At, MidPacket, Clearing
  <2>3. TaskTyped'
    BY <1>4, <1>p, <2>1, AnsweringDoes, PacketKept DEF TaskTyped, OwnStep
  <2>4. LocksTyped'
    BY <1>0, <1>4, AnsweringDoes, LocksStay
  <2>5. task[t].seen \in Pairs /\ (Has(Peer(t)) => Session(t).pair \in Pairs)
    BY SessionTyped DEF Calls
  <2>6. LogsTyped'
    BY <1>0, <1>4, <2>5, AnsweringDoes DEF LogsTyped
  <2> QED
    BY <1>0, <1>4, <2>3, <2>4, <2>6, AnsweringDoes DEF RuntimeTyped, TableTyped
<1>5. ASSUME NEW t \in Tasks, SyncProtocol(t)
      PROVE  TableTyped' /\ LocksTyped' /\ RuntimeTyped' /\ LogsTyped' /\ TaskTyped'
  <2>0. Sound(t)'
    BY <1>5, <1>p, SyncProtocolDoes
    DEF Sound, InPacket, LoggingIn, At, From, PacketInv, Clearing, Current
  <2>1. TaskTyped'
    BY <1>5, <1>p, <2>0, SyncProtocolDoes, PacketKept DEF TaskTyped, OwnStep
  <2>2. LocksTyped'
    BY <1>0, <1>5, SyncProtocolDoes, LocksStay
  <2>3. overlapped' \in BOOLEAN
    BY <1>0, <1>5, SyncProtocolDoes DEF RuntimeTyped
  <2> QED
    BY <1>0, <1>5, <2>1, <2>2, <2>3, SyncProtocolDoes DEF RuntimeTyped, LogsTyped, TableTyped
<1>6. ASSUME NEW t \in Tasks, SyncVersion(t)
      PROVE  TableTyped' /\ LocksTyped' /\ RuntimeTyped' /\ LogsTyped' /\ TaskTyped'
  <2>0. Sound(t)'
    BY <1>6, <1>p, SyncVersionDoes
    DEF Sound, InPacket, LoggingIn, At, MidPacket, From, PacketInv, Clearing, Current
  <2>1. TaskTyped'
    BY <1>6, <1>p, <2>0, SyncVersionDoes, PacketKept DEF TaskTyped, OwnStep
  <2>2. LocksTyped'
    BY <1>0, <1>6, SyncVersionDoes, LocksStay
  <2> QED
    BY <1>0, <1>6, <2>1, <2>2, SyncVersionDoes DEF RuntimeTyped, LogsTyped, TableTyped
<1>7. ASSUME NEW t \in Tasks, Save(t)
      PROVE  TableTyped' /\ LocksTyped' /\ RuntimeTyped' /\ LogsTyped' /\ TaskTyped'
  <2>a. task[t].life \in Nat \ {0}
    BY <1>7, <1>p, SaveDoes, SessionTyped DEF PacketInv, Sound, LoggingIn, From, Calls
  <2>0. Sound(t)'
    BY <1>7, <1>p, SaveDoes
    DEF Sound, InPacket, LoggingIn, At, MidPacket, From, PacketInv, Clearing, Current
  <2>1. TaskTyped'
    BY <1>7, <1>p, <2>0, SaveDoes, PacketKept DEF TaskTyped, OwnStep
  <2>2. LocksTyped'
    BY <1>0, <1>7, SaveDoes, LocksStay
  <2>3. LogsTyped'
    <3> DEFINE S == Nat \ {0}
    <3>1. captures \in [Peers -> Seq(S)] /\ task[t].life \in S /\ Peer(t) \in Peers
      BY <1>0, <2>a, SessionTyped DEF LogsTyped
    <3> HIDE DEF S
    <3>2. captures' \in [Peers -> Seq(S)]
      BY <1>7, <3>1, SaveDoes, AppendAt
    <3> QED
      BY <1>0, <1>7, <3>2, SaveDoes DEF LogsTyped, S
  <2> QED
    BY <1>0, <1>7, <2>1, <2>2, <2>3, SaveDoes DEF RuntimeTyped, TableTyped
<1>8. ASSUME NEW t \in Tasks, Send(t)
      PROVE  TableTyped' /\ LocksTyped' /\ RuntimeTyped' /\ LogsTyped' /\ TaskTyped'
  <2>0. Sound(t)'
    BY <1>8, <1>p, SendDoes DEF Sound, InPacket, LoggingIn, At, MidPacket, PacketInv, Clearing
  <2>1. TaskTyped'
    BY <1>8, <1>p, <2>0, SendDoes, PacketKept DEF TaskTyped, OwnStep
  <2>2. LocksTyped'
    BY <1>0, <1>8, SendDoes, LocksStay
  <2>3. LogsTyped'
    <3> DEFINE S == [reply : Replies, life : Nat \ {0}]
    <3>1. frames \in [Peers -> Seq(S)] /\ Framed(t) \in S /\ Peer(t) \in Peers
      BY <1>0, <1>8, SendDoes, SessionTyped DEF LogsTyped
    <3> HIDE DEF S
    <3>2. frames' \in [Peers -> Seq(S)]
      BY <1>8, <3>1, SendDoes, AppendAt
    <3> QED
      BY <1>0, <1>8, <3>2, SendDoes DEF LogsTyped, S
  <2> QED
    BY <1>0, <1>8, <2>1, <2>2, <2>3, SendDoes DEF RuntimeTyped, TableTyped
<1>9. ASSUME NEW t \in Tasks, ReadProtocol(t)
      PROVE  TableTyped' /\ LocksTyped' /\ RuntimeTyped' /\ LogsTyped' /\ TaskTyped'
  <2>0. Sound(t)'
    BY <1>9, <1>p, ReadProtocolDoes
    DEF Sound, InPacket, LoggingIn, At, PacketInv, Stays, Current
  <2>1. TaskTyped'
    BY <1>9, <1>p, <2>0, ReadProtocolDoes, PacketKept DEF TaskTyped, OwnStep
  <2>2. LocksTyped'
    BY <1>0, <1>9, ReadProtocolDoes DEF LocksTyped, OwnStep, LockKept
  <2> QED
    BY <1>0, <1>9, <2>1, <2>2, ReadProtocolDoes DEF RuntimeTyped, TableTyped, LogsTyped
<1>10. ASSUME NEW t \in Tasks, ReadVersion(t)
      PROVE  TableTyped' /\ LocksTyped' /\ RuntimeTyped' /\ LogsTyped' /\ TaskTyped'
  <2>1. \A p \in Peers : connections'[p].life \in {0, lives'[p]}
    BY <1>0, <1>10, ReadVersionDoes, SessionTyped DEF TableTyped, Elsewhere
  <2>2. task' = task /\ \A u \in Tasks : Sound(u) => Sound(u)'
    BY <1>10, ReadVersionDoes DEF Sound, InPacket, LoggingIn, At, Current
  <2>3. TaskTyped'
    BY <1>0, <2>2 DEF TaskTyped, PacketInv
  <2> QED
    BY <1>0, <1>10, <2>1, <2>3, ReadVersionDoes DEF RuntimeTyped, TableTyped, LogsTyped, LocksTyped
<1>11. ASSUME NEW t \in Tasks, NEW p \in caller.peers, NEW d \in caller.datagrams, Arrive(t, p, d)
      PROVE  TableTyped' /\ LocksTyped' /\ RuntimeTyped' /\ LogsTyped' /\ TaskTyped'
  <2>0. Sound(t)'
    BY <1>11, ArriveDoes DEF Sound, InPacket, LoggingIn, At, MidPacket, Clearing
  <2>1. TaskTyped'
    BY <1>11, <1>p, <2>0, ArriveDoes, PacketKept DEF TaskTyped, OwnStep
  <2>2. LocksTyped'
    BY <1>0, <1>11, ArriveDoes, LocksStay
  <2> QED
    BY <1>0, <1>11, <2>1, <2>2, ArriveDoes DEF RuntimeTyped, TableTyped, LogsTyped
<1>12. CASE UNCHANGED vars
  <2>1. task' = task /\ \A u \in Tasks : Sound(u) => Sound(u)'
    BY <1>12 DEF vars, Sound, InPacket, LoggingIn, At, Current
  <2>2. TaskTyped'
    BY <1>0, <2>1 DEF TaskTyped, PacketInv
  <2> QED
    BY <1>0, <1>12, <2>2 DEF vars, RuntimeTyped, TableTyped, LogsTyped, LocksTyped
<1> QED
  BY <1>1, <1>2, <1>3, <1>4, <1>5, <1>6, <1>7, <1>8, <1>9, <1>10, <1>11, <1>12, <1>13, StepKinds, NextKinds
  DEF Kinds

(* Sessions, calls and logs are of their types, a session is the latest its *)
(* peer has had, and a lock is kept only where the code holds its guard.    *)
THEOREM TypeCorrect == Spec => []TypeOK
<1>1. TypeInv => TypeOK
  BY DEF TypeInv
<1> QED
  BY TypeInit, TypeStep, <1>1, PTL DEF Spec

(***************************************************************************)
(* One datagram at a time                                                  *)
(***************************************************************************)

(* What is behind the check of handle_game_packet has a session until it    *)
(* drops it; one dropped for a goodbye may be made anew, by a later frame.  *)
(* A packet in hand has one, up to the end of a Login.                      *)
Outside == {"idle", "ping", "pingVersion", "pong", "request1", "connect", "active"}
HasInv(t) ==
    /\ task[t].pc \in Outside \/ Has(Peer(t)) \/ task[t].dropped
    /\ task[t].pc \in MidPacket \/ (At(t, "send") /\ task[t].next # "payload") => Has(Peer(t))

(* With one task, a step is that task's.                                    *)
LEMMA SoloNext ==
    ASSUME TypeInv, NEW t \in Tasks, caller.tasks = {t}, [Next]_vars
    PROVE  /\ caller' = caller
           /\ \/ Kinds(t)
              \/ \E p \in caller.peers, d \in caller.datagrams : Arrive(t, p, d)
              \/ UNCHANGED vars
<1>1. \/ \E u \in Tasks : u \in caller.tasks /\
           (Step(u) \/ \E p \in caller.peers, d \in caller.datagrams : Arrive(u, p, d))
      \/ UNCHANGED vars
  BY NextKinds
<1>2. \/ Step(t) \/ (\E p \in caller.peers, d \in caller.datagrams : Arrive(t, p, d)) \/ UNCHANGED vars
  BY <1>1
<1>3. \/ Kinds(t)
      \/ \E p \in caller.peers, d \in caller.datagrams : Arrive(t, p, d)
      \/ UNCHANGED vars
  BY <1>2, StepKinds
<1>4. caller' = caller
  BY <1>3, QuietDoes, MarkingDoes, DroppingDoes, LockingDoes, AnsweringDoes, SyncProtocolDoes, SyncVersionDoes,
     SaveDoes, SendDoes, ReadProtocolDoes, ReadVersionDoes, ArriveDoes DEF Kinds, vars, taskOnly, tableOnly
<1> QED
  BY <1>3, <1>4

(* With one task, only that task could drop the session it needs.           *)
LEMMA HasStep ==
    ASSUME TypeInv, NEW t \in Tasks, caller.tasks = {t}, HasInv(t), [Next]_vars
    PROVE  HasInv(t)'
<1> USE DEF From, Sends, At, MidPacket
<1> DEFINE Inside == task[t].pc \notin Outside
           Holds == task[t].pc \in MidPacket \/ (task[t].pc = "send" /\ task[t].next # "payload")
           Inside_ == task'[t].pc \notin Outside
           Holds_ == task'[t].pc \in MidPacket \/ (task'[t].pc = "send" /\ task'[t].next # "payload")
           Has_ == connections'[task'[t].peer] # NoSession
<1>0. /\ task[t] \in Calls /\ Peer(t) \in Peers /\ (Inside => Has(Peer(t)) \/ task[t].dropped)
      /\ (Holds => Has(Peer(t))) /\ Peer(t) = task[t].peer
      /\ Has(Peer(t)) = (connections[task[t].peer] # NoSession)
      /\ \A s \in Sessions : s # NoSession
  BY SessionTyped DEF Sessions, NoSession, HasInv, Peer, Has
<1>q. SUFFICES (Inside_ => Has_ \/ task'[t].dropped) /\ (Holds_ => Has_)
  BY DEF HasInv, Has, Peer
<1>1. CASE Quiet(t)
  <2>1. connections' = connections
    BY <1>1, QuietDoes DEF taskOnly
  <2>2. \/ ~Inside_ /\ ~Holds_
        \/ /\ task'[t].peer = task[t].peer /\ task'[t].dropped = task[t].dropped
           /\ Inside_ => Inside \/ Has(Peer(t))
           /\ Holds_ => Holds \/ Has(Peer(t))
    BY <1>1, QuietDoes DEF Stays, Outside
  <2> QED
    BY <1>0, <2>1, <2>2
<1>2. CASE Marking(t)
  <2>1. /\ task'[t].peer = task[t].peer /\ task'[t].dropped = task[t].dropped
        /\ (Has(Peer(t)) => Has_)
    BY <1>0, <1>2, MarkingDoes DEF Stays
  <2>2. Inside /\ (Holds_ => Holds)
    BY <1>2, MarkingDoes DEF Outside
  <2> QED
    BY <1>0, <2>1, <2>2
<1>3. CASE Drop(t) \/ Remove(t)
  BY <1>3, DroppingDoes
<1>4. CASE Pong(t) \/ OpenRequest1(t) \/ Connect(t)
  BY <1>4, AnsweringDoes DEF Outside
<1>5. CASE SyncProtocol(t) \/ SyncVersion(t) \/ Save(t)
  BY <1>0, <1>5, SyncProtocolDoes, SyncVersionDoes, SaveDoes DEF Stays, Outside
<1>6. CASE Send(t)
  BY <1>0, <1>6, SendDoes DEF Stays, Outside
<1>7. CASE ReadProtocol(t)
  BY <1>0, <1>7, ReadProtocolDoes DEF Stays
<1>8. CASE ReadVersion(t)
  BY <1>0, <1>8, ReadVersionDoes
<1>9. CASE Locking(t)
  <2>1. connections' = connections /\ task'[t].peer = task[t].peer /\ task'[t].dropped = task[t].dropped
    BY <1>9, LockingDoes
  <2>2. Inside /\ ~Holds_
    BY <1>9, LockingDoes, CallTyped DEF Outside, Sound, Clearing
  <2> QED
    BY <1>0, <2>1, <2>2
<1>10. ASSUME NEW p \in caller.peers, NEW d \in caller.datagrams, Arrive(t, p, d)
       PROVE  (Inside_ => Has_ \/ task'[t].dropped) /\ (Holds_ => Has_)
  BY <1>10, ArriveDoes DEF Outside
<1>11. CASE UNCHANGED vars
  BY <1>0, <1>11 DEF vars
<1> QED
  BY <1>1, <1>2, <1>3, <1>4, <1>5, <1>6, <1>7, <1>8, <1>9, <1>10, <1>11, SoloNext DEF Kinds

(* Of the only task there is.                                               *)
SoloHas == \A t \in Tasks : caller.tasks = {t} => HasInv(t)

(* No call needs a session at first.                                        *)
LEMMA SoloHasInit == Init => SoloHas
BY DEF Init, SoloHas, HasInv, Outside, At, MidPacket, Idle, Begun

(* The caller stays who it is.                                              *)
LEMMA CallerStays ==
    ASSUME TypeInv, [Next]_vars
    PROVE  caller' = caller
<1>1. ASSUME NEW t \in Tasks, Step(t) PROVE caller' = caller
  BY <1>1, StepKinds, QuietDoes, MarkingDoes, DroppingDoes, LockingDoes, AnsweringDoes, SyncProtocolDoes,
     SyncVersionDoes, SaveDoes, SendDoes, ReadProtocolDoes, ReadVersionDoes DEF Kinds, taskOnly, tableOnly
<1> QED
  BY <1>1, NextKinds, ArriveDoes DEF vars

(* Every step keeps it.                                                     *)
LEMMA SoloHasStep == TypeInv /\ SoloHas /\ [Next]_vars => SoloHas'
<1> SUFFICES ASSUME TypeInv, SoloHas, [Next]_vars, NEW t \in Tasks, caller'.tasks = {t}
             PROVE  HasInv(t)'
  BY DEF SoloHas
<1>1. caller.tasks = {t}
  BY CallerStays
<1> QED
  BY <1>1, HasStep DEF SoloHas

(* With one datagram at a time only OpenRequest1, ConnectionRequest and a   *)
(* datagram that has dropped the session of its peer open one               *)
(* (handle_game_packet, ensure_session).                                    *)
THEOREM LivesStartAtHandshakes == Spec => LivesStartAtHandshake
<1> DEFINE Opened == OneAtATime => \A p \in Peers : lives'[p] # lives[p] =>
                        \E t \in Tasks : /\ Peer(t) = p
                                         /\ task[t].pc \in {"request1", "connect"} \/ task[t].dropped
<1>1. TypeInv /\ SoloHas /\ [Next]_vars => Opened
  <2> SUFFICES ASSUME TypeInv, SoloHas, [Next]_vars, NEW t \in Tasks, caller.tasks = {t},
                      NEW p \in Peers, lives'[p] # lives[p]
               PROVE  Peer(t) = p /\ (task[t].pc \in {"request1", "connect"} \/ task[t].dropped)
    BY DEF OneAtATime
  <2>1. CASE ReadVersion(t)
    <3>1. HasInv(t) /\ ~Has(Peer(t)) /\ task[t].pc \in Ensuring /\ Peer(t) = p
      BY <2>1, ReadVersionDoes DEF SoloHas
    <3> QED
      BY <3>1 DEF HasInv, Outside, Ensuring
  <2>2. CASE ~ReadVersion(t)
    BY <2>2, SoloNext, QuietDoes, MarkingDoes, DroppingDoes, LockingDoes, AnsweringDoes, SyncProtocolDoes,
       SyncVersionDoes, SaveDoes, SendDoes, ReadProtocolDoes, ArriveDoes
       DEF Kinds, taskOnly, tableOnly, history, vars
  <2> QED
    BY <2>1, <2>2
<1>2. [](TypeInv /\ SoloHas) /\ [][Next]_vars => [][Opened]_vars
  BY <1>1, PTL
<1> QED
  BY <1>2, TypeInit, TypeStep, SoloHasInit, SoloHasStep, PTL DEF Spec, LivesStartAtHandshake

(***************************************************************************)
(* Nothing is captured or sent on a session after its Login                *)
(***************************************************************************)

(* A call whose Login is saved is on its way to remove the session.         *)
Leaving(t) ==
    \/ task[t].pc \in {"record", "bundle", "disconnect", "goodbye", "unmark", "remove"}
    \/ At(t, "send") /\ task[t].next \in {"disconnect", "goodbye", "unmark"}

LoginInv(t) ==
    /\ \A p \in Peers : \A i \in DOMAIN captures[p] : captures[p][i] <= lives[p]
    /\ \A p \in Peers : Has(p) /\ Captured(p) => Peer(t) = p /\ Leaving(t)
    /\ LoggingIn(t) => task[t].life = Session(t).life
    /\ \A p \in Peers : \A i, j \in DOMAIN captures[p] : captures[p][i] = captures[p][j] => i = j

(* Steps that make and capture no session.                                  *)
LEMMA LoginKeeps ==
    ASSUME TypeInv, NEW t \in Tasks, LoginInv(t), captures' = captures, lives' = lives, Elsewhere(t),
           \/ connections'[Peer(t)] = NoSession
           \/ Has(Peer(t)) /\ connections'[Peer(t)].life = Session(t).life,
           Leaving(t) => (Leaving(t)' /\ Peer(t)' = Peer(t)) \/ connections'[Peer(t)] = NoSession,
           LoggingIn(t)' => task'[t].life = Session(t)'.life
    PROVE  LoginInv(t)'
<1>1. ASSUME NEW p \in Peers, Has(p)', Captured(p)' PROVE Peer(t)' = p /\ Leaving(t)'
  <2>1. Has(p) /\ Captured(p)
    BY <1>1 DEF Has, Captured, Elsewhere, Session
  <2>2. Peer(t) = p /\ Leaving(t)
    BY <2>1 DEF LoginInv
  <2> QED
    BY <1>1, <2>2 DEF Has
<1> QED
  BY <1>1 DEF LoginInv

(* Every step of the only task keeps it.                                    *)
LEMMA LoginStep ==
    ASSUME TypeInv, NEW t \in Tasks, caller.tasks = {t}, HasInv(t), LoginInv(t), [Next]_vars
    PROVE  LoginInv(t)'
<1> USE DEF Leaving, LoggingIn, At, From, Sends
<1>0. /\ task[t] \in Calls /\ Peer(t) \in Peers /\ (Has(Peer(t)) => Session(t).life = lives[Peer(t)])
      /\ \A p \in Peers : Has(p) => connections[p].life = lives[p]
  BY SessionTyped, TypeParts DEF TableTyped, Has, Sessions
<1>a. connections' = connections => /\ Elsewhere(t)
                                    /\ \/ connections'[Peer(t)] = NoSession
                                       \/ Has(Peer(t)) /\ connections'[Peer(t)].life = Session(t).life
  BY DEF Elsewhere, Has, Session
<1>b. LoggingIn(t) => Has(Peer(t)) /\ task[t].life = Session(t).life
  BY DEF LoginInv, HasInv, MidPacket
<1>1. CASE Quiet(t)
  <2>1. connections' = connections /\ captures' = captures /\ lives' = lives
    BY <1>1, QuietDoes DEF taskOnly, tableOnly, history
  <2>2. Leaving(t) => (Leaving(t)' /\ Peer(t)' = Peer(t))
    BY <1>1, QuietDoes DEF Peer, Stays
  <2>3. LoggingIn(t)' => task'[t].life = Session(t)'.life
    BY <1>1, <2>1, QuietDoes DEF Peer, Stays, Session
  <2> QED
    BY <1>a, <2>1, <2>2, <2>3, LoginKeeps
<1>2. CASE Marking(t)
  <2>1. Leaving(t) => (Leaving(t)' /\ Peer(t)' = Peer(t))
    BY <1>2, MarkingDoes DEF Peer, Stays
  <2>2. ~LoggingIn(t)'
    BY <1>2, MarkingDoes
  <2> QED
    BY <1>2, <2>1, <2>2, MarkingDoes, LoginKeeps
<1>3. CASE Drop(t) \/ Remove(t)
  BY <1>3, DroppingDoes, LoginKeeps
<1>4. CASE Pong(t) \/ OpenRequest1(t) \/ Connect(t)
  BY <1>4, <1>a, AnsweringDoes, LoginKeeps
<1>5. CASE SyncProtocol(t)
  <2>1. LoggingIn(t)' => task'[t].life = Session(t)'.life
    BY <1>5, <1>b, SyncProtocolDoes DEF Session, Peer, Stays
  <2> QED
    BY <1>5, <1>a, <2>1, SyncProtocolDoes, LoginKeeps
<1>6. CASE SyncVersion(t)
  <2>1. LoggingIn(t)' => task'[t].life = Session(t)'.life
    BY <1>6, <1>b, SyncVersionDoes DEF Session, Peer, Stays
  <2> QED
    BY <1>6, <1>a, <2>1, SyncVersionDoes, LoginKeeps
<1>7. CASE Save(t)
  <2> DEFINE S == Nat \ {0}
             p == Peer(t)
             n == Len(captures[p])
  <2>1. /\ captures \in [Peers -> Seq(S)] /\ p \in Peers /\ lives[p] \in Nat
        /\ Has(p) /\ task[t].life = Session(t).life /\ task[t].life = lives[p] /\ task[t].life \in S
    BY <1>0, <1>7, <1>b, SaveDoes, TypeParts, SessionTyped DEF LogsTyped, TableTyped
  <2>2. ~Captured(p)
    BY <1>7, <2>1, SaveDoes DEF LoginInv
  <2>3. /\ \A q \in Peers : q # p => captures'[q] = captures[q]
        /\ n \in Nat /\ DOMAIN captures[p] = 1 .. n /\ DOMAIN captures'[p] = 1 .. n + 1
        /\ \A i \in DOMAIN captures[p] : captures'[p][i] = captures[p][i]
        /\ captures'[p][n + 1] = task[t].life
    <3> HIDE DEF S
    <3> QED
      BY <1>7, <2>1, SaveDoes, AppendAt
  <2>4. \A i \in DOMAIN captures[p] : captures[p][i] # task[t].life
    BY <2>1, <2>2 DEF Captured, Session
  <2>5. connections' = connections /\ lives' = lives /\ Peer(t)' = p /\ Leaving(t)' /\ ~LoggingIn(t)'
    BY <1>7, SaveDoes DEF Peer, Stays
  <2> HIDE DEF p, n, S
  <2>6. \A q \in Peers : \A i \in DOMAIN captures'[q] : captures'[q][i] <= lives'[q]
    BY <2>1, <2>3, <2>5 DEF LoginInv
  <2>7. \A q \in Peers : Has(q)' /\ Captured(q)' => Peer(t)' = q /\ Leaving(t)'
    BY <1>7, <2>3, <2>5, SaveDoes DEF LoginInv, Has, Captured, p
  <2>8. \A q \in Peers : \A i, j \in DOMAIN captures'[q] : captures'[q][i] = captures'[q][j] => i = j
    <3>1. \A i, j \in 1 .. n : captures[p][i] = captures[p][j] => i = j
      BY <2>1, <2>3 DEF LoginInv
    <3>2. \A i \in 1 .. n + 1 : captures'[p][i] = IF i = n + 1 THEN task[t].life ELSE captures[p][i]
      BY <2>3
    <3>3. \A i, j \in 1 .. n + 1 : captures'[p][i] = captures'[p][j] => i = j
      BY <2>3, <2>4, <3>1, <3>2
    <3>4. \A q \in Peers : q # p =>
             \A i, j \in DOMAIN captures'[q] : captures'[q][i] = captures'[q][j] => i = j
      BY <2>3 DEF LoginInv
    <3> QED
      BY <2>3, <3>3, <3>4
  <2> QED
    BY <2>5, <2>6, <2>7, <2>8 DEF LoginInv
<1>8. CASE Send(t)
  <2>1. Leaving(t) => (Leaving(t)' /\ Peer(t)' = Peer(t))
    BY <1>8, SendDoes DEF Peer, Stays
  <2>2. ~LoggingIn(t)'
    BY <1>8, SendDoes
  <2> QED
    BY <1>8, <1>a, <2>1, <2>2, SendDoes, LoginKeeps
<1>9. CASE ReadProtocol(t)
  <2>1. Leaving(t) => (Leaving(t)' /\ Peer(t)' = Peer(t))
    BY <1>9, ReadProtocolDoes DEF Peer, Stays
  <2>2. ~LoggingIn(t)'
    BY <1>9, ReadProtocolDoes DEF Ensuring
  <2> QED
    BY <1>9, <1>a, <2>1, <2>2, ReadProtocolDoes, LoginKeeps DEF Has
<1>10. CASE ReadVersion(t)
  <2>1. /\ captures \in [Peers -> Seq(Nat \ {0})] /\ lives \in [Peers -> Nat]
    BY TypeParts DEF LogsTyped, TableTyped
  <2>2. \A p \in Peers : \A i \in DOMAIN captures[p] : captures[p][i] \in Nat /\ captures[p][i] <= lives[p]
    BY <2>1, ElementOfSeq, LenProperties DEF LoginInv
  <2>r. /\ Peer(t) \in Peers /\ lives'[Peer(t)] = lives[Peer(t)] + 1 /\ captures' = captures
        /\ \A p \in Peers : p # Peer(t) => lives'[p] = lives[p]
        /\ connections'[Peer(t)].life = lives[Peer(t)] + 1
    BY <1>0, <1>10, ReadVersionDoes
  <2>3. \A p \in Peers : \A i \in DOMAIN captures'[p] : captures'[p][i] <= lives'[p]
    <3> SUFFICES ASSUME NEW p \in Peers, NEW i \in DOMAIN captures[p] PROVE captures[p][i] <= lives'[p]
      BY <2>r
    <3>1. captures[p][i] \in Nat /\ captures[p][i] <= lives[p] /\ lives[p] \in Nat
      BY <2>1, <2>2
    <3> QED
      BY <3>1, <2>r
  <2>4. \A i \in DOMAIN captures'[Peer(t)] : captures'[Peer(t)][i] # connections'[Peer(t)].life
    <3> SUFFICES ASSUME NEW i \in DOMAIN captures[Peer(t)] PROVE captures[Peer(t)][i] # lives[Peer(t)] + 1
      BY <2>r
    <3>1. captures[Peer(t)][i] \in Nat /\ captures[Peer(t)][i] <= lives[Peer(t)] /\ lives[Peer(t)] \in Nat
      BY <2>1, <2>2, <2>r
    <3> QED
      BY <3>1
  <2>5. \A p \in Peers : p # Peer(t) => Has(p)' = Has(p) /\ Captured(p)' = Captured(p)
    BY <1>10, ReadVersionDoes DEF Has, Captured, Elsewhere
  <2>6. ~LoggingIn(t)' /\ Peer(t)' = Peer(t) /\ Leaving(t)' = Leaving(t)
    BY <1>10, ReadVersionDoes DEF Ensuring, Peer
  <2>7. \A p \in Peers : Has(p)' /\ Captured(p)' => Peer(t)' = p /\ Leaving(t)'
    BY <2>4, <2>5, <2>6 DEF LoginInv, Captured
  <2> QED
    BY <1>10, <2>3, <2>6, <2>7, ReadVersionDoes DEF LoginInv
<1>11. ASSUME NEW p \in caller.peers, NEW d \in caller.datagrams, Arrive(t, p, d) PROVE LoginInv(t)'
  BY <1>11, <1>a, ArriveDoes, LoginKeeps
<1>12. CASE UNCHANGED vars
  BY <1>12 DEF vars, LoginInv, Captured, Has, Session, Peer
<1>13. CASE Locking(t)
  <2>1. connections' = connections /\ captures' = captures /\ lives' = lives
    BY <1>13, LockingDoes
  <2>2. ~Leaving(t) /\ ~LoggingIn(t)'
    BY <1>13, LockingDoes, CallTyped DEF Sound, Clearing
  <2> QED
    BY <1>a, <2>1, <2>2, LoginKeeps
<1> QED
  BY <1>1, <1>2, <1>3, <1>4, <1>5, <1>6, <1>7, <1>8, <1>9, <1>10, <1>11, <1>12, <1>13, SoloNext DEF Kinds

(* A call that has said goodbye only takes the session out of the table.    *)
SaidGoodbye(p) ==
    \E i \in DOMAIN frames[p] :
        frames[p][i].reply.msg = "Goodbye" /\ frames[p][i].life = connections[p].life
Parting(t) == task[t].pc \in {"unmark", "remove"}

GoodbyeInv(t) ==
    /\ \A p \in Peers : \A i \in DOMAIN frames[p] : frames[p][i].life <= lives[p]
    /\ \A p \in Peers : Has(p) /\ SaidGoodbye(p) => Peer(t) = p /\ Parting(t)
    /\ At(t, "send") /\ task[t].reply.msg = "Goodbye" => task[t].next = "unmark"
    /\ \A p \in Peers : \A i, j \in DOMAIN frames[p] :
          i < j /\ frames[p][i].reply.msg = "Goodbye" => frames[p][j].life # frames[p][i].life

(* Steps that make no session and send nothing.                             *)
LEMMA GoodbyeKeeps ==
    ASSUME TypeInv, NEW t \in Tasks, GoodbyeInv(t), frames' = frames, lives' = lives, Elsewhere(t),
           \/ connections'[Peer(t)] = NoSession
           \/ Has(Peer(t)) /\ connections'[Peer(t)].life = Session(t).life,
           Parting(t) => (Parting(t)' /\ Peer(t)' = Peer(t)) \/ connections'[Peer(t)] = NoSession,
           At(t, "send")' /\ task'[t].reply.msg = "Goodbye" => task'[t].next = "unmark"
    PROVE  GoodbyeInv(t)'
<1>1. ASSUME NEW p \in Peers, Has(p)', SaidGoodbye(p)' PROVE Peer(t)' = p /\ Parting(t)'
  <2>1. Has(p) /\ SaidGoodbye(p)
    BY <1>1 DEF Has, SaidGoodbye, Elsewhere, Session
  <2>2. Peer(t) = p /\ Parting(t)
    BY <2>1 DEF GoodbyeInv
  <2> QED
    BY <1>1, <2>2 DEF Has
<1> QED
  BY <1>1 DEF GoodbyeInv

(* Every step of the only task keeps it.                                    *)
LEMMA GoodbyeStep ==
    ASSUME TypeInv, NEW t \in Tasks, caller.tasks = {t}, GoodbyeInv(t), [Next]_vars
    PROVE  GoodbyeInv(t)'
<1> USE DEF Parting, At, From, Sends
<1>0. /\ task[t] \in Calls /\ Peer(t) \in Peers /\ (Has(Peer(t)) => Session(t).life = lives[Peer(t)])
      /\ \A p \in Peers : Has(p) => connections[p].life = lives[p]
  BY SessionTyped, TypeParts DEF TableTyped, Has, Sessions
<1>a. connections' = connections => /\ Elsewhere(t)
                                    /\ \/ connections'[Peer(t)] = NoSession
                                       \/ Has(Peer(t)) /\ connections'[Peer(t)].life = Session(t).life
  BY DEF Elsewhere, Has, Session
<1>1. CASE Quiet(t)
  <2>1. connections' = connections /\ frames' = frames /\ lives' = lives
    BY <1>1, QuietDoes DEF taskOnly, tableOnly, history
  <2>2. Parting(t) => (Parting(t)' /\ Peer(t)' = Peer(t))
    BY <1>1, QuietDoes DEF Peer, Stays
  <2>3. task'[t].pc = "send" /\ task'[t].reply.msg = "Goodbye" => task'[t].next = "unmark"
    <3>1. SUFFICES ASSUME task'[t].pc = "send" PROVE task'[t].reply.msg = "Goodbye" => task'[t].next = "unmark"
      OBVIOUS
    <3>2. \/ task'[t].next = "unmark"
          \/ \E m \in {"Pong", "NetworkSettings", "Bundle", "Disconnect"}, e \in {"raw", "deflate"} :
                task'[t].reply = Reply(m, e)
      BY <1>1, <3>1, QuietDoes
    <3> QED
      BY <3>2 DEF Reply
  <2> QED
    BY <1>a, <2>1, <2>2, <2>3, GoodbyeKeeps
<1>2. CASE Marking(t)
  <2>1. Parting(t) => (Parting(t)' /\ Peer(t)' = Peer(t))
    BY <1>2, MarkingDoes DEF Peer, Stays
  <2>2. task'[t].pc = "send" => task'[t].reply.msg # "Goodbye"
    BY <1>2, MarkingDoes DEF Reply
  <2> QED
    BY <1>2, <2>1, <2>2, MarkingDoes, GoodbyeKeeps
<1>3. CASE Drop(t) \/ Remove(t)
  BY <1>3, DroppingDoes, GoodbyeKeeps
<1>4. CASE Pong(t) \/ OpenRequest1(t) \/ Connect(t)
  BY <1>4, <1>a, AnsweringDoes, GoodbyeKeeps
<1>5. CASE SyncProtocol(t)
  BY <1>5, <1>a, SyncProtocolDoes, GoodbyeKeeps
<1>6. CASE SyncVersion(t)
  BY <1>6, <1>a, SyncVersionDoes, GoodbyeKeeps
<1>7. CASE Save(t)
  BY <1>7, <1>a, SaveDoes, GoodbyeKeeps
<1>8. CASE Send(t)
  <2> DEFINE S == [reply : Replies, life : Nat \ {0}]
             p == Peer(t)
             n == Len(frames[p])
             f == Framed(t)
  <2>1. /\ frames \in [Peers -> Seq(S)] /\ p \in Peers /\ lives[p] \in Nat
        /\ Has(p) /\ f \in S /\ f.life = lives[p] /\ f.life = connections[p].life
    BY <1>0, <1>8, SendDoes, TypeParts, SessionTyped DEF LogsTyped, TableTyped, Framed, Session
  <2>2. ~SaidGoodbye(p)
    BY <1>8, <2>1, SendDoes DEF GoodbyeInv
  <2>3. /\ \A q \in Peers : q # p => frames'[q] = frames[q]
        /\ n \in Nat /\ DOMAIN frames[p] = 1 .. n /\ DOMAIN frames'[p] = 1 .. n + 1
        /\ \A i \in DOMAIN frames[p] : frames'[p][i] = frames[p][i]
        /\ frames'[p][n + 1] = f
    <3> HIDE DEF S, f
    <3>1. frames' = Appended(frames, p, f)
      BY <1>8, SendDoes DEF f
    <3> QED
      BY <2>1, <3>1, AppendAt
  <2>4. \A i \in DOMAIN frames[p] : frames[p][i].reply.msg = "Goodbye" => frames[p][i].life # f.life
    BY <2>1, <2>2 DEF SaidGoodbye
  <2>5. connections' = connections /\ lives' = lives /\ task'[t].pc # "send"
    BY <1>8, SendDoes
  <2>6. f.reply.msg = "Goodbye" => Parting(t)' /\ Peer(t)' = p
    <3>1. SUFFICES ASSUME f.reply.msg = "Goodbye" PROVE Parting(t)' /\ Peer(t)' = p
      OBVIOUS
    <3>2. task[t].pc = "send" /\ task[t].reply.msg = "Goodbye"
      BY <1>8, <3>1, SendDoes DEF Framed
    <3>3. task[t].next = "unmark"
      BY <3>2 DEF GoodbyeInv
    <3> HIDE DEF S, f, n
    <3>4. task'[t].pc = "unmark" /\ task'[t].peer = task[t].peer
      BY <1>8, <3>3, SendDoes DEF Stays
    <3> QED
      BY <3>4 DEF Peer
  <2> HIDE DEF p, n, S, f
  <2>7. \A q \in Peers : \A i \in DOMAIN frames'[q] : frames'[q][i].life <= lives'[q]
    <3>1. \A i \in 1 .. n : frames'[p][i].life <= lives[p]
      BY <2>1, <2>3 DEF GoodbyeInv
    <3>2. frames'[p][n + 1].life <= lives[p]
      BY <2>1, <2>3
    <3>3. \A i \in 1 .. n + 1 : frames'[p][i].life <= lives[p]
      <4>1. \A i \in 1 .. n + 1 : i \in 1 .. n \/ i = n + 1
        BY <2>3
      <4> QED
        BY <3>1, <3>2, <4>1
    <3>4. \A q \in Peers : q # p => \A i \in DOMAIN frames'[q] : frames'[q][i].life <= lives[q]
      BY <2>3 DEF GoodbyeInv
    <3> QED
      BY <2>3, <2>5, <3>3, <3>4
  <2>8. ASSUME NEW q \in Peers, Has(q)', SaidGoodbye(q)' PROVE Peer(t)' = q /\ Parting(t)'
    <3>1. CASE q = p
      <4>1. PICK i \in 1 .. n + 1 : /\ frames'[p][i].reply.msg = "Goodbye"
                                    /\ frames'[p][i].life = connections[p].life
        BY <2>3, <2>5, <2>8, <3>1 DEF SaidGoodbye
      <4>2. i \in 1 .. n => frames'[p][i] = frames[p][i]
        BY <2>3
      <4>3. i \notin 1 .. n
        BY <2>1, <2>3, <2>4, <4>1, <4>2
      <4>4. i = n + 1
        BY <2>3, <4>3
      <4> QED
        BY <2>3, <2>6, <3>1, <4>1, <4>4
    <3>2. CASE q # p
      BY <1>8, <2>3, <2>5, <2>8, <3>2, SendDoes DEF SaidGoodbye, GoodbyeInv, Has
    <3> QED
      BY <3>1, <3>2
  <2>9. \A q \in Peers : \A i, j \in DOMAIN frames'[q] :
          i < j /\ frames'[q][i].reply.msg = "Goodbye" => frames'[q][j].life # frames'[q][i].life
    <3>1. \A i, j \in 1 .. n :
             i < j /\ frames[p][i].reply.msg = "Goodbye" => frames[p][j].life # frames[p][i].life
      BY <2>1, <2>3 DEF GoodbyeInv
    <3>2. \A i \in 1 .. n + 1 : frames'[p][i] = IF i = n + 1 THEN f ELSE frames[p][i]
      BY <2>3
    <3>3. \A i, j \in 1 .. n + 1 :
             i < j /\ frames'[p][i].reply.msg = "Goodbye" => frames'[p][j].life # frames'[p][i].life
      BY <2>3, <2>4, <3>1, <3>2
    <3>4. \A q \in Peers : q # p => \A i, j \in DOMAIN frames'[q] :
             i < j /\ frames'[q][i].reply.msg = "Goodbye" => frames'[q][j].life # frames'[q][i].life
      BY <2>3 DEF GoodbyeInv
    <3> QED
      BY <2>3, <3>3, <3>4
  <2> QED
    BY <2>5, <2>7, <2>8, <2>9 DEF GoodbyeInv
<1>9. CASE ReadProtocol(t)
  <2>1. task'[t].pc = task[t].pc /\ task'[t].reply = task[t].reply /\ task'[t].next = task[t].next
    BY <1>9, ReadProtocolDoes
  <2> QED
    BY <1>9, <1>a, <2>1, ReadProtocolDoes, GoodbyeKeeps DEF Ensuring, GoodbyeInv
<1>10. CASE ReadVersion(t)
  <2> DEFINE p == Peer(t)
  <2>1. /\ frames \in [Peers -> Seq([reply : Replies, life : Nat \ {0}])] /\ lives \in [Peers -> Nat]
    BY TypeParts DEF LogsTyped, TableTyped
  <2>2. \A q \in Peers : \A i \in DOMAIN frames[q] : frames[q][i].life \in Nat /\ frames[q][i].life <= lives[q]
    <3> DEFINE S == [reply : Replies, life : Nat \ {0}]
    <3>1. SUFFICES ASSUME NEW q \in Peers, NEW i \in DOMAIN frames[q] PROVE frames[q][i].life \in Nat
      BY DEF GoodbyeInv
    <3>2. frames[q] \in Seq(S)
      BY <2>1
    <3>3. S = [reply : Replies, life : Nat \ {0}]
      OBVIOUS
    <3> HIDE DEF S
    <3>4. i \in 1 .. Len(frames[q])
      BY <3>1, <3>2, LenProperties
    <3>5. frames[q][i] \in S
      BY <3>2, <3>4, ElementOfSeq
    <3> QED
      BY <3>3, <3>5
  <2>r. /\ p \in Peers /\ lives'[p] = lives[p] + 1 /\ frames' = frames
        /\ \A q \in Peers : q # p => lives'[q] = lives[q]
        /\ connections'[p].life = lives[p] + 1 /\ task' = task
    BY <1>0, <1>10, ReadVersionDoes
  <2>3. \A q \in Peers : \A i \in DOMAIN frames'[q] : frames'[q][i].life <= lives'[q]
    <3> SUFFICES ASSUME NEW q \in Peers, NEW i \in DOMAIN frames[q] PROVE frames[q][i].life <= lives'[q]
      BY <2>r
    <3>1. frames[q][i].life \in Nat /\ frames[q][i].life <= lives[q] /\ lives[q] \in Nat
      BY <2>1, <2>2
    <3> QED
      BY <3>1, <2>r
  <2>4. \A q \in Peers : q = p => ~SaidGoodbye(q)'
    <3>1. \A i \in DOMAIN frames[p] : frames[p][i].life # lives[p] + 1
      <4> SUFFICES ASSUME NEW i \in DOMAIN frames[p] PROVE frames[p][i].life # lives[p] + 1
        OBVIOUS
      <4>1. frames[p][i].life \in Nat /\ frames[p][i].life <= lives[p] /\ lives[p] \in Nat
        BY <2>1, <2>2, <2>r
      <4> QED
        BY <4>1
    <3>2. \A i \in DOMAIN frames'[p] : frames'[p][i].life # connections'[p].life
      BY <2>r, <3>1
    <3>3. Peer(t)' = p
      BY <2>r DEF Peer
    <3> HIDE DEF p
    <3> QED
      BY <3>2 DEF SaidGoodbye
  <2>5. \A q \in Peers : q # p => Has(q)' = Has(q) /\ SaidGoodbye(q)' = SaidGoodbye(q)
    BY <1>10, ReadVersionDoes DEF Has, SaidGoodbye, Elsewhere
  <2>7. \A q \in Peers : Has(q)' /\ SaidGoodbye(q)' => Peer(t)' = q /\ Parting(t)'
    BY <2>4, <2>5, <2>r DEF GoodbyeInv, Peer
  <2> QED
    BY <2>r, <2>3, <2>7 DEF GoodbyeInv
<1>11. ASSUME NEW p \in caller.peers, NEW d \in caller.datagrams, Arrive(t, p, d) PROVE GoodbyeInv(t)'
  BY <1>11, <1>a, ArriveDoes, GoodbyeKeeps
<1>12. CASE UNCHANGED vars
  BY <1>12 DEF vars, GoodbyeInv, SaidGoodbye, Has, Peer
<1>13. CASE Locking(t)
  <2>1. connections' = connections /\ frames' = frames /\ lives' = lives
    BY <1>13, LockingDoes
  <2>2. ~Parting(t) /\ task'[t].pc # "send"
    BY <1>13, LockingDoes, CallTyped DEF Sound, Clearing
  <2> QED
    BY <1>a, <2>1, <2>2, GoodbyeKeeps
<1> QED
  BY <1>1, <1>2, <1>3, <1>4, <1>5, <1>6, <1>7, <1>8, <1>9, <1>10, <1>11, <1>12, <1>13, SoloNext DEF Kinds

(* A session is over with its Login: no Login of it is captured twice, and  *)
(* no frame follows the disconnect notification, however often the client   *)
(* repeats it (handle_login_packet, one datagram at a time).                *)
THEOREM LoginAlwaysEndsLife == Spec => []LoginEndsLife
<1> DEFINE Inv == /\ TypeInv /\ SoloHas
                  /\ \A t \in Tasks : caller.tasks = {t} => LoginInv(t) /\ GoodbyeInv(t)
<1>1. Init => Inv
  <2> SUFFICES ASSUME Init, NEW t \in Tasks PROVE LoginInv(t) /\ GoodbyeInv(t)
    BY TypeInit, SoloHasInit
  <2>1. /\ task[t].pc = "idle" /\ \A p \in Peers : ~Has(p)
        /\ \A p \in Peers : captures[p] = <<>> /\ frames[p] = <<>>
    BY DEF Init, Idle, Begun, Has
  <2> QED
    BY <2>1, EmptySeq DEF LoginInv, GoodbyeInv, LoggingIn, At
<1>2. Inv /\ [Next]_vars => Inv'
  <2> SUFFICES ASSUME Inv, [Next]_vars, NEW t \in Tasks, caller'.tasks = {t}
               PROVE  LoginInv(t)' /\ GoodbyeInv(t)'
    BY TypeStep, SoloHasStep
  <2>1. caller.tasks = {t} /\ HasInv(t) /\ LoginInv(t) /\ GoodbyeInv(t)
    BY CallerStays DEF SoloHas
  <2> QED
    BY <2>1, LoginStep, GoodbyeStep
<1>3. Inv => LoginEndsLife
  BY DEF LoginInv, GoodbyeInv, LoginEndsLife, OneAtATime
<1> QED
  BY <1>1, <1>2, <1>3, PTL DEF Spec

(***************************************************************************)
(* Nothing is compressed before the NetworkSettings of its session         *)
(***************************************************************************)
Settings == Reply("NetworkSettings", "raw")
SettingsSent(p) ==
    \E i \in DOMAIN frames[p] : frames[p][i].life = connections[p].life /\ frames[p][i].reply = Settings

(* The flag is set before the reply that says so is sent, by the same call. *)
Settling(t) == At(t, "announce") \/ (At(t, "send") /\ task[t].reply = Settings)

CompressInv(t) ==
    /\ \A p \in Peers : Has(p) /\ connections[p].compressed =>
          SettingsSent(p) \/ (Peer(t) = p /\ Settling(t))
    /\ At(t, "send") /\ task[t].reply.enc = "deflate" => Session(t).compressed
    /\ \A p \in Peers : \A i \in DOMAIN frames[p] :
          frames[p][i].reply.enc = "deflate" =>
              \E j \in 1 .. i - 1 : frames[p][j].life = frames[p][i].life /\ frames[p][j].reply = Settings

(* Steps that make no session and send nothing.                             *)
LEMMA CompressKeeps ==
    ASSUME TypeInv, NEW t \in Tasks, CompressInv(t), frames' = frames, Elsewhere(t),
           \/ connections'[Peer(t)] = NoSession
           \/ /\ Has(Peer(t)) /\ connections'[Peer(t)].life = Session(t).life
              /\ \/ connections'[Peer(t)].compressed = Session(t).compressed
                 \/ Settling(t)' /\ Peer(t)' = Peer(t),
           Settling(t) => (Settling(t)' /\ Peer(t)' = Peer(t)) \/ connections'[Peer(t)] = NoSession,
           At(t, "send")' /\ task'[t].reply.enc = "deflate" => Session(t)'.compressed
    PROVE  CompressInv(t)'
<1>1. ASSUME NEW p \in Peers, Has(p)', connections'[p].compressed
      PROVE  SettingsSent(p)' \/ (Peer(t)' = p /\ Settling(t)')
  <2>1. CASE p # Peer(t)
    <3>1. connections'[p] = connections[p]
      BY <2>1 DEF Elsewhere
    <3>2. SettingsSent(p)
      BY <1>1, <2>1, <3>1 DEF CompressInv, Has
    <3> QED
      BY <3>1, <3>2 DEF SettingsSent
  <2>2. CASE p = Peer(t) /\ connections'[p].compressed = Session(t).compressed /\ Has(p)
    <3>1. connections[p].compressed /\ connections'[p].life = connections[p].life
      BY <1>1, <2>2 DEF Session, Has
    <3>2. SettingsSent(p) \/ Settling(t)
      BY <2>2, <3>1 DEF CompressInv
    <3>3. CASE SettingsSent(p)
      BY <3>1, <3>3 DEF SettingsSent
    <3>4. CASE Settling(t)
      BY <1>1, <2>2, <3>4 DEF Has
    <3> QED
      BY <3>2, <3>3, <3>4
  <2> QED
    BY <1>1, <2>1, <2>2 DEF Has
<1> QED
  BY <1>1 DEF CompressInv

(* Every step of the only task keeps it.                                    *)
LEMMA CompressStep ==
    ASSUME TypeInv, NEW t \in Tasks, caller.tasks = {t}, HasInv(t), CompressInv(t), [Next]_vars
    PROVE  CompressInv(t)'
<1> USE DEF Settling, At, From, Sends
<1>0. /\ task[t] \in Calls /\ Peer(t) \in Peers
      /\ Settling(t) \/ (task[t].pc = "send" /\ task[t].reply.enc = "deflate") => Has(Peer(t))
  <2>1. task[t].pc = "announce" => Has(Peer(t))
    BY DEF HasInv, MidPacket
  <2>2. ASSUME task[t].pc = "send", task[t].reply = Settings \/ task[t].reply.enc = "deflate"
        PROVE  Has(Peer(t))
    <3>1. task[t].reply \notin {Reply("Accepted", "raw"), Reply("Pong", "raw")}
      BY <2>2 DEF Settings, Reply
    <3>2. task[t].next # "payload"
      BY <2>2, <3>1, CallTyped DEF Sound
    <3> QED
      BY <2>2, <3>2 DEF HasInv
  <2> QED
    BY <2>1, <2>2, SessionTyped
<1>a. connections' = connections =>
         /\ Elsewhere(t)
         /\ \/ connections'[Peer(t)] = NoSession
            \/ /\ Has(Peer(t)) /\ connections'[Peer(t)].life = Session(t).life
               /\ connections'[Peer(t)].compressed = Session(t).compressed
  BY DEF Elsewhere, Has, Session
<1>1. CASE Quiet(t)
  <2>1. connections' = connections /\ frames' = frames
    BY <1>1, QuietDoes DEF taskOnly, tableOnly, history
  <2>2. Settling(t) => (Settling(t)' /\ Peer(t)' = Peer(t))
    BY <1>1, QuietDoes DEF Peer, Stays, Settings
  <2>3. task'[t].pc = "send" /\ task'[t].reply.enc = "deflate" => Session(t)'.compressed
    <3>1. SUFFICES ASSUME task'[t].pc = "send", task'[t].reply.enc = "deflate" PROVE Session(t)'.compressed
      OBVIOUS
    <3>2. \/ \E m \in {"Pong", "NetworkSettings", "Goodbye"} : task'[t].reply = Reply(m, "raw")
          \/ \E m \in {"Bundle", "Disconnect"}, e \in {"raw", "deflate"} :
                /\ task'[t].reply = Reply(m, e) /\ task'[t].peer = task[t].peer
                /\ e = "deflate" => Session(t).compressed
      BY <1>1, <3>1, QuietDoes DEF Stays
    <3>3. task'[t].peer = task[t].peer /\ Session(t).compressed
      BY <3>1, <3>2 DEF Reply
    <3> QED
      BY <2>1, <3>3 DEF Session, Peer
  <2> QED
    BY <1>a, <2>1, <2>2, <2>3, CompressKeeps
<1>2. CASE Marking(t)
  <2>1. Settling(t) => (Settling(t)' /\ Peer(t)' = Peer(t))
    BY <1>2, MarkingDoes
  <2>2. task'[t].pc = "send" => task'[t].reply.enc # "deflate"
    BY <1>2, MarkingDoes DEF Reply
  <2>3. task[t].pc = "compress" => Settling(t)' /\ Peer(t)' = Peer(t)
    BY <1>2, MarkingDoes DEF Peer, Stays
  <2> QED
    BY <1>2, <2>1, <2>2, <2>3, MarkingDoes, CompressKeeps
<1>3. CASE Drop(t) \/ Remove(t)
  BY <1>3, DroppingDoes, CompressKeeps
<1>4. CASE Pong(t) \/ OpenRequest1(t) \/ Connect(t)
  BY <1>4, <1>a, AnsweringDoes, CompressKeeps
<1>5. CASE SyncProtocol(t)
  BY <1>5, <1>a, SyncProtocolDoes, CompressKeeps
<1>6. CASE SyncVersion(t)
  BY <1>6, <1>a, SyncVersionDoes, CompressKeeps
<1>7. CASE Save(t)
  BY <1>7, <1>a, SaveDoes, CompressKeeps
<1>8. CASE Send(t)
  <2> DEFINE S == [reply : Replies, life : Nat \ {0}]
             p == Peer(t)
             n == Len(frames[p])
             f == Framed(t)
  <2>1. /\ frames \in [Peers -> Seq(S)] /\ p \in Peers /\ Has(p) /\ f \in S
        /\ f.life = connections[p].life /\ f.reply = task[t].reply /\ task[t].pc = "send"
    BY <1>0, <1>8, SendDoes, TypeParts DEF LogsTyped, Framed, Session
  <2>3. /\ \A q \in Peers : q # p => frames'[q] = frames[q]
        /\ n \in Nat /\ DOMAIN frames[p] = 1 .. n /\ DOMAIN frames'[p] = 1 .. n + 1
        /\ \A i \in DOMAIN frames[p] : frames'[p][i] = frames[p][i]
        /\ frames'[p][n + 1] = f
    <3> HIDE DEF S, f
    <3>1. frames' = Appended(frames, p, f)
      BY <1>8, SendDoes DEF f
    <3> QED
      BY <2>1, <3>1, AppendAt
  <2>4. connections' = connections /\ task'[t].pc # "send"
    BY <1>8, SendDoes
  <2>5. f.reply.enc = "deflate" => \E j \in 1 .. n : frames[p][j].life = f.life /\ frames[p][j].reply = Settings
    <3>1. SUFFICES ASSUME f.reply.enc = "deflate" PROVE SettingsSent(p)
      BY <2>1, <2>3 DEF SettingsSent
    <3>2. connections[p].compressed /\ task[t].reply # Settings
      BY <2>1, <3>1 DEF CompressInv, Session, Settings, Reply
    <3> QED
      BY <2>1, <3>2 DEF CompressInv
  <2> HIDE DEF p, n, S, f
  <2>6. ASSUME NEW q \in Peers, Has(q)', connections'[q].compressed PROVE SettingsSent(q)'
    <3>0. Has(q) /\ connections[q].compressed
      BY <2>4, <2>6 DEF Has
    <3>1. CASE q = p
      <4>1. CASE task[t].reply = Settings
        BY <2>1, <2>3, <2>4, <3>1, <4>1 DEF SettingsSent
      <4>2. CASE task[t].reply # Settings
        <5>1. PICK i \in 1 .. n : frames[p][i].life = connections[p].life /\ frames[p][i].reply = Settings
          BY <2>1, <2>3, <3>0, <3>1, <4>2 DEF CompressInv, SettingsSent
        <5>2. i \in DOMAIN frames'[p] /\ frames'[p][i] = frames[p][i]
          BY <2>3
        <5> QED
          BY <2>4, <3>1, <5>1, <5>2 DEF SettingsSent
      <4> QED
        BY <4>1, <4>2
    <3>2. CASE q # p
      BY <2>3, <2>4, <3>0, <3>2 DEF SettingsSent, CompressInv, p
    <3> QED
      BY <3>1, <3>2
  <2>7. ASSUME NEW q \in Peers, NEW i \in DOMAIN frames'[q], frames'[q][i].reply.enc = "deflate"
        PROVE  \E j \in 1 .. i - 1 : frames'[q][j].life = frames'[q][i].life /\ frames'[q][j].reply = Settings
    <3>1. CASE q # p
      BY <2>3, <2>7, <3>1 DEF CompressInv
    <3>2. CASE q = p /\ i = n + 1
      <4>1. PICK j \in 1 .. n : frames[p][j].life = f.life /\ frames[p][j].reply = Settings
        BY <2>3, <2>5, <2>7, <3>2
      <4>2. frames'[p][j] = frames[p][j] /\ j \in 1 .. i - 1
        BY <2>3, <3>2
      <4> QED
        BY <2>3, <3>2, <4>1, <4>2
    <3>3. CASE q = p /\ i # n + 1
      <4>1. i \in 1 .. n /\ frames'[p][i] = frames[p][i]
        BY <2>3, <3>3
      <4>2. PICK j \in 1 .. i - 1 : frames[p][j].life = frames[p][i].life /\ frames[p][j].reply = Settings
        BY <2>1, <2>3, <2>7, <3>3, <4>1 DEF CompressInv
      <4>3. j \in 1 .. n /\ frames'[p][j] = frames[p][j]
        BY <2>3, <4>1
      <4> QED
        BY <3>3, <4>1, <4>2, <4>3
    <3> QED
      BY <3>1, <3>2, <3>3
  <2> QED
    BY <2>4, <2>6, <2>7 DEF CompressInv
<1>9. CASE ReadProtocol(t)
  <2>1. ~Settling(t) /\ ~(task[t].pc = "send" /\ task[t].reply.enc = "deflate")
    BY <1>0, <1>9, ReadProtocolDoes
  <2>2. task'[t].pc = task[t].pc /\ task'[t].reply = task[t].reply
    BY <1>9, ReadProtocolDoes
  <2> QED
    BY <1>9, <1>a, <2>1, <2>2, ReadProtocolDoes, CompressKeeps
<1>10. CASE ReadVersion(t)
  <2>1. /\ frames' = frames /\ task' = task /\ Elsewhere(t) /\ ~Settling(t)
        /\ ~(task[t].pc = "send" /\ task[t].reply.enc = "deflate")
        /\ connections'[Peer(t)].compressed = FALSE
    BY <1>0, <1>10, ReadVersionDoes
  <2>2. ASSUME NEW p \in Peers, Has(p)', connections'[p].compressed PROVE SettingsSent(p)'
    <3>1. p # Peer(t) /\ connections'[p] = connections[p]
      BY <2>1, <2>2 DEF Elsewhere
    <3>2. SettingsSent(p)
      BY <2>1, <2>2, <3>1 DEF CompressInv, Has
    <3> QED
      BY <2>1, <3>1, <3>2 DEF SettingsSent
  <2> QED
    BY <2>1, <2>2 DEF CompressInv
<1>11. ASSUME NEW p \in caller.peers, NEW d \in caller.datagrams, Arrive(t, p, d) PROVE CompressInv(t)'
  BY <1>11, <1>a, ArriveDoes, CompressKeeps
<1>12. CASE UNCHANGED vars
  BY <1>12 DEF vars, CompressInv, SettingsSent, Has, Peer, Session
<1>13. CASE Locking(t)
  <2>1. connections' = connections /\ frames' = frames
    BY <1>13, LockingDoes
  <2>2. ~Settling(t) /\ task'[t].pc # "send"
    BY <1>13, LockingDoes, CallTyped DEF Sound, Clearing
  <2> QED
    BY <1>a, <2>1, <2>2, CompressKeeps
<1> QED
  BY <1>1, <1>2, <1>3, <1>4, <1>5, <1>6, <1>7, <1>8, <1>9, <1>10, <1>11, <1>12, <1>13, SoloNext DEF Kinds

(* A compressed reply goes out only on a session that was sent its          *)
(* NetworkSettings before, one datagram at a time (send_bedrock_response,   *)
(* send_bedrock_bundle).                                                    *)
THEOREM CompressedAfterSettings == Spec => []CompressedOnlyAfterSettings
<1> DEFINE Inv == TypeInv /\ SoloHas /\ \A t \in Tasks : caller.tasks = {t} => CompressInv(t)
<1>1. Init => Inv
  <2> SUFFICES ASSUME Init, NEW t \in Tasks PROVE CompressInv(t)
    BY TypeInit, SoloHasInit
  <2>1. /\ task[t].pc = "idle" /\ \A p \in Peers : ~Has(p)
        /\ \A p \in Peers : frames[p] = <<>>
    BY DEF Init, Idle, Begun, Has
  <2> QED
    BY <2>1, EmptySeq DEF CompressInv, At
<1>2. Inv /\ [Next]_vars => Inv'
  <2> SUFFICES ASSUME Inv, [Next]_vars, NEW t \in Tasks, caller'.tasks = {t} PROVE CompressInv(t)'
    BY TypeStep, SoloHasStep
  <2>1. caller.tasks = {t} /\ HasInv(t) /\ CompressInv(t)
    BY CallerStays DEF SoloHas
  <2> QED
    BY <2>1, CompressStep
<1>3. Inv => CompressedOnlyAfterSettings
  BY DEF CompressInv, CompressedOnlyAfterSettings, OneAtATime, Settings
<1> QED
  BY <1>1, <1>2, <1>3, PTL DEF Spec

(***************************************************************************)
(* Protocol and version stay a pair                                        *)
(***************************************************************************)

(* The steps outside sync_client_version leave the runtime pair, and who is *)
(* writing it, as they are.                                                 *)
LEMMA OutsideSync ==
    ASSUME TypeInv, NEW t \in Tasks, ~SyncProtocol(t), ~SyncVersion(t),
           Step(t) \/ \E p \in caller.peers, d \in caller.datagrams : Arrive(t, p, d)
    PROVE  /\ runtime' = runtime /\ overlapped' = overlapped /\ OwnStep(t)
           /\ task[t].pc # "syncVersion" /\ task'[t].pc # "syncVersion"
<1> USE DEF From, Sends
<1>1. CASE Quiet(t)
  BY <1>1, QuietDoes DEF taskOnly, tableOnly, history
<1>2. CASE Marking(t)
  BY <1>2, MarkingDoes
<1>3. CASE Drop(t) \/ Remove(t)
  BY <1>3, DroppingDoes
<1>4. CASE Pong(t) \/ OpenRequest1(t) \/ Connect(t)
  BY <1>4, AnsweringDoes
<1>5. CASE Save(t)
  BY <1>5, SaveDoes
<1>6. CASE Send(t)
  BY <1>6, SendDoes
<1>7. CASE ReadProtocol(t)
  BY <1>7, ReadProtocolDoes DEF Ensuring
<1>8. CASE ReadVersion(t)
  BY <1>8, ReadVersionDoes, TypeParts DEF Ensuring, OwnStep, TaskTyped
<1>9. ASSUME NEW p \in caller.peers, NEW d \in caller.datagrams, Arrive(t, p, d)
      PROVE  /\ runtime' = runtime /\ overlapped' = overlapped /\ OwnStep(t)
             /\ task[t].pc # "syncVersion" /\ task'[t].pc # "syncVersion"
  BY <1>9, ArriveDoes
<1>10. CASE Locking(t)
  BY <1>10, LockingDoes, CallTyped DEF Sound, Clearing
<1> QED
  BY <1>1, <1>2, <1>3, <1>4, <1>5, <1>6, <1>7, <1>8, <1>9, <1>10, StepKinds DEF Kinds

(* Until two calls overlap there is one writer at most, and half of what it *)
(* writes is there.                                                         *)
SyncInv ==
    ~overlapped =>
        /\ Syncing = {} => Agree(runtime)
        /\ \A t, u \in Syncing : t = u
        /\ \A t \in Syncing : runtime.protocol = AsU16(Current(t).protocol)

(* Every step, of whichever task, keeps it.                                 *)
LEMMA SyncStep == TypeInv /\ SyncInv /\ [Next]_vars => SyncInv'
<1> SUFFICES ASSUME TypeInv, SyncInv, [Next]_vars, ~overlapped'
             PROVE  /\ Syncing' = {} => Agree(runtime')
                    /\ \A t, u \in Syncing' : t = u
                    /\ \A t \in Syncing' : runtime'.protocol = AsU16(Current(t)'.protocol)
  BY DEF SyncInv, Agree
<1> USE DEF Syncing, At, From
<1>1. ASSUME NEW t \in Tasks, SyncProtocol(t)
      PROVE  /\ Syncing' # {} /\ \A u \in Syncing' : u = t
             /\ runtime'.protocol = AsU16(Current(t)'.protocol)
  <2>1. /\ OwnStep(t) /\ task'[t].pc = "syncVersion" /\ task'[t].todo = task[t].todo
        /\ runtime'.protocol = AsU16(Current(t).protocol) /\ Syncing = {}
    BY <1>1, SyncProtocolDoes
  <2> QED
    BY <2>1 DEF OwnStep, Current
<1>2. ASSUME NEW t \in Tasks, SyncVersion(t)
      PROVE  Syncing' = {} /\ Agree(runtime')
  <2>1. /\ OwnStep(t) /\ task[t].pc = "syncVersion" /\ task'[t].pc # "syncVersion"
        /\ runtime'.protocol = runtime.protocol /\ runtime'.version = Resolve(AsU16(Current(t).protocol)) /\ ~overlapped
    BY <1>2, SyncVersionDoes
  <2>2. runtime.protocol = AsU16(Current(t).protocol) /\ \A u \in Syncing : u = t
    BY <2>1 DEF SyncInv
  <2> QED
    BY <2>1, <2>2 DEF OwnStep, Agree
<1>3. ASSUME NEW t \in Tasks, ~SyncProtocol(t), ~SyncVersion(t),
             Step(t) \/ \E p \in caller.peers, d \in caller.datagrams : Arrive(t, p, d)
      PROVE  /\ ~overlapped /\ runtime' = runtime /\ Syncing' = Syncing
             /\ \A u \in Syncing' : Current(u)' = Current(u)
  <2>1. /\ runtime' = runtime /\ overlapped' = overlapped /\ OwnStep(t)
        /\ task[t].pc # "syncVersion" /\ task'[t].pc # "syncVersion"
    BY <1>3, OutsideSync
  <2> QED
    BY <2>1 DEF OwnStep, Current
<1>4. CASE UNCHANGED vars
  BY <1>4 DEF vars, SyncInv, Current
<1>5. ASSUME NEW t \in Tasks, Step(t) \/ \E p \in caller.peers, d \in caller.datagrams : Arrive(t, p, d)
      PROVE  /\ Syncing' = {} => Agree(runtime')
             /\ \A v, u \in Syncing' : v = u
             /\ \A u \in Syncing' : runtime'.protocol = AsU16(Current(u)'.protocol)
  <2>1. CASE SyncProtocol(t)
    BY <1>1, <2>1
  <2>2. CASE SyncVersion(t)
    BY <1>2, <2>2
  <2>3. CASE ~SyncProtocol(t) /\ ~SyncVersion(t)
    <3>1. /\ ~overlapped /\ runtime' = runtime /\ Syncing' = Syncing
          /\ \A u \in Syncing' : Current(u)' = Current(u)
      BY <1>3, <1>5, <2>3
    <3> HIDE DEF Syncing
    <3> QED
      BY <3>1 DEF SyncInv
  <2> QED
    BY <2>1, <2>2, <2>3
<1> QED
  BY <1>4, <1>5, NextKinds

(* One call at a time: what it has read, or half read, of the runtime pair  *)
(* is still true of it, and what it advertises is a pair.                   *)
PairInv(t) ==
    /\ IF At(t, "syncVersion") THEN runtime.protocol = AsU16(Current(t).protocol) ELSE Agree(runtime)
    /\ At(t, "pingVersion") => task[t].seen.protocol = runtime.protocol
    /\ At(t, "pong") => Agree(task[t].seen)
    /\ lock = t /\ task[t].pc \in Ensuring /\ ~Has(Peer(t)) => task[t].seen.protocol = runtime.protocol
    /\ \A pair \in pongs : Whole(pair)
    /\ \A p \in Peers : Has(p) => Whole(connections[p].pair)

(* Steps that write no version and make no session.                         *)
LEMMA PairKeeps ==
    ASSUME TypeInv, NEW t \in Tasks, PairInv(t), runtime' = runtime, Elsewhere(t), LocksFit(t),
           task[t].pc # "syncVersion", task'[t].pc # "syncVersion",
           \/ connections'[Peer(t)] = NoSession
           \/ /\ Has(Peer(t))
              /\ connections'[Peer(t)].pair = Session(t).pair \/ Whole(connections'[Peer(t)].pair),
           At(t, "pingVersion")' => task'[t].seen.protocol = runtime.protocol,
           At(t, "pong")' => Agree(task'[t].seen),
           \A pair \in pongs' : Whole(pair)
    PROVE  PairInv(t)'
<1>1. ~(lock' = t /\ task'[t].pc \in Ensuring)
  BY DEF LocksFit
<1>2. \A p \in Peers : Has(p)' => Whole(connections'[p].pair)
  <2> SUFFICES ASSUME NEW p \in Peers, Has(p)' PROVE Whole(connections'[p].pair)
    OBVIOUS
  <2>1. CASE p # Peer(t)
    BY <2>1 DEF PairInv, Has, Elsewhere
  <2>2. CASE p = Peer(t)
    BY <2>2 DEF PairInv, Has, Session
  <2> QED
    BY <2>1, <2>2
<1>3. Agree(runtime)
  BY DEF PairInv, At
<1> QED
  BY <1>1, <1>2, <1>3 DEF PairInv, At, Agree

(* Every step of the only task keeps it.                                    *)
LEMMA PairStep ==
    ASSUME TypeInv, NEW t \in Tasks, caller.tasks = {t}, HasInv(t), PairInv(t), [Next]_vars
    PROVE  PairInv(t)'
<1> USE DEF At, From, Sends
<1>a. connections' = connections =>
         /\ Elsewhere(t)
         /\ \/ connections'[Peer(t)] = NoSession
            \/ Has(Peer(t)) /\ connections'[Peer(t)].pair = Session(t).pair
  BY DEF Elsewhere, Has, Session
<1>b. \A pair \in pongs : Whole(pair)
  BY DEF PairInv
<1>0. Peer(t) \in Peers /\ task[t] \in Calls
  BY SessionTyped
<1>1. CASE Quiet(t)
  <2>1. connections' = connections /\ pongs' = pongs /\ runtime' = runtime
    BY <1>1, QuietDoes DEF taskOnly, tableOnly, history
  <2>2. task[t].pc # "syncVersion" /\ task'[t].pc # "syncVersion"
    BY <1>1, QuietDoes
  <2>3. task'[t].pc = "pingVersion" => task'[t].seen.protocol = runtime.protocol
    BY <1>1, QuietDoes
  <2>4. task'[t].pc = "pong" => Agree(task'[t].seen)
    <3>1. SUFFICES ASSUME task'[t].pc = "pong" PROVE Agree(task'[t].seen)
      OBVIOUS
    <3>2. /\ task[t].pc = "pingVersion"
          /\ task'[t].seen = [protocol |-> task[t].seen.protocol, version |-> runtime.version]
      BY <1>1, <3>1, QuietDoes
    <3>3. task[t].seen.protocol = runtime.protocol /\ Agree(runtime)
      BY <3>2 DEF PairInv
    <3> QED
      BY <3>2, <3>3 DEF Agree
  <2> QED
    BY <1>1, <1>a, <1>b, <2>1, <2>2, <2>3, <2>4, QuietUnlocks, PairKeeps
<1>2. CASE Marking(t)
  <2>1. task[t].pc # "syncVersion" /\ task'[t].pc \notin {"syncVersion", "pingVersion", "pong"}
    BY <1>2, MarkingDoes
  <2> QED
    BY <1>2, <1>b, <2>1, MarkingDoes, PairKeeps
<1>3. CASE Drop(t) \/ Remove(t)
  BY <1>3, <1>b, DroppingDoes, PairKeeps
<1>4. CASE Pong(t) \/ OpenRequest1(t) \/ Connect(t)
  <2>1. \A pair \in pongs' : Whole(pair)
    <3>1. Has(Peer(t)) => Whole(Session(t).pair)
      BY <1>0 DEF PairInv, Session
    <3>2. task[t].pc = "pong" => Whole(task[t].seen)
      BY DEF PairInv, Whole
    <3> QED
      BY <1>4, <1>b, <3>1, <3>2, AnsweringDoes
  <2> QED
    BY <1>4, <1>a, <2>1, AnsweringDoes, PairKeeps
<1>5. CASE SyncProtocol(t)
  <2>1. /\ task[t].pc = "syncProtocol" /\ task'[t].pc = "syncVersion" /\ task'[t].peer = task[t].peer
        /\ pongs' = pongs /\ connections' = connections
        /\ runtime'.protocol = AsU16(Current(t).protocol) /\ task'[t].todo = task[t].todo
    BY <1>5, SyncProtocolDoes DEF Stays
  <2> QED
    BY <2>1 DEF PairInv, Current, Has, Ensuring
<1>6. CASE SyncVersion(t)
  <2>1. /\ task[t].pc = "syncVersion" /\ task'[t].pc \in {"save", "packet"}
        /\ pongs' = pongs /\ connections' = connections
        /\ runtime'.protocol = runtime.protocol /\ runtime'.version = Resolve(AsU16(Current(t).protocol))
    BY <1>6, SyncVersionDoes
  <2>2. Agree(runtime')
    BY <2>1 DEF PairInv, Agree
  <2> QED
    BY <2>1, <2>2 DEF PairInv, Has, Agree, Ensuring
<1>7. CASE Save(t)
  BY <1>7, <1>a, <1>b, SaveDoes, PairKeeps
<1>8. CASE Send(t)
  <2>1. task'[t].pc \notin {"syncVersion", "pingVersion", "pong"}
    BY <1>8, SendDoes
  <2> QED
    BY <1>8, <1>a, <1>b, <2>1, SendDoes, PairKeeps
<1>9. CASE ReadProtocol(t)
  <2>1. /\ task[t].pc \in Ensuring /\ task'[t].pc = task[t].pc /\ task'[t].seen.protocol = runtime.protocol
        /\ runtime' = runtime /\ pongs' = pongs /\ connections' = connections /\ task'[t].peer = task[t].peer
    BY <1>9, ReadProtocolDoes DEF Stays
  <2> QED
    BY <2>1 DEF PairInv, Ensuring, Has
<1>10. CASE ReadVersion(t)
  <2>1. /\ task[t].pc \in Ensuring /\ task' = task /\ lock = t /\ ~Has(Peer(t)) /\ lock' = lock
        /\ runtime' = runtime /\ pongs' = pongs /\ Elsewhere(t)
        /\ connections'[Peer(t)] \in Sessions
        /\ connections'[Peer(t)].pair = [protocol |-> task[t].seen.protocol, version |-> runtime.version]
    BY <1>10, ReadVersionDoes
  <2>2. task[t].seen.protocol = runtime.protocol /\ Agree(runtime)
    BY <2>1 DEF PairInv, Ensuring
  <2>3. Whole(connections'[Peer(t)].pair)
    BY <2>1, <2>2 DEF Agree, Whole
  <2>4. \A p \in Peers : Has(p)' => Whole(connections'[p].pair)
    BY <2>1, <2>3 DEF PairInv, Has, Elsewhere
  <2>5. connections'[Peer(t)] # NoSession
    BY <2>1 DEF Sessions, NoSession
  <2>6. Peer(t)' = Peer(t)
    BY <2>1 DEF Peer
  <2> QED
    BY <2>1, <2>2, <2>4, <2>5, <2>6 DEF PairInv, Has, Ensuring
<1>11. ASSUME NEW p \in caller.peers, NEW d \in caller.datagrams, Arrive(t, p, d) PROVE PairInv(t)'
  BY <1>11, <1>a, <1>b, ArriveDoes, PairKeeps
<1>12. CASE UNCHANGED vars
  BY <1>12 DEF vars, PairInv, Has, Peer, Current
<1>13. CASE Locking(t)
  <2>1. connections' = connections /\ pongs' = pongs /\ runtime' = runtime /\ LocksFit(t)
    BY <1>13, LockingDoes
  <2>2. task[t].pc # "syncVersion" /\ task'[t].pc \notin {"syncVersion", "pingVersion", "pong"}
    BY <1>13, LockingDoes, CallTyped DEF Sound, Clearing
  <2> QED
    BY <1>a, <1>b, <2>1, <2>2, PairKeeps
<1> QED
  BY <1>1, <1>2, <1>3, <1>4, <1>5, <1>6, <1>7, <1>8, <1>9, <1>10, <1>11, <1>12, <1>13, SoloNext DEF Kinds

(* One datagram at a time, protocol and version of every pair advertised or *)
(* put in a session agree, or are those of a number too wide for 16 bits;   *)
(* with any number of tasks, the runtime pair is right when nobody writes   *)
(* it, unless two calls of sync_client_version overlapped.                  *)
THEOREM VersionPairsStayWhole == Spec => []VersionPairsAgree
<1> DEFINE Inv == /\ TypeInv /\ SoloHas /\ SyncInv
                  /\ \A t \in Tasks : caller.tasks = {t} => PairInv(t)
<1>1. Init => Inv
  <2>1. ASSUME Init PROVE /\ Agree(runtime) /\ lock = NoTask /\ pongs = {} /\ \A p \in Peers : ~Has(p)
                          /\ \A t \in Tasks : task[t].pc = "idle"
    BY <2>1, ConfigTyped DEF Init, Idle, Begun, Has
  <2>2. Init => SyncInv
    BY <2>1 DEF SyncInv, Syncing, At
  <2>3. ASSUME Init, NEW t \in Tasks PROVE PairInv(t)
    BY <2>1, <2>3, ConstantsAssumption DEF PairInv, At
  <2> QED
    BY <2>2, <2>3, TypeInit, SoloHasInit
<1>2. Inv /\ [Next]_vars => Inv'
  <2> SUFFICES ASSUME Inv, [Next]_vars, NEW t \in Tasks, caller'.tasks = {t} PROVE PairInv(t)'
    BY TypeStep, SoloHasStep, SyncStep
  <2>1. caller.tasks = {t} /\ HasInv(t) /\ PairInv(t)
    BY CallerStays DEF SoloHas
  <2> QED
    BY <2>1, PairStep
<1>3. Inv => VersionPairsAgree
  BY DEF PairInv, SyncInv, VersionPairsAgree, OneAtATime, Advertised, Whole
<1> QED
  BY <1>1, <1>2, <1>3, PTL DEF Spec

===============================================================================
