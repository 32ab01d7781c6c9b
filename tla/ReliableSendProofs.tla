------------------------- MODULE ReliableSendProofs -------------------------
(***************************************************************************)
(* What holds of the send path for any tasks, messages, sizes and limits:  *)
(* its numbers are unique, its flow control stays within its limits, the   *)
(* bytes in flight cover the pending messages, the timer gives up a frame  *)
(* after its attempts, and no reliable frame is forgotten.                 *)
(***************************************************************************)
EXTENDS ReliableSend, FiniteSetTheorems, TLAPS

(***************************************************************************)
(* Unique numbers.  Every frame has numbers its session gave away already, *)
(* and what is kept for retransmission is one of these frames.             *)
(***************************************************************************)
GivenAway(f) ==
    /\ f.life <= drops
    /\ f.life = drops => /\ alive
                         /\ f.seq < packetSeq
                         /\ Reliable(f) => f.rel < reliableSeq
                         /\ Ordered(f) => f.ord < orderIndex

NumberTypes ==
    /\ alive \in BOOLEAN
    /\ packetSeq \in Nat /\ reliableSeq \in Nat /\ orderIndex \in Nat /\ drops \in Nat
    /\ pc \in [Senders -> {"idle", "allocate", "register", "transmit"}]
    /\ job \in [Senders -> Frames] /\ held \in [Senders -> Frames]
    /\ wire \subseteq Frames
    /\ resend \in [{"nack", "worker"} -> SUBSET Frames]

PendingTypes ==
    \A q \in DOMAIN pending : pending[q] \in [frame : Frames, age : Nat, attempts : Nat]

NumberInv == /\ NumberTypes
             /\ \A f \in Numbered : GivenAway(f)
             /\ NumbersAreUnique
             /\ \A q \in DOMAIN pending : pending[q].frame \in Frames

(* The frames with numbers are frames.                                      *)
LEMMA NumberedType == ASSUME NumberInv PROVE Numbered \subseteq Frames
  BY DEF NumberInv, NumberTypes, Numbered

(* A step that leaves the numbers, the session's being alive, the frames    *)
(* and the network alone keeps the numbers unique, whatever it does to the  *)
(* pending messages and the flow control.                                   *)
LEMMA FramesAlone ==
  ASSUME NumberInv, UNCHANGED <<alive, counters, job, held, pc, drops>>,
         wire \subseteq wire', wire' \subseteq Numbered,
         resend' \in [{"nack", "worker"} -> SUBSET Numbered],
         \A q \in DOMAIN pending' : pending'[q].frame \in Numbered
  PROVE  NumberInv'
<1>1. Numbered' \subseteq Numbered
  BY DEF Numbered
<1>2. Numbered \subseteq Frames
  BY NumberedType
<1>3. NumberTypes'
  BY <1>2 DEF NumberInv, NumberTypes, counters
<1>4. \A f \in Numbered : GivenAway(f)'
  BY DEF NumberInv, GivenAway, counters, Reliable, Ordered
<1>5. NumbersAreUnique'
  BY <1>1 DEF NumberInv, NumbersAreUnique, Reliable, Ordered
<1> QED
  BY <1>1, <1>2, <1>3, <1>4, <1>5 DEF NumberInv

(* The entries of the pending table are whole.                              *)
LEMMA PendingInit == Init => PendingTypes
  BY DEF Init, PendingTypes, NoFn

(* Every step keeps the types of the pending messages.                      *)
LEMMA PendingStep == NumberTypes /\ PendingTypes /\ [Next]_vars => PendingTypes'
<1> SUFFICES ASSUME NumberTypes, PendingTypes, [Next]_vars PROVE PendingTypes'
  OBVIOUS
<1>1. ASSUME NEW t \in Senders, SenderStep(t) PROVE PendingTypes'
  <2>1. CASE Register(t)
    <3>1. held[t] \in Frames
      BY DEF NumberTypes
    <3>2. CASE alive
      <4>1. \A q \in DOMAIN pending' : pending'[q] = IF q = held[t].seq THEN [frame |-> held[t], age |-> 0, attempts |-> 1]
                                                   ELSE pending[q]
        BY <2>1, <3>2 DEF Register
      <4>2. DOMAIN pending' = DOMAIN pending \cup {held[t].seq}
        BY <2>1, <3>2 DEF Register
      <4> QED BY <3>1, <4>1, <4>2 DEF PendingTypes
    <3>3. CASE ~alive
      BY <2>1, <3>3 DEF Register, PendingTypes
    <3> QED BY <3>2, <3>3
  <2>2. CASE Allocate(t)
    BY <2>2 DEF Allocate, NextSeq, FreshSession, NoFn, PendingTypes
  <2>3. CASE Transmit(t) \/ TransmitFails(t) \/ \E m \in Messages : Send(t, m)
    BY <2>3 DEF Transmit, TransmitFails, Send, session, PendingTypes
  <2> QED BY <1>1, <2>1, <2>2, <2>3 DEF SenderStep
<1>2. CASE Walk
  <2>1. ASSUME NEW q \in todo, AckOne(q) PROVE PendingTypes'
    BY <2>1 DEF AckOne, Settle, Without, PendingTypes
  <2>2. ASSUME NEW q \in todo, NackOne(q) \/ WorkerOne(q) PROVE PendingTypes'
    <3>1. /\ q \in DOMAIN pending
          /\ pending' = [pending EXCEPT ![q].attempts = MinOf(@ + 1, MaxAttempts + 1), ![q].age = 0]
      BY <2>2 DEF NackOne, WorkerOne, TakeUp, Attempt
    <3>2. pending[q] \in [frame : Frames, age : Nat, attempts : Nat]
      BY <3>1 DEF PendingTypes
    <3>3. MinOf(pending[q].attempts + 1, MaxAttempts + 1) \in Nat
      BY <3>2, TimeAssumption DEF MinOf
    <3> QED BY <3>1, <3>2, <3>3 DEF PendingTypes
  <2>3. CASE EndWalk \/ \E q \in todo, who \in Walkers : Unknown(who, q)
    BY <2>3 DEF EndWalk, Unknown, session, PendingTypes
  <2> QED BY <1>2, <2>1, <2>2, <2>3 DEF Walk
<1>3. CASE Tick
  <2>1. \A q \in DOMAIN pending' : q \in DOMAIN pending /\ pending'[q] = [pending[q] EXCEPT !.age = MinOf(@ + 1, AgeCap)]
    BY <1>3 DEF Tick
  <2>2. \A a \in Nat : MinOf(a + 1, AgeCap) \in Nat
    BY TimeAssumption DEF MinOf
  <2> QED BY <2>1, <2>2 DEF PendingTypes
<1>4. CASE Prune \/ DropSession
  BY <1>4 DEF Prune, DropSession, Without, NoFn, PendingTypes
<1>5. CASE \/ AckArrives \/ NackArrives \/ WorkerWakes \/ UNCHANGED vars
           \/ \E f \in wire : Arrives(f)
           \/ \E who \in {"nack", "worker"} : Retransmit(who)
  BY <1>5 DEF AckArrives, NackArrives, WorkerWakes, StartWalk, Arrives, Retransmit, vars, session, PendingTypes
<1> QED BY <1>1, <1>2, <1>3, <1>4, <1>5 DEF Next

(* The invariant of the numbers holds at first.                             *)
LEMMA NumberInit == Init => NumberInv
  BY DEF Init, NumberInv, NumberTypes, Numbered, NumbersAreUnique, NoFn, NoFrame, Frames

(* A sender takes a message.                                                *)
LEMMA NumberSend ==
  ASSUME NumberInv, NEW t \in Senders, NEW m \in Messages, Send(t, m) PROVE NumberInv'
<1>1. Numbered' = Numbered
  BY DEF Send, Goto, Numbered, NumberInv, NumberTypes, session, locking, network
<1>2. NumberTypes'
  BY DEF Send, Goto, NumberInv, NumberTypes, Frames, NoFrame, network, session, locking, history, counters
<1> QED
  BY <1>1, <1>2 DEF Send, NumberInv, GivenAway, NumbersAreUnique, network, session, locking, history, counters

(* The one step that gives numbers away.                                    *)
LEMMA NumberAllocate ==
  ASSUME NumberInv, NEW t \in Senders, Allocate(t) PROVE NumberInv'
<1> DEFINE shape == Shape[job[t].msg]
           seq == IF alive THEN packetSeq ELSE 1
           rel == IF alive THEN reliableSeq ELSE 0
           ord == IF alive THEN orderIndex ELSE 0
           next == IF shape.reliable THEN "register" ELSE "transmit"
<1> PICK new : new = [job[t] EXCEPT !.seq = seq, !.rel = rel, !.ord = ord, !.life = drops]
  OBVIOUS
<1>1. /\ NumberTypes
      /\ held' = [held EXCEPT ![t] = new] /\ pc' = [pc EXCEPT ![t] = next]
      /\ packetSeq' = seq + 1
      /\ reliableSeq' = IF shape.reliable THEN rel + 1 ELSE rel
      /\ orderIndex' = IF shape.ordered THEN ord + 1 ELSE ord
      /\ pc[t] = "allocate" /\ UNCHANGED <<resend, job, wire, drops>>
  BY DEF Allocate, NextSeq, Goto, locking, network, history, NumberInv
<1>2. /\ new \in Frames /\ new.msg = job[t].msg /\ new.life = drops
      /\ new.seq = seq /\ new.rel = rel /\ new.ord = ord
      /\ seq \in Nat /\ rel \in Nat /\ ord \in Nat
  <2>1. job[t] \in Frames /\ seq \in Nat /\ rel \in Nat /\ ord \in Nat /\ drops \in Nat
    BY <1>1 DEF NumberTypes
  <2> QED BY <2>1 DEF Frames
<1>4. alive' = TRUE /\ (alive => pending' = pending) /\ (~alive => pending' = NoFn)
  BY <1>1 DEF Allocate, NextSeq, FreshSession, NumberTypes
<1>3. Numbered' \subseteq Numbered \cup {new}
  <2>1. \A q \in DOMAIN pending' : q \in DOMAIN pending /\ pending'[q] = pending[q]
    BY <1>1, <1>4 DEF NumberTypes, NoFn
  <2> QED
    BY <1>1, <2>1 DEF Numbered, NumberTypes
<1>5. NumberTypes'
  BY <1>1, <1>2, <1>4 DEF NumberTypes
<1>6. GivenAway(new)'
  BY <1>1, <1>2, <1>4 DEF GivenAway, Reliable, Ordered, NumberTypes
<1>7. ASSUME NEW f \in Numbered PROVE GivenAway(f)'
  <2>1. f \in Frames /\ GivenAway(f)
    BY NumberedType DEF NumberInv
  <2> QED
    BY <1>1, <1>4, <2>1 DEF GivenAway, NumberTypes, Frames, Reliable, Ordered
<1>8. ASSUME NEW f \in Numbered, f.life = drops
      PROVE  /\ f.seq # new.seq
             /\ Reliable(f) => f.rel # new.rel
             /\ Ordered(f) => f.ord # new.ord
  <2>1. f \in Frames /\ GivenAway(f)
    BY NumberedType DEF NumberInv
  <2> QED
    BY <1>2, <1>8, <2>1 DEF GivenAway, Frames
<1>9. NumbersAreUnique'
  <2> SUFFICES ASSUME NEW f \in Numbered', NEW g \in Numbered', f # g, f.life = g.life
               PROVE  /\ f.seq # g.seq
                      /\ Reliable(f) /\ Reliable(g) => f.rel # g.rel
                      /\ Ordered(f) /\ Ordered(g) => f.ord # g.ord
    BY DEF NumbersAreUnique, Reliable, Ordered
  <2>1. CASE f = new
    BY <1>2, <1>3, <1>8, <2>1
  <2>2. CASE g = new
    BY <1>2, <1>3, <1>8, <2>2
  <2>3. CASE f \in Numbered /\ g \in Numbered
    BY <2>3 DEF NumberInv, NumbersAreUnique
  <2> QED
    BY <1>3, <2>1, <2>2, <2>3
<1> QED
  BY <1>1, <1>3, <1>4, <1>5, <1>6, <1>7, <1>9 DEF NumberInv, NoFn

(* A frame that was numbered is registered.                                 *)
LEMMA NumberRegister ==
  ASSUME NumberInv, NEW t \in Senders, Register(t) PROVE NumberInv'
<1>1. /\ pc[t] = "register" /\ pc' = [pc EXCEPT ![t] = "transmit"]
      /\ UNCHANGED <<alive, counters, job, held, drops, wire, resend>>
  BY DEF Register, Goto, locking, network, history
<1>3. held[t] \in Numbered
  BY <1>1 DEF Numbered
<1>4. \A q \in DOMAIN pending' : pending'[q].frame \in Numbered
  <2>1. CASE alive
    <3>1. \A q \in DOMAIN pending' : pending'[q] = IF q = held[t].seq THEN [frame |-> held[t], age |-> 0, attempts |-> 1]
                                                 ELSE pending[q]
      BY <2>1 DEF Register
    <3>2. DOMAIN pending' = DOMAIN pending \cup {held[t].seq}
      BY <2>1 DEF Register
    <3> QED BY <1>3, <3>1, <3>2 DEF Numbered
  <2>2. CASE ~alive
    BY <2>2 DEF Register, Numbered
  <2> QED BY <2>1, <2>2
<1>2. Numbered' \subseteq Numbered
  BY <1>1, <1>4 DEF NumberInv, NumberTypes, Numbered
<1>5. NumberTypes'
  BY <1>1 DEF NumberInv, NumberTypes, counters
<1>6. \A q \in DOMAIN pending' : pending'[q].frame \in Frames
  BY <1>4, NumberedType
<1> QED
  BY <1>1, <1>2, <1>5, <1>6 DEF NumberInv, GivenAway, NumbersAreUnique, Reliable, Ordered, counters

(* The frame moves from the sender to the network.                          *)
LEMMA NumberTransmit ==
  ASSUME NumberInv, NEW t \in Senders, Transmit(t) PROVE NumberInv'
<1>1. /\ pc[t] = "transmit" /\ wire' = wire \cup {held[t]}
      /\ \E l \in {"allocate", "idle"} : pc' = [pc EXCEPT ![t] = l]
      /\ held' = [held EXCEPT ![t] = NoFrame]
      /\ UNCHANGED <<alive, counters, pending, drops, resend>>
  BY DEF Transmit, Goto, session, locking, history
<1>2. Numbered' \subseteq Numbered
  BY <1>1 DEF NumberInv, NumberTypes, Numbered
<1>3. job' \in [Senders -> Frames]
  <2>1. job \in [Senders -> Frames] /\ NoFrame \in Frames
    BY DEF NumberInv, NumberTypes, NoFrame, Frames
  <2>2. [job[t] EXCEPT !.part = @ + 1] \in Frames
    BY <2>1 DEF Frames
  <2>3. \/ job' = [job EXCEPT ![t] = [job[t] EXCEPT !.part = @ + 1]]
        \/ job' = [job EXCEPT ![t] = NoFrame]
    BY DEF Transmit
  <2> QED BY <2>1, <2>2, <2>3
<1>4. NumberTypes'
  <2>1. NoFrame \in Frames BY DEF NoFrame, Frames
  <2> QED BY <1>1, <1>3, <2>1 DEF NumberInv, NumberTypes, counters
<1> QED
  BY <1>1, <1>2, <1>4 DEF NumberInv, GivenAway, NumbersAreUnique, Reliable, Ordered, counters

(* The frame is not transmitted, and its number not used again.             *)
LEMMA NumberTransmitFails ==
  ASSUME NumberInv, NEW t \in Senders, TransmitFails(t) PROVE NumberInv'
<1>1. /\ pc' = [pc EXCEPT ![t] = "idle"]
      /\ held' = [held EXCEPT ![t] = NoFrame] /\ job' = [job EXCEPT ![t] = NoFrame]
      /\ UNCHANGED <<alive, counters, pending, drops, resend, wire>>
  BY DEF TransmitFails, Goto, session, locking, network, history
<1>2. Numbered' \subseteq Numbered
  BY <1>1 DEF NumberInv, NumberTypes, Numbered
<1>3. NumberTypes'
  <2>1. NoFrame \in Frames BY DEF NoFrame, Frames
  <2> QED BY <1>1, <2>1 DEF NumberInv, NumberTypes, counters
<1> QED
  BY <1>1, <1>2, <1>3 DEF NumberInv, GivenAway, NumbersAreUnique, Reliable, Ordered, counters

(* The visits of the handlers and the worker.                               *)
LEMMA NumberVisit ==
  ASSUME NumberInv, NEW q, NEW who \in {"nack", "worker"}, AckOne(q) \/ TakeUp(who, q) PROVE NumberInv'
<1>1. UNCHANGED <<alive, counters, job, held, pc, drops, wire>> /\ q \in DOMAIN pending
  BY DEF AckOne, Settle, TakeUp, Attempt, sender, network, history
<1>2. CASE AckOne(q)
  <2>1. resend' = resend /\ pending' = [x \in DOMAIN pending \ {q} |-> pending[x]]
    BY <1>2 DEF AckOne, Settle, Without
  <2>2. resend' \in [{"nack", "worker"} -> SUBSET Numbered]
    BY <2>1 DEF NumberInv, NumberTypes, Numbered
  <2>3. wire' \subseteq Numbered
    BY <1>1 DEF Numbered
  <2> QED BY <1>1, <2>1, <2>2, <2>3, FramesAlone DEF Numbered
<1>3. CASE TakeUp(who, q)
  <2>1. resend' = [resend EXCEPT ![who] = @ \cup {pending[q].frame}]
    BY <1>3 DEF TakeUp, Attempt
  <2>2. resend' \in [{"nack", "worker"} -> SUBSET Numbered]
    BY <1>1, <2>1 DEF NumberInv, NumberTypes, Numbered
  <2>3. \A x \in DOMAIN pending' : x \in DOMAIN pending /\ pending'[x].frame = pending[x].frame
    BY <1>3 DEF TakeUp, Attempt
  <2>4. wire' \subseteq Numbered
    BY <1>1 DEF Numbered
  <2>5. \A x \in DOMAIN pending' : pending'[x].frame \in Numbered
    BY <2>3 DEF Numbered
  <2> QED BY <1>1, <2>2, <2>4, <2>5, FramesAlone
<1> QED BY <1>2, <1>3

(* Frames taken up are sent again, under the numbers they have.             *)
LEMMA NumberRetransmit ==
  ASSUME NumberInv, NEW who \in {"nack", "worker"}, Retransmit(who) PROVE NumberInv'
<1>1. /\ wire' = wire \cup resend[who] /\ resend' = [resend EXCEPT ![who] = {}]
      /\ UNCHANGED <<alive, counters, job, held, pc, drops, pending>>
  BY DEF Retransmit, session, sender, history
<1>2. wire' \subseteq Numbered
  BY <1>1 DEF NumberInv, Numbered
<1>3. resend' \in [{"nack", "worker"} -> SUBSET Numbered]
  BY <1>1 DEF NumberInv, NumberTypes, Numbered
<1> QED BY <1>1, <1>2, <1>3, FramesAlone DEF Numbered

(* Time passes, or old messages expire.                                     *)
LEMMA NumberTime ==
  ASSUME NumberInv, PendingTypes, Tick \/ Prune PROVE NumberInv'
<1>1. UNCHANGED <<alive, counters, job, held, pc, drops, wire, resend>>
  BY DEF Tick, Prune, locking, sender, network, history
<1>2. \A q \in DOMAIN pending' : q \in DOMAIN pending /\ pending'[q].frame = pending[q].frame
  <2>1. CASE Tick
    <3>1. \A q \in DOMAIN pending' : q \in DOMAIN pending /\ pending'[q] = [pending[q] EXCEPT !.age = MinOf(@ + 1, AgeCap)]
      BY <2>1 DEF Tick
    <3> QED BY <3>1 DEF PendingTypes
  <2>2. CASE Prune
    BY <2>2 DEF Prune, Without
  <2> QED BY <2>1, <2>2
<1>3. wire' \subseteq Numbered /\ resend' \in [{"nack", "worker"} -> SUBSET Numbered]
  BY <1>1 DEF NumberInv, NumberTypes, Numbered
<1>4. \A q \in DOMAIN pending' : pending'[q].frame \in Numbered
  BY <1>2 DEF Numbered
<1> QED BY <1>1, <1>3, <1>4, FramesAlone

(* With the session its numbers end: none of its frames bears the next life. *)
LEMMA NumberDrop ==
  ASSUME NumberInv, DropSession PROVE NumberInv'
<1>1. /\ alive' = FALSE /\ pending' = NoFn /\ drops' = drops + 1
      /\ UNCHANGED <<counters, job, held, pc, wire, resend>>
  BY DEF DropSession, locking, sender, network, history
<1>2. Numbered' \subseteq Numbered
  BY <1>1 DEF Numbered, NoFn
<1>3. Numbered \subseteq Frames
  BY NumberedType
<1>4. ASSUME NEW f \in Numbered PROVE GivenAway(f)'
  <2>1. f.life \in Nat /\ f.life <= drops /\ drops \in Nat
    BY <1>3 DEF NumberInv, GivenAway, Frames, NumberTypes
  <2> QED BY <1>1, <2>1 DEF GivenAway
<1>5. NumberTypes'
  <2>1. drops' \in Nat
    BY <1>1 DEF NumberInv, NumberTypes
  <2>2. alive' \in BOOLEAN
    BY <1>1
  <2>3. UNCHANGED <<packetSeq, reliableSeq, orderIndex, job, held, pc, wire, resend>>
    BY <1>1 DEF counters
  <2> QED BY <2>1, <2>2, <2>3 DEF NumberInv, NumberTypes
<1> QED
  BY <1>1, <1>2, <1>4, <1>5 DEF NumberInv, NumbersAreUnique, Reliable, Ordered, NoFn

(* The steps that only move the lock, or the peer.                          *)
LEMMA NumberIdle ==
  ASSUME NumberInv,
         UNCHANGED <<session, resend, sender, wire, drops>>
  PROVE  NumberInv'
<1>1. UNCHANGED <<alive, counters, pending, resend, job, held, pc, wire, drops>>
  BY DEF session, sender
<1>2. wire' \subseteq Numbered /\ resend' \in [{"nack", "worker"} -> SUBSET Numbered]
  BY <1>1 DEF NumberInv, NumberTypes, Numbered
<1> QED BY <1>1, <1>2, FramesAlone DEF Numbered

(* Every step keeps the numbers unique.                                     *)
LEMMA NumberStep == NumberInv /\ PendingTypes /\ [Next]_vars => NumberInv'
<1> SUFFICES ASSUME NumberInv, PendingTypes, [Next]_vars PROVE NumberInv'
  OBVIOUS
<1>1. ASSUME NEW t \in Senders, SenderStep(t) PROVE NumberInv'
  BY <1>1, NumberSend, NumberAllocate, NumberRegister, NumberTransmit, NumberTransmitFails
  DEF SenderStep
<1>2. ASSUME NEW f \in wire, Arrives(f) PROVE NumberInv'
  BY <1>2, NumberIdle DEF Arrives, history, locking
<1>3. CASE AckArrives \/ NackArrives \/ WorkerWakes
  BY <1>3, NumberIdle DEF AckArrives, NackArrives, WorkerWakes, StartWalk, network, history
<1>4. CASE Walk
  <2>1. ASSUME NEW q \in todo, AckOne(q) \/ NackOne(q) \/ WorkerOne(q) PROVE NumberInv'
    BY <2>1, NumberVisit DEF NackOne, WorkerOne
  <2>2. ASSUME NEW q \in todo, NEW who \in Walkers, Unknown(who, q) PROVE NumberInv'
    BY <2>2, NumberIdle DEF Unknown, network, history
  <2>3. CASE EndWalk
    BY <2>3, NumberIdle DEF EndWalk, network, history
  <2> QED BY <1>4, <2>1, <2>2, <2>3 DEF Walk
<1>5. ASSUME NEW who \in {"nack", "worker"}, Retransmit(who) PROVE NumberInv'
  BY <1>5, NumberRetransmit
<1>6. CASE Tick \/ Prune
  BY <1>6, NumberTime
<1>7. CASE DropSession
  BY <1>7, NumberDrop
<1>8. CASE UNCHANGED vars
  BY <1>8, NumberIdle DEF vars, locking, network, history
<1> QED
  BY <1>1, <1>2, <1>3, <1>4, <1>5, <1>6, <1>7, <1>8 DEF Next

(* However many tasks send, and whenever the session is dropped, no two     *)
(* frames of one session share a number (allocate_sequence, frames.rs).     *)
THEOREM NumbersStayUnique == Spec => []NumbersAreUnique
<1>1. NumberInv => NumbersAreUnique /\ NumberTypes
  BY DEF NumberInv
<1> QED
  BY NumberInit, PendingInit, NumberStep, PendingStep, <1>1, PTL DEF Spec

(***************************************************************************)
(* Flow control.                                                           *)
(***************************************************************************)
FlowInv == /\ window \in Nat /\ threshold \in Nat /\ rto \in Nat
           /\ srtt \in Int \cup {NoRtt}
           /\ FlowWithinLimits

(* A quotient is an integer.                                                *)
LEMMA SmoothedType ==
  ASSUME NEW age \in Nat, srtt \in Int \cup {NoRtt} PROVE SmoothedRtt(age) \in Int
  BY TimeAssumption DEF SmoothedRtt

(* An acknowledgement keeps the limits of the flow control.                 *)
LEMMA FlowAck ==
  ASSUME FlowInv, PendingTypes, NEW q, AckOne(q) PROVE FlowInv'
<1> DEFINE s == SmoothedRtt(pending[q].age)
<1>1. s \in Int
  BY SmoothedType DEF FlowInv, AckOne, Settle, PendingTypes
<1>2. rto' = MinOf(MaxOf(2 * s, RtoMin), RtoMax) /\ srtt' = s
  BY DEF AckOne, Settle
<1> HIDE DEF s
<1>3. rto' \in Nat /\ RtoMin <= rto' /\ rto' <= RtoMax
  BY <1>1, <1>2, TimeAssumption DEF MinOf, MaxOf
<1>4. window' \in Nat /\ WindowFloor <= window'
  BY SizeAssumption DEF AckOne, Settle, FlowInv, FlowWithinLimits, MaxOf
<1>5. UNCHANGED threshold
  BY DEF AckOne, Settle
<1> QED BY <1>1, <1>2, <1>3, <1>4, <1>5 DEF FlowInv, FlowWithinLimits

(* So does backing off.                                                     *)
LEMMA FlowBackOff ==
  ASSUME FlowInv, NEW q, NEW who, TakeUp(who, q) PROVE FlowInv'
<1>1. /\ threshold' = MaxOf(window \div 2, WindowFloor)
      /\ window' = threshold'
      /\ rto' = MinOf(rto * 2, RtoMax) /\ srtt' = srtt
  BY DEF TakeUp, Attempt, BackOff, HalvedToFloor
<1>2. threshold' \in Nat /\ WindowFloor <= threshold'
  BY <1>1, SizeAssumption DEF FlowInv, MaxOf
<1>3. window' \in Nat /\ WindowFloor <= window'
  BY <1>1, <1>2, SizeAssumption DEF MaxOf
<1>4. rto' \in Nat /\ RtoMin <= rto' /\ rto' <= RtoMax
  BY <1>1, TimeAssumption DEF FlowInv, FlowWithinLimits, MinOf
<1> QED BY <1>1, <1>2, <1>3, <1>4 DEF FlowInv, FlowWithinLimits

(* The limits hold at first.                                                *)
LEMMA FlowInit == Init => FlowInv
  BY SizeAssumption, TimeAssumption DEF Init, FlowInv, FlowWithinLimits

(* Every step keeps the limits.                                             *)
LEMMA FlowStep == FlowInv /\ PendingTypes /\ [Next]_vars => FlowInv'
<1> SUFFICES ASSUME FlowInv, PendingTypes, [Next]_vars PROVE FlowInv'
  OBVIOUS
<1>1. CASE UNCHANGED <<window, threshold, rto, srtt>>
  BY <1>1 DEF FlowInv, FlowWithinLimits
<1>2. ASSUME NEW t \in Senders, SenderStep(t) PROVE FlowInv'
  <2>1. CASE Allocate(t)
    BY <2>1, <1>1, SizeAssumption, TimeAssumption DEF Allocate, NextSeq, FreshSession, FlowInv, FlowWithinLimits, flow
  <2>2. CASE Register(t) \/ Transmit(t) \/ TransmitFails(t) \/ \E m \in Messages : Send(t, m)
    BY <2>2, <1>1 DEF Register, Transmit, TransmitFails, Send, session, flow
  <2> QED BY <1>2, <2>1, <2>2 DEF SenderStep
<1>3. CASE Walk
  BY <1>1, <1>3, FlowAck, FlowBackOff DEF Walk, NackOne, WorkerOne, Unknown, EndWalk, session, flow
<1>4. CASE \/ AckArrives \/ NackArrives \/ WorkerWakes \/ UNCHANGED vars
           \/ Tick \/ Prune \/ DropSession \/ \E f \in wire : Arrives(f)
           \/ \E who \in {"nack", "worker"} : Retransmit(who)
  BY <1>1, <1>4 DEF AckArrives, NackArrives, WorkerWakes, StartWalk, Arrives, Retransmit, Tick, Prune,
                    DropSession, vars, session, flow
<1> QED BY <1>2, <1>3, <1>4 DEF Next

(* Whatever is acknowledged, complained of or times out, in any order, the  *)
(* window, its threshold and the timeout stay within their limits           *)
(* (handshake.rs, and the resend worker of mod.rs).                         *)
THEOREM FlowStaysWithinLimits == Spec => []FlowWithinLimits
<1>1. NumberInv => NumberTypes
  BY DEF NumberInv
<1>2. FlowInv => FlowWithinLimits
  BY DEF FlowInv
<1> QED
  BY NumberInit, PendingInit, FlowInit, NumberStep, PendingStep, FlowStep, <1>1, <1>2, PTL DEF Spec

(***************************************************************************)
(* The bytes in flight.                                                    *)
(***************************************************************************)
BytesInv == /\ IsFiniteSet(DOMAIN pending)
            /\ inFlight \in Nat
            /\ InFlightCoversPending

(* Fewer entries and as many bytes in flight.                               *)
LEMMA BytesLess ==
  ASSUME BytesInv, inFlight' = inFlight, DOMAIN pending' \subseteq DOMAIN pending PROVE BytesInv'
<1> DEFINE old == Cardinality(DOMAIN pending)
           new == Cardinality(DOMAIN pending')
<1>1. IsFiniteSet(DOMAIN pending') /\ new <= old /\ new \in Nat /\ old \in Nat
  BY FS_Subset, FS_CardinalityType DEF BytesInv
<1>2. FrameSize * old <= inFlight
  BY DEF BytesInv, InFlightCoversPending
<1> HIDE DEF old, new
<1>3. \A k \in Nat, a, b \in Nat : a <= b => k * a <= k * b
  OBVIOUS
<1>4. FrameSize * new <= inFlight
  BY <1>1, <1>2, <1>3, SizeAssumption DEF BytesInv
<1> QED
  BY <1>1, <1>4 DEF BytesInv, InFlightCoversPending, new

(* A registered frame counts in the bytes in flight.                        *)
LEMMA BytesRegister ==
  ASSUME BytesInv, NEW t \in Senders, Register(t) PROVE BytesInv'
<1>1. CASE ~alive
  BY <1>1, BytesLess DEF Register
<1>2. CASE alive
  <2> DEFINE old == Cardinality(DOMAIN pending)
             new == Cardinality(DOMAIN pending')
  <2>1. inFlight' = inFlight + FrameSize /\ DOMAIN pending' = DOMAIN pending \cup {held[t].seq}
    BY <1>2 DEF Register
  <2>2. IsFiniteSet(DOMAIN pending') /\ old \in Nat /\ new \in {old, old + 1}
    BY <2>1, FS_AddElement, FS_CardinalityType DEF BytesInv
  <2>3. FrameSize * old <= inFlight /\ inFlight \in Nat
    BY DEF BytesInv, InFlightCoversPending
  <2> HIDE DEF old, new
  <2>4. FrameSize * (old + 1) = FrameSize * old + FrameSize /\ FrameSize * old \in Nat
    BY <2>2, SizeAssumption
  <2>5. FrameSize * new <= inFlight' /\ inFlight' \in Nat
    BY <2>1, <2>2, <2>3, <2>4, SizeAssumption
  <2> QED
    BY <2>2, <2>5 DEF BytesInv, InFlightCoversPending, new
<1> QED BY <1>1, <1>2

(* An acknowledged frame no longer does, nor is it pending.                 *)
LEMMA BytesAck ==
  ASSUME BytesInv, NEW q, AckOne(q) PROVE BytesInv'
<1> DEFINE old == Cardinality(DOMAIN pending)
           new == Cardinality(DOMAIN pending')
<1>1. /\ q \in DOMAIN pending /\ DOMAIN pending' = DOMAIN pending \ {q}
      /\ inFlight' = MaxOf(inFlight - FrameSize, 0)
  BY DEF AckOne, Settle, Without
<1>2. IsFiniteSet(DOMAIN pending') /\ old \in Nat /\ new \in Nat /\ old = new + 1
  <2>1. IsFiniteSet(DOMAIN pending)
    BY DEF BytesInv
  <2>2. old \in Nat
    BY <2>1, FS_CardinalityType
  <2>3. IsFiniteSet(DOMAIN pending \ {q}) /\ Cardinality(DOMAIN pending \ {q}) = old - 1
    BY <1>1, <2>1, FS_RemoveElement
  <2>4. Cardinality(DOMAIN pending \ {q}) \in Nat
    BY <2>3, FS_CardinalityType
  <2> QED BY <1>1, <2>2, <2>3, <2>4
<1>3. FrameSize * old <= inFlight /\ inFlight \in Nat
  BY DEF BytesInv, InFlightCoversPending
<1> HIDE DEF old, new
<1>4. FrameSize * (new + 1) = FrameSize * new + FrameSize /\ FrameSize * new \in Nat
  BY <1>2, SizeAssumption
<1>5. FrameSize * new <= inFlight' /\ inFlight' \in Nat
  BY <1>1, <1>2, <1>3, <1>4, SizeAssumption DEF MaxOf
<1> QED
  BY <1>2, <1>5 DEF BytesInv, InFlightCoversPending, new

(* An empty table.                                                          *)
LEMMA BytesNone ==
  ASSUME pending = NoFn, inFlight \in Nat PROVE BytesInv
<1>1. DOMAIN pending = {}
  BY DEF NoFn
<1>2. IsFiniteSet(DOMAIN pending) /\ Cardinality(DOMAIN pending) = 0
  BY <1>1, FS_EmptySet
<1>3. FrameSize * 0 = 0
  BY SizeAssumption
<1> QED BY <1>2, <1>3 DEF BytesInv, InFlightCoversPending

(* Every step keeps the pending frames covered by the bytes in flight.      *)
LEMMA BytesStep == BytesInv /\ [Next]_vars => BytesInv'
<1> SUFFICES ASSUME BytesInv, [Next]_vars PROVE BytesInv'
  OBVIOUS
<1>1. CASE inFlight' = inFlight /\ DOMAIN pending' \subseteq DOMAIN pending
  BY <1>1, BytesLess
<1>2. ASSUME NEW t \in Senders, SenderStep(t) PROVE BytesInv'
  <2>1. CASE Allocate(t) /\ ~alive
    <3>1. DOMAIN pending' = {} /\ inFlight' = 0
      BY <2>1 DEF Allocate, NextSeq, FreshSession, NoFn
    <3>2. IsFiniteSet(DOMAIN pending') /\ Cardinality(DOMAIN pending') = 0
      BY <3>1, FS_EmptySet
    <3>3. FrameSize * 0 = 0
      BY SizeAssumption
    <3> QED BY <3>1, <3>2, <3>3 DEF BytesInv, InFlightCoversPending
  <2>2. CASE Allocate(t) /\ alive
    BY <1>1, <2>2 DEF Allocate, NextSeq, flow
  <2>3. CASE Transmit(t) \/ TransmitFails(t) \/ \E m \in Messages : Send(t, m)
    BY <1>1, <2>3 DEF Transmit, TransmitFails, Send, session, flow
  <2> QED BY <1>2, <2>1, <2>2, <2>3, BytesRegister DEF SenderStep
<1>3. CASE Walk
  <2>1. ASSUME NEW q, NEW who, TakeUp(who, q) PROVE BytesInv'
    BY <1>1, <2>1 DEF TakeUp, Attempt, BackOff, HalvedToFloor
  <2>2. CASE EndWalk \/ \E q \in todo, who \in Walkers : Unknown(who, q)
    BY <1>1, <2>2 DEF EndWalk, Unknown, session, flow
  <2> QED BY <1>3, <2>1, <2>2, BytesAck DEF Walk, NackOne, WorkerOne
<1>4. CASE \/ AckArrives \/ NackArrives \/ WorkerWakes \/ UNCHANGED vars
           \/ Tick \/ Prune \/ DropSession \/ \E f \in wire : Arrives(f)
           \/ \E who \in {"nack", "worker"} : Retransmit(who)
  BY <1>1, <1>4 DEF AckArrives, NackArrives, WorkerWakes, StartWalk, Arrives, Retransmit, Tick, Prune,
                    DropSession, Without, NoFn, vars, session, flow
<1> QED BY <1>2, <1>3, <1>4 DEF Next

(* The session counts at least the bytes it waits for, so that the          *)
(* saturating subtraction of the ACK handler never saturates, although old  *)
(* entries expire uncounted and a late registration may replace one         *)
(* (register_pending in frames.rs, handle_ack_packet in handshake.rs).      *)
THEOREM InFlightStaysCovered == Spec => []InFlightCoversPending
<1>1. Init => BytesInv
  BY BytesNone DEF Init
<1>2. BytesInv => InFlightCoversPending
  BY DEF BytesInv
<1> QED
  BY <1>1, <1>2, BytesStep, PTL DEF Spec

(***************************************************************************)
(* Types: what the other invariants leave open.                            *)
(***************************************************************************)
EntryInRange(e) == e.age \in 0..AgeCap /\ e.attempts \in 1..MaxAttempts + 1
RestTypes ==
    /\ DOMAIN pending \subseteq Nat /\ \A q \in DOMAIN pending : EntryInRange(pending[q])
    /\ inFlight \in Nat /\ srtt \in 0..AgeCap \cup {NoRtt}
    /\ lock \in Walkers \cup {"free"} /\ todo \subseteq Nat
    /\ unsent \subseteq Messages /\ received \subseteq wire
    /\ pruned \subseteq Nat /\ drops \in 0..MaxDrops
    /\ DOMAIN timerSends \subseteq Nat /\ \A q \in DOMAIN timerSends : timerSends[q] \in Nat

(* The smoothed round trip lies between the old one and the new sample: the *)
(* differences of durations do not underflow.                               *)
LEMMA Quotient == ASSUME NEW n \in Nat, NEW d \in Nat \ {0} PROVE n \div d \in 0..n
  OBVIOUS

(* A smoothed round trip is no longer than the longest age.                 *)
LEMMA SmoothedRange ==
  ASSUME NEW age \in 0..AgeCap, srtt \in 0..AgeCap \cup {NoRtt}
  PROVE  SmoothedRtt(age) \in 0..AgeCap
<1>1. CASE srtt = NoRtt
  BY <1>1 DEF SmoothedRtt
<1>2. CASE srtt # NoRtt /\ age >= srtt
  <2>1. age - srtt \in Nat /\ (age - srtt) \div RttGain \in 0..(age - srtt)
    BY <1>2, Quotient, TimeAssumption
  <2> QED BY <1>2, <2>1, TimeAssumption DEF SmoothedRtt
<1>3. CASE srtt # NoRtt /\ ~(age >= srtt)
  <2>1. srtt - age \in Nat /\ (srtt - age) \div RttGain \in 0..(srtt - age)
    BY <1>3, Quotient, TimeAssumption
  <2> QED BY <1>3, <2>1, TimeAssumption DEF SmoothedRtt
<1> QED BY <1>1, <1>2, <1>3

(* The other types hold at first.                                           *)
LEMMA RestInit == Init => RestTypes
  BY BoundAssumption DEF Init, RestTypes, NoFn

(* A sender keeps them.                                                     *)
LEMMA RestSender ==
  ASSUME RestTypes, NumberTypes, NEW t \in Senders, SenderStep(t) PROVE RestTypes'
<1>1. CASE Allocate(t)
  <2>1. UNCHANGED <<pending, inFlight, srtt>> \/ FreshSession
    BY <1>1 DEF Allocate, NextSeq, flow
  <2> QED BY <1>1, <2>1 DEF Allocate, NextSeq, RestTypes, FreshSession, NoFn, EntryInRange, locking, network, history
<1>2. CASE Register(t)
  <2>1. held[t].seq \in Nat
    BY DEF NumberTypes, Frames
  <2>2. inFlight' \in Nat
    BY <1>2, SizeAssumption DEF Register, RestTypes
  <2>3. EntryInRange([frame |-> held[t], age |-> 0, attempts |-> 1])
    BY TimeAssumption DEF EntryInRange
  <2>4. DOMAIN pending' \subseteq Nat /\ \A q \in DOMAIN pending' : EntryInRange(pending'[q])
    BY <1>2, <2>1, <2>3 DEF Register, RestTypes
  <2>5. \A q \in DOMAIN pending' : EntryInRange(pending[q])' <=> EntryInRange(pending'[q])
    BY DEF EntryInRange
  <2> QED BY <1>2, <2>2, <2>4, <2>5 DEF Register, RestTypes, locking, network, history
<1>3. CASE Transmit(t) \/ TransmitFails(t) \/ \E m \in Messages : Send(t, m)
  BY <1>3 DEF Transmit, TransmitFails, Send, RestTypes, EntryInRange, session, flow, locking, network, history
<1> QED BY <1>1, <1>2, <1>3 DEF SenderStep

(* A walk through the pending messages keeps them.                          *)
LEMMA RestWalk ==
  ASSUME RestTypes, PendingTypes, Walk PROVE RestTypes'
<1>1. ASSUME NEW q \in todo, AckOne(q) PROVE RestTypes'
  <2>1. inFlight' \in Nat
    BY <1>1, SizeAssumption DEF AckOne, Settle, MaxOf, RestTypes
  <2>2. srtt' \in 0..AgeCap
    BY <1>1, SmoothedRange DEF AckOne, Settle, RestTypes, EntryInRange
  <2>3. DOMAIN pending' \subseteq DOMAIN pending /\ \A r \in DOMAIN pending' : pending'[r] = pending[r]
    BY <1>1 DEF AckOne, Settle, Without
  <2> QED BY <1>1, <2>1, <2>2, <2>3 DEF AckOne, Settle, Visits, RestTypes, EntryInRange, sender, network, history
<1>2. ASSUME NEW q \in todo, NEW who \in {"nack", "worker"}, TakeUp(who, q),
             DOMAIN timerSends' \subseteq Nat /\ \A r \in DOMAIN timerSends' : timerSends'[r] \in Nat
      PROVE  RestTypes'
  <2>1. /\ q \in DOMAIN pending
        /\ pending' = [pending EXCEPT ![q].attempts = MinOf(@ + 1, MaxAttempts + 1), ![q].age = 0]
    BY <1>2 DEF TakeUp, Attempt
  <2>2. MinOf(pending[q].attempts + 1, MaxAttempts + 1) \in 1..MaxAttempts + 1
    BY <2>1, TimeAssumption DEF RestTypes, EntryInRange, MinOf
  <2>3. pending[q] \in [frame : Frames, age : Nat, attempts : Nat]
    BY <2>1 DEF PendingTypes
  <2>4. DOMAIN pending' = DOMAIN pending /\ \A r \in DOMAIN pending' : EntryInRange(pending[r])'
    BY <2>1, <2>2, <2>3, TimeAssumption DEF RestTypes, EntryInRange
  <2> QED BY <1>2, <2>4 DEF TakeUp, Attempt, BackOff, Visits, RestTypes, sender, network
<1>3. ASSUME NEW q \in todo, NackOne(q) PROVE RestTypes'
  BY <1>2, <1>3 DEF NackOne, RestTypes
<1>4. ASSUME NEW q \in todo, WorkerOne(q) PROVE RestTypes'
  <2>1. q \in Nat /\ Times(q) \in Nat
    BY DEF RestTypes, Times
  <2>2. DOMAIN timerSends' \subseteq Nat /\ \A r \in DOMAIN timerSends' : timerSends'[r] \in Nat
    BY <1>4, <2>1 DEF WorkerOne, RestTypes
  <2> QED BY <1>2, <1>4, <2>2 DEF WorkerOne
<1>5. CASE EndWalk \/ \E q \in todo, who \in Walkers : Unknown(who, q)
  BY <1>5 DEF EndWalk, Unknown, Visits, RestTypes, EntryInRange, session, flow, sender, network, history
<1> QED BY <1>1, <1>3, <1>4, <1>5 DEF Walk

(* Every step keeps them.                                                   *)
LEMMA RestStep ==
  NumberTypes /\ PendingTypes /\ RestTypes /\ [Next]_vars => RestTypes'
<1> SUFFICES ASSUME NumberTypes, PendingTypes, RestTypes, [Next]_vars PROVE RestTypes'
  OBVIOUS
<1>1. ASSUME NEW who \in Walkers, NEW r \in SUBSET Nat, StartWalk(who, r) PROVE RestTypes'
  BY <1>1 DEF StartWalk, RestTypes, EntryInRange, session, flow, sender, network, history
<1>2. \A f \in wire : WireSeq(f) \in Nat
  BY SizeAssumption DEF NumberTypes, Frames, WireSeq
<1>3. CASE AckArrives \/ NackArrives
  <2>1. \A r \in HonestRanges : r \in SUBSET Nat
    BY <1>2 DEF HonestRanges, AckRanges, Ackable, RestTypes
  <2>2. \A r \in NackRanges : r \in SUBSET Nat
    BY <1>2 DEF NackRanges
  <2> QED BY <1>1, <1>3, <2>1, <2>2 DEF AckArrives, NackArrives, Walkers
<1>4. CASE WorkerWakes
  <2>1. Due \in SUBSET Nat
    BY DEF Due, RestTypes
  <2> QED BY <1>1, <1>4, <2>1 DEF WorkerWakes, Walkers
<1>5. CASE Tick
  <2>1. \A q \in DOMAIN pending : pending[q] \in [frame : Frames, age : Nat, attempts : Nat]
    BY DEF PendingTypes
  <2>2. \A a \in 0..AgeCap : MinOf(a + 1, AgeCap) \in 0..AgeCap
    BY TimeAssumption DEF MinOf
  <2>3. DOMAIN pending' = DOMAIN pending /\ \A q \in DOMAIN pending' : EntryInRange(pending[q])'
    BY <1>5, <2>1, <2>2 DEF Tick, RestTypes, EntryInRange
  <2> QED BY <1>5, <2>3 DEF Tick, RestTypes, flow, locking, sender, network, history
<1>6. CASE Prune
  <2>1. DOMAIN pending' \subseteq DOMAIN pending /\ \A q \in DOMAIN pending' : pending'[q] = pending[q]
    BY <1>6 DEF Prune, Without
  <2>2. pruned' \subseteq Nat
    BY <1>6 DEF Prune, RestTypes
  <2> QED BY <1>6, <2>1, <2>2 DEF Prune, RestTypes, EntryInRange, flow, locking, sender, network
<1>7. CASE DropSession
  BY <1>7, BoundAssumption DEF DropSession, NoFn, RestTypes, EntryInRange, flow, locking, sender, network
<1>8. CASE UNCHANGED vars \/ (\E f \in wire : Arrives(f)) \/ \E who \in {"nack", "worker"} : Retransmit(who)
  BY <1>8 DEF vars, Arrives, Retransmit, RestTypes, EntryInRange, session, flow, locking, sender, network, history
<1> QED
  BY <1>3, <1>4, <1>5, <1>6, <1>7, <1>8, RestSender, RestWalk DEF Next

(* The state of the send path has its types: no difference of times or of   *)
(* sizes underflows (handshake.rs, ACK handler), and the entries of the     *)
(* pending table are whole.                                                 *)
THEOREM TypeCorrect == Spec => []TypeOK
<1>1. NumberInv => NumberTypes
  BY DEF NumberInv
<1>2. NumberTypes /\ PendingTypes /\ RestTypes /\ FlowInv => TypeOK
  <2> SUFFICES ASSUME NumberTypes, PendingTypes, RestTypes, FlowInv PROVE TypeOK
    OBVIOUS
  <2>1. \A q \in DOMAIN pending : pending[q] \in Entries
    BY DEF PendingTypes, RestTypes, EntryInRange, Entries
  <2> QED BY <2>1 DEF NumberTypes, RestTypes, FlowInv, TypeOK
<1> QED
  BY <1>1, <1>2, NumberInit, NumberStep, PendingInit, PendingStep, RestInit, RestStep, FlowInit, FlowStep,
     PTL DEF Spec

(***************************************************************************)
(* The timer gives up a frame after its attempts, and as long as the       *)
(* session lives no reliable frame is forgotten.                           *)
(***************************************************************************)
Registering(t) == pc[t] = "register"

(* Numbers of the first life: a pending message is kept under the number of *)
(* its frame, and no two tasks are about to register one number.            *)
SeqInv ==
    /\ drops = 0 => alive
    /\ packetSeq >= 1
    /\ \A f \in Numbered : f.seq >= 1
    /\ \A q \in DOMAIN pending : pending[q].frame.seq = q
    /\ drops = 0 =>
          \A t, u \in Senders : t # u /\ Registering(t) /\ Registering(u) => held[t].seq # held[u].seq

Base == NumberInv /\ PendingTypes /\ RestTypes

(* In the first life every number lies below the counter.                   *)
LEMMA FirstLife ==
    ASSUME Base, drops = 0, NEW f \in Numbered
    PROVE  f \in Frames /\ f.life = 0 /\ f.seq < packetSeq /\ f.seq \in Nat /\ packetSeq \in Nat
<1>1. f \in Frames /\ GivenAway(f) /\ packetSeq \in Nat
  <2>1. NumberInv
    BY DEF Base
  <2> QED
    BY <2>1, NumberedType DEF NumberInv, NumberTypes
<1>2. f.life \in Nat /\ f.seq \in Nat
  BY <1>1 DEF Frames
<1> QED
  BY <1>1, <1>2 DEF GivenAway

(* A sender that has a number has a frame with a number.                    *)
LEMMA HeldNumbered ==
    ASSUME NEW t \in Senders, pc[t] \in {"register", "transmit"}
    PROVE  held[t] \in Numbered
BY DEF Numbered

(* The session is dropped by one step only, and once dropped has had drops. *)
LEMMA DropsGrow ==
    ASSUME [Next]_vars, Base
    PROVE  drops' = drops \/ (drops \in Nat /\ drops' = drops + 1)
<1>1. drops \in Nat
  BY DEF Base, NumberInv, NumberTypes
<1>2. drops' = drops \/ drops' = drops + 1
  BY DEF Next, SenderStep, Send, Allocate, Register, Transmit, TransmitFails, Arrives, AckArrives,
         NackArrives, WorkerWakes, StartWalk, Walk, AckOne, NackOne, WorkerOne, TakeUp, Unknown, EndWalk,
         Retransmit, Tick, Prune, DropSession, vars, history
<1> QED
  BY <1>1, <1>2

(* What a step of a sender does to the numbers in the first life.           *)
LEMMA AllocateGives ==
    ASSUME Base, NEW t \in Senders, Allocate(t), alive
    PROVE  /\ packetSeq' = packetSeq + 1 /\ UNCHANGED <<alive, pending, drops, timerSends, lock, todo, resend, wire, received, pruned>>
           /\ held'[t].seq = packetSeq /\ held'[t].msg = job[t].msg /\ t \in DOMAIN held
           /\ held' = [held EXCEPT ![t] = held'[t]]
           /\ pc' = [pc EXCEPT ![t] = IF Shape[job[t].msg].reliable THEN "register" ELSE "transmit"]
           /\ Numbered' = Numbered \cup {held'[t]}
<1>1. /\ held \in [Senders -> Frames] /\ pc \in [Senders -> {"idle", "allocate", "register", "transmit"}]
      /\ job[t] \in Frames /\ packetSeq \in Nat
  BY DEF Base, NumberInv, NumberTypes
<1> DEFINE new == [job[t] EXCEPT !.seq = packetSeq, !.rel = reliableSeq, !.ord = orderIndex, !.life = drops]
           next == IF Shape[job[t].msg].reliable THEN "register" ELSE "transmit"
<1>2. /\ held' = [held EXCEPT ![t] = new] /\ pc' = [pc EXCEPT ![t] = next]
      /\ packetSeq' = packetSeq + 1 /\ pc[t] = "allocate"
      /\ UNCHANGED <<alive, pending, drops, timerSends, lock, todo, resend, wire, received, pruned>>
  BY DEF Allocate, NextSeq, Goto, locking, network, history
<1>3. new.seq = packetSeq /\ new.msg = job[t].msg
  BY <1>1 DEF Frames
<1> HIDE DEF new, next
<1>4. held'[t] = new
  BY <1>1, <1>2
<1>5. next \in {"register", "transmit"}
  BY DEF next
<1>6. Numbered' = Numbered \cup {held'[t]}
  BY <1>1, <1>2, <1>4, <1>5 DEF Numbered
<1> QED
  BY <1>1, <1>2, <1>3, <1>4, <1>6 DEF next

(* What registering does while the session lives.                           *)
LEMMA RegisterPuts ==
    ASSUME Base, NEW t \in Senders, Register(t)
    PROVE  /\ pc[t] = "register" /\ pc' = [pc EXCEPT ![t] = "transmit"]
           /\ Numbered' \subseteq Numbered
           /\ UNCHANGED <<alive, packetSeq, held, drops, timerSends, lock, todo, resend, wire, received, pruned>>
           /\ alive => /\ DOMAIN pending' = DOMAIN pending \cup {held[t].seq}
                       /\ \A q \in DOMAIN pending' :
                              pending'[q] = IF q = held[t].seq
                                              THEN [frame |-> held[t], age |-> 0, attempts |-> 1]
                                              ELSE pending[q]
           /\ ~alive => pending' = pending
<1>1. pc \in [Senders -> {"idle", "allocate", "register", "transmit"}]
  BY DEF Base, NumberInv, NumberTypes
<1>2. /\ pc[t] = "register" /\ pc' = [pc EXCEPT ![t] = "transmit"]
      /\ UNCHANGED <<alive, packetSeq, held, drops, timerSends, lock, todo, resend, wire, received, pruned>>
  BY DEF Register, Goto, counters, locking, network, history
<1>4. alive => /\ DOMAIN pending' = DOMAIN pending \cup {held[t].seq}
               /\ \A q \in DOMAIN pending' :
                      pending'[q] = IF q = held[t].seq
                                      THEN [frame |-> held[t], age |-> 0, attempts |-> 1]
                                      ELSE pending[q]
  BY DEF Register
<1>5. ~alive => pending' = pending
  BY DEF Register
<1>3. Numbered' \subseteq Numbered
  <2>1. held[t] \in Numbered
    BY <1>2 DEF Numbered
  <2>2. \A q \in DOMAIN pending' : pending'[q].frame \in Numbered
    <3>1. CASE alive
      BY <1>4, <2>1, <3>1 DEF Numbered
    <3>2. CASE ~alive
      BY <1>5, <3>2 DEF Numbered
    <3> QED
      BY <3>1, <3>2
  <2> QED
    BY <1>1, <1>2, <2>2 DEF Numbered
<1> QED
  BY <1>2, <1>3, <1>4, <1>5

(* What a retransmission does to the pending messages.                      *)
LEMMA TakeUpCounts ==
    ASSUME Base, NEW q, NEW who \in {"nack", "worker"}, TakeUp(who, q)
    PROVE  /\ q \in DOMAIN pending /\ DOMAIN pending' = DOMAIN pending
           /\ \A r \in DOMAIN pending : r # q => pending'[r] = pending[r]
           /\ pending'[q].frame = pending[q].frame
           /\ pending'[q].attempts = MinOf(pending[q].attempts + 1, MaxAttempts + 1)
           /\ resend' = [resend EXCEPT ![who] = @ \cup {pending[q].frame}]
           /\ lock = who /\ lock' = lock /\ q \in todo /\ todo' = todo \ {q}
           /\ UNCHANGED <<alive, packetSeq, pc, held, drops, wire, received, pruned>>
<1>1. /\ q \in DOMAIN pending
      /\ pending' = [pending EXCEPT ![q].attempts = MinOf(@ + 1, MaxAttempts + 1), ![q].age = 0]
  BY DEF TakeUp, Attempt
<1>2. pending[q] \in [frame : Frames, age : Nat, attempts : Nat]
  BY <1>1 DEF Base, PendingTypes
<1>3. /\ pending'[q].frame = pending[q].frame
      /\ pending'[q].attempts = MinOf(pending[q].attempts + 1, MaxAttempts + 1)
  BY <1>1, <1>2
<1> QED
  BY <1>1, <1>3 DEF TakeUp, Visits, counters, sender, network

(* What the passing of time leaves of the pending messages.                 *)
LEMMA TimeKeeps ==
    ASSUME Base, Tick \/ Prune
    PROVE  /\ \A q \in DOMAIN pending' :
                  /\ q \in DOMAIN pending /\ pending'[q].frame = pending[q].frame
                  /\ pending'[q].attempts = pending[q].attempts
           /\ \A q \in DOMAIN pending : q \in DOMAIN pending' \cup pruned'
           /\ pruned \subseteq pruned' /\ lock = "free"
           /\ UNCHANGED <<alive, packetSeq, pc, held, drops, wire, received, timerSends, resend, lock, todo>>
<1>1. CASE Tick
  <2>1. /\ DOMAIN pending' = DOMAIN pending
        /\ \A q \in DOMAIN pending : pending'[q] = [pending[q] EXCEPT !.age = MinOf(@ + 1, AgeCap)]
    BY <1>1 DEF Tick
  <2>2. \A q \in DOMAIN pending : pending[q] \in [frame : Frames, age : Nat, attempts : Nat]
    BY DEF Base, PendingTypes
  <2>3. \A q \in DOMAIN pending : /\ pending'[q].frame = pending[q].frame
                                  /\ pending'[q].attempts = pending[q].attempts
    BY <2>1, <2>2
  <2> QED
    BY <1>1, <2>1, <2>3 DEF Tick, counters, locking, sender, network, history
<1>2. CASE Prune
  BY <1>2 DEF Prune, Without, counters, locking, sender, network
<1> QED
  BY <1>1, <1>2

(* Steps that leave the frames alone, and at most drop pending messages.    *)
LEMMA SeqKeeps ==
    ASSUME Base, SeqInv, UNCHANGED <<alive, packetSeq, pc, held, drops>>,
           Numbered' \subseteq Numbered,
           \A q \in DOMAIN pending' : q \in DOMAIN pending /\ pending'[q].frame = pending[q].frame
    PROVE  SeqInv'
BY DEF SeqInv, Registering

(* Every step keeps the numbers.                                            *)
LEMMA SeqStep ==
    ASSUME Base, SeqInv, [Next]_vars
    PROVE  SeqInv'
<1>1. /\ pc \in [Senders -> {"idle", "allocate", "register", "transmit"}]
      /\ held \in [Senders -> Frames] /\ drops \in Nat /\ packetSeq \in Nat /\ alive \in BOOLEAN
      /\ resend \in [{"nack", "worker"} -> SUBSET Frames]
  BY DEF Base, NumberInv, NumberTypes
<1>2. ASSUME UNCHANGED <<pc, held, wire>>,
             \A q \in DOMAIN pending' : q \in DOMAIN pending /\ pending'[q].frame = pending[q].frame,
             \A f \in resend'["nack"] \cup resend'["worker"] : f \in Numbered
      PROVE  Numbered' \subseteq Numbered
  BY <1>2 DEF Numbered
<1>10. ASSUME NEW t \in Senders, NEW m \in Messages, Send(t, m) PROVE SeqInv'
  <2>1. pc[t] = "idle" /\ pc' = [pc EXCEPT ![t] = "allocate"]
        /\ UNCHANGED <<alive, packetSeq, held, drops, wire, pending, resend>>
    BY <1>10 DEF Send, Goto, session, counters, locking, network, history
  <2>2. Numbered' = Numbered
    BY <1>1, <2>1 DEF Numbered
  <2> QED
    BY <1>1, <2>1, <2>2 DEF SeqInv, Registering
<1>11. ASSUME NEW t \in Senders, Allocate(t) PROVE SeqInv'
  <2>1. CASE alive
    <3>1. /\ packetSeq' = packetSeq + 1 /\ UNCHANGED <<alive, pending, drops>>
          /\ held'[t].seq = packetSeq /\ held' = [held EXCEPT ![t] = held'[t]]
          /\ pc' = [pc EXCEPT ![t] = IF Shape[job[t].msg].reliable THEN "register" ELSE "transmit"]
          /\ Numbered' = Numbered \cup {held'[t]}
      BY <1>11, <2>1, AllocateGives
    <3>2. ASSUME drops = 0, NEW u \in Senders, u # t, Registering(u)'
          PROVE  held'[u].seq # held'[t].seq
      <4>1. held'[u] = held[u] /\ pc[u] = "register"
        BY <1>1, <3>1, <3>2 DEF Registering
      <4>2. held[u].seq < packetSeq /\ held[u].seq \in Nat
        BY <3>2, <4>1, FirstLife, HeldNumbered
      <4> QED
        BY <1>1, <3>1, <4>1, <4>2
    <3>3. ASSUME drops = 0, NEW u \in Senders, NEW v \in Senders, u # v, u # t, v # t,
                 Registering(u)', Registering(v)'
          PROVE  held'[u].seq # held'[v].seq
      <4>1. held'[u] = held[u] /\ pc[u] = "register" /\ held'[v] = held[v] /\ pc[v] = "register"
        BY <1>1, <3>1, <3>3 DEF Registering
      <4> QED
        BY <3>3, <4>1 DEF SeqInv, Registering
    <3>4. packetSeq' >= 1 /\ \A f \in Numbered' : f.seq >= 1
      BY <1>1, <3>1 DEF SeqInv
    <3>5. (drops = 0 => alive)' /\ \A q \in DOMAIN pending' : pending'[q].frame.seq = q
      BY <3>1 DEF SeqInv
    <3>6. (drops = 0 => \A u, v \in Senders : u # v /\ Registering(u) /\ Registering(v)
                                                 => held[u].seq # held[v].seq)'
      BY <3>1, <3>2, <3>3
    <3> QED
      BY <3>4, <3>5, <3>6 DEF SeqInv
  <2>2. CASE ~alive
    <3> DEFINE new == [job[t] EXCEPT !.seq = 1, !.rel = 0, !.ord = 0, !.life = drops]
    <3>1. /\ drops # 0 /\ drops' = drops /\ packetSeq' = 2 /\ pending' = NoFn /\ wire' = wire
          /\ resend' = resend
          /\ held' = [held EXCEPT ![t] = new]
          /\ \E l \in {"register", "transmit"} : pc' = [pc EXCEPT ![t] = l]
      <4>1. drops # 0 /\ drops' = drops /\ wire' = wire /\ pending' = NoFn /\ resend' = resend
        BY <1>11, <2>2 DEF Allocate, FreshSession, SeqInv, locking, network, history
      <4>2. packetSeq' = 2
        BY <1>11, <2>2 DEF Allocate, NextSeq
      <4>3. held' = [held EXCEPT ![t] = new]
        BY <1>11, <2>2 DEF Allocate
      <4>4. \E l \in {"register", "transmit"} : pc' = [pc EXCEPT ![t] = l]
        BY <1>11 DEF Allocate, Goto
      <4> QED
        BY <4>1, <4>2, <4>3, <4>4
    <3>2. new.seq = 1
      BY DEF Base, NumberInv, NumberTypes, Frames
    <3> HIDE DEF new
    <3>4. DOMAIN pending' = {}
      BY <3>1 DEF NoFn
    <3>3. Numbered' \subseteq Numbered \cup {new}
      BY <1>1, <3>1, <3>4 DEF Numbered
    <3>5. packetSeq' >= 1 /\ \A f \in Numbered' : f.seq >= 1
      BY <3>1, <3>2, <3>3 DEF SeqInv
    <3>6. drops' # 0 /\ \A q \in DOMAIN pending' : pending'[q].frame.seq = q
      BY <3>1, <3>4
    <3> QED
      BY <3>5, <3>6 DEF SeqInv
  <2> QED
    BY <1>1, <2>1, <2>2
<1>12. ASSUME NEW t \in Senders, Register(t) PROVE SeqInv'
  <2>1. /\ pc[t] = "register" /\ pc' = [pc EXCEPT ![t] = "transmit"]
        /\ Numbered' \subseteq Numbered /\ UNCHANGED <<alive, packetSeq, held, drops>>
    BY <1>12, RegisterPuts
  <2>2. \A q \in DOMAIN pending' : pending'[q].frame.seq = q
    <3>1. CASE alive
      <4>1. /\ DOMAIN pending' = DOMAIN pending \cup {held[t].seq}
            /\ \A q \in DOMAIN pending' :
                   pending'[q] = IF q = held[t].seq THEN [frame |-> held[t], age |-> 0, attempts |-> 1]
                                 ELSE pending[q]
        BY <1>12, <3>1, RegisterPuts
      <4> QED
        BY <4>1 DEF SeqInv
    <3>2. CASE ~alive
      BY <1>12, <3>2, RegisterPuts DEF SeqInv
    <3> QED
      BY <3>1, <3>2
  <2> QED
    BY <1>1, <2>1, <2>2 DEF SeqInv, Registering
<1>13. ASSUME NEW t \in Senders, Transmit(t) PROVE SeqInv'
  <2>1. /\ pc[t] = "transmit" /\ wire' = wire \cup {held[t]}
        /\ \E l \in {"allocate", "idle"} : pc' = [pc EXCEPT ![t] = l]
        /\ held' = [held EXCEPT ![t] = NoFrame]
        /\ UNCHANGED <<alive, packetSeq, pending, drops, resend>>
    BY <1>13 DEF Transmit, Goto, session, counters, locking, history
  <2>2. Numbered' \subseteq Numbered
    BY <1>1, <2>1 DEF Numbered
  <2>3. \A u \in Senders : Registering(u)' => u # t /\ Registering(u) /\ held'[u] = held[u]
    BY <1>1, <2>1 DEF Registering
  <2> QED
    BY <2>1, <2>2, <2>3 DEF SeqInv
<1>21. ASSUME NEW t \in Senders, TransmitFails(t) PROVE SeqInv'
  <2>1. /\ pc[t] = "transmit" /\ pc' = [pc EXCEPT ![t] = "idle"]
        /\ held' = [held EXCEPT ![t] = NoFrame]
        /\ UNCHANGED <<alive, packetSeq, pending, drops, resend, wire>>
    BY <1>21 DEF TransmitFails, Goto, session, counters, locking, network, history
  <2>2. Numbered' \subseteq Numbered
    BY <1>1, <2>1 DEF Numbered
  <2>3. \A u \in Senders : Registering(u)' => u # t /\ Registering(u) /\ held'[u] = held[u]
    BY <1>1, <2>1 DEF Registering
  <2> QED
    BY <2>1, <2>2, <2>3 DEF SeqInv
<1>14. ASSUME NEW q, AckOne(q) PROVE SeqInv'
  <2>1. /\ UNCHANGED <<alive, packetSeq, pc, held, drops, wire, resend>>
        /\ \A r \in DOMAIN pending' : r \in DOMAIN pending /\ pending'[r] = pending[r]
    BY <1>14 DEF AckOne, Settle, Without, counters, sender, network, history
  <2>2. Numbered' \subseteq Numbered
    BY <1>2, <2>1 DEF Numbered
  <2> QED
    BY <2>1, <2>2, SeqKeeps
<1>15. ASSUME NEW q, NEW who \in {"nack", "worker"}, TakeUp(who, q) PROVE SeqInv'
  <2>1. /\ UNCHANGED <<alive, packetSeq, pc, held, drops, wire>>
        /\ \A r \in DOMAIN pending' : r \in DOMAIN pending /\ pending'[r].frame = pending[r].frame
        /\ q \in DOMAIN pending /\ resend' = [resend EXCEPT ![who] = @ \cup {pending[q].frame}]
    BY <1>15, TakeUpCounts
  <2>2. \A f \in resend'["nack"] \cup resend'["worker"] : f \in Numbered
    <3>1. pending[q].frame \in Numbered
      BY <2>1 DEF Numbered
    <3>2. resend["nack"] \subseteq Numbered /\ resend["worker"] \subseteq Numbered
      BY DEF Numbered
    <3>3. \A f \in resend'["nack"] \cup resend'["worker"] :
              f \in resend["nack"] \/ f \in resend["worker"] \/ f = pending[q].frame
      BY <1>1, <2>1
    <3> QED
      BY <3>1, <3>2, <3>3
  <2>3. Numbered' \subseteq Numbered
    BY <1>2, <2>1, <2>2
  <2> QED
    BY <2>1, <2>3, SeqKeeps
<1>16. ASSUME NEW who \in {"nack", "worker"}, Retransmit(who) PROVE SeqInv'
  <2>1. wire' = wire \cup resend[who] /\ UNCHANGED <<alive, packetSeq, pc, held, drops, pending>>
    BY <1>16 DEF Retransmit, session, counters, sender, history
  <2>2. Numbered' \subseteq Numbered
    <3>1. resend[who] \subseteq Numbered /\ wire \subseteq Numbered
      BY DEF Numbered
    <3>2. wire' \subseteq Numbered
      BY <2>1, <3>1
    <3>3. resend'["nack"] \subseteq resend["nack"] /\ resend'["worker"] \subseteq resend["worker"]
      BY <1>1, <1>16 DEF Retransmit
    <3> QED
      BY <2>1, <3>2, <3>3 DEF Numbered
  <2> QED
    BY <2>1, <2>2, SeqKeeps
<1>17. CASE Tick \/ Prune
  <2>1. /\ UNCHANGED <<alive, packetSeq, pc, held, drops, wire, resend>>
        /\ \A r \in DOMAIN pending' : r \in DOMAIN pending /\ pending'[r].frame = pending[r].frame
    BY <1>17, TimeKeeps
  <2>2. Numbered' \subseteq Numbered
    BY <1>2, <2>1 DEF Numbered
  <2> QED
    BY <2>1, <2>2, SeqKeeps
<1>18. CASE DropSession
  <2>1. /\ pending' = NoFn /\ drops' = drops + 1 /\ UNCHANGED <<packetSeq, pc, held, wire, resend>>
    BY <1>18 DEF DropSession, counters, locking, sender, network
  <2>2. DOMAIN pending' = {} /\ drops' # 0
    BY <1>1, <2>1 DEF NoFn
  <2>3. Numbered' \subseteq Numbered
    BY <2>1, <2>2 DEF Numbered
  <2> QED
    BY <2>1, <2>2, <2>3 DEF SeqInv
<1>19. ASSUME UNCHANGED <<session, resend, sender, wire, drops>> PROVE SeqInv'
  <2>1. UNCHANGED <<alive, packetSeq, pc, held, drops, pending, wire, resend>>
    BY <1>19 DEF session, counters, sender
  <2>2. Numbered' \subseteq Numbered
    BY <2>1 DEF Numbered
  <2> QED
    BY <2>1, <2>2, SeqKeeps
<1>20. CASE \/ AckArrives \/ NackArrives \/ WorkerWakes \/ UNCHANGED vars
            \/ (\E f \in wire : Arrives(f)) \/ EndWalk
            \/ \E q \in todo, who \in Walkers : Unknown(who, q)
  BY <1>19, <1>20
  DEF AckArrives, NackArrives, WorkerWakes, StartWalk, Arrives, EndWalk, Unknown, vars, locking, network,
      history
<1> QED
  BY <1>10, <1>11, <1>12, <1>13, <1>14, <1>15, <1>16, <1>17, <1>18, <1>20, <1>21
  DEF Next, SenderStep, Walk, NackOne, WorkerOne

(***************************************************************************)
(* The attempts.                                                           *)
(***************************************************************************)
(* Of the retransmissions the attempts of a pending message count all that  *)
(* the timer made, and the first transmission; a number that is about to be *)
(* registered has none.                                                     *)
Untried(q) == q \notin DOMAIN timerSends /\ q \notin DOMAIN pending
CountInv ==
    drops = 0 =>
        /\ \A q \in DOMAIN timerSends : q < packetSeq /\ timerSends[q] < MaxAttempts
        /\ \A t \in Senders : Registering(t) => Untried(held[t].seq)
        /\ \A q \in DOMAIN pending : Times(q) < pending[q].attempts
        /\ lock = "worker" => \A q \in todo : q \in DOMAIN pending => pending[q].attempts < MaxAttempts

(* Steps that touch no count, and leave at most the worker's walk shorter.  *)
LEMMA CountKeeps ==
    ASSUME Base, CountInv, UNCHANGED <<packetSeq, held, drops, timerSends>>,
           \A t \in Senders : Registering(t)' => Registering(t),
           \A q \in DOMAIN pending' :
               q \in DOMAIN pending /\ pending'[q].attempts = pending[q].attempts,
           lock' = "worker" => lock = "worker" /\ todo' \subseteq todo
    PROVE  CountInv'
<1> SUFFICES ASSUME drops = 0
             PROVE  /\ \A q \in DOMAIN timerSends : q < packetSeq /\ timerSends[q] < MaxAttempts
                    /\ \A t \in Senders : Registering(t)' =>
                           held[t].seq \notin DOMAIN timerSends /\ held[t].seq \notin DOMAIN pending'
                    /\ \A q \in DOMAIN pending' : Times(q) < pending'[q].attempts
                    /\ lock' = "worker" =>
                           \A q \in todo' : q \in DOMAIN pending' => pending'[q].attempts < MaxAttempts
  BY DEF CountInv, Untried, Times
<1> QED
  BY DEF CountInv, Untried

(* Every step keeps the count.                                              *)
LEMMA CountStep ==
    ASSUME Base, SeqInv, CountInv, [Next]_vars
    PROVE  CountInv'
<1>1. /\ pc \in [Senders -> {"idle", "allocate", "register", "transmit"}]
      /\ held \in [Senders -> Frames] /\ drops \in Nat /\ packetSeq \in Nat
      /\ \A q \in DOMAIN pending : pending[q].attempts \in 1..(MaxAttempts + 1)
      /\ DOMAIN timerSends \subseteq Nat /\ \A q \in DOMAIN timerSends : timerSends[q] \in Nat
      /\ MaxAttempts \in Nat \ {0}
  BY TimeAssumption DEF Base, NumberInv, NumberTypes, RestTypes, EntryInRange
<1>2. drops' = 0 => drops = 0
  BY DropsGrow
<1> SUFFICES ASSUME drops' = 0, drops = 0
             PROVE  CountInv'
  BY <1>2 DEF CountInv
<1>3. alive
  BY DEF SeqInv
<1>4. ASSUME NEW q \in DOMAIN pending PROVE q < packetSeq /\ q \in Nat
  <2>1. pending[q].frame \in Numbered /\ pending[q].frame.seq = q
    BY DEF Numbered, SeqInv
  <2> QED
    BY <2>1, FirstLife
<1>10. ASSUME NEW t \in Senders, NEW m \in Messages, Send(t, m) PROVE CountInv'
  <2>1. pc' = [pc EXCEPT ![t] = "allocate"]
        /\ UNCHANGED <<packetSeq, held, drops, timerSends, pending, lock, todo>>
    BY <1>10 DEF Send, Goto, session, counters, locking, history
  <2>2. \A u \in Senders : Registering(u)' => Registering(u)
    BY <1>1, <2>1 DEF Registering
  <2> QED
    BY <2>1, <2>2, CountKeeps
<1>11. ASSUME NEW t \in Senders, Allocate(t) PROVE CountInv'
  <2>1. /\ packetSeq' = packetSeq + 1 /\ UNCHANGED <<pending, drops, timerSends, lock, todo>>
        /\ held'[t].seq = packetSeq /\ held' = [held EXCEPT ![t] = held'[t]]
        /\ pc' = [pc EXCEPT ![t] = IF Shape[job[t].msg].reliable THEN "register" ELSE "transmit"]
    BY <1>3, <1>11, AllocateGives
  <2>2. \A q \in DOMAIN timerSends : q < packetSeq' /\ timerSends[q] < MaxAttempts
    BY <1>1, <2>1 DEF CountInv
  <2>3. packetSeq \notin DOMAIN timerSends /\ packetSeq \notin DOMAIN pending
    BY <1>1, <1>4 DEF CountInv
  <2>4. ASSUME NEW u \in Senders, Registering(u)'
        PROVE  held'[u].seq \notin DOMAIN timerSends /\ held'[u].seq \notin DOMAIN pending
    <3>1. CASE u = t
      BY <2>1, <2>3, <3>1
    <3>2. CASE u # t
      <4>1. held'[u] = held[u] /\ Registering(u)
        BY <1>1, <2>1, <2>4, <3>2 DEF Registering
      <4> QED
        BY <4>1 DEF CountInv, Untried
    <3> QED
      BY <3>1, <3>2
  <2>5. \A q : Times(q)' = Times(q)
    BY <2>1 DEF Times
  <2> QED
    BY <2>1, <2>2, <2>4, <2>5 DEF CountInv, Untried
<1>12. ASSUME NEW t \in Senders, Register(t) PROVE CountInv'
  <2> DEFINE s == held[t].seq
  <2>1. /\ pc[t] = "register" /\ pc' = [pc EXCEPT ![t] = "transmit"]
        /\ UNCHANGED <<packetSeq, held, drops, timerSends>> /\ lock' = "free"
        /\ DOMAIN pending' = DOMAIN pending \cup {s}
        /\ \A q \in DOMAIN pending' :
               pending'[q] = IF q = s THEN [frame |-> held[t], age |-> 0, attempts |-> 1]
                             ELSE pending[q]
    <3>1. lock = "free"
      BY <1>12 DEF Register
    <3> QED
      BY <1>3, <1>12, <3>1, RegisterPuts
  <2>2. Untried(s)
    BY <2>1 DEF CountInv, Registering
  <2>3. ASSUME NEW q \in DOMAIN pending' PROVE Times(q)' < pending'[q].attempts
    <3>1. Times(q)' = Times(q)
      BY <2>1 DEF Times
    <3>2. CASE q = s
      BY <2>1, <2>2, <3>1, <3>2 DEF Times, Untried
    <3>3. CASE q # s
      BY <2>1, <2>3, <3>1, <3>3 DEF CountInv
    <3> QED
      BY <3>2, <3>3
  <2>4. ASSUME NEW u \in Senders, Registering(u)'
        PROVE  held[u].seq \notin DOMAIN timerSends /\ held[u].seq \notin DOMAIN pending'
    <3>1. u # t /\ Registering(u) /\ Registering(t)
      BY <1>1, <2>1, <2>4 DEF Registering
    <3>2. held[u].seq # s /\ Untried(held[u].seq)
      BY <3>1 DEF SeqInv, CountInv
    <3> QED
      BY <2>1, <3>2 DEF Untried
  <2> HIDE DEF s
  <2>5. \A q \in DOMAIN timerSends : q < packetSeq /\ timerSends[q] < MaxAttempts
    BY DEF CountInv
  <2> QED
    BY <2>1, <2>3, <2>4, <2>5 DEF CountInv, Untried
<1>13. ASSUME NEW t \in Senders, Transmit(t) PROVE CountInv'
  <2>1. /\ pc[t] = "transmit"
        /\ \E l \in {"allocate", "idle"} : pc' = [pc EXCEPT ![t] = l]
        /\ held' = [held EXCEPT ![t] = NoFrame]
        /\ UNCHANGED <<packetSeq, pending, drops, timerSends, lock, todo>>
    BY <1>13 DEF Transmit, Goto, session, counters, locking, history
  <2>2. \A u \in Senders : Registering(u)' => Registering(u) /\ held'[u] = held[u]
    BY <1>1, <2>1 DEF Registering
  <2>3. \A q : Times(q)' = Times(q)
    BY <2>1 DEF Times
  <2> QED
    BY <2>1, <2>2, <2>3 DEF CountInv, Untried
<1>23. ASSUME NEW t \in Senders, TransmitFails(t) PROVE CountInv'
  <2>1. /\ pc' = [pc EXCEPT ![t] = "idle"] /\ held' = [held EXCEPT ![t] = NoFrame]
        /\ UNCHANGED <<packetSeq, pending, drops, timerSends, lock, todo>>
    BY <1>23 DEF TransmitFails, Goto, session, counters, locking, history
  <2>2. \A u \in Senders : Registering(u)' => Registering(u) /\ held'[u] = held[u]
    BY <1>1, <2>1 DEF Registering
  <2>3. \A q : Times(q)' = Times(q)
    BY <2>1 DEF Times
  <2> QED
    BY <2>1, <2>2, <2>3 DEF CountInv, Untried
<1>14. ASSUME NEW q, AckOne(q) PROVE CountInv'
  <2>1. /\ UNCHANGED <<packetSeq, pc, held, drops, timerSends, lock>> /\ lock = "ack"
        /\ \A r \in DOMAIN pending' : r \in DOMAIN pending /\ pending'[r] = pending[r]
    BY <1>14 DEF AckOne, Settle, Without, Visits, counters, sender, history
  <2> QED
    BY <2>1, CountKeeps DEF Registering
<1>15. ASSUME NEW q, NackOne(q) PROVE CountInv'
  <2>1. /\ q \in DOMAIN pending /\ DOMAIN pending' = DOMAIN pending
        /\ \A r \in DOMAIN pending : r # q => pending'[r] = pending[r]
        /\ pending'[q].attempts = MinOf(pending[q].attempts + 1, MaxAttempts + 1)
        /\ lock' = "nack" /\ UNCHANGED <<packetSeq, pc, held, drops, timerSends>>
    BY <1>15, TakeUpCounts DEF NackOne
  <2>2. \A r \in DOMAIN pending : pending[r].attempts <= pending'[r].attempts
                                   /\ pending'[r].attempts \in Nat /\ pending[r].attempts \in Nat
    BY <1>1, <2>1 DEF MinOf
  <2>3. ASSUME NEW r \in DOMAIN pending PROVE Times(r)' < pending'[r].attempts
    <3>1. Times(r)' = Times(r) /\ Times(r) \in Nat /\ Times(r) < pending[r].attempts
      BY <1>1, <2>1 DEF Times, CountInv
    <3> QED
      BY <2>2, <3>1
  <2>4. \A u \in Senders : Registering(u)' = Registering(u)
    BY <2>1 DEF Registering
  <2> QED
    BY <2>1, <2>3, <2>4 DEF CountInv, Untried
<1>16. ASSUME NEW q, WorkerOne(q) PROVE CountInv'
  <2>1. /\ q \in DOMAIN pending /\ DOMAIN pending' = DOMAIN pending
        /\ \A r \in DOMAIN pending : r # q => pending'[r] = pending[r]
        /\ pending'[q].attempts = MinOf(pending[q].attempts + 1, MaxAttempts + 1)
        /\ lock = "worker" /\ q \in todo /\ todo' = todo \ {q}
        /\ UNCHANGED <<packetSeq, pc, held, drops>>
    BY <1>16, TakeUpCounts DEF WorkerOne
  <2>2. timerSends' = [x \in DOMAIN timerSends \cup {q} |->
                          IF x = q THEN Times(q) + 1 ELSE timerSends[x]]
    BY <1>16 DEF WorkerOne
  <2>3. pending[q].attempts < MaxAttempts /\ Times(q) < pending[q].attempts /\ Times(q) \in Nat
    BY <1>1, <2>1 DEF CountInv, Times
  <2>4. pending'[q].attempts = pending[q].attempts + 1 /\ pending[q].attempts \in Nat
    BY <1>1, <2>1, <2>3 DEF MinOf
  <2>5. Times(q)' = Times(q) + 1 /\ \A r : r # q => Times(r)' = Times(r)
    BY <2>2 DEF Times
  <2>6. \A r \in DOMAIN timerSends' : r < packetSeq /\ timerSends'[r] < MaxAttempts
    <3>1. q < packetSeq /\ timerSends'[q] < MaxAttempts
      BY <1>1, <1>4, <2>1, <2>2, <2>3, <2>4
    <3> QED
      BY <2>2, <3>1 DEF CountInv
  <2>7. \A r \in DOMAIN pending : Times(r)' < pending'[r].attempts
    BY <2>1, <2>3, <2>4, <2>5 DEF CountInv
  <2>8. \A u \in Senders : Registering(u)' = Registering(u)
    BY <2>1 DEF Registering
  <2>9. ASSUME NEW u \in Senders, Registering(u)
        PROVE  held[u].seq \notin DOMAIN timerSends' /\ held[u].seq \notin DOMAIN pending
    BY <2>1, <2>2, <2>9 DEF CountInv, Untried
  <2>10. \A r \in todo' : r \in DOMAIN pending => pending'[r].attempts < MaxAttempts
    BY <2>1 DEF CountInv
  <2> QED
    BY <2>1, <2>6, <2>7, <2>8, <2>9, <2>10 DEF CountInv, Untried
<1>17. ASSUME NEW who \in {"nack", "worker"}, Retransmit(who) PROVE CountInv'
  <2>1. UNCHANGED <<packetSeq, pc, held, drops, timerSends, pending, lock, todo>>
    BY <1>17 DEF Retransmit, session, counters, sender, history
  <2> QED
    BY <2>1, CountKeeps DEF Registering
<1>18. CASE Tick \/ Prune
  <2>1. /\ UNCHANGED <<packetSeq, pc, held, drops, timerSends, lock, todo>>
        /\ \A r \in DOMAIN pending' : r \in DOMAIN pending /\ pending'[r].attempts = pending[r].attempts
    BY <1>18, TimeKeeps
  <2> QED
    BY <2>1, CountKeeps DEF Registering
<1>19. CASE DropSession
  BY <1>1, <1>19 DEF DropSession
<1>20. CASE WorkerWakes
  <2>1. /\ todo' = Due /\ UNCHANGED <<packetSeq, pc, held, drops, timerSends, pending>>
    BY <1>20 DEF WorkerWakes, StartWalk, session, counters, sender, history
  <2>2. \A q \in todo' : pending[q].attempts < MaxAttempts
    BY <2>1 DEF Due
  <2>3. (\A q : Times(q)' = Times(q)) /\ \A u \in Senders : Registering(u)' = Registering(u)
    BY <2>1 DEF Times, Registering
  <2> QED
    BY <2>1, <2>2, <2>3 DEF CountInv, Untried
<1>21. CASE AckArrives \/ NackArrives \/ EndWalk
  <2>1. UNCHANGED <<packetSeq, pc, held, drops, timerSends, pending>> /\ lock' # "worker"
    BY <1>21 DEF AckArrives, NackArrives, EndWalk, StartWalk, session, counters, sender, history
  <2> QED
    BY <2>1, CountKeeps DEF Registering
<1>22. CASE UNCHANGED vars \/ (\E f \in wire : Arrives(f)) \/ \E q \in todo, who \in Walkers : Unknown(who, q)
  <2>1. UNCHANGED <<packetSeq, pc, held, drops, timerSends, pending, lock>> /\ todo' \subseteq todo
    BY <1>22 DEF vars, Arrives, Unknown, Visits, session, counters, sender, locking, history
  <2> QED
    BY <2>1, CountKeeps DEF Registering
<1> QED
  BY <1>10, <1>11, <1>12, <1>13, <1>14, <1>15, <1>16, <1>17, <1>18, <1>19, <1>20, <1>21, <1>22, <1>23
  DEF Next, SenderStep, Walk

(* All invariants hold at first.                                            *)
LEMMA RetryInit == Init => Base /\ SeqInv /\ CountInv
<1> SUFFICES ASSUME Init PROVE SeqInv /\ CountInv
  BY NumberInit, PendingInit, RestInit DEF Base
<1>1. /\ DOMAIN pending = {} /\ DOMAIN timerSends = {} /\ Numbered = {} /\ packetSeq = 1 /\ alive
      /\ lock = "free" /\ \A t \in Senders : ~Registering(t)
  BY DEF Init, NoFn, Numbered, Registering
<1> QED
  BY <1>1 DEF SeqInv, CountInv

(* The invariant of the other theorems, in one.                             *)
LEMMA BaseStep == Base /\ [Next]_vars => Base'
BY NumberStep, PendingStep, RestStep DEF Base, NumberInv

(* The timer sends a frame at most MaxAttempts - 1 times after the first,   *)
(* whatever complaints come between (the resend worker of mod.rs).          *)
THEOREM RetriesStayBounded == Spec => []RetriesBounded
<1>1. Base /\ SeqInv /\ CountInv /\ [Next]_vars => Base' /\ SeqInv' /\ CountInv'
  BY BaseStep, SeqStep, CountStep
<1>2. CountInv => RetriesBounded
  BY DEF CountInv, RetriesBounded
<1> QED
  BY RetryInit, <1>1, <1>2, PTL DEF Spec

(***************************************************************************)
(* No silent loss.                                                         *)
(***************************************************************************)
(* Frames that were transmitted or are about to be, for whatever reason.    *)
Transmitting(t) == pc[t] = "transmit"
Out == wire \cup {held[t] : t \in {u \in Senders : Transmitting(u)}}
            \cup resend["nack"] \cup resend["worker"]

Kept(f) == f \in received \/ f.seq \in DOMAIN pending \/ f.seq \in pruned
NoWrap == drops = 0 /\ packetSeq <= WireMod

(* They have arrived, are pending, or have expired; and an acknowledgement  *)
(* settles what has arrived.                                                *)
LossInv ==
    NoWrap =>
        /\ \A f \in Out : Reliable(f) => Kept(f)
        /\ lock = "ack" => \A q \in todo : q = 0 \/ \E g \in received : g.seq = q

(* They all have numbers.                                                   *)
LEMMA OutNumbered == ASSUME Base PROVE Out \subseteq Numbered /\ received \subseteq Numbered
BY DEF Base, NumberInv, NumberTypes, RestTypes, Out, Numbered, Transmitting

(* Steps that send nothing new and forget nothing.                          *)
LEMMA LossKeeps ==
    ASSUME LossInv, NoWrap, Out' \subseteq Out, received \subseteq received',
           pruned \subseteq pruned', \A q \in DOMAIN pending : q \in DOMAIN pending' \/ q \in pruned',
           lock' = "ack" => lock = "ack" /\ todo' \subseteq todo
    PROVE  LossInv'
<1>1. \A f \in Out' : Reliable(f) => Kept(f)'
  BY DEF LossInv, Kept
<1>2. lock' = "ack" => \A q \in todo' : q = 0 \/ \E g \in received' : g.seq = q
  BY DEF LossInv
<1> QED
  BY <1>1, <1>2 DEF LossInv, Reliable

(* What an acknowledgement takes out of the pending messages has arrived.   *)
LEMMA LossAck ==
    ASSUME Base, SeqInv, LossInv, NoWrap, NEW q, AckOne(q)
    PROVE  LossInv'
<1>1. /\ UNCHANGED <<pc, held, wire, resend, received, pruned, lock>> /\ lock = "ack"
      /\ q \in todo /\ todo' = todo \ {q} /\ DOMAIN pending' = DOMAIN pending \ {q}
  BY DEF AckOne, Settle, Without, Visits, sender, network, history
<1>2. Out' = Out
  BY <1>1 DEF Out, Transmitting
<1>3. ASSUME NEW f \in Out, Reliable(f), f.seq = q PROVE f \in received
  <2>1. f \in Numbered /\ f.seq >= 1 /\ f.seq \in Nat /\ f.life = 0
    BY OutNumbered, FirstLife DEF SeqInv, NoWrap
  <2>2. PICK g \in received : g.seq = q
    BY <1>1, <1>3, <2>1 DEF LossInv
  <2>3. g \in Numbered /\ g.life = 0
    BY OutNumbered, FirstLife DEF NoWrap
  <2>4. f = g
    BY <1>3, <2>1, <2>2, <2>3 DEF Base, NumberInv, NumbersAreUnique
  <2> QED
    BY <2>4
<1>4. \A f \in Out' : Reliable(f) => Kept(f)'
  BY <1>1, <1>2, <1>3 DEF LossInv, Kept
<1>5. \A r \in todo' : r = 0 \/ \E g \in received' : g.seq = r
  BY <1>1 DEF LossInv
<1> QED
  BY <1>4, <1>5 DEF LossInv, Reliable

(* Every step keeps the frames accounted for.                               *)
LEMMA LossStep ==
    ASSUME Base, SeqInv, LossInv, [Next]_vars
    PROVE  LossInv'
<1>1. /\ pc \in [Senders -> {"idle", "allocate", "register", "transmit"}]
      /\ held \in [Senders -> Frames] /\ drops \in Nat /\ packetSeq \in Nat
      /\ resend \in [{"nack", "worker"} -> SUBSET Frames] /\ WireMod \in Nat \ {0}
  BY SizeAssumption DEF Base, NumberInv, NumberTypes
<1>2. NoWrap' => NoWrap
  <2> SUFFICES ASSUME NoWrap' PROVE packetSeq <= WireMod /\ drops = 0
    BY DEF NoWrap
  <2>1. drops' = 0 /\ drops = 0 /\ alive
    BY DropsGrow DEF NoWrap, SeqInv
  <2>2. packetSeq' = packetSeq \/ packetSeq' = packetSeq + 1
    <3>1. ASSUME NEW t \in Senders, Allocate(t) PROVE packetSeq' = packetSeq + 1
      BY <2>1, <3>1, AllocateGives
    <3>2. ASSUME NEW t \in Senders,
                 Register(t) \/ Transmit(t) \/ TransmitFails(t) \/ \E m \in Messages : Send(t, m)
          PROVE  packetSeq' = packetSeq
      BY <3>2 DEF Register, Transmit, TransmitFails, Send, session, counters
    <3>3. CASE Walk
      BY <3>3 DEF Walk, AckOne, NackOne, WorkerOne, TakeUp, Unknown, EndWalk, session, counters
    <3>4. CASE \/ AckArrives \/ NackArrives \/ WorkerWakes \/ UNCHANGED vars
               \/ Tick \/ Prune \/ DropSession \/ \E f \in wire : Arrives(f)
               \/ \E who \in {"nack", "worker"} : Retransmit(who)
      BY <3>4 DEF AckArrives, NackArrives, WorkerWakes, StartWalk, Arrives, Retransmit, Tick, Prune,
                  DropSession, vars, session, counters
    <3> QED
      BY <3>1, <3>2, <3>3, <3>4 DEF Next, SenderStep
  <2> QED
    BY <1>1, <2>1, <2>2 DEF NoWrap
<1> SUFFICES ASSUME NoWrap, NoWrap'
             PROVE  LossInv'
  BY <1>2 DEF LossInv
<1>3. drops = 0 /\ drops' = 0 /\ alive
  BY DEF NoWrap, SeqInv
<1>10. ASSUME NEW t \in Senders, NEW m \in Messages, Send(t, m) PROVE LossInv'
  <2>1. /\ pc[t] = "idle" /\ pc' = [pc EXCEPT ![t] = "allocate"]
        /\ UNCHANGED <<held, wire, resend, received, pending, pruned, lock, todo>>
    BY <1>10 DEF Send, Goto, session, locking, network, history
  <2>2. Out' \subseteq Out
    BY <1>1, <2>1 DEF Out, Transmitting
  <2> QED
    BY <2>1, <2>2, LossKeeps
<1>11. ASSUME NEW t \in Senders, Allocate(t) PROVE LossInv'
  <2>1. /\ UNCHANGED <<wire, resend, received, pending, pruned, lock, todo>>
        /\ held'[t].msg = job[t].msg /\ held' = [held EXCEPT ![t] = held'[t]]
        /\ pc' = [pc EXCEPT ![t] = IF Shape[job[t].msg].reliable THEN "register" ELSE "transmit"]
    BY <1>3, <1>11, AllocateGives
  <2>2. \A f \in Out' : f \in Out \/ (f = held'[t] /\ Transmitting(t)')
    BY <1>1, <2>1 DEF Out, Transmitting
  <2>3. Transmitting(t)' => ~Reliable(held'[t])
    BY <1>1, <2>1 DEF Transmitting, Reliable
  <2>4. \A f \in Out' : Reliable(f) => Kept(f)'
    BY <2>1, <2>2, <2>3 DEF LossInv, Kept
  <2> QED
    BY <2>1, <2>4 DEF LossInv, Reliable
<1>12. ASSUME NEW t \in Senders, Register(t) PROVE LossInv'
  <2>1. /\ pc' = [pc EXCEPT ![t] = "transmit"] /\ lock' = "free"
        /\ UNCHANGED <<held, wire, resend, received, pruned>>
        /\ DOMAIN pending' = DOMAIN pending \cup {held[t].seq}
    <3>1. lock = "free"
      BY <1>12 DEF Register
    <3> QED
      BY <1>3, <1>12, <3>1, RegisterPuts
  <2>2. \A f \in Out' : f \in Out \/ f = held[t]
    BY <1>1, <2>1 DEF Out, Transmitting
  <2>3. \A f \in Out' : Reliable(f) => Kept(f)'
    BY <2>1, <2>2 DEF LossInv, Kept
  <2> QED
    BY <2>1, <2>3 DEF LossInv, Reliable
<1>13. ASSUME NEW t \in Senders, Transmit(t) PROVE LossInv'
  <2>1. /\ pc[t] = "transmit" /\ wire' = wire \cup {held[t]}
        /\ \E l \in {"allocate", "idle"} : pc' = [pc EXCEPT ![t] = l]
        /\ held' = [held EXCEPT ![t] = NoFrame]
        /\ UNCHANGED <<resend, received, pending, pruned, lock, todo>>
    BY <1>13 DEF Transmit, Goto, session, locking, history
  <2>2. Out' \subseteq Out
    <3>1. held[t] \in Out
      BY <2>1 DEF Out, Transmitting
    <3>2. \A u \in Senders : Transmitting(u)' => Transmitting(u) /\ held'[u] = held[u]
      BY <1>1, <2>1 DEF Transmitting
    <3> QED
      BY <2>1, <3>1, <3>2 DEF Out
  <2> QED
    BY <2>1, <2>2, LossKeeps
<1>21. ASSUME NEW t \in Senders, TransmitFails(t) PROVE LossInv'
  <2>1. /\ pc' = [pc EXCEPT ![t] = "idle"] /\ held' = [held EXCEPT ![t] = NoFrame]
        /\ UNCHANGED <<wire, resend, received, pending, pruned, lock, todo>>
    BY <1>21 DEF TransmitFails, Goto, session, locking, network, history
  <2>2. Out' \subseteq Out
    BY <1>1, <2>1 DEF Out, Transmitting
  <2> QED
    BY <2>1, <2>2, LossKeeps
<1>14. ASSUME NEW q, NEW who \in {"nack", "worker"}, TakeUp(who, q) PROVE LossInv'
  <2>1. /\ q \in DOMAIN pending /\ DOMAIN pending' = DOMAIN pending
        /\ resend' = [resend EXCEPT ![who] = @ \cup {pending[q].frame}]
        /\ lock' = who /\ UNCHANGED <<pc, held, wire, received, pruned>>
    BY <1>14, TakeUpCounts
  <2>2. pending[q].frame.seq = q
    BY <2>1 DEF SeqInv
  <2>3. \A f \in Out' : f \in Out \/ f = pending[q].frame
    BY <1>1, <2>1 DEF Out, Transmitting
  <2>4. \A f \in Out' : Reliable(f) => Kept(f)'
    BY <2>1, <2>2, <2>3 DEF LossInv, Kept
  <2> QED
    BY <2>1, <2>4 DEF LossInv, Reliable
<1>15. ASSUME NEW who \in {"nack", "worker"}, Retransmit(who) PROVE LossInv'
  <2>1. /\ wire' = wire \cup resend[who] /\ resend' = [resend EXCEPT ![who] = {}]
        /\ UNCHANGED <<pc, held, received, pending, pruned, lock, todo>>
    BY <1>15 DEF Retransmit, session, sender, history
  <2>2. Out' \subseteq Out
    BY <1>1, <2>1 DEF Out, Transmitting
  <2> QED
    BY <2>1, <2>2, LossKeeps
<1>16. CASE Tick \/ Prune
  <2>1. /\ UNCHANGED <<pc, held, wire, resend, received, lock, todo>> /\ pruned \subseteq pruned'
        /\ \A q \in DOMAIN pending : q \in DOMAIN pending' \/ q \in pruned'
    BY <1>16, TimeKeeps
  <2>2. Out' \subseteq Out
    BY <2>1 DEF Out, Transmitting
  <2> QED
    BY <2>1, <2>2, LossKeeps
<1>17. CASE DropSession
  BY <1>1, <1>3, <1>17 DEF DropSession
<1>18. CASE AckArrives
  <2>1. PICK r \in HonestRanges : StartWalk("ack", r)
    BY <1>18 DEF AckArrives
  <2>2. /\ todo' = r /\ UNCHANGED <<pc, held, wire, resend, received, pending, pruned>>
    BY <2>1 DEF StartWalk, session, sender, network, history
  <2>3. ASSUME NEW g \in received PROVE WireSeq(g) = g.seq
    <3>1. g.seq \in Nat /\ g.seq < WireMod
      BY <1>1, <1>3, OutNumbered, FirstLife DEF NoWrap
    <3> QED
      BY <1>1, <3>1 DEF WireSeq
  <2>4. \A q \in r : q = 0 \/ \E g \in received : g.seq = q
    BY <2>3 DEF HonestRanges, Ackable
  <2>5. Out' = Out
    BY <2>2 DEF Out, Transmitting
  <2>6. \A f \in Out' : Reliable(f) => Kept(f)'
    BY <2>2, <2>5 DEF LossInv, Kept
  <2> QED
    BY <2>2, <2>4, <2>6 DEF LossInv, Reliable
<1>19. CASE \/ NackArrives \/ WorkerWakes \/ EndWalk \/ UNCHANGED vars
            \/ (\E f \in wire : Arrives(f)) \/ \E q \in todo, who \in Walkers : Unknown(who, q)
  <2>1. /\ UNCHANGED <<pc, held, wire, resend, pending, pruned>> /\ received \subseteq received'
        /\ lock' = "ack" => lock = "ack" /\ todo' \subseteq todo
    BY <1>19 DEF NackArrives, WorkerWakes, StartWalk, EndWalk, Arrives, Unknown, Visits, vars, session,
                 sender, locking, network, history
  <2>2. Out' = Out
    BY <2>1 DEF Out, Transmitting
  <2> QED
    BY <2>1, <2>2, LossKeeps
<1> QED
  BY <1>10, <1>11, <1>12, <1>13, <1>14, <1>15, <1>16, <1>17, <1>18, <1>19, <1>21, LossAck
  DEF Next, SenderStep, Walk, NackOne, WorkerOne

(* As long as the session lives, a reliable frame that was transmitted and  *)
(* has not arrived is pending or has expired, until numbers come round.     *)
THEOREM NothingIsForgotten == Spec => []NoSilentLoss
<1>1. Init => LossInv
  <2> SUFFICES ASSUME Init PROVE LossInv
    OBVIOUS
  <2>1. Out = {} /\ lock = "free"
    BY DEF Init, Out, Transmitting
  <2> QED
    BY <2>1 DEF LossInv
<1>2. Base /\ SeqInv /\ LossInv /\ [Next]_vars => Base' /\ SeqInv' /\ LossInv'
  BY BaseStep, SeqStep, LossStep
<1>3. LossInv => NoSilentLoss
  BY DEF LossInv, NoWrap, NoSilentLoss, Kept, Out
<1> QED
  BY RetryInit, <1>1, <1>2, <1>3, PTL DEF Spec
=============================================================================
