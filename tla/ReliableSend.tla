----------------------------- MODULE ReliableSend ---------------------------
(***************************************************************************)
(* The send path of the RakNet server towards one peer: send_frame of      *)
(* src/raknet/server/frames.rs, the ACK and NACK handlers of handshake.rs, *)
(* the resend worker of mod.rs and the expiry of pending messages of       *)
(* session.rs.                                                             *)
(*                                                                         *)
(* Tasks call send_frame; a message that does not fit is sent in several   *)
(* frames.  A frame is numbered under the lock of the connection table,    *)
(* built without it, registered under it again, and then transmitted.  The *)
(* handlers and the worker walk through the pending frames while they hold *)
(* the lock ("lock"), one frame per step, and transmit after releasing it. *)
(* A walk waits for nothing, and what others do without the lock neither   *)
(* reads nor writes what it visits: they step when it has ended.           *)
(* The network loses, repeats and reorders; the peer acknowledges frames   *)
(* it has received, and may complain about any.                            *)
(*                                                                         *)
(* Sizes are in KiB and times in ticks; the ages of pending frames are     *)
(* counted up to AgeCap, beyond every limit they are compared with.        *)
(***************************************************************************)
EXTENDS Integers, Sequences, FiniteSets

CONSTANTS Senders,     \* tasks that call send_frame
          Messages,    \* what there is to send
          NoMessage,   \* no message
          Shape,       \* message -> [parts, reliable, ordered]
          FrameSize,   \* size of a frame
          WireMod,     \* number of sequence numbers on the wire (2^24)
          WindowInit, ThresholdInit, WindowFloor,  \* 16, 64 and 1 KiB
          RtoInit, RtoMin, RtoMax,                 \* 300 ms, 150 ms, 2 s
          RttGain,     \* the divisor of the smoothing, 8
          MaxAttempts, \* 5
          TTL,         \* SESSION_QUEUE_TTL_SECS
          AgeCap,      \* ages are counted up to here
          NoRtt,       \* smoothed_rtt is None
          MaxDrops,    \* bound on the number of times the session is dropped
          MaxAges      \* whether time passes at all

ASSUME ShapeAssumption ==
    NoMessage \notin Messages /\ Shape \in [Messages -> [parts : Nat \ {0}, reliable : BOOLEAN, ordered : BOOLEAN]]
ASSUME SizeAssumption ==
    /\ FrameSize \in Nat \ {0} /\ WireMod \in Nat \ {0}
    /\ WindowInit \in Nat /\ ThresholdInit \in Nat /\ WindowFloor \in Nat
    /\ WindowFloor <= WindowInit /\ WindowFloor <= ThresholdInit
ASSUME TimeAssumption ==
    /\ RtoInit \in Nat /\ RtoMin \in Nat /\ RtoMax \in Nat /\ RttGain \in Nat \ {0}
    /\ RtoMin <= RtoInit /\ RtoInit <= RtoMax
    /\ MaxAttempts \in Nat \ {0} /\ TTL \in Nat
    /\ AgeCap \in Nat /\ TTL < AgeCap /\ RtoMax < AgeCap
    /\ NoRtt \notin Nat
ASSUME BoundAssumption == MaxDrops \in Nat /\ MaxAges \in BOOLEAN

VARIABLES alive,       \* connections has an entry for the peer
          packetSeq, reliableSeq, orderIndex,
          pending,     \* pending_messages: sequence number -> [frame, age, attempts]
          inFlight,    \* in_flight_bytes
          window,      \* congestion_window_bytes
          threshold,   \* slow_start_threshold_bytes
          rto,         \* retransmit_timeout
          srtt,        \* smoothed_rtt
          lock,        \* who holds the write lock over several steps
          todo,        \* the sequence numbers its holder has still to visit
          resend,      \* frames to transmit again after the lock: worker and handler
          pc, job,     \* of each sender: where it is, the part it sends
          held,        \* of each sender: the frame it has numbered
          unsent,      \* messages not yet handed to send_frame
          wire,        \* every frame ever transmitted
          received,    \* those the peer has received
          pruned,      \* sequence numbers that expired
          timerSends,  \* how often the worker took up a sequence number
          drops        \* number of times the session was dropped

counters == <<packetSeq, reliableSeq, orderIndex>>
flow == <<inFlight, window, threshold, rto, srtt>>
session == <<alive, counters, pending, flow>>
locking == <<lock, todo, resend>>
sender == <<pc, job, held, unsent>>
network == <<wire, received>>
history == <<pruned, timerSends, drops>>
vars == <<session, locking, sender, network, history>>

MinOf(a, b) == IF a <= b THEN a ELSE b
MaxOf(a, b) == IF a >= b THEN a ELSE b
NoFn == [x \in {} |-> x]
Walkers == {"ack", "nack", "worker"}
NoFrame == [msg |-> NoMessage, part |-> 0, seq |-> 0, rel |-> 0, ord |-> 0, life |-> 0]

FreshSession == /\ alive' = TRUE
                /\ pending' = NoFn
                /\ inFlight' = 0 /\ window' = WindowInit /\ threshold' = ThresholdInit
                /\ rto' = RtoInit /\ srtt' = NoRtt

Init == /\ alive = TRUE
        /\ packetSeq = 1 /\ reliableSeq = 0 /\ orderIndex = 0
        /\ pending = NoFn
        /\ inFlight = 0 /\ window = WindowInit /\ threshold = ThresholdInit
        /\ rto = RtoInit /\ srtt = NoRtt
        /\ lock = "free" /\ todo = {} /\ resend = [k \in {"nack", "worker"} |-> {}]
        /\ pc = [t \in Senders |-> "idle"] /\ job = [t \in Senders |-> NoFrame]
        /\ held = [t \in Senders |-> NoFrame] /\ unsent = Messages
        /\ wire = {} /\ received = {}
        /\ pruned = {} /\ timerSends = NoFn /\ drops = 0

(***************************************************************************)
(* send_frame                                                              *)
(***************************************************************************)
Goto(t, l) == pc' = [pc EXCEPT ![t] = l]

Send(t, m) ==
    /\ pc[t] = "idle" /\ m \in unsent /\ lock = "free"
    /\ unsent' = unsent \ {m}
    /\ job' = [job EXCEPT ![t] = [NoFrame EXCEPT !.msg = m, !.part = 1]]
    /\ Goto(t, "allocate")
    /\ UNCHANGED <<session, locking, held, network, history>>

NextSeqIfReliable(seq, shape) ==  \* mutant: other frames take no sequence number
    IF shape.reliable THEN seq + 1 ELSE seq

NextSeq(seq, shape) == seq + 1

(* allocate_sequence, for every fragment anew: a dropped session is created *)
(* again, and each fragment takes its own reliable and order index.         *)
Allocate(t) ==
    /\ pc[t] = "allocate" /\ lock = "free"
    /\ LET shape == Shape[job[t].msg]
           seq == IF alive THEN packetSeq ELSE 1
           rel == IF alive THEN reliableSeq ELSE 0
           ord == IF alive THEN orderIndex ELSE 0
       IN  /\ held' = [held EXCEPT ![t] =
                          [job[t] EXCEPT !.seq = seq, !.rel = rel, !.ord = ord, !.life = drops]]
           /\ packetSeq' = NextSeq(seq, shape)
           /\ reliableSeq' = IF shape.reliable THEN rel + 1 ELSE rel
           /\ orderIndex' = IF shape.ordered THEN ord + 1 ELSE ord
           /\ Goto(t, IF shape.reliable THEN "register" ELSE "transmit")
    /\ IF alive THEN UNCHANGED <<alive, pending, flow>> ELSE FreshSession
    /\ UNCHANGED <<locking, job, unsent, network, history>>

(* register_pending, unless the session has gone meanwhile.                 *)
Register(t) ==
    /\ pc[t] = "register" /\ lock = "free"
    /\ IF alive
         THEN /\ inFlight' = inFlight + FrameSize
              /\ pending' = [q \in DOMAIN pending \cup {held[t].seq} |->
                                IF q = held[t].seq THEN [frame |-> held[t], age |-> 0, attempts |-> 1]
                                ELSE pending[q]]
         ELSE UNCHANGED <<inFlight, pending>>
    /\ Goto(t, "transmit")
    /\ UNCHANGED <<alive, counters, window, threshold, rto, srtt, locking, job, held, unsent, network, history>>

Transmit(t) ==
    /\ pc[t] = "transmit" /\ lock = "free"
    /\ wire' = wire \cup {held[t]}
    /\ IF job[t].part < Shape[job[t].msg].parts
         THEN /\ job' = [job EXCEPT ![t].part = @ + 1]
              /\ Goto(t, "allocate")
         ELSE /\ Goto(t, "idle")
              /\ job' = [job EXCEPT ![t] = NoFrame]
    /\ held' = [held EXCEPT ![t] = NoFrame]
    /\ UNCHANGED <<session, locking, unsent, received, history>>

(* send_to returns an error: so does send_frame, and the fragments that     *)
(* follow are not even numbered.  What is registered stays registered.      *)
TransmitFails(t) ==
    /\ pc[t] = "transmit" /\ lock = "free"
    /\ Goto(t, "idle")
    /\ job' = [job EXCEPT ![t] = NoFrame]
    /\ held' = [held EXCEPT ![t] = NoFrame]
    /\ UNCHANGED <<session, locking, unsent, network, history>>

(***************************************************************************)
(* The network and the peer                                                *)
(***************************************************************************)
Arrives(f) == /\ f \in wire \ received /\ lock = "free"
              /\ received' = received \cup {f}
              /\ UNCHANGED <<session, locking, sender, wire, history>>

WireSeq(f) == f.seq % WireMod

(* The ranges an ACK may name: received frames, or 0..0 when it is cut off. *)
Ackable == {WireSeq(f) : f \in received}
AckRanges == {lo..hi : lo \in Ackable, hi \in Ackable}
HonestRanges == {r \in AckRanges : r \subseteq Ackable} \cup {{0}}
(* A NACK may name anything.                                                *)
NackRanges == {r \in {lo..hi : lo, hi \in {WireSeq(f) : f \in wire}} : r # {}}

(* An ACK or NACK of one range arrives and its handler takes the lock.      *)
StartWalk(who, range) ==
    /\ lock = "free" /\ alive
    /\ lock' = who /\ todo' = range
    /\ UNCHANGED <<session, resend, sender, network, history>>

AckArrives == \E r \in HonestRanges : StartWalk("ack", r)
NackArrives == resend["nack"] = {} /\ \E r \in NackRanges : StartWalk("nack", r)

EndWalk == /\ lock # "free" /\ todo = {}
           /\ lock' = "free"
           /\ UNCHANGED <<session, todo, resend, sender, network, history>>

(* The handlers go through a range upwards, the worker through a hash map.  *)
Visits(who, q) == /\ lock = who /\ q \in todo
                  /\ who # "worker" => \A r \in todo : q <= r
                  /\ todo' = todo \ {q}

Unknown(who, q) == /\ Visits(who, q) /\ q \notin DOMAIN pending
                   /\ UNCHANGED <<session, lock, resend, sender, network, history>>

SmoothedRtt(age) == IF srtt = NoRtt THEN age
                    ELSE IF age >= srtt THEN srtt + (age - srtt) \div RttGain
                    ELSE srtt - (srtt - age) \div RttGain

Without(f, S) == [x \in DOMAIN f \ S |-> f[x]]

SettleNot(q) == UNCHANGED pending \* mutant: the entry is read and not removed

Settle(q) == pending' = Without(pending, {q})

(* handle_ack_packet: one acknowledged frame.                               *)
AckOne(q) ==
    /\ Visits("ack", q) /\ q \in DOMAIN pending
    /\ Settle(q)
    /\ inFlight' = MaxOf(inFlight - FrameSize, 0)
    /\ srtt' = SmoothedRtt(pending[q].age)
    /\ rto' = MinOf(MaxOf(2 * SmoothedRtt(pending[q].age), RtoMin), RtoMax)
    /\ window' = IF window < threshold THEN window + FrameSize
                 ELSE window + MaxOf(FrameSize \div 2, 1)
    /\ UNCHANGED <<alive, counters, threshold, lock, resend, sender, network, history>>

Halved(n) == n \div 2             \* mutant: no floor under the window

HalvedToFloor(n) == MaxOf(n \div 2, WindowFloor)

(* What a timeout or a NACK does to the flow control.                       *)
BackOff == /\ threshold' = HalvedToFloor(window)
           /\ window' = threshold'
           /\ rto' = MinOf(rto * 2, RtoMax)
           /\ UNCHANGED <<inFlight, srtt>>

AttemptForgets(q) ==              \* mutant: what is sent again is taken out
    pending' = Without(pending, {q})

AttemptUncounted(q) ==            \* mutant: a retransmission is not counted
    pending' = [pending EXCEPT ![q].age = 0]

Attempt(q) ==
    pending' = [pending EXCEPT ![q].attempts = MinOf(@ + 1, MaxAttempts + 1), ![q].age = 0]

TakeUp(who, q) ==
    /\ Visits(who, q) /\ q \in DOMAIN pending
    /\ Attempt(q)
    /\ BackOff
    /\ resend' = [resend EXCEPT ![who] = @ \cup {pending[q].frame}]
    /\ UNCHANGED <<alive, counters, lock, sender, network, pruned, drops>>

NackOne(q) == TakeUp("nack", q) /\ UNCHANGED timerSends

(* The resend worker: the frames that are due when it takes the lock.       *)
DueOnceMore ==                    \* mutant: one attempt too many
    {q \in DOMAIN pending : pending[q].age > rto /\ pending[q].attempts <= MaxAttempts}

Due == {q \in DOMAIN pending : pending[q].age > rto /\ pending[q].attempts < MaxAttempts}

WorkerWakes == /\ resend["worker"] = {} /\ Due # {}
               /\ StartWalk("worker", Due)

Times(q) == IF q \in DOMAIN timerSends THEN timerSends[q] ELSE 0
WorkerOne(q) == /\ TakeUp("worker", q)
                /\ timerSends' = [x \in DOMAIN timerSends \cup {q} |-> IF x = q THEN Times(q) + 1 ELSE timerSends[x]]

(* After the lock, the frames taken up are transmitted again, also those    *)
(* acknowledged and those of a dropped session.                             *)
Retransmit(who) == /\ lock = "free" /\ resend[who] # {}
                   /\ wire' = wire \cup resend[who]
                   /\ resend' = [resend EXCEPT ![who] = {}]
                   /\ UNCHANGED <<session, lock, todo, sender, received, history>>

(***************************************************************************)
(* Time, expiry, and the end of the session                                *)
(***************************************************************************)
Tick == /\ MaxAges /\ lock = "free"
        /\ \E q \in DOMAIN pending : pending[q].age < AgeCap
        /\ pending' = [q \in DOMAIN pending |-> [pending[q] EXCEPT !.age = MinOf(@ + 1, AgeCap)]]
        /\ UNCHANGED <<alive, counters, flow, locking, sender, network, history>>

(* A frame set of the peer arrives: prune_session_queues.  Nothing is taken *)
(* off the bytes in flight.                                                 *)
Prune == /\ lock = "free" /\ alive
         /\ LET old == {q \in DOMAIN pending : pending[q].age > TTL}
            IN  /\ old # {}
                /\ pending' = Without(pending, old)
                /\ pruned' = pruned \cup old
         /\ UNCHANGED <<alive, counters, flow, locking, sender, network, timerSends, drops>>

DropSession == /\ lock = "free" /\ alive /\ drops < MaxDrops
               /\ alive' = FALSE /\ pending' = NoFn
               /\ drops' = drops + 1
               /\ UNCHANGED <<counters, flow, locking, sender, network, pruned, timerSends>>

SenderStep(t) == \/ \E m \in Messages : Send(t, m)
                 \/ Allocate(t) \/ Register(t) \/ Transmit(t) \/ TransmitFails(t)

Walk == \/ \E q \in todo : AckOne(q) \/ NackOne(q) \/ WorkerOne(q) \/ \E who \in Walkers : Unknown(who, q)
        \/ EndWalk

Next == \/ \E t \in Senders : SenderStep(t)
        \/ \E f \in wire : Arrives(f)
        \/ AckArrives \/ NackArrives \/ WorkerWakes \/ Walk
        \/ \E who \in {"nack", "worker"} : Retransmit(who)
        \/ Tick \/ Prune \/ DropSession

(* The runtime runs the tasks and the worker, its lock is handed out in the *)
(* order of the requests, and time passes.  Nothing is assumed of the       *)
(* network or the peer.                                                     *)
Fairness == /\ \A t \in Senders : SF_vars(Allocate(t) \/ Register(t) \/ Transmit(t) \/ TransmitFails(t))
            /\ WF_vars(Walk) /\ SF_vars(WorkerWakes) /\ SF_vars(Tick)
            /\ SF_vars(Retransmit("nack")) /\ SF_vars(Retransmit("worker"))
Spec == Init /\ [][Next]_vars /\ Fairness

(***************************************************************************)
(* Properties                                                              *)
(***************************************************************************)
Frames == [msg : Messages \cup {NoMessage}, part : Nat, seq : Nat, rel : Nat, ord : Nat, life : Nat]
Entries == [frame : Frames, age : 0..AgeCap, attempts : 1..MaxAttempts + 1]

(* The variables have their types: no subtraction of times or sizes         *)
(* underflows, and the entries of the pending table are whole.              *)
TypeOK ==
    /\ alive \in BOOLEAN /\ packetSeq \in Nat /\ reliableSeq \in Nat /\ orderIndex \in Nat
    /\ DOMAIN pending \subseteq Nat /\ \A q \in DOMAIN pending : pending[q] \in Entries
    /\ inFlight \in Nat /\ window \in Nat /\ threshold \in Nat /\ rto \in Nat
    /\ srtt \in 0..AgeCap \cup {NoRtt}
    /\ lock \in Walkers \cup {"free"} /\ todo \subseteq Nat
    /\ resend \in [{"nack", "worker"} -> SUBSET Frames]
    /\ pc \in [Senders -> {"idle", "allocate", "register", "transmit"}]
    /\ job \in [Senders -> Frames] /\ held \in [Senders -> Frames]
    /\ unsent \subseteq Messages /\ wire \subseteq Frames /\ received \subseteq wire
    /\ pruned \subseteq Nat /\ drops \in 0..MaxDrops
    /\ DOMAIN timerSends \subseteq Nat /\ \A q \in DOMAIN timerSends : timerSends[q] \in Nat

(* However acknowledgements, complaints and timeouts follow each other, the *)
(* window and its threshold stay above their floor, and the timeout within  *)
(* its two limits (handshake.rs and the resend worker of mod.rs).           *)
FlowWithinLimits == /\ WindowFloor <= window /\ WindowFloor <= threshold
                    /\ RtoMin <= rto /\ rto <= RtoMax

(* The bytes in flight cover at least the pending messages, so that the     *)
(* saturating subtraction of the ACK handler never saturates.               *)
InFlightCoversPending == FrameSize * Cardinality(DOMAIN pending) <= inFlight

(* The frames that have their numbers: transmitted, about to be, or kept to *)
(* be sent again, those included whose first transmission failed.           *)
Numbered == wire \cup {held[t] : t \in {u \in Senders : pc[u] \in {"register", "transmit"}}}
                 \cup {pending[q].frame : q \in DOMAIN pending}
                 \cup resend["nack"] \cup resend["worker"]
Reliable(f) == Shape[f.msg].reliable
Ordered(f) == Shape[f.msg].ordered

(* Tasks that send at the same time, to a session that may be dropped and   *)
(* created again between any two of their steps, never get the same         *)
(* numbers from one session (allocate_sequence under the lock).             *)
NumbersAreUnique ==
    \A f, g \in Numbered : f # g /\ f.life = g.life =>
        /\ f.seq # g.seq
        /\ Reliable(f) /\ Reliable(g) => f.rel # g.rel
        /\ Ordered(f) /\ Ordered(g) => f.ord # g.ord

(* As long as the session lives, a reliable frame that was transmitted and  *)
(* has not reached the peer is remembered for retransmission, unless it has *)
(* expired (register_pending, the handlers, the worker).  Numbers that have *)
(* come round on the wire would settle frames with the same number.         *)
NoSilentLoss == drops = 0 /\ packetSeq <= WireMod =>
    \A f \in wire \ received : Reliable(f) => f.seq \in DOMAIN pending \cup pruned

(* The worker sends a frame at most MaxAttempts - 1 times after the first.  *)
RetriesBounded == drops = 0 => \A q \in DOMAIN timerSends : timerSends[q] < MaxAttempts

(* A pending frame does not wait for ever: it is acknowledged, expires, or  *)
(* the worker makes its last attempt.                                       *)
Waiting(q) == q \in DOMAIN pending /\ pending[q].attempts < MaxAttempts
RetriesEnd == \A q \in 1..WireMod : Waiting(q) ~> ~Waiting(q)
=============================================================================
