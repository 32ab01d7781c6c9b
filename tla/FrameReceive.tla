---------------------------- MODULE FrameReceive ----------------------------
(***************************************************************************)
(* The receive path of the RakNet server for one peer: handle_game_packet  *)
(* of src/raknet/server/mod.rs with the split buffers, the ordered         *)
(* channels and the expiry of src/raknet/server/session.rs.                *)
(*                                                                         *)
(* The peer sends messages 1, 2, ...; each has an order channel or none,   *)
(* and is cut into one or more frames.  The network may put any frames     *)
(* sent so far into a datagram, in any order, any number of times: what    *)
(* UDP and a peer that repacks its retransmissions produce; or it is       *)
(* orderly, and hands on every frame once and in turn.  Datagrams are      *)
(* handled one after the other, as the receive loop does, frame by frame;  *)
(* log is what dispatch_raknet_packet is called with.  Frames are long     *)
(* enough for their lengths to be read as bits (see FrameCodec).           *)
(***************************************************************************)
EXTENDS Naturals, Sequences, FiniteSets

CONSTANTS Cases,      \* what a peer may have to send, and over which network
          Unordered,  \* the ch of a message without order channel
          IndexMod,   \* the order index has this many values on the wire (2^24)
          SplitIds,   \* the values of the split id (2^16)
          MaxParts,   \* MAX_SPLIT_PARTS
          TTL,        \* SESSION_QUEUE_TTL_SECS, in ticks
          MaxFrames,  \* bound on the frames of a datagram
          MaxLog,     \* bound on the payloads dispatched over a network without order
          MaxTicks    \* bound on the time that passes

(* A message has a number of fragments, an order channel, a split id, and   *)
(* is a goodbye or not.                                                     *)
Messages == [parts : Nat \ {0}, ch : Nat \cup {Unordered}, sid : SplitIds, bye : BOOLEAN]
ASSUME CaseAssumption == Cases \subseteq [script : Seq(Messages), orderly : BOOLEAN]
ASSUME WireAssumption == IndexMod \in Nat \ {0} /\ MaxParts \in Nat \ {0}
ASSUME BoundAssumption ==
    /\ TTL \in Nat /\ MaxFrames \in Nat /\ MaxLog \in Nat /\ MaxTicks \in Nat

VARIABLES active,   \* connections has an entry for the peer
          chan,     \* ordered_channels: channel -> [next, buffer]
          splits,   \* split_buffers of the peer: split id -> [count, frags, age, idx, ch]
          pc,       \* where handle_game_packet is
          datagram, \* the frames read from the datagram being handled
          inbox,    \* those still to be handled, in order
          flushing, \* the ordered channel being flushed
          emit,     \* to_emit: payloads to dispatch before the next frame
          log,      \* dispatched payloads, with the index and the life of the channel
          acked,    \* frames of acknowledged datagrams, as far as these were read
          expired,  \* frames discarded by the expiry
          life,     \* number of ordered channels created so far
          closed,   \* the peer has said goodbye
          script,   \* the messages of this peer
          orderly,  \* the network neither loses nor repeats nor reorders
          sent,     \* number of messages the peer has sent
          cursor,   \* the frame the network delivers next when it keeps order
          ticks

queues == <<active, chan, splits>>
control == <<pc, datagram, inbox, flushing, emit>>
history == <<log, acked, expired, life, closed>>
network == <<script, orderly, sent, cursor, ticks>>
vars == <<queues, control, history, network>>

NoFn == [x \in {} |-> x]

(***************************************************************************)
(* Frames.  A frame is a message and a part; its wire fields follow.       *)
(***************************************************************************)
Ids == DOMAIN script
Frames == UNION {{[msg |-> m, part |-> p] : p \in 1..script[m].parts} : m \in Ids}
Peers(m) == {k \in 1..(m - 1) : script[k].ch = script[m].ch}
OrderIndex(m) == Cardinality(Peers(m)) % IndexMod
SplitId(m) == script[m].sid
IsSplit(m) == script[m].parts > 1
Whole(m) == [p \in 1..script[m].parts |-> [msg |-> m, part |-> p]]

FollowingFrame(f) == IF f.part < script[f.msg].parts
                       THEN [f EXCEPT !.part = @ + 1]
                       ELSE [msg |-> f.msg + 1, part |-> 1]

(***************************************************************************)
(* Ordered channels: buffer_ordered_payload                                *)
(***************************************************************************)
FreshChannel(l) == [next |-> 0, buffer |-> NoFn, life |-> l]

WithPayload(buffer, idx, payload) ==
    [i \in DOMAIN buffer \cup {idx} |-> IF i = idx THEN [payload |-> payload, age |-> 0] ELSE buffer[i]]

AdoptsNever(channel, idx) == FALSE            \* mutant: a new channel starts at index 0

AdoptsAlways(channel, idx) ==                 \* mutant: a lone payload always restarts the count
    DOMAIN channel.buffer \subseteq {idx}

(* The first payload of a channel at 0 sets its next index.                 *)
Adopts(channel, idx) == DOMAIN channel.buffer \subseteq {idx} /\ channel.next = 0

Insert(channel, idx, payload) ==
    [channel EXCEPT !.buffer = WithPayload(@, idx, payload),
                    !.next = IF Adopts(channel, idx) THEN idx ELSE @]

Advanced(channel) ==
    [channel EXCEPT !.next = @ + 1, !.buffer = [i \in DOMAIN @ \ {channel.next} |-> @[i]]]

Entry(payload, ch, idx, l) == [payload |-> payload, ch |-> ch, idx |-> idx, life |-> l]

(***************************************************************************)
(* Expiry: prune_split_buffers_for_peer and prune_session_queues.  An      *)
(* ordered channel whose buffer is empty is dropped, with its next index.  *)
(***************************************************************************)
Alive(e) == e.age <= TTL

PrunedSplits == [s \in {s \in DOMAIN splits : Alive(splits[s])} |-> splits[s]]

AliveIn(buffer) == {i \in DOMAIN buffer : Alive(buffer[i])}
PrunedChannels ==
    [c \in {c \in DOMAIN chan : AliveIn(chan[c].buffer) # {}} |->
        [chan[c] EXCEPT !.buffer = [i \in AliveIn(@) |-> @[i]]]]

FramesIn(payload) == {payload[p] : p \in DOMAIN payload}
FramesOfSplits(ids) == UNION {FramesIn(splits[s].frags) : s \in ids}
FramesOfBuffers(P(_)) ==
    UNION {UNION {FramesIn(chan[c].buffer[i].payload) :
                  i \in {i \in DOMAIN chan[c].buffer : P(chan[c].buffer[i])}} : c \in DOMAIN chan}

Prune == /\ splits' = PrunedSplits
         /\ chan' = PrunedChannels
         /\ expired' = expired \cup FramesOfSplits({s \in DOMAIN splits : ~Alive(splits[s])})
                                \cup FramesOfBuffers(LAMBDA e : ~Alive(e))

Init == /\ active = TRUE /\ chan = NoFn /\ splits = NoFn
        /\ pc = "idle" /\ datagram = {} /\ inbox = <<>> /\ flushing = Unordered /\ emit = <<>>
        /\ log = <<>> /\ acked = {} /\ expired = {} /\ life = 0 /\ closed = FALSE
        /\ \E case \in Cases : script = case.script /\ orderly = case.orderly
        /\ sent = 0 /\ cursor = [msg |-> 1, part |-> 1] /\ ticks = 0

(***************************************************************************)
(* The peer, the network, the clock                                        *)
(***************************************************************************)
PeerSends == /\ sent < Len(script)
             /\ sent' = sent + 1
             /\ UNCHANGED <<queues, control, history, script, orderly, cursor, ticks>>

OnTheWay == {f \in Frames : f.msg <= sent}
InTurn(d) == /\ d[1] = cursor
             /\ \A i \in 1..(Len(d) - 1) : d[i + 1] = FollowingFrame(d[i]) /\ ~IsSplit(d[i].msg)
Datagrams ==
    {d \in UNION {[1..n -> OnTheWay] : n \in 1..MaxFrames} : orderly => InTurn(d)}

Older(e) == [e EXCEPT !.age = @ + 1]

(* Time passes between datagrams; handling one takes less than a tick.      *)
Tick == /\ pc = "idle" /\ ticks < MaxTicks
        /\ ticks' = ticks + 1
        /\ splits' = [s \in DOMAIN splits |-> Older(splits[s])]
        /\ chan' = [c \in DOMAIN chan |->
                       [chan[c] EXCEPT !.buffer = [i \in DOMAIN @ |-> Older(@[i])]]]
        /\ UNCHANGED <<active, control, history, script, orderly, sent, cursor>>

(***************************************************************************)
(* handle_game_packet                                                      *)
(***************************************************************************)
(* parse_frame_set stops reading behind a fragment: the frames that follow  *)
(* it are lost, though the acknowledgement names their datagram as well.    *)
ReadsTo(d, n) == /\ \A i \in 1..(n - 1) : ~IsSplit(d[i].msg)
                 /\ n = Len(d) \/ IsSplit(d[n].msg)

Receive(d) ==
    /\ pc = "idle" /\ active /\ (orderly \/ Len(log) < MaxLog)
    /\ Prune
    /\ pc' = "frames"
    /\ \E n \in 1..Len(d) :
           /\ ReadsTo(d, n)
           /\ inbox' = SubSeq(d, 1, n)
           /\ datagram' = {d[i] : i \in 1..n}
    /\ cursor' = IF orderly THEN FollowingFrame(d[Len(d)]) ELSE cursor
    /\ UNCHANGED <<active, flushing, emit, log, acked, life, closed, script, orderly, sent, ticks>>

(* Too short, or not a frame set: expiry only, no acknowledgement.          *)
ReceiveGarbage ==
    /\ pc = "idle" /\ active
    /\ Prune
    /\ UNCHANGED <<active, control, log, acked, life, closed, network>>

(* A whole message is dispatched next, or put into its ordered channel,     *)
(* which is then flushed.                                                   *)
Accept(payload, ch, idx) ==
    IF ch = Unordered
      THEN /\ emit' = <<Entry(payload, ch, idx, 0)>>
           /\ pc' = "dispatch"
           /\ UNCHANGED <<chan, flushing, life>>
      ELSE /\ chan' = [c \in DOMAIN chan \cup {ch} |->
                          IF c # ch THEN chan[c]
                          ELSE Insert(IF ch \in DOMAIN chan THEN chan[ch] ELSE FreshChannel(life + 1),
                                      idx, payload)]
           /\ life' = IF ch \in DOMAIN chan THEN life ELSE life + 1
           /\ flushing' = ch
           /\ pc' = "flush"
           /\ UNCHANGED emit

WholeFrame(f) ==
    /\ ~IsSplit(f.msg)
    /\ Accept(<<f>>, script[f.msg].ch, OrderIndex(f.msg))
    /\ UNCHANGED splits

TooManyParts(f) == IsSplit(f.msg) /\ script[f.msg].parts > MaxParts

SkippedFragment(f) ==
    /\ TooManyParts(f)
    /\ UNCHANGED <<chan, splits, life, flushing, emit, pc>>

(* The buffer of a split id keeps the count and the order of the fragment   *)
(* that opened it; a fragment that does not fit it, or came already, is     *)
(* ignored.  The last missing one closes it.                                *)
SplitBuffer(f) ==
    IF SplitId(f.msg) \in DOMAIN splits THEN splits[SplitId(f.msg)]
    ELSE [count |-> script[f.msg].parts, frags |-> NoFn, age |-> 0,
          idx |-> OrderIndex(f.msg), ch |-> script[f.msg].ch]

FitsNotLast(f, buffer) ==                     \* mutant: off by one, the last is ignored
    f.part < buffer.count /\ f.part \notin DOMAIN buffer.frags

Fits(f, buffer) == f.part <= buffer.count /\ f.part \notin DOMAIN buffer.frags

FilledAsTheyCome(f, buffer) ==                \* mutant: fragments are kept in order of arrival
    IF Fits(f, buffer)
      THEN [buffer EXCEPT !.frags = Append(@, f)]
      ELSE buffer

Filled(f, buffer) ==
    IF Fits(f, buffer)
      THEN [buffer EXCEPT !.frags = [p \in DOMAIN @ \cup {f.part} |-> IF p = f.part THEN f ELSE @[p]]]
      ELSE buffer

Complete(buffer) == DOMAIN buffer.frags = 1..buffer.count

Fragment(f) ==
    /\ IsSplit(f.msg) /\ ~TooManyParts(f)
    /\ LET sid == SplitId(f.msg)
           new == Filled(f, SplitBuffer(f))
       IN  IF Complete(new)
             THEN /\ splits' = [i \in DOMAIN splits \ {sid} |-> splits[i]]
                  /\ Accept(new.frags, new.ch, new.idx)
             ELSE /\ splits' = [i \in DOMAIN splits \cup {sid} |-> IF i = sid THEN new ELSE splits[i]]
                  /\ UNCHANGED <<chan, life, flushing, emit, pc>>

(* Every frame makes sure that there is a session, even after a goodbye in  *)
(* the same datagram.                                                       *)
HandleFrame ==
    /\ pc = "frames" /\ inbox # <<>>
    /\ WholeFrame(Head(inbox)) \/ Fragment(Head(inbox)) \/ SkippedFragment(Head(inbox))
    /\ active' = TRUE
    /\ inbox' = Tail(inbox)
    /\ UNCHANGED <<datagram, log, acked, expired, closed, network>>

GoOn == UNCHANGED <<pc, flushing>>

Stop == pc' = (IF emit = <<>> THEN "frames" ELSE "dispatch") /\ flushing' = Unordered

(* One turn of the while loop of buffer_ordered_payload.  The next index    *)
(* does not wrap: an index of the wire has 24 bits, next_index has 32.      *)
Flush ==
    /\ pc = "flush"
    /\ LET channel == chan[flushing]
           n == channel.next
       IN  IF n \in DOMAIN channel.buffer
             THEN /\ emit' = Append(emit, Entry(channel.buffer[n].payload, flushing, n, channel.life))
                  /\ chan' = [chan EXCEPT ![flushing] = Advanced(channel)]
                  /\ GoOn
             ELSE Stop /\ UNCHANGED <<emit, chan>>
    /\ UNCHANGED <<active, splits, datagram, inbox, history, network>>

(* dispatch_raknet_packet.  A goodbye drops the session and the split       *)
(* buffers (drop_connection_state).                                         *)
IsBye(entry) == script[entry.payload[1].msg].bye

DropTableOnly ==                              \* mutant: the split buffers are not removed
    active' = FALSE /\ chan' = NoFn /\ UNCHANGED splits

DropState == active' = FALSE /\ chan' = NoFn /\ splits' = NoFn

Dispatch ==
    /\ pc = "dispatch"
    /\ log' = Append(log, Head(emit))
    /\ IF IsBye(Head(emit))
         THEN DropState /\ closed' = TRUE
         ELSE UNCHANGED <<queues, closed>>
    /\ emit' = Tail(emit)
    /\ pc' = IF Tail(emit) = <<>> THEN "frames" ELSE "dispatch"
    /\ UNCHANGED <<datagram, inbox, flushing, acked, expired, life, network>>

(* The acknowledgement names the whole datagram, whatever became of it.     *)
Acknowledge ==
    /\ pc = "frames" /\ inbox = <<>>
    /\ pc' = "idle" /\ datagram' = {}
    /\ acked' = acked \cup datagram
    /\ UNCHANGED <<queues, inbox, flushing, emit, log, expired, life, closed, network>>

Next == \/ PeerSends \/ Tick
        \/ \E d \in Datagrams : Receive(d)
        \/ ReceiveGarbage \/ HandleFrame \/ Flush \/ Dispatch \/ Acknowledge

Spec == Init /\ [][Next]_vars

(***************************************************************************)
(* Properties                                                              *)
(***************************************************************************)
TypeOK ==
    /\ active \in BOOLEAN /\ closed \in BOOLEAN
    /\ pc \in {"idle", "frames", "flush", "dispatch"}
    /\ \A c \in DOMAIN chan :
          /\ c \in Nat /\ chan[c].next \in Nat /\ chan[c].life \in 1..life
          /\ \A i \in DOMAIN chan[c].buffer :
                /\ i \in 0..(IndexMod - 1) /\ chan[c].buffer[i].age \in Nat
                /\ FramesIn(chan[c].buffer[i].payload) \subseteq Frames
    /\ \A s \in DOMAIN splits :
          /\ s \in SplitIds /\ splits[s].age \in Nat
          /\ FramesIn(splits[s].frags) \subseteq Frames
    /\ inbox \in Seq(Frames) /\ datagram \subseteq Frames
    /\ pc = "flush" => flushing \in DOMAIN chan
    /\ pc = "dispatch" => emit # <<>>
    /\ acked \subseteq Frames /\ expired \subseteq Frames
    /\ life \in Nat /\ script \in Seq(Messages) /\ orderly \in BOOLEAN /\ sent \in 0..Len(script) /\ ticks \in 0..MaxTicks

(* Enough indices and split ids for the messages in question.               *)
WireHasRoom ==
    /\ Len(script) <= IndexMod
    /\ \A m, k \in Ids : m # k /\ IsSplit(m) /\ IsSplit(k) => SplitId(m) # SplitId(k)

(* No payload that could go on is left waiting: outside the flush, the next *)
(* index of a channel is not in its buffer.                                 *)
NothingReadyWaits ==
    \A c \in DOMAIN chan : pc # "flush" \/ c # flushing => chan[c].next \notin DOMAIN chan[c].buffer

(* A message in parts waits for some part it has not got, and will take no  *)
(* other; it has some, and is not of too many parts.                        *)
SplitsLackParts ==
    \A s \in DOMAIN splits :
        /\ splits[s].count <= MaxParts
        /\ DOMAIN splits[s].frags # {}
        /\ DOMAIN splits[s].frags \subseteq 1..splits[s].count
        /\ ~Complete(splits[s])

(* No split buffer outlives the session of its peer: a fragment from before *)
(* a goodbye never completes a message of the session after it.             *)
SplitsBelongToSession == DOMAIN splits # {} => active

(* Whatever is kept waits for a frame that has not come, and ends with the  *)
(* session: drop_connection_state clears the table and the split buffers,   *)
(* which are apart, also where a goodbye and fragments share a datagram.    *)
QueuesInOrder == TypeOK /\ NothingReadyWaits /\ SplitsLackParts /\ SplitsBelongToSession

(* What is dispatched is one message, whole, in the order of its fragments, *)
(* however these arrived.                                                   *)
ReassemblyIntact ==
    WireHasRoom => \A k \in DOMAIN log : \E m \in Ids : log[k].payload = Whole(m)

(* Within the life of an ordered channel, payloads are dispatched in order, *)
(* without a gap and without a repetition.                                  *)
InOrderWithinLife ==
    \A j, k \in DOMAIN log :
        /\ j < k /\ log[j].life = log[k].life /\ log[j].life # 0
        /\ \A i \in (j + 1)..(k - 1) : log[i].life # log[j].life
        => log[k].ch = log[j].ch /\ log[k].idx = log[j].idx + 1

(* A frame that was read and acknowledged, which the peer will not send     *)
(* again, is accounted for: it was dispatched, waits in a buffer, expired   *)
(* there, belongs to a message of too many parts, or the peer has said      *)
(* goodbye.                                                                 *)
Waiting == FramesOfSplits(DOMAIN splits) \cup FramesOfBuffers(LAMBDA e : TRUE)
FramesOfEntries(entries) == UNION {FramesIn(entries[k].payload) : k \in DOMAIN entries}
AckedIsAccounted ==
    WireHasRoom => \A f \in acked :
        \/ f \in FramesOfEntries(log) \cup FramesOfEntries(emit) \cup Waiting \cup expired
        \/ TooManyParts(f) \/ closed

(* What the comments of the receive path promise ("after ordering           *)
(* guarantees", "in-order enforced"): an ordered channel is dispatched in   *)
(* the order of its indices.                                                *)
DispatchedInOrder ==
    \A j, k \in DOMAIN log :
        j < k /\ log[j].ch = log[k].ch /\ log[j].ch # Unordered => log[j].idx <= log[k].idx

(***************************************************************************)
(* While the network keeps order and nothing expires, the receive path is  *)
(* a first-in first-out channel for whole messages.                        *)
(***************************************************************************)
Fifo == INSTANCE FifoChannel WITH got <- [k \in DOMAIN log |-> log[k].payload[1].msg],
                                  intact <- orderly /\ expired = {}
ImplementsFifo == Fifo!Spec
=============================================================================
