-------------------------- MODULE FrameReceiveProofs --------------------------
(***************************************************************************)
(* Theorems about FrameReceive: its queues stay in order, and an ordered   *)
(* channel dispatches without a gap or a repetition during its life, for   *)
(* any messages, datagrams and expiry; what is dispatched is one message,  *)
(* whole; what was acknowledged is accounted for; and the path implements  *)
(* FifoChannel: over a network that keeps order, while nothing expires,    *)
(* every message is dispatched once, in turn.                              *)
(***************************************************************************)
EXTENDS FrameReceive, SequenceTheorems, FiniteSetTheorems, TLAPS

Indices == 0..(IndexMod - 1)
Chs == Nat \cup {Unordered}

(* What is dispatched, what a channel buffers, a channel, a split buffer.   *)
Entries == [payload : Seq(Frames), ch : Chs, idx : Indices, life : Nat]
IsBuffer(b) ==
    /\ DOMAIN b \subseteq Indices
    /\ \A i \in DOMAIN b : b[i] \in [payload : Seq(Frames), age : Nat]
IsChannel(x) ==
    /\ x = [next |-> x.next, buffer |-> x.buffer, life |-> x.life]
    /\ x.next \in Nat /\ x.life \in Nat \ {0} /\ IsBuffer(x.buffer)
IsSplitBuffer(x) ==
    /\ x = [count |-> x.count, frags |-> x.frags, age |-> x.age, idx |-> x.idx, ch |-> x.ch]
    /\ x.count \in Nat /\ x.age \in Nat /\ x.idx \in Indices /\ x.ch \in Chs
    /\ DOMAIN x.frags \subseteq Nat /\ x.frags \in [DOMAIN x.frags -> Frames]

ChannelsTyped == \A c \in DOMAIN chan : c \in Nat /\ IsChannel(chan[c]) /\ chan[c].life <= life
SplitsTyped == \A s \in DOMAIN splits : s \in SplitIds /\ IsSplitBuffer(splits[s])
FramesTyped ==
    /\ inbox \in Seq(Frames) /\ datagram \subseteq Frames
    /\ acked \subseteq Frames /\ expired \subseteq Frames
EntriesTyped == log \in Seq(Entries) /\ emit \in Seq(Entries)
ControlTyped ==
    /\ active \in BOOLEAN /\ closed \in BOOLEAN
    /\ pc \in {"idle", "frames", "flush", "dispatch"}
    /\ life \in Nat /\ script \in Seq(Messages) /\ orderly \in BOOLEAN
    /\ sent \in 0..Len(script) /\ ticks \in 0..MaxTicks
    /\ pc = "flush" => flushing \in DOMAIN chan
    /\ pc = "dispatch" => emit # <<>>
    /\ pc \in {"idle", "frames"} => emit = <<>>

(* The types that one step preserves: TypeOK, and what it leaves implicit   *)
(* of the shape of the buffers.                                             *)
TypeInv == ChannelsTyped /\ SplitsTyped /\ FramesTyped /\ EntriesTyped /\ ControlTyped

(* The inductive invariant of the queues.                                   *)
QueueInv == TypeInv /\ NothingReadyWaits /\ SplitsBelongToSession

(* The wire fields of a frame have their types.                             *)
LEMMA FrameFields ==
    ASSUME script \in Seq(Messages), NEW f \in Frames
    PROVE  /\ f.msg \in Ids /\ f.part \in 1..script[f.msg].parts
           /\ script[f.msg] \in Messages
           /\ script[f.msg].parts \in Nat \ {0}
           /\ script[f.msg].ch \in Chs
           /\ SplitId(f.msg) \in SplitIds
           /\ OrderIndex(f.msg) \in Indices
<1>1. PICK m \in Ids : \E p \in 1..script[m].parts : f = [msg |-> m, part |-> p]
  BY DEF Frames
<1>2. m \in 1..Len(script) /\ script[m] \in Messages
  BY <1>1, LenProperties, ElementOfSeq DEF Ids
<1>3. Peers(m) \subseteq 1..(m - 1) /\ m - 1 \in Int
  BY <1>2, LenProperties DEF Peers
<1>4. Cardinality(Peers(m)) \in Nat
  <2>1. IsFiniteSet(1..(m - 1))
    BY <1>3, FS_Interval
  <2>2. IsFiniteSet(Peers(m))
    BY <1>3, <2>1, FS_Subset
  <2> QED
    BY <2>2, FS_CardinalityType
<1>5. OrderIndex(m) \in Indices
  BY <1>4, WireAssumption DEF OrderIndex, Indices
<1> QED
  BY <1>1, <1>2, <1>5 DEF Messages, Chs, SplitId

(* The frames of the peer do not change.                                    *)
LEMMA FramesStay ==
    ASSUME [Next]_vars
    PROVE  script' = script /\ Frames' = Frames /\ Entries' = Entries
<1>1. script' = script
  BY DEF Next, PeerSends, Tick, Receive, ReceiveGarbage, HandleFrame, Flush, Dispatch, Acknowledge,
         vars, network
<1>2. Frames' = Frames
  BY <1>1 DEF Frames, Ids
<1> QED
  BY <1>1, <1>2 DEF Entries

(* Expiry keeps the shape of what it leaves, and what it discards are       *)
(* frames; it makes nothing ready.                                          *)
LEMMA PruneStep ==
    ASSUME QueueInv, Prune, Frames' = Frames, life' = life
    PROVE  /\ ChannelsTyped' /\ SplitsTyped'
           /\ expired' \subseteq Frames
           /\ DOMAIN splits' \subseteq DOMAIN splits
           /\ \A c \in DOMAIN chan' :
                  /\ c \in DOMAIN chan /\ chan'[c].next = chan[c].next /\ chan'[c].life = chan[c].life
                  /\ DOMAIN chan'[c].buffer \subseteq DOMAIN chan[c].buffer
<1> USE DEF QueueInv, TypeInv
<1>1. ASSUME NEW c \in DOMAIN chan'
      PROVE  /\ c \in DOMAIN chan
             /\ chan'[c] = [chan[c] EXCEPT !.buffer = [i \in AliveIn(@) |-> @[i]]]
  BY DEF Prune, PrunedChannels
<1>2. ASSUME NEW c \in DOMAIN chan'
      PROVE  /\ c \in DOMAIN chan /\ c \in Nat /\ IsChannel(chan[c]) /\ chan[c].life <= life
             /\ chan'[c] = [next |-> chan[c].next, life |-> chan[c].life,
                            buffer |-> [i \in AliveIn(chan[c].buffer) |-> chan[c].buffer[i]]]
  <2>1. c \in DOMAIN chan /\ IsChannel(chan[c]) /\ c \in Nat /\ chan[c].life <= life
    BY <1>1 DEF ChannelsTyped
  <2>2. chan[c] = [next |-> chan[c].next, buffer |-> chan[c].buffer, life |-> chan[c].life]
    BY <2>1 DEF IsChannel
  <2>3. chan'[c] = [chan[c] EXCEPT !.buffer = [i \in AliveIn(chan[c].buffer) |-> chan[c].buffer[i]]]
    BY <1>1
  <2> QED
    BY <2>1, <2>2, <2>3
<1>3. ASSUME NEW c \in DOMAIN chan'
      PROVE  /\ IsChannel(chan[c])' /\ chan'[c].life <= life'
             /\ chan'[c].next = chan[c].next /\ chan'[c].life = chan[c].life
             /\ DOMAIN chan'[c].buffer \subseteq DOMAIN chan[c].buffer
  <2> DEFINE old == chan[c].buffer
             new == [i \in AliveIn(old) |-> old[i]]
  <2>1. chan'[c] = [next |-> chan[c].next, buffer |-> new, life |-> chan[c].life]
    BY <1>2
  <2>2. IsBuffer(old)
    BY <1>2 DEF IsChannel
  <2>3. DOMAIN new \subseteq DOMAIN old /\ \A i \in DOMAIN new : new[i] = old[i]
    BY DEF AliveIn
  <2>4. chan[c].next \in Nat /\ chan[c].life \in Nat \ {0} /\ chan[c].life <= life
    BY <1>2 DEF IsChannel
  <2> HIDE DEF new, old
  <2>5. IsBuffer(new)
    BY <2>2, <2>3 DEF IsBuffer
  <2>6. chan'[c].buffer = new
    BY <2>1
  <2>7. IsBuffer(chan[c].buffer)'
    BY <2>5, <2>6 DEF IsBuffer
  <2> QED
    BY <2>1, <2>3, <2>4, <2>6, <2>7 DEF IsChannel, old
<1>4. ChannelsTyped'
  BY <1>2, <1>3 DEF ChannelsTyped
<1>5. SplitsTyped' /\ DOMAIN splits' \subseteq DOMAIN splits
  BY DEF Prune, PrunedSplits, SplitsTyped, IsSplitBuffer
<1>6. \A s \in DOMAIN splits : FramesIn(splits[s].frags) \subseteq Frames
  BY DEF SplitsTyped, IsSplitBuffer, FramesIn
<1>7. \A c \in DOMAIN chan : \A i \in DOMAIN chan[c].buffer :
          FramesIn(chan[c].buffer[i].payload) \subseteq Frames
  BY LenProperties, ElementOfSeq DEF ChannelsTyped, IsChannel, IsBuffer, FramesIn
<1>8. expired' \subseteq Frames
  BY <1>6, <1>7 DEF Prune, FramesOfSplits, FramesOfBuffers, FramesTyped
<1> QED
  BY <1>2, <1>3, <1>4, <1>5, <1>8

(* A payload put into a channel leaves a channel, of the same life; its     *)
(* next index changes only from 0.                                          *)
LEMMA InsertType ==
    ASSUME NEW x, IsChannel(x), NEW idx \in Indices, NEW payload \in Seq(Frames)
    PROVE  /\ IsChannel(Insert(x, idx, payload))
           /\ Insert(x, idx, payload).life = x.life
           /\ Insert(x, idx, payload).next # x.next => x.next = 0
           /\ Insert(x, idx, payload).buffer = WithPayload(x.buffer, idx, payload)
<1> DEFINE buffer == WithPayload(x.buffer, idx, payload)
           next == IF Adopts(x, idx) THEN idx ELSE x.next
<1>1. Insert(x, idx, payload) = [next |-> next, buffer |-> buffer, life |-> x.life]
  <2>1. Insert(x, idx, payload) = [x EXCEPT !.buffer = buffer, !.next = next]
    BY DEF Insert
  <2>2. x = [next |-> x.next, buffer |-> x.buffer, life |-> x.life]
    BY DEF IsChannel
  <2> HIDE DEF buffer, next
  <2> QED
    BY <2>1, <2>2
<1>2. IsBuffer(buffer)
  <2> DEFINE old == x.buffer
             new == [i \in DOMAIN old \cup {idx} |->
                        IF i = idx THEN [payload |-> payload, age |-> 0] ELSE old[i]]
  <2>1. DOMAIN old \subseteq Indices
        /\ \A i \in DOMAIN old : old[i] \in [payload : Seq(Frames), age : Nat]
    BY DEF IsChannel, IsBuffer
  <2>2. [payload |-> payload, age |-> 0] \in [payload : Seq(Frames), age : Nat]
    OBVIOUS
  <2>3. buffer = new
    BY DEF WithPayload
  <2> HIDE DEF old, buffer
  <2> QED
    BY <2>1, <2>2, <2>3 DEF IsBuffer
<1>3. next \in Nat /\ (next # x.next => x.next = 0)
  BY WireAssumption DEF Adopts, Indices, IsChannel
<1>4. x.life \in Nat \ {0}
  BY DEF IsChannel
<1> HIDE DEF buffer, next
<1>5. IsChannel(Insert(x, idx, payload))
  BY <1>1, <1>2, <1>3, <1>4 DEF IsChannel
<1>6. /\ Insert(x, idx, payload).life = x.life
      /\ Insert(x, idx, payload).next = next
      /\ Insert(x, idx, payload).buffer = buffer
  BY <1>1
<1> QED
  BY <1>3, <1>5, <1>6 DEF buffer

(* A new channel is one.                                                    *)
LEMMA FreshType ==
    ASSUME NEW l \in Nat \ {0}
    PROVE  IsChannel(FreshChannel(l))
BY DEF IsChannel, IsBuffer, FreshChannel, NoFn

(* What becomes of the channels when a whole message is accepted.           *)
LEMMA AcceptChannels ==
    ASSUME TypeInv, Frames' = Frames,
           NEW payload \in Seq(Frames), NEW ch \in Chs, NEW idx \in Indices,
           ch # Unordered, Accept(payload, ch, idx)
    PROVE  /\ ChannelsTyped' /\ life' \in Nat /\ life <= life'
           /\ DOMAIN chan' = DOMAIN chan \cup {ch}
           /\ \A c \in DOMAIN chan : c # ch => chan'[c] = chan[c]
           /\ ch \in DOMAIN chan =>
                  /\ chan'[ch].life = chan[ch].life
                  /\ chan'[ch].next # chan[ch].next => chan[ch].next = 0
           /\ ch \notin DOMAIN chan => chan'[ch].life = life + 1 /\ life' = life + 1
           /\ chan'[ch].buffer = WithPayload(IF ch \in DOMAIN chan THEN chan[ch].buffer ELSE NoFn,
                                             idx, payload)
<1> DEFINE old == IF ch \in DOMAIN chan THEN chan[ch] ELSE FreshChannel(life + 1)
<1>1. life \in Nat /\ ch \in Nat
  BY DEF TypeInv, ControlTyped, Chs
<1>2. /\ IsChannel(old)
      /\ old.life = IF ch \in DOMAIN chan THEN chan[ch].life ELSE life + 1
      /\ old.buffer = IF ch \in DOMAIN chan THEN chan[ch].buffer ELSE NoFn
  BY <1>1, FreshType DEF TypeInv, ChannelsTyped, FreshChannel
<1>3. chan' = [c \in DOMAIN chan \cup {ch} |-> IF c # ch THEN chan[c] ELSE Insert(old, idx, payload)]
  BY DEF Accept
<1>4. life' = IF ch \in DOMAIN chan THEN life ELSE life + 1
  BY DEF Accept
<1>5. /\ IsChannel(chan'[ch]) /\ chan'[ch].life = old.life
      /\ chan'[ch].next # old.next => old.next = 0
      /\ chan'[ch].buffer = WithPayload(old.buffer, idx, payload)
  BY <1>2, <1>3, InsertType
<1>6. \A c \in DOMAIN chan' : c \in Nat /\ IsChannel(chan'[c]) /\ chan'[c].life <= life'
  <2>1. \A c \in DOMAIN chan : c \in Nat /\ IsChannel(chan[c]) /\ chan[c].life <= life
    BY DEF TypeInv, ChannelsTyped
  <2>2. \A c \in DOMAIN chan : chan[c].life \in Nat
    BY <2>1 DEF IsChannel
  <2>3. chan'[ch].life <= life' /\ life <= life'
    BY <1>1, <1>2, <1>4, <1>5, <2>1, <2>2
  <2>4. \A c \in DOMAIN chan' : c # ch => c \in DOMAIN chan /\ chan'[c] = chan[c]
    BY <1>3
  <2> HIDE DEF old
  <2> QED
    BY <1>1, <1>4, <1>5, <2>1, <2>2, <2>3, <2>4
<1>7. \A x : IsChannel(x) => IsChannel(x)'
  BY DEF IsChannel, IsBuffer
<1>8. ChannelsTyped'
  BY <1>6, <1>7 DEF ChannelsTyped
<1> QED
  BY <1>1, <1>2, <1>3, <1>4, <1>5, <1>8

(* The buffer a fragment goes to, filled with it or not, is a split buffer; *)
(* a complete one holds a payload.                                          *)
LEMMA FilledType ==
    ASSUME TypeInv, NEW f \in Frames
    PROVE  /\ IsSplitBuffer(Filled(f, SplitBuffer(f)))
           /\ Complete(Filled(f, SplitBuffer(f))) => Filled(f, SplitBuffer(f)).frags \in Seq(Frames)
<1> DEFINE old == SplitBuffer(f)
           new == Filled(f, old)
<1>1. /\ script[f.msg].parts \in Nat /\ f.part \in Nat /\ script[f.msg].ch \in Chs
      /\ OrderIndex(f.msg) \in Indices
  BY FrameFields DEF TypeInv, ControlTyped
<1>2. IsSplitBuffer(old)
  BY <1>1 DEF TypeInv, SplitsTyped, SplitBuffer, IsSplitBuffer, NoFn
<1>3. IsSplitBuffer(new)
  <2>1. CASE ~Fits(f, old)
    BY <1>2, <2>1 DEF Filled
  <2>2. CASE Fits(f, old)
    <3> DEFINE g == [p \in DOMAIN old.frags \cup {f.part} |-> IF p = f.part THEN f ELSE old.frags[p]]
    <3> HIDE DEF old
    <3>1. old = [count |-> old.count, frags |-> old.frags, age |-> old.age, idx |-> old.idx, ch |-> old.ch]
      BY <1>2 DEF IsSplitBuffer
    <3>2. DOMAIN old.frags \subseteq Nat /\ old.frags \in [DOMAIN old.frags -> Frames]
      BY <1>2 DEF IsSplitBuffer
    <3>3. new = [old EXCEPT !.frags = g]
      BY <2>2 DEF Filled
    <3>4. DOMAIN g \subseteq Nat /\ g \in [DOMAIN g -> Frames]
      BY <1>1, <3>2
    <3> HIDE DEF g, new
    <3>5. new = [count |-> old.count, frags |-> g, age |-> old.age, idx |-> old.idx, ch |-> old.ch]
      BY <3>1, <3>3
    <3> QED
      BY <1>2, <3>4, <3>5 DEF IsSplitBuffer
  <2> QED
    BY <2>1, <2>2
<1>4. ASSUME Complete(new) PROVE new.frags \in Seq(Frames)
  <2> HIDE DEF new
  <2>1. new.count \in Nat /\ new.frags \in [1..new.count -> Frames]
    BY <1>3, <1>4 DEF IsSplitBuffer, Complete
  <2> QED
    BY <2>1, SeqDef
<1> QED
  BY <1>3, <1>4

(* Accepting a whole message keeps the queues in order: its channel is      *)
(* flushed next.                                                            *)
LEMMA AcceptStep ==
    ASSUME QueueInv, pc = "frames", Frames' = Frames, Entries' = Entries,
           NEW payload \in Seq(Frames), NEW ch \in Chs, NEW idx \in Indices,
           Accept(payload, ch, idx)
    PROVE  /\ ChannelsTyped' /\ life' \in Nat /\ emit' \in Seq(Entries)
           /\ pc' \in {"flush", "dispatch"}
           /\ pc' = "flush" => flushing' \in DOMAIN chan'
           /\ pc' = "dispatch" => emit' # <<>>
           /\ NothingReadyWaits'
<1>1. /\ life \in Nat /\ emit = <<>> /\ ChannelsTyped
      /\ \A c \in DOMAIN chan : chan[c].next \notin DOMAIN chan[c].buffer
  BY DEF QueueInv, TypeInv, ControlTyped, NothingReadyWaits
<1>2. CASE ch = Unordered
  <2>1. emit' = <<Entry(payload, ch, idx, 0)>> /\ pc' = "dispatch" /\ chan' = chan /\ life' = life
    BY <1>2 DEF Accept
  <2>2. Entry(payload, ch, idx, 0) \in Entries
    BY DEF Entry, Entries
  <2>3. \A x : IsChannel(x) => IsChannel(x)'
    BY DEF IsChannel, IsBuffer
  <2> QED
    BY <1>1, <2>1, <2>2, <2>3 DEF ChannelsTyped, NothingReadyWaits
<1>3. CASE ch # Unordered
  <2>1. pc' = "flush" /\ flushing' = ch /\ emit' = <<>>
    BY <1>1, <1>3 DEF Accept
  <2>2. /\ ChannelsTyped' /\ life' \in Nat /\ DOMAIN chan' = DOMAIN chan \cup {ch}
        /\ \A c \in DOMAIN chan : c # ch => chan'[c] = chan[c]
    BY <1>3, AcceptChannels DEF QueueInv
  <2>3. NothingReadyWaits'
    BY <1>1, <2>1, <2>2 DEF NothingReadyWaits
  <2> QED
    BY <2>1, <2>2, <2>3
<1> QED
  BY <1>2, <1>3

(* One turn of the flush.                                                   *)
LEMMA FlushChannels ==
    ASSUME TypeInv, Flush, Frames' = Frames
    PROVE  \/ /\ chan[flushing].next \notin DOMAIN chan[flushing].buffer
              /\ UNCHANGED <<chan, emit>> /\ Stop
           \/ /\ GoOn /\ ChannelsTyped' /\ DOMAIN chan' = DOMAIN chan
              /\ chan[flushing].next \in Indices
              /\ \A c \in DOMAIN chan : c # flushing => chan'[c] = chan[c]
              /\ chan'[flushing].life = chan[flushing].life
              /\ chan'[flushing].next = chan[flushing].next + 1
              /\ \E payload \in Seq(Frames) :
                     emit' = Append(emit, Entry(payload, flushing, chan[flushing].next,
                                                chan[flushing].life))
<1> DEFINE x == chan[flushing]
           n == x.next
           b == [i \in DOMAIN x.buffer \ {n} |-> x.buffer[i]]
<1>1. flushing \in DOMAIN chan /\ flushing \in Nat /\ IsChannel(x) /\ x.life <= life /\ life' = life
  BY DEF TypeInv, ControlTyped, ChannelsTyped, Flush, history
<1>2. CASE n \notin DOMAIN x.buffer
  BY <1>2 DEF Flush
<1>3. CASE n \in DOMAIN x.buffer
  <2>1. /\ emit' = Append(emit, Entry(x.buffer[n].payload, flushing, n, x.life))
        /\ chan' = [chan EXCEPT ![flushing] = [x EXCEPT !.next = n + 1, !.buffer = b]]
        /\ GoOn
    BY <1>3 DEF Flush, Advanced
  <2>2. /\ x = [next |-> n, buffer |-> x.buffer, life |-> x.life]
        /\ n \in Nat /\ x.life \in Nat \ {0} /\ IsBuffer(x.buffer)
    BY <1>1 DEF IsChannel
  <2>3. n \in Indices /\ x.buffer[n].payload \in Seq(Frames) /\ IsBuffer(b)
    BY <1>3, <2>2 DEF IsBuffer
  <2> HIDE DEF b, n
  <2>4. chan'[flushing] = [next |-> n + 1, buffer |-> b, life |-> x.life]
    BY <1>1, <2>1, <2>2
  <2>5. IsChannel(chan'[flushing])
    BY <2>2, <2>3, <2>4 DEF IsChannel
  <2>6. DOMAIN chan' = DOMAIN chan /\ \A c \in DOMAIN chan : c # flushing => chan'[c] = chan[c]
    BY <2>1
  <2>7. \A y : IsChannel(y) => IsChannel(y)'
    BY DEF IsChannel, IsBuffer
  <2>8. ChannelsTyped'
    BY <1>1, <2>4, <2>5, <2>6, <2>7 DEF TypeInv, ChannelsTyped
  <2> QED
    BY <2>1, <2>3, <2>4, <2>6, <2>8 DEF n
<1> QED
  BY <1>2, <1>3

(* Every step keeps the queues in order.                                    *)
LEMMA QueueStep ==
    ASSUME QueueInv, [Next]_vars
    PROVE  QueueInv'
<1>1. script' = script /\ Frames' = Frames /\ Entries' = Entries
  BY FramesStay
<1>2. /\ \A x : IsChannel(x) => IsChannel(x)'
      /\ \A x : IsSplitBuffer(x) => IsSplitBuffer(x)'
      /\ \A x : IsBuffer(x) => IsBuffer(x)'
  BY <1>1 DEF IsChannel, IsBuffer, IsSplitBuffer
<1>3. ChannelsTyped /\ SplitsTyped /\ FramesTyped /\ EntriesTyped /\ ControlTyped
      /\ NothingReadyWaits /\ SplitsBelongToSession
  BY DEF QueueInv, TypeInv
<1>4. UNCHANGED <<chan, life>> => ChannelsTyped'
  BY <1>2, <1>3 DEF ChannelsTyped
<1>5. UNCHANGED splits => SplitsTyped'
  BY <1>2, <1>3 DEF SplitsTyped
<1>6. UNCHANGED <<inbox, datagram, acked, expired>> => FramesTyped'
  BY <1>1, <1>3 DEF FramesTyped
<1>7. UNCHANGED <<log, emit>> => EntriesTyped'
  BY <1>1, <1>3 DEF EntriesTyped
<1>8. UNCHANGED <<chan, pc, flushing>> => NothingReadyWaits'
  BY <1>3 DEF NothingReadyWaits
<1>10. CASE PeerSends
  <2>1. UNCHANGED <<queues, control, history>>
    BY <1>10 DEF PeerSends
  <2>2. ControlTyped'
    BY <1>1, <1>3, <1>10 DEF PeerSends, ControlTyped, queues, control, history, LenProperties
  <2> QED
    BY <1>3, <1>4, <1>5, <1>6, <1>7, <1>8, <2>1, <2>2
    DEF QueueInv, TypeInv, SplitsBelongToSession, queues, control, history
<1>11. CASE Tick
  <2>1. UNCHANGED <<active, control, history>>
    BY <1>11 DEF Tick
  <2>2. SplitsTyped' /\ DOMAIN splits' = DOMAIN splits
    <3>1. ASSUME NEW s \in DOMAIN splits PROVE IsSplitBuffer(splits'[s])
      <4> DEFINE x == splits[s]
      <4>1. splits'[s] = [x EXCEPT !.age = x.age + 1]
        BY <1>11 DEF Tick, Older
      <4>2. IsSplitBuffer(x)
        BY <1>3 DEF SplitsTyped
      <4> HIDE DEF x
      <4>3. x = [count |-> x.count, frags |-> x.frags, age |-> x.age, idx |-> x.idx, ch |-> x.ch]
        BY <4>2 DEF IsSplitBuffer
      <4>4. splits'[s] = [count |-> x.count, frags |-> x.frags, age |-> x.age + 1,
                          idx |-> x.idx, ch |-> x.ch]
        BY <4>1, <4>3
      <4> QED
        BY <4>2, <4>4 DEF IsSplitBuffer
    <3>2. DOMAIN splits' = DOMAIN splits
      BY <1>11 DEF Tick
    <3> QED
      BY <1>2, <1>3, <3>1, <3>2 DEF SplitsTyped
  <2>3. ASSUME NEW c \in DOMAIN chan
        PROVE  /\ IsChannel(chan'[c]) /\ chan'[c].life = chan[c].life /\ chan'[c].next = chan[c].next
               /\ DOMAIN chan'[c].buffer = DOMAIN chan[c].buffer
    <3> DEFINE x == chan[c]
               b == [i \in DOMAIN x.buffer |-> Older(x.buffer[i])]
    <3>1. chan'[c] = [x EXCEPT !.buffer = b]
      BY <1>11 DEF Tick
    <3>2. IsChannel(x)
      BY <1>3 DEF ChannelsTyped
    <3>3. x = [next |-> x.next, buffer |-> x.buffer, life |-> x.life]
          /\ x.next \in Nat /\ x.life \in Nat \ {0} /\ IsBuffer(x.buffer)
      BY <3>2 DEF IsChannel
    <3>4. DOMAIN b = DOMAIN x.buffer
      OBVIOUS
    <3>5. ASSUME NEW i \in DOMAIN b PROVE b[i] \in [payload : Seq(Frames), age : Nat]
      <4>1. x.buffer[i] \in [payload : Seq(Frames), age : Nat]
        BY <3>3, <3>4, <3>5 DEF IsBuffer
      <4>2. b[i] = [x.buffer[i] EXCEPT !.age = x.buffer[i].age + 1]
        BY <3>4, <3>5 DEF Older
      <4> QED
        BY <4>1, <4>2
    <3> HIDE DEF b, x
    <3>6. IsBuffer(b)
      BY <3>3, <3>4, <3>5 DEF IsBuffer
    <3>7. chan'[c] = [next |-> x.next, buffer |-> b, life |-> x.life]
      BY <3>1, <3>3
    <3> QED
      BY <3>3, <3>4, <3>6, <3>7 DEF IsChannel, x
  <2>4. DOMAIN chan' = DOMAIN chan
    BY <1>11 DEF Tick
  <2>5. ChannelsTyped'
    BY <1>2, <1>3, <2>1, <2>3, <2>4 DEF ChannelsTyped, history
  <2>6. NothingReadyWaits'
    BY <1>3, <2>1, <2>3, <2>4 DEF NothingReadyWaits, control
  <2>7. ControlTyped'
    BY <1>1, <1>3, <1>11, <2>1, <2>4, BoundAssumption DEF ControlTyped, Tick, history, control
  <2> QED
    BY <1>3, <1>6, <1>7, <2>1, <2>2, <2>5, <2>6, <2>7
    DEF QueueInv, TypeInv, SplitsBelongToSession, history, control
<1>12. ASSUME NEW d \in Datagrams, Receive(d) PROVE QueueInv'
  <2>1. /\ Prune /\ pc = "idle" /\ pc' = "frames"
        /\ UNCHANGED <<active, flushing, emit, log, acked, life, closed, orderly, sent, ticks>>
    BY <1>12 DEF Receive
  <2>2. /\ ChannelsTyped' /\ SplitsTyped' /\ expired' \subseteq Frames
        /\ DOMAIN splits' \subseteq DOMAIN splits
        /\ \A c \in DOMAIN chan' :
               /\ c \in DOMAIN chan /\ chan'[c].next = chan[c].next
               /\ DOMAIN chan'[c].buffer \subseteq DOMAIN chan[c].buffer
    BY <1>1, <2>1, PruneStep
  <2>3. inbox' \in Seq(Frames) /\ datagram' \subseteq Frames
    <3>1. PICK k \in 1..MaxFrames : d \in [1..k -> OnTheWay]
      BY DEF Datagrams
    <3>2. d \in Seq(Frames) /\ Len(d) = k
      BY <3>1, BoundAssumption, SeqDef DEF OnTheWay
    <3>3. PICK n \in 1..k : inbox' = SubSeq(d, 1, n) /\ datagram' = {d[i] : i \in 1..n}
      BY <1>12, <3>2 DEF Receive
    <3>4. \A i \in 1..n : d[i] \in Frames
      BY <3>1, <3>3, BoundAssumption DEF OnTheWay
    <3>5. inbox' \in Seq(Frames)
      BY <3>3, <3>4, BoundAssumption, SubSeqProperties
    <3> QED
      BY <3>3, <3>4, <3>5
  <2>4. FramesTyped' /\ EntriesTyped'
    BY <1>1, <1>3, <1>7, <2>1, <2>2, <2>3 DEF FramesTyped
  <2>5. NothingReadyWaits' /\ SplitsBelongToSession'
    BY <1>3, <2>1, <2>2 DEF NothingReadyWaits, SplitsBelongToSession
  <2>6. ControlTyped'
    BY <1>1, <1>3, <2>1 DEF ControlTyped
  <2> QED
    BY <2>2, <2>4, <2>5, <2>6 DEF QueueInv, TypeInv
<1>13. CASE ReceiveGarbage
  <2>1. Prune /\ pc = "idle" /\ UNCHANGED <<active, control, log, acked, life, closed, network>>
    BY <1>13 DEF ReceiveGarbage
  <2>2. /\ ChannelsTyped' /\ SplitsTyped' /\ expired' \subseteq Frames
        /\ DOMAIN splits' \subseteq DOMAIN splits
        /\ \A c \in DOMAIN chan' :
               /\ c \in DOMAIN chan /\ chan'[c].next = chan[c].next
               /\ DOMAIN chan'[c].buffer \subseteq DOMAIN chan[c].buffer
    BY <1>1, <2>1, PruneStep
  <2>3. FramesTyped' /\ EntriesTyped'
    BY <1>1, <1>3, <1>7, <2>1, <2>2 DEF FramesTyped, control
  <2>4. NothingReadyWaits' /\ SplitsBelongToSession'
    BY <1>3, <2>1, <2>2 DEF NothingReadyWaits, SplitsBelongToSession, control
  <2>5. ControlTyped'
    BY <1>1, <1>3, <2>1 DEF ControlTyped, control, network
  <2> QED
    BY <2>2, <2>3, <2>4, <2>5 DEF QueueInv, TypeInv
<1>14. CASE HandleFrame
  <2> DEFINE f == Head(inbox)
  <2>1. /\ pc = "frames" /\ inbox # <<>> /\ active' = TRUE /\ inbox' = Tail(inbox)
        /\ UNCHANGED <<datagram, log, acked, expired, closed, script, orderly, sent, ticks>>
    BY <1>14 DEF HandleFrame, network
  <2>2. f \in Frames /\ inbox' \in Seq(Frames)
    BY <1>3, <2>1, HeadTailProperties DEF FramesTyped
  <2> HIDE DEF f
  <2>3. /\ script[f.msg].ch \in Chs /\ OrderIndex(f.msg) \in Indices
        /\ SplitId(f.msg) \in SplitIds
    BY <1>3, <2>2, FrameFields DEF ControlTyped
  <2>4. FramesTyped' /\ SplitsBelongToSession'
    BY <1>1, <1>3, <2>1, <2>2 DEF FramesTyped, SplitsBelongToSession
  <2>5. ASSUME UNCHANGED <<chan, life, flushing, emit, pc>>, SplitsTyped' PROVE QueueInv'
    <3>1. ControlTyped'
      BY <1>1, <1>3, <2>1, <2>5 DEF ControlTyped
    <3> QED
      BY <1>4, <1>7, <1>8, <2>1, <2>4, <2>5, <3>1 DEF QueueInv, TypeInv
  <2>6. ASSUME NEW payload \in Seq(Frames), NEW ch \in Chs, NEW idx \in Indices,
               Accept(payload, ch, idx), SplitsTyped'
        PROVE  QueueInv'
    <3>1. /\ ChannelsTyped' /\ life' \in Nat /\ emit' \in Seq(Entries)
          /\ pc' \in {"flush", "dispatch"}
          /\ pc' = "flush" => flushing' \in DOMAIN chan'
          /\ pc' = "dispatch" => emit' # <<>>
          /\ NothingReadyWaits'
      BY <1>1, <2>1, <2>6, AcceptStep
    <3>2. EntriesTyped'
      BY <1>1, <1>3, <2>1, <3>1 DEF EntriesTyped
    <3>3. ControlTyped'
      BY <1>1, <1>3, <2>1, <3>1 DEF ControlTyped
    <3> QED
      BY <2>4, <2>6, <3>1, <3>2, <3>3 DEF QueueInv, TypeInv
  <2>7. CASE WholeFrame(f)
    <3>1. <<f>> \in Seq(Frames)
      BY <2>2
    <3>2. Accept(<<f>>, script[f.msg].ch, OrderIndex(f.msg)) /\ UNCHANGED splits
      BY <2>7 DEF WholeFrame
    <3> QED
      BY <1>5, <2>3, <2>6, <3>1, <3>2
  <2>8. CASE SkippedFragment(f)
    BY <1>5, <2>5, <2>8 DEF SkippedFragment
  <2>9. CASE Fragment(f)
    <3> DEFINE sid == SplitId(f.msg)
               new == Filled(f, SplitBuffer(f))
    <3>1. IsSplitBuffer(new) /\ (Complete(new) => new.frags \in Seq(Frames))
      BY <2>2, FilledType DEF QueueInv
    <3> HIDE DEF new
    <3>2. CASE Complete(new)
      <4>1. splits' = [i \in DOMAIN splits \ {sid} |-> splits[i]] /\ Accept(new.frags, new.ch, new.idx)
        BY <2>9, <3>2 DEF Fragment, new
      <4>2. SplitsTyped'
        BY <1>2, <1>3, <4>1 DEF SplitsTyped
      <4>3. new.ch \in Chs /\ new.idx \in Indices
        BY <3>1 DEF IsSplitBuffer
      <4> QED
        BY <2>6, <3>1, <3>2, <4>1, <4>2, <4>3
    <3>3. CASE ~Complete(new)
      <4>1. /\ splits' = [i \in DOMAIN splits \cup {sid} |-> IF i = sid THEN new ELSE splits[i]]
            /\ UNCHANGED <<chan, life, flushing, emit, pc>>
        BY <2>9, <3>3 DEF Fragment, new
      <4>2. SplitsTyped'
        BY <1>2, <1>3, <2>3, <3>1, <4>1 DEF SplitsTyped
      <4> QED
        BY <2>5, <4>1, <4>2
    <3> QED
      BY <3>2, <3>3
  <2> QED
    BY <1>14, <2>7, <2>8, <2>9 DEF HandleFrame, f
<1>15. CASE Flush
  <2>1. /\ pc = "flush" /\ UNCHANGED <<active, splits, datagram, inbox, history, network>>
        /\ flushing \in DOMAIN chan
    BY <1>3, <1>15 DEF Flush, ControlTyped
  <2>2. SplitsTyped' /\ SplitsBelongToSession' /\ FramesTyped'
    BY <1>3, <1>5, <1>6, <2>1 DEF SplitsBelongToSession, history
  <2>3. CASE /\ chan[flushing].next \notin DOMAIN chan[flushing].buffer
             /\ UNCHANGED <<chan, emit>> /\ Stop
    <3>1. pc' = (IF emit = <<>> THEN "frames" ELSE "dispatch")
      BY <2>3 DEF Stop
    <3>2. ChannelsTyped' /\ EntriesTyped'
      BY <1>4, <1>7, <2>1, <2>3 DEF history
    <3>3. ControlTyped'
      BY <1>1, <1>3, <2>1, <2>3, <3>1 DEF ControlTyped, history, network
    <3>4. NothingReadyWaits'
      BY <1>3, <2>1, <2>3 DEF NothingReadyWaits
    <3> QED
      BY <2>2, <3>2, <3>3, <3>4 DEF QueueInv, TypeInv
  <2>4. CASE /\ GoOn /\ ChannelsTyped' /\ DOMAIN chan' = DOMAIN chan
             /\ chan[flushing].next \in Indices
             /\ \A c \in DOMAIN chan : c # flushing => chan'[c] = chan[c]
             /\ \E payload \in Seq(Frames) :
                    emit' = Append(emit, Entry(payload, flushing, chan[flushing].next,
                                               chan[flushing].life))
    <3>1. /\ pc' = pc /\ flushing' = flushing
      BY <2>4 DEF GoOn
    <3>2. flushing \in Chs /\ chan[flushing].life \in Nat
      BY <1>3, <2>1 DEF ChannelsTyped, IsChannel, Chs
    <3>3. emit' \in Seq(Entries)
      BY <1>3, <2>4, <3>2, AppendProperties DEF EntriesTyped, Entry, Entries
    <3>4. EntriesTyped'
      BY <1>1, <1>3, <2>1, <3>3 DEF EntriesTyped, history
    <3>5. ControlTyped'
      BY <1>1, <1>3, <2>1, <2>4, <3>1 DEF ControlTyped, history, network
    <3>6. NothingReadyWaits'
      BY <1>3, <2>1, <2>4, <3>1 DEF NothingReadyWaits
    <3> QED
      BY <2>2, <2>4, <3>4, <3>5, <3>6 DEF QueueInv, TypeInv
  <2> QED
    BY <1>1, <1>15, <2>3, <2>4, FlushChannels DEF QueueInv
<1>16. CASE Dispatch
  <2>1. /\ pc = "dispatch" /\ emit # <<>> /\ log' = Append(log, Head(emit)) /\ emit' = Tail(emit)
        /\ pc' = (IF Tail(emit) = <<>> THEN "frames" ELSE "dispatch")
        /\ UNCHANGED <<datagram, inbox, flushing, acked, expired, life, network>>
    BY <1>3, <1>16 DEF Dispatch, ControlTyped
  <2>2. EntriesTyped'
    BY <1>1, <1>3, <2>1, HeadTailProperties, AppendProperties DEF EntriesTyped
  <2>3. UNCHANGED <<active, chan, splits, closed>> \/ (DropState /\ closed' = TRUE)
    BY <1>16 DEF Dispatch, queues
  <2>4. ChannelsTyped' /\ SplitsTyped' /\ SplitsBelongToSession' /\ NothingReadyWaits'
    <3>1. CASE UNCHANGED <<active, chan, splits, closed>>
      BY <1>3, <1>4, <1>5, <2>1, <3>1 DEF SplitsBelongToSession, NothingReadyWaits
    <3>2. CASE DropState
      BY <3>2 DEF DropState, NoFn, ChannelsTyped, SplitsTyped, SplitsBelongToSession, NothingReadyWaits
    <3> QED
      BY <2>3, <3>1, <3>2
  <2>5. ControlTyped'
    BY <1>1, <1>3, <2>1, <2>3 DEF ControlTyped, DropState, network
  <2> QED
    BY <1>6, <2>1, <2>2, <2>4, <2>5 DEF QueueInv, TypeInv
<1>17. CASE Acknowledge
  <2>1. /\ pc = "frames" /\ pc' = "idle" /\ datagram' = {} /\ acked' = acked \cup datagram
        /\ UNCHANGED <<queues, inbox, flushing, emit, log, expired, life, closed, network>>
    BY <1>17 DEF Acknowledge
  <2>2. FramesTyped'
    BY <1>1, <1>3, <2>1 DEF FramesTyped
  <2>3. NothingReadyWaits' /\ SplitsBelongToSession'
    BY <1>3, <2>1 DEF NothingReadyWaits, SplitsBelongToSession, queues
  <2>4. ControlTyped'
    BY <1>1, <1>3, <2>1 DEF ControlTyped, queues, network
  <2> QED
    BY <1>4, <1>5, <1>7, <2>1, <2>2, <2>3, <2>4 DEF QueueInv, TypeInv, queues
<1>18. CASE UNCHANGED vars
  <2>1. UNCHANGED <<queues, control, history, network>>
    BY <1>18 DEF vars
  <2>2. ControlTyped'
    BY <1>1, <1>3, <2>1 DEF ControlTyped, queues, control, history, network
  <2> QED
    BY <1>3, <1>4, <1>5, <1>6, <1>7, <1>8, <2>1, <2>2
    DEF QueueInv, TypeInv, SplitsBelongToSession, queues, control, history
<1> QED
  BY <1>10, <1>11, <1>12, <1>13, <1>14, <1>15, <1>16, <1>17, <1>18 DEF Next

(* The first state has it.                                                  *)
LEMMA QueueStart == Init => QueueInv
<1> SUFFICES ASSUME Init PROVE QueueInv
  OBVIOUS
<1>1. script \in Seq(Messages) /\ orderly \in BOOLEAN
  BY CaseAssumption DEF Init
<1>2. Len(script) \in Nat
  BY <1>1, LenProperties
<1>3. DOMAIN chan = {} /\ DOMAIN splits = {}
  BY DEF Init, NoFn
<1>4. ChannelsTyped /\ SplitsTyped /\ NothingReadyWaits /\ SplitsBelongToSession
  BY <1>3 DEF ChannelsTyped, SplitsTyped, NothingReadyWaits, SplitsBelongToSession
<1>5. FramesTyped /\ EntriesTyped
  BY EmptySeq DEF Init, FramesTyped, EntriesTyped
<1>6. ControlTyped
  <2>1. active \in BOOLEAN /\ closed \in BOOLEAN
    BY DEF Init
  <2>2. pc = "idle" /\ life = 0 /\ sent = 0 /\ ticks = 0 /\ emit = <<>>
    BY DEF Init
  <2>3. sent \in 0..Len(script) /\ ticks \in 0..MaxTicks
    BY <1>2, <2>2, BoundAssumption
  <2> QED
    BY <1>1, <2>1, <2>2, <2>3 DEF ControlTyped
<1> QED
  BY <1>4, <1>5, <1>6 DEF QueueInv, TypeInv

(* It is as strong as the property.                                         *)
LEMMA QueueEnough == QueueInv /\ SplitsLackParts => QueuesInOrder
<1> SUFFICES ASSUME QueueInv PROVE TypeOK
  BY DEF QueuesInOrder, QueueInv
<1> USE DEF QueueInv, TypeInv
<1>1. ASSUME NEW c \in DOMAIN chan
      PROVE  /\ c \in Nat /\ chan[c].next \in Nat /\ chan[c].life \in 1..life
             /\ \A i \in DOMAIN chan[c].buffer :
                   /\ i \in 0..(IndexMod - 1) /\ chan[c].buffer[i].age \in Nat
                   /\ FramesIn(chan[c].buffer[i].payload) \subseteq Frames
  <2>1. IsChannel(chan[c]) /\ c \in Nat /\ chan[c].life <= life /\ life \in Nat
    BY DEF ChannelsTyped, ControlTyped
  <2>2. chan[c].life \in 1..life /\ chan[c].next \in Nat /\ IsBuffer(chan[c].buffer)
    BY <2>1 DEF IsChannel
  <2> QED
    BY <2>1, <2>2, LenProperties, ElementOfSeq DEF IsBuffer, FramesIn, Indices
<1>2. ASSUME NEW s \in DOMAIN splits
      PROVE  /\ s \in SplitIds /\ splits[s].age \in Nat
             /\ FramesIn(splits[s].frags) \subseteq Frames
  BY DEF SplitsTyped, IsSplitBuffer, FramesIn
<1> QED
  BY <1>1, <1>2 DEF TypeOK, ControlTyped, FramesTyped

(* A fragment that leaves its message incomplete leaves a buffer that lacks *)
(* a part.                                                                  *)
LEMMA FilledLacks ==
    ASSUME QueueInv, SplitsLackParts, NEW f \in Frames, ~TooManyParts(f), IsSplit(f.msg),
           ~Complete(Filled(f, SplitBuffer(f)))
    PROVE  LET new == Filled(f, SplitBuffer(f))
           IN  /\ new.count <= MaxParts
               /\ DOMAIN new.frags # {} /\ DOMAIN new.frags \subseteq 1..new.count
<1> DEFINE old == SplitBuffer(f)
           new == Filled(f, old)
           grown == [p \in DOMAIN old.frags \cup {f.part} |->
                        IF p = f.part THEN f ELSE old.frags[p]]
<1>1. script[f.msg].parts \in Nat \ {0} /\ f.part \in 1..script[f.msg].parts
  BY FrameFields DEF QueueInv, TypeInv, ControlTyped
<1>2. script[f.msg].parts <= MaxParts
  BY <1>1, WireAssumption DEF TooManyParts
<1>3. /\ old.count <= MaxParts /\ old.count \in Nat
      /\ DOMAIN old.frags \subseteq 1..old.count
      /\ DOMAIN old.frags # {} \/ Fits(f, old)
  <2>1. CASE SplitId(f.msg) \in DOMAIN splits
    <3>1. old = splits[SplitId(f.msg)]
      BY <2>1 DEF SplitBuffer
    <3>2. IsSplitBuffer(splits[SplitId(f.msg)])
      BY <2>1 DEF QueueInv, TypeInv, SplitsTyped
    <3> HIDE DEF old
    <3> QED
      BY <2>1, <3>1, <3>2 DEF SplitsLackParts, IsSplitBuffer
  <2>2. CASE SplitId(f.msg) \notin DOMAIN splits
    <3>1. old.count = script[f.msg].parts /\ old.frags = NoFn
      BY <2>2 DEF SplitBuffer
    <3>2. DOMAIN old.frags = {}
      BY <3>1 DEF NoFn
    <3> HIDE DEF old
    <3> QED
      BY <1>1, <1>2, <3>1, <3>2 DEF Fits
  <2> QED
    BY <2>1, <2>2
<1>4. CASE Fits(f, old)
  <2>1. new = [old EXCEPT !.frags = grown]
    BY <1>4 DEF Filled
  <2>2. IsSplitBuffer(old) \/ old = [count |-> old.count, frags |-> old.frags, age |-> old.age,
                                     idx |-> old.idx, ch |-> old.ch]
    BY DEF SplitBuffer, QueueInv, TypeInv, SplitsTyped
  <2>3. new.count = old.count /\ new.frags = grown
    <3> HIDE DEF grown, old, new
    <3> QED
      BY <2>1, <2>2 DEF IsSplitBuffer
  <2>4. DOMAIN grown = DOMAIN old.frags \cup {f.part}
    OBVIOUS
  <2>5. f.part \in 1..old.count
    <3> HIDE DEF old
    <3> QED
      BY <1>1, <1>3, <1>4 DEF Fits
  <2> HIDE DEF new, old, grown
  <2>6. new.count <= MaxParts /\ DOMAIN new.frags # {} /\ DOMAIN new.frags \subseteq 1..new.count
    BY <1>3, <2>3, <2>4, <2>5
  <2> QED
    BY <2>6 DEF new, old
<1>5. CASE ~Fits(f, old)
  <2>1. new = old
    BY <1>5 DEF Filled
  <2> HIDE DEF new, old
  <2>2. new.count <= MaxParts /\ DOMAIN new.frags # {} /\ DOMAIN new.frags \subseteq 1..new.count
    BY <1>3, <1>5, <2>1
  <2> QED
    BY <2>2 DEF new, old
<1> QED
  BY <1>4, <1>5

(* No step completes a split buffer and leaves it where it is.              *)
LEMMA LackStep ==
    ASSUME QueueInv, SplitsLackParts, [Next]_vars
    PROVE  SplitsLackParts'
<1>1. UNCHANGED splits => SplitsLackParts'
  BY DEF SplitsLackParts, Complete
<1>2. Prune => SplitsLackParts'
  BY DEF Prune, PrunedSplits, SplitsLackParts, Complete
<1>3. CASE Tick
  <2>1. ASSUME NEW s \in DOMAIN splits
        PROVE  splits'[s].count = splits[s].count /\ splits'[s].frags = splits[s].frags
    <3>1. splits'[s] = [splits[s] EXCEPT !.age = splits[s].age + 1]
      BY <1>3 DEF Tick, Older
    <3>2. IsSplitBuffer(splits[s])
      BY DEF QueueInv, TypeInv, SplitsTyped
    <3> QED
      BY <3>1, <3>2 DEF IsSplitBuffer
  <2>2. DOMAIN splits' = DOMAIN splits
    BY <1>3 DEF Tick
  <2> QED
    BY <2>1, <2>2 DEF SplitsLackParts, Complete
<1>4. CASE HandleFrame
  <2> DEFINE f == Head(inbox)
  <2>1. WholeFrame(f) \/ Fragment(f) \/ SkippedFragment(f)
    BY <1>4 DEF HandleFrame
  <2>2. f \in Frames
    BY <1>4, HeadTailProperties DEF HandleFrame, QueueInv, TypeInv, FramesTyped
  <2> HIDE DEF f
  <2>3. CASE Fragment(f)
    <3> DEFINE sid == SplitId(f.msg)
               new == Filled(f, SplitBuffer(f))
    <3>1. CASE Complete(new)
      <4>1. splits' = [i \in DOMAIN splits \ {sid} |-> splits[i]]
        BY <2>3, <3>1 DEF Fragment
      <4> QED
        BY <4>1 DEF SplitsLackParts, Complete
    <3>2. CASE ~Complete(new)
      <4>1. splits' = [i \in DOMAIN splits \cup {sid} |-> IF i = sid THEN new ELSE splits[i]]
        BY <2>3, <3>2 DEF Fragment
      <4>2. new.count <= MaxParts /\ DOMAIN new.frags # {} /\ DOMAIN new.frags \subseteq 1..new.count
        BY <2>2, <2>3, <3>2, FilledLacks DEF Fragment
      <4> HIDE DEF new, sid
      <4> QED
        BY <3>2, <4>1, <4>2 DEF SplitsLackParts, Complete
    <3> QED
      BY <3>1, <3>2
  <2> QED
    BY <1>1, <2>1, <2>3 DEF WholeFrame, SkippedFragment
<1>5. CASE Dispatch
  <2>1. UNCHANGED splits \/ DOMAIN splits' = {}
    BY <1>5 DEF Dispatch, DropState, queues, NoFn
  <2> QED
    BY <1>1, <2>1 DEF SplitsLackParts
<1> QED
  BY <1>1, <1>2, <1>3, <1>4, <1>5
  DEF Next, PeerSends, Receive, ReceiveGarbage, Flush, Acknowledge, queues, vars

(* The queues of a session have their types; no payload that could go on    *)
(* waits outside the flush; a message in parts waits for a part it lacks;   *)
(* and no split buffer outlives its session (drop_connection_state,         *)
(* buffer_ordered_payload and the split branch of handle_game_packet).      *)
THEOREM QueuesStayInOrder == Spec => []QueuesInOrder
<1>1. QueueInv /\ [Next]_vars => QueueInv'
  BY QueueStep
<1>2. QueueInv /\ SplitsLackParts /\ [Next]_vars => SplitsLackParts'
  BY LackStep
<1>3. Init => SplitsLackParts
  BY DEF Init, NoFn, SplitsLackParts
<1> QED
  BY <1>1, <1>2, <1>3, QueueStart, QueueEnough, PTL DEF Spec

(***************************************************************************)
(* Order within the life of a channel                                      *)
(***************************************************************************)
(* What has been and is about to be dispatched, in order.                   *)
Output == log \o emit

(* The last payload of a channel's life is the one before its next index.   *)
LastOfLife(S, k, l) == S[k].life = l /\ \A i \in (k + 1)..Len(S) : S[i].life # l
NextFollows(S, c, x) ==
    /\ \A k \in 1..Len(S) : LastOfLife(S, k, x.life) => S[k].ch = c /\ x.next = S[k].idx + 1
    /\ x.next = 0 => \A k \in 1..Len(S) : S[k].life # x.life
Consecutive(S) ==
    \A j, k \in 1..Len(S) :
        /\ j < k /\ S[j].life = S[k].life /\ S[j].life # 0
        /\ \A i \in (j + 1)..(k - 1) : S[i].life # S[j].life
        => S[k].ch = S[j].ch /\ S[k].idx = S[j].idx + 1
LivesKnown(S) == \A k \in 1..Len(S) : S[k].life <= life
LivesDiffer == \A c, d \in DOMAIN chan : c # d => chan[c].life # chan[d].life
OrderInv ==
    /\ Consecutive(Output) /\ LivesKnown(Output) /\ LivesDiffer
    /\ \A c \in DOMAIN chan : NextFollows(Output, c, chan[c])

(* A payload that goes from emit to log stays where it is in the output.    *)
LEMMA HeadMoves ==
    ASSUME NEW T, NEW a \in Seq(T), NEW b \in Seq(T), b # <<>>
    PROVE  Append(a, Head(b)) \o Tail(b) = a \o b
<1>1. /\ Head(b) \in T /\ Tail(b) \in Seq(T) /\ Len(Tail(b)) = Len(b) - 1
      /\ \A i \in 1..Len(Tail(b)) : Tail(b)[i] = b[i + 1]
  BY HeadTailProperties
<1>2. /\ Append(a, Head(b)) \in Seq(T) /\ Len(Append(a, Head(b))) = Len(a) + 1
      /\ \A i \in 1..Len(a) : Append(a, Head(b))[i] = a[i]
      /\ Append(a, Head(b))[Len(a) + 1] = Head(b)
  BY <1>1, AppendProperties
<1>3. Len(a) \in Nat /\ Len(b) \in Nat \ {0} /\ Head(b) = b[1]
  BY LenProperties, EmptySeq
<1> DEFINE s == Append(a, Head(b)) \o Tail(b)
           t == a \o b
<1>4. /\ s \in Seq(T) /\ Len(s) = Len(a) + Len(b)
      /\ \A i \in 1..(Len(a) + Len(b)) :
             s[i] = IF i <= Len(a) + 1 THEN Append(a, Head(b))[i] ELSE Tail(b)[i - (Len(a) + 1)]
  BY <1>1, <1>2, <1>3, ConcatProperties
<1>5. /\ t \in Seq(T) /\ Len(t) = Len(a) + Len(b)
      /\ \A i \in 1..(Len(a) + Len(b)) : t[i] = IF i <= Len(a) THEN a[i] ELSE b[i - Len(a)]
  BY ConcatProperties
<1> HIDE DEF s, t
<1>6. ASSUME NEW i \in 1..(Len(a) + Len(b)) PROVE s[i] = t[i]
  <2>1. CASE i <= Len(a)
    BY <1>2, <1>3, <1>4, <1>5, <2>1
  <2>2. CASE i = Len(a) + 1
    BY <1>2, <1>3, <1>4, <1>5, <2>2
  <2>3. CASE i > Len(a) + 1
    <3>1. i - (Len(a) + 1) \in 1..Len(Tail(b))
      BY <1>1, <1>3, <2>3
    <3>2. Tail(b)[i - (Len(a) + 1)] = b[i - Len(a)]
      BY <1>1, <1>3, <3>1
    <3> QED
      BY <1>3, <1>4, <1>5, <2>3, <3>2
  <2> QED
    BY <1>3, <2>1, <2>2, <2>3
<1>7. s = t
  BY <1>4, <1>5, <1>6, SeqEqual
<1> QED
  BY <1>7 DEF s, t

(* A payload put into emit is the last of the output.                       *)
LEMMA LastAppended ==
    ASSUME NEW T, NEW a \in Seq(T), NEW b \in Seq(T), NEW x \in T
    PROVE  a \o Append(b, x) = Append(a \o b, x)
<1>1. Append(b, x) = b \o <<x>> /\ <<x>> \in Seq(T) /\ a \o b \in Seq(T)
  BY AppendIsConcat, ConcatProperties
<1> QED
  BY <1>1, ConcatAssociative, AppendIsConcat

(* A payload behind the output keeps it consecutive, when it follows the    *)
(* last one of its life or is of none.                                      *)
LEMMA ConsecutiveGrows ==
    ASSUME NEW S \in Seq(Entries), NEW x \in Entries, Consecutive(S),
           \/ x.life = 0
           \/ \A j \in 1..Len(S) : LastOfLife(S, j, x.life) => S[j].ch = x.ch /\ x.idx = S[j].idx + 1
    PROVE  Consecutive(Append(S, x))
<1> DEFINE R == Append(S, x)
<1>1. /\ Len(S) \in Nat /\ Len(R) = Len(S) + 1 /\ R[Len(S) + 1] = x
      /\ \A i \in 1..Len(S) : R[i] = S[i]
  BY AppendProperties, LenProperties
<1> HIDE DEF R
<1> SUFFICES ASSUME NEW j \in 1..Len(R), NEW k \in 1..Len(R),
                    j < k, R[j].life = R[k].life, R[j].life # 0,
                    \A i \in (j + 1)..(k - 1) : R[i].life # R[j].life
             PROVE  R[k].ch = R[j].ch /\ R[k].idx = R[j].idx + 1
  BY DEF Consecutive, R
<1>2. j \in 1..Len(S) /\ R[j] = S[j]
  BY <1>1
<1>3. CASE k \in 1..Len(S)
  <2>1. \A i \in (j + 1)..(k - 1) : R[i] = S[i]
    BY <1>1, <1>3
  <2> QED
    BY <1>1, <1>2, <1>3, <2>1 DEF Consecutive
<1>4. CASE k = Len(S) + 1
  <2>1. \A i \in (j + 1)..Len(S) : R[i] = S[i] /\ S[i].life # S[j].life
    BY <1>1, <1>2, <1>4
  <2>2. R[k] = x /\ LastOfLife(S, j, x.life)
    BY <1>1, <1>2, <1>4, <2>1 DEF LastOfLife
  <2> QED
    BY <1>2, <2>2
<1> QED
  BY <1>1, <1>3, <1>4

(* It leaves alone what the channels of other lives know.                   *)
LEMMA NextOfOthers ==
    ASSUME NEW S \in Seq(Entries), NEW x \in Entries, NEW c, NEW y,
           NextFollows(S, c, y), x.life # y.life
    PROVE  NextFollows(Append(S, x), c, y)
<1> DEFINE R == Append(S, x)
<1>1. /\ Len(S) \in Nat /\ Len(R) = Len(S) + 1 /\ R[Len(S) + 1] = x
      /\ \A i \in 1..Len(S) : R[i] = S[i]
  BY AppendProperties, LenProperties
<1> HIDE DEF R
<1>2. ASSUME NEW k \in 1..Len(R), LastOfLife(R, k, y.life)
      PROVE  R[k].ch = c /\ y.next = R[k].idx + 1
  <2>1. k \in 1..Len(S) /\ R[k] = S[k]
    BY <1>1, <1>2 DEF LastOfLife
  <2>2. \A i \in (k + 1)..Len(S) : R[i] = S[i] /\ i \in (k + 1)..Len(R)
    BY <1>1, <2>1
  <2>3. LastOfLife(S, k, y.life)
    BY <1>2, <2>1, <2>2 DEF LastOfLife
  <2> QED
    BY <2>1, <2>3 DEF NextFollows
<1>3. ASSUME y.next = 0, NEW k \in 1..Len(R) PROVE R[k].life # y.life
  BY <1>1, <1>3 DEF NextFollows
<1> QED
  BY <1>2, <1>3 DEF NextFollows, R

(* It is what the channel it comes from continues.                          *)
LEMMA NextOfChannel ==
    ASSUME NEW S \in Seq(Entries), NEW x \in Entries, NEW y,
           y.life = x.life, y.next = x.idx + 1
    PROVE  NextFollows(Append(S, x), x.ch, y)
<1> DEFINE R == Append(S, x)
<1>1. /\ Len(S) \in Nat /\ Len(R) = Len(S) + 1 /\ R[Len(S) + 1] = x
  BY AppendProperties, LenProperties
<1>2. x.idx \in Nat
  BY WireAssumption DEF Entries, Indices
<1> HIDE DEF R
<1>3. ASSUME NEW k \in 1..Len(R), LastOfLife(R, k, y.life)
      PROVE  R[k].ch = x.ch /\ y.next = R[k].idx + 1
  <2>1. k = Len(R)
    BY <1>1, <1>3 DEF LastOfLife
  <2> QED
    BY <1>1, <2>1
<1> QED
  BY <1>2, <1>3 DEF NextFollows, R

(* Every step keeps the lives in order.                                     *)
LEMMA OrderStep ==
    ASSUME QueueInv, OrderInv, [Next]_vars
    PROVE  OrderInv'
<1>1. script' = script /\ Frames' = Frames /\ Entries' = Entries
  BY FramesStay
<1>2. /\ log \in Seq(Entries) /\ emit \in Seq(Entries) /\ Output \in Seq(Entries)
      /\ Len(Output) \in Nat /\ life \in Nat
      /\ \A k \in 1..Len(Output) : Output[k].life \in Nat
  <2>1. log \in Seq(Entries) /\ emit \in Seq(Entries) /\ life \in Nat
    BY DEF QueueInv, TypeInv, EntriesTyped, ControlTyped
  <2>2. Output \in Seq(Entries)
    BY <2>1, ConcatProperties DEF Output
  <2>3. \A x : x \in Entries => x.life \in Nat
    BY DEF Entries
  <2>4. Len(Output) \in Nat /\ \A k \in 1..Len(Output) : Output[k] \in Entries
    BY <2>2, LenProperties, ElementOfSeq
  <2> QED
    BY <2>1, <2>2, <2>3, <2>4
<1>3. \A c \in DOMAIN chan :
          chan[c].life \in Nat \ {0} /\ chan[c].next \in Nat /\ chan[c].life <= life
  BY DEF QueueInv, TypeInv, ChannelsTyped, IsChannel
(* Where the output stays, and each channel keeps its life and its next     *)
(* index or goes.                                                           *)
<1>4. ASSUME Output' = Output, life' = life,
             \A c \in DOMAIN chan' :
                 c \in DOMAIN chan /\ chan'[c].next = chan[c].next /\ chan'[c].life = chan[c].life
      PROVE  OrderInv'
  BY <1>4 DEF OrderInv, NextFollows, LivesKnown, LivesDiffer
(* Where a whole message is accepted.                                       *)
<1>5. ASSUME NEW payload \in Seq(Frames), NEW ch \in Chs, NEW idx \in Indices,
             Accept(payload, ch, idx), emit = <<>>, log' = log
      PROVE  OrderInv'
  <2>1. CASE ch = Unordered
    <3> DEFINE x == Entry(payload, ch, idx, 0)
    <3>1. emit' = <<x>> /\ UNCHANGED <<chan, life>>
      BY <1>5, <2>1 DEF Accept
    <3>2. x \in Entries /\ x.life = 0
      BY DEF Entry, Entries
    <3> HIDE DEF x
    <3>3. Output' = Append(Output, x)
      <4>1. Output = log
        BY <1>2, <1>5, ConcatEmptySeq DEF Output
      <4>2. Output' = log \o <<x>>
        BY <1>5, <3>1 DEF Output
      <4>3. Append(log, x) = log \o <<x>>
        BY <1>2, <3>2, AppendIsConcat
      <4> QED
        BY <4>1, <4>2, <4>3
    <3>4. Consecutive(Output)'
      <4>1. Consecutive(Append(Output, x))
        BY <1>2, <3>2, ConsecutiveGrows DEF OrderInv
      <4> QED
        BY <3>3, <4>1 DEF Consecutive
    <3>5. \A c \in DOMAIN chan : NextFollows(Append(Output, x), c, chan[c])
      BY <1>2, <1>3, <3>2, NextOfOthers DEF OrderInv
    <3>6. LivesKnown(Output)'
      BY <1>2, <3>1, <3>2, <3>3, AppendProperties DEF OrderInv, LivesKnown
    <3> QED
      BY <3>1, <3>3, <3>4, <3>5, <3>6 DEF OrderInv, LivesDiffer, NextFollows
  <2>2. CASE ch # Unordered
    <3>1. /\ life' \in Nat /\ life <= life'
          /\ DOMAIN chan' = DOMAIN chan \cup {ch}
          /\ \A c \in DOMAIN chan : c # ch => chan'[c] = chan[c]
          /\ ch \in DOMAIN chan =>
                 /\ chan'[ch].life = chan[ch].life
                 /\ chan'[ch].next # chan[ch].next => chan[ch].next = 0
          /\ ch \notin DOMAIN chan => chan'[ch].life = life + 1 /\ life' = life + 1
      BY <1>1, <1>5, <2>2, AcceptChannels DEF QueueInv
    <3>2. Output' = Output
      BY <1>5, <2>2 DEF Accept, Output
    <3>3. LivesKnown(Output)'
      BY <1>2, <3>1, <3>2 DEF OrderInv, LivesKnown
    <3>4. LivesDiffer'
      BY <1>2, <1>3, <3>1 DEF OrderInv, LivesDiffer
    <3>5. NextFollows(Output, ch, chan'[ch])
      <4>1. CASE ch \notin DOMAIN chan
        <5>1. \A k \in 1..Len(Output) : Output[k].life # chan'[ch].life
          BY <1>2, <3>1, <4>1 DEF OrderInv, LivesKnown
        <5> QED
          BY <5>1 DEF NextFollows, LastOfLife
      <4>2. CASE ch \in DOMAIN chan /\ chan[ch].next = 0
        <5>1. \A k \in 1..Len(Output) : Output[k].life # chan'[ch].life
          BY <3>1, <4>2 DEF OrderInv, NextFollows
        <5> QED
          BY <5>1 DEF NextFollows, LastOfLife
      <4>3. CASE ch \in DOMAIN chan /\ chan[ch].next # 0
        BY <3>1, <4>3 DEF OrderInv, NextFollows
      <4> QED
        BY <4>1, <4>2, <4>3
    <3>6. \A c \in DOMAIN chan' : NextFollows(Output, c, chan'[c])
      BY <3>1, <3>5 DEF OrderInv
    <3> QED
      BY <3>2, <3>3, <3>4, <3>6 DEF OrderInv, NextFollows, Consecutive
  <2> QED
    BY <2>1, <2>2
<1>10. CASE PeerSends \/ Acknowledge \/ UNCHANGED vars
  <2>1. UNCHANGED <<chan, life, log, emit>>
    BY <1>10 DEF PeerSends, Acknowledge, vars, queues, control, history
  <2> QED
    BY <1>4, <2>1 DEF Output
<1>11. CASE Tick
  <2>1. UNCHANGED <<life, log, emit>>
    BY <1>11 DEF Tick, control, history
  <2>2. ASSUME NEW c \in DOMAIN chan'
        PROVE  c \in DOMAIN chan /\ chan'[c].next = chan[c].next /\ chan'[c].life = chan[c].life
    <3>1. /\ c \in DOMAIN chan
          /\ chan'[c] = [chan[c] EXCEPT !.buffer = [i \in DOMAIN chan[c].buffer |->
                                                       Older(chan[c].buffer[i])]]
      BY <1>11 DEF Tick
    <3>2. chan[c] = [next |-> chan[c].next, buffer |-> chan[c].buffer, life |-> chan[c].life]
      BY <3>1 DEF QueueInv, TypeInv, ChannelsTyped, IsChannel
    <3> QED
      BY <3>1, <3>2
  <2> QED
    BY <1>4, <2>1, <2>2 DEF Output
<1>12. CASE ReceiveGarbage \/ \E d \in Datagrams : Receive(d)
  <2>1. Prune /\ UNCHANGED <<life, log, emit>>
    BY <1>12 DEF Receive, ReceiveGarbage, control
  <2>2. \A c \in DOMAIN chan' :
            c \in DOMAIN chan /\ chan'[c].next = chan[c].next /\ chan'[c].life = chan[c].life
    BY <1>1, <2>1, PruneStep
  <2> QED
    BY <1>4, <2>1, <2>2 DEF Output
<1>13. CASE HandleFrame
  <2> DEFINE f == Head(inbox)
  <2>1. pc = "frames" /\ log' = log /\ f \in Frames /\ emit = <<>>
    BY <1>13, HeadTailProperties DEF HandleFrame, QueueInv, TypeInv, FramesTyped, ControlTyped
  <2> HIDE DEF f
  <2>2. script[f.msg].ch \in Chs /\ OrderIndex(f.msg) \in Indices
    BY <2>1, FrameFields DEF QueueInv, TypeInv, ControlTyped
  <2>3. CASE WholeFrame(f)
    <3>1. <<f>> \in Seq(Frames) /\ Accept(<<f>>, script[f.msg].ch, OrderIndex(f.msg))
      BY <2>1, <2>3 DEF WholeFrame
    <3> QED
      BY <1>5, <2>1, <2>2, <3>1
  <2>4. CASE SkippedFragment(f)
    BY <1>4, <2>1, <2>4 DEF SkippedFragment, Output
  <2>5. CASE Fragment(f)
    <3> DEFINE new == Filled(f, SplitBuffer(f))
    <3>1. IsSplitBuffer(new) /\ (Complete(new) => new.frags \in Seq(Frames))
      BY <2>1, FilledType DEF QueueInv
    <3> HIDE DEF new
    <3>2. new.ch \in Chs /\ new.idx \in Indices
      BY <3>1 DEF IsSplitBuffer
    <3>3. CASE Complete(new)
      <4>1. Accept(new.frags, new.ch, new.idx)
        BY <2>5, <3>3 DEF Fragment, new
      <4> QED
        BY <1>5, <2>1, <3>1, <3>2, <3>3, <4>1
    <3>4. CASE ~Complete(new)
      <4>1. UNCHANGED <<chan, life, emit>>
        BY <2>5, <3>4 DEF Fragment, new
      <4> QED
        BY <1>4, <2>1, <4>1 DEF Output
    <3> QED
      BY <3>3, <3>4
  <2> QED
    BY <1>13, <2>3, <2>4, <2>5 DEF HandleFrame, f
<1>14. CASE Flush
  <2>1. flushing \in DOMAIN chan /\ flushing \in Nat /\ UNCHANGED <<life, log>>
    BY <1>14 DEF Flush, QueueInv, TypeInv, ChannelsTyped, ControlTyped, history
  <2>2. CASE UNCHANGED <<chan, emit>>
    BY <1>4, <2>1, <2>2 DEF Output
  <2>3. CASE /\ DOMAIN chan' = DOMAIN chan /\ chan[flushing].next \in Indices
             /\ \A c \in DOMAIN chan : c # flushing => chan'[c] = chan[c]
             /\ chan'[flushing].life = chan[flushing].life
             /\ chan'[flushing].next = chan[flushing].next + 1
             /\ \E payload \in Seq(Frames) :
                    emit' = Append(emit, Entry(payload, flushing, chan[flushing].next,
                                               chan[flushing].life))
    <3>1. PICK payload \in Seq(Frames) :
              emit' = Append(emit, Entry(payload, flushing, chan[flushing].next, chan[flushing].life))
      BY <2>3
    <3> DEFINE x == Entry(payload, flushing, chan[flushing].next, chan[flushing].life)
    <3>2. /\ x \in Entries /\ x.life = chan[flushing].life /\ x.ch = flushing
          /\ x.idx = chan[flushing].next
      BY <1>3, <2>1, <2>3 DEF Entry, Entries, Chs
    <3>3. emit' = Append(emit, x)
      BY <3>1
    <3> HIDE DEF x
    <3>4. Output' = Append(Output, x)
      BY <1>2, <2>1, <3>2, <3>3, LastAppended DEF Output
    <3>5. \A j \in 1..Len(Output) :
              LastOfLife(Output, j, x.life) => Output[j].ch = x.ch /\ x.idx = Output[j].idx + 1
      BY <2>1, <3>2 DEF OrderInv, NextFollows
    <3>6. Consecutive(Append(Output, x))
      BY <1>2, <3>2, <3>5, ConsecutiveGrows DEF OrderInv
    <3>7. \A c \in DOMAIN chan : c # flushing => NextFollows(Append(Output, x), c, chan'[c])
      BY <1>2, <2>1, <2>3, <3>2, NextOfOthers DEF OrderInv, LivesDiffer
    <3>8. NextFollows(Append(Output, x), flushing, chan'[flushing])
      BY <1>2, <2>3, <3>2, NextOfChannel
    <3>9. LivesKnown(Output)'
      BY <1>2, <1>3, <2>1, <3>2, <3>4, AppendProperties DEF OrderInv, LivesKnown
    <3>10. LivesDiffer'
      BY <2>1, <2>3 DEF OrderInv, LivesDiffer
    <3>11. Consecutive(Output)'
      BY <3>4, <3>6 DEF Consecutive
    <3>12. (\A c \in DOMAIN chan : NextFollows(Output, c, chan[c]))'
      <4>1. ASSUME NEW c \in DOMAIN chan' PROVE NextFollows(Output', c, chan'[c])
        BY <2>3, <3>4, <3>7, <3>8
      <4> QED
        BY <4>1 DEF NextFollows, LastOfLife
    <3> QED
      BY <3>9, <3>10, <3>11, <3>12 DEF OrderInv
  <2> QED
    BY <1>1, <1>14, <2>2, <2>3, FlushChannels DEF QueueInv
<1>15. CASE Dispatch
  <2>1. /\ emit # <<>> /\ log' = Append(log, Head(emit)) /\ emit' = Tail(emit) /\ life' = life
        /\ (chan' = chan \/ DOMAIN chan' = {})
    BY <1>15 DEF Dispatch, DropState, NoFn, queues, QueueInv, TypeInv, ControlTyped
  <2>2. Output' = Output
    BY <1>2, <2>1, HeadMoves DEF Output
  <2> QED
    BY <1>4, <2>1, <2>2
<1> QED
  BY <1>10, <1>11, <1>12, <1>13, <1>14, <1>15 DEF Next

(* Within its life an ordered channel is dispatched in order, without a gap *)
(* and without a repetition, whatever arrives, expires or is dropped.       *)
THEOREM LivesAreInOrder == Spec => []InOrderWithinLife
<1>1. Init => OrderInv
  <2> SUFFICES ASSUME Init PROVE OrderInv
    OBVIOUS
  <2>1. DOMAIN chan = {} /\ Output = <<>> /\ Len(Output) = 0
    BY EmptySeq, ConcatEmptySeq DEF Init, NoFn, Output
  <2> QED
    BY <2>1 DEF OrderInv, Consecutive, LivesKnown, LivesDiffer
<1>2. QueueInv /\ OrderInv /\ [Next]_vars => QueueInv' /\ OrderInv'
  BY QueueStep, OrderStep
<1>3. QueueInv /\ OrderInv => InOrderWithinLife
  <2> SUFFICES ASSUME QueueInv, OrderInv PROVE InOrderWithinLife
    OBVIOUS
  <2>1. log \in Seq(Entries) /\ emit \in Seq(Entries)
    BY DEF QueueInv, TypeInv, EntriesTyped
  <2>2. /\ DOMAIN log = 1..Len(log) /\ Len(log) \in Nat /\ Len(emit) \in Nat
        /\ Len(Output) = Len(log) + Len(emit)
        /\ \A i \in 1..Len(log) : Output[i] = log[i]
    BY <2>1, LenProperties, ConcatProperties DEF Output
  <2>3. ASSUME NEW j \in DOMAIN log, NEW k \in DOMAIN log,
               j < k, log[j].life = log[k].life, log[j].life # 0,
               \A i \in (j + 1)..(k - 1) : log[i].life # log[j].life
        PROVE  log[k].ch = log[j].ch /\ log[k].idx = log[j].idx + 1
    <3>1. j \in 1..Len(Output) /\ k \in 1..Len(Output)
      BY <2>2
    <3>2. \A i \in (j + 1)..(k - 1) : Output[i].life # Output[j].life
      BY <2>2, <2>3
    <3> QED
      BY <2>2, <2>3, <3>1, <3>2 DEF OrderInv, Consecutive
  <2> QED
    BY <2>3 DEF InOrderWithinLife
<1> QED
  BY <1>1, <1>2, <1>3, QueueStart, PTL DEF Spec

(***************************************************************************)
(* Where what waits and what is dispatched comes from.  What is dispatched *)
(* is one message, whole, and no frame that was acknowledged is            *)
(* unaccounted for, when the wire has enough indices and split ids for the *)
(* messages.                                                               *)
(***************************************************************************)

(* A payload is the message that its channel numbers with its index.        *)
IsNumbered(payload, c, i) ==
    \E m \in Ids : payload = Whole(m) /\ script[m].ch = c /\ OrderIndex(m) = i

IsWhole(payload) == \E m \in Ids : payload = Whole(m)

(* A split buffer holds fragments of the message with its split id.         *)
Collects(s, x) ==
    \E m \in Ids :
        /\ IsSplit(m) /\ SplitId(m) = s
        /\ x.count = script[m].parts /\ x.ch = script[m].ch /\ x.idx = OrderIndex(m)
        /\ \A p \in DOMAIN x.frags : x.frags[p] = [msg |-> m, part |-> p]

BuffersNumbered ==
    \A c \in DOMAIN chan : \A i \in DOMAIN chan[c].buffer : IsNumbered(chan[c].buffer[i].payload, c, i)
SplitsCollect == \A s \in DOMAIN splits : Collects(s, splits[s])
AllWhole(entries) == \A k \in 1..Len(entries) : IsWhole(entries[k].payload)

(* Where everything that waits or is dispatched comes from.                 *)
SourceInv ==
    WireHasRoom => BuffersNumbered /\ SplitsCollect /\ AllWhole(log) /\ AllWhole(emit)

(* A frame is the part of a message that it names.                          *)
LEMMA FrameIs ==
    ASSUME script \in Seq(Messages), NEW f \in Frames
    PROVE  f = [msg |-> f.msg, part |-> f.part] /\ f.msg \in Ids /\ f.part \in 1..script[f.msg].parts
BY FrameFields DEF Frames

(* The script does not change, so what is said of its messages stays.       *)
LEMMA MessagesStay ==
    ASSUME script' = script
    PROVE  /\ WireHasRoom' = WireHasRoom
           /\ \A payload, c, i : IsNumbered(payload, c, i) => IsNumbered(payload, c, i)'
           /\ \A payload : IsWhole(payload) => IsWhole(payload)'
           /\ \A s, x : Collects(s, x) => Collects(s, x)'
BY DEF WireHasRoom, IsNumbered, IsWhole, Collects, Ids, Whole, OrderIndex, Peers, IsSplit, SplitId

(* What expiry leaves in a buffer was there.                                *)
LEMMA PruneBuffers ==
    ASSUME QueueInv, Prune
    PROVE  /\ \A c \in DOMAIN chan' :
                  /\ c \in DOMAIN chan
                  /\ \A i \in DOMAIN chan'[c].buffer :
                         i \in DOMAIN chan[c].buffer /\ chan'[c].buffer[i] = chan[c].buffer[i]
           /\ \A s \in DOMAIN splits' : s \in DOMAIN splits /\ splits'[s] = splits[s]
<1>1. ASSUME NEW c \in DOMAIN chan'
      PROVE  /\ c \in DOMAIN chan
             /\ chan'[c].buffer = [i \in AliveIn(chan[c].buffer) |-> chan[c].buffer[i]]
  <2>1. /\ c \in DOMAIN chan
        /\ chan'[c] = [chan[c] EXCEPT !.buffer = [i \in AliveIn(chan[c].buffer) |-> chan[c].buffer[i]]]
    BY DEF Prune, PrunedChannels
  <2>2. chan[c] = [next |-> chan[c].next, buffer |-> chan[c].buffer, life |-> chan[c].life]
    BY <2>1 DEF QueueInv, TypeInv, ChannelsTyped, IsChannel
  <2> QED
    BY <2>1, <2>2
<1>2. ASSUME NEW c \in DOMAIN chan', NEW i \in DOMAIN chan'[c].buffer
      PROVE  i \in DOMAIN chan[c].buffer /\ chan'[c].buffer[i] = chan[c].buffer[i]
  BY <1>1 DEF AliveIn
<1>3. \A s \in DOMAIN splits' : s \in DOMAIN splits /\ splits'[s] = splits[s]
  BY DEF Prune, PrunedSplits
<1> QED
  BY <1>1, <1>2, <1>3

(* What the flush takes out of a buffer it puts into emit.                  *)
LEMMA FlushBuffers ==
    ASSUME QueueInv, Flush
    PROVE  \/ UNCHANGED <<chan, emit>>
           \/ LET x == chan[flushing]
              IN  /\ x.next \in DOMAIN x.buffer /\ DOMAIN chan' = DOMAIN chan
                  /\ \A c \in DOMAIN chan : c # flushing => chan'[c] = chan[c]
                  /\ chan'[flushing].buffer = [i \in DOMAIN x.buffer \ {x.next} |-> x.buffer[i]]
                  /\ emit' = Append(emit, Entry(x.buffer[x.next].payload, flushing, x.next, x.life))
<1> DEFINE x == chan[flushing]
           b == [i \in DOMAIN x.buffer \ {x.next} |-> x.buffer[i]]
<1>1. flushing \in DOMAIN chan /\ IsChannel(x)
  BY DEF QueueInv, TypeInv, ControlTyped, ChannelsTyped, Flush
<1>2. CASE x.next \notin DOMAIN x.buffer
  BY <1>2 DEF Flush
<1>3. CASE x.next \in DOMAIN x.buffer
  <2>1. /\ emit' = Append(emit, Entry(x.buffer[x.next].payload, flushing, x.next, x.life))
        /\ chan' = [chan EXCEPT ![flushing] = [x EXCEPT !.next = x.next + 1, !.buffer = b]]
    BY <1>3 DEF Flush, Advanced
  <2>2. x = [next |-> x.next, buffer |-> x.buffer, life |-> x.life]
    BY <1>1 DEF IsChannel
  <2> HIDE DEF b
  <2>3. chan'[flushing].buffer = b
    BY <1>1, <2>1, <2>2
  <2>4. DOMAIN chan' = DOMAIN chan /\ \A c \in DOMAIN chan : c # flushing => chan'[c] = chan[c]
    BY <2>1
  <2> QED
    BY <1>3, <2>1, <2>3, <2>4 DEF b
<1> QED
  BY <1>2, <1>3

(* A whole message that is accepted comes under its own number.             *)
LEMMA AcceptSource ==
    ASSUME QueueInv, pc = "frames", script' = script, Frames' = Frames, BuffersNumbered,
           NEW payload \in Seq(Frames), NEW ch \in Chs, NEW idx \in Indices,
           IsNumbered(payload, ch, idx), Accept(payload, ch, idx)
    PROVE  BuffersNumbered' /\ AllWhole(emit)'
<1>1. emit = <<>> /\ IsWhole(payload)
  BY DEF QueueInv, TypeInv, ControlTyped, IsNumbered, IsWhole
<1>2. CASE ch = Unordered
  <2>1. emit' = <<Entry(payload, ch, idx, 0)>> /\ chan' = chan
    BY <1>2 DEF Accept
  <2>2. Len(emit') = 1 /\ emit'[1].payload = payload
    BY <2>1 DEF Entry
  <2>3. AllWhole(emit)'
    BY <1>1, <2>2, MessagesStay DEF AllWhole
  <2>4. BuffersNumbered'
    BY <2>1, MessagesStay DEF BuffersNumbered
  <2> QED
    BY <2>3, <2>4
<1>3. CASE ch # Unordered
  <2>1. emit' = <<>> /\ Len(emit') = 0
    BY <1>1, <1>3 DEF Accept
  <2>2. AllWhole(emit)'
    BY <2>1 DEF AllWhole
  <2>3. /\ DOMAIN chan' = DOMAIN chan \cup {ch}
        /\ \A c \in DOMAIN chan : c # ch => chan'[c] = chan[c]
        /\ chan'[ch].buffer = WithPayload(IF ch \in DOMAIN chan THEN chan[ch].buffer ELSE NoFn,
                                          idx, payload)
    BY <1>3, AcceptChannels DEF QueueInv
  <2>4. ASSUME NEW i \in DOMAIN chan'[ch].buffer
        PROVE  IsNumbered(chan'[ch].buffer[i].payload, ch, i)
    <3>1. CASE i = idx
      BY <2>3, <3>1 DEF WithPayload
    <3>2. CASE i # idx
      <4>1. /\ ch \in DOMAIN chan /\ i \in DOMAIN chan[ch].buffer
            /\ chan'[ch].buffer[i] = chan[ch].buffer[i]
        BY <2>3, <2>4, <3>2 DEF WithPayload, NoFn
      <4> QED
        BY <4>1 DEF BuffersNumbered
    <3> QED
      BY <3>1, <3>2
  <2>5. ASSUME NEW c \in DOMAIN chan', NEW i \in DOMAIN chan'[c].buffer
        PROVE  IsNumbered(chan'[c].buffer[i].payload, c, i)
    BY <2>3, <2>4, <2>5 DEF BuffersNumbered
  <2>6. BuffersNumbered'
    BY <2>5, MessagesStay DEF BuffersNumbered
  <2> QED
    BY <2>2, <2>6
<1> QED
  BY <1>2, <1>3

(* A fragment goes to the buffer of its own message, and what completes it  *)
(* is that message.                                                         *)
LEMMA FilledSource ==
    ASSUME QueueInv, WireHasRoom, SplitsCollect, NEW f \in Frames, IsSplit(f.msg)
    PROVE  LET new == Filled(f, SplitBuffer(f))
           IN  /\ Collects(SplitId(f.msg), new)
               /\ Complete(new) => IsNumbered(new.frags, new.ch, new.idx)
               /\ f.part \in DOMAIN new.frags /\ new.frags[f.part] = f
               /\ SplitId(f.msg) \in DOMAIN splits =>
                      \A p \in DOMAIN splits[SplitId(f.msg)].frags :
                          /\ p \in DOMAIN new.frags
                          /\ new.frags[p] = splits[SplitId(f.msg)].frags[p]
<1> DEFINE old == SplitBuffer(f)
           new == Filled(f, old)
           m == f.msg
<1>1. f = [msg |-> m, part |-> f.part] /\ m \in Ids /\ f.part \in 1..script[m].parts
      /\ script[m].parts \in Nat
  BY FrameIs, FrameFields DEF QueueInv, TypeInv, ControlTyped
<1>2. /\ old.count = script[m].parts /\ old.ch = script[m].ch /\ old.idx = OrderIndex(m)
      /\ \A p \in DOMAIN old.frags : old.frags[p] = [msg |-> m, part |-> p]
  <2>1. CASE SplitId(m) \in DOMAIN splits
    <3>1. old = splits[SplitId(m)] /\ Collects(SplitId(m), old)
      BY <2>1 DEF SplitBuffer, SplitsCollect
    <3>2. PICK k \in Ids :
              /\ IsSplit(k) /\ SplitId(k) = SplitId(m)
              /\ old.count = script[k].parts /\ old.ch = script[k].ch /\ old.idx = OrderIndex(k)
              /\ \A p \in DOMAIN old.frags : old.frags[p] = [msg |-> k, part |-> p]
      BY <3>1 DEF Collects
    <3>3. k = m
      BY <1>1, <3>2 DEF WireHasRoom
    <3> QED
      BY <3>2, <3>3
  <2>2. CASE SplitId(m) \notin DOMAIN splits
    <3>1. old = [count |-> script[m].parts, frags |-> NoFn, age |-> 0,
                 idx |-> OrderIndex(m), ch |-> script[m].ch]
      BY <2>2 DEF SplitBuffer
    <3> QED
      BY <3>1 DEF NoFn
  <2> QED
    BY <2>1, <2>2
<1>3. SplitId(m) \in DOMAIN splits => old = splits[SplitId(m)]
  BY DEF SplitBuffer
<1>4. IsSplitBuffer(old) /\ IsSplitBuffer(new) /\ (Complete(new) => new.frags \in Seq(Frames))
  <2>1. IsSplitBuffer(old)
    BY FrameFields DEF QueueInv, TypeInv, ControlTyped, SplitsTyped, SplitBuffer, IsSplitBuffer, NoFn
  <2> QED
    BY <2>1, FilledType DEF QueueInv
<1>5. /\ new.count = old.count /\ new.ch = old.ch /\ new.idx = old.idx
      /\ \A p \in DOMAIN new.frags : new.frags[p] = [msg |-> m, part |-> p]
      /\ f.part \in DOMAIN new.frags
      /\ \A p \in DOMAIN old.frags : p \in DOMAIN new.frags /\ new.frags[p] = old.frags[p]
  <2>1. CASE ~Fits(f, old)
    <3>1. new = old /\ f.part \in DOMAIN old.frags
      BY <1>1, <1>2, <2>1 DEF Fits, Filled
    <3> QED
      BY <1>2, <3>1
  <2>2. CASE Fits(f, old)
    <3> DEFINE g == [p \in DOMAIN old.frags \cup {f.part} |-> IF p = f.part THEN f ELSE old.frags[p]]
    <3>1. new = [old EXCEPT !.frags = g]
      BY <2>2 DEF Filled
    <3>2. old = [count |-> old.count, frags |-> old.frags, age |-> old.age, idx |-> old.idx, ch |-> old.ch]
      BY <1>4 DEF IsSplitBuffer
    <3>3. /\ \A p \in DOMAIN g : g[p] = [msg |-> m, part |-> p]
          /\ f.part \in DOMAIN g
          /\ \A p \in DOMAIN old.frags : p \in DOMAIN g /\ g[p] = old.frags[p]
      BY <1>1, <1>2, <2>2 DEF Fits
    <3> HIDE DEF g, old, new
    <3>4. new.count = old.count /\ new.ch = old.ch /\ new.idx = old.idx /\ new.frags = g
      BY <3>1, <3>2
    <3> QED
      BY <3>3, <3>4
  <2> QED
    BY <2>1, <2>2
<1> HIDE DEF old, new
<1>6. Collects(SplitId(m), new)
  BY <1>1, <1>2, <1>5 DEF Collects
<1>7. ASSUME Complete(new) PROVE IsNumbered(new.frags, new.ch, new.idx)
  <2>1. DOMAIN new.frags = 1..script[m].parts
    BY <1>2, <1>5, <1>7 DEF Complete
  <2>2. new.frags = [p \in DOMAIN new.frags |-> new.frags[p]]
    BY <1>4 DEF IsSplitBuffer
  <2>3. new.frags = Whole(m)
    BY <1>5, <2>1, <2>2 DEF Whole
  <2> QED
    BY <1>1, <1>2, <1>5, <2>3 DEF IsNumbered
<1> QED
  BY <1>1, <1>3, <1>5, <1>6, <1>7 DEF old, new

(* Every step keeps the sources.                                            *)
LEMMA SourceStep ==
    ASSUME QueueInv, SourceInv, [Next]_vars
    PROVE  SourceInv'
<1>1. script' = script /\ Frames' = Frames /\ Entries' = Entries
  BY FramesStay
<1> SUFFICES ASSUME WireHasRoom
             PROVE  (BuffersNumbered /\ SplitsCollect /\ AllWhole(log) /\ AllWhole(emit))'
  BY <1>1, MessagesStay DEF SourceInv
<1>2. BuffersNumbered /\ SplitsCollect /\ AllWhole(log) /\ AllWhole(emit)
  BY DEF SourceInv
<1>3. /\ UNCHANGED chan => BuffersNumbered'
      /\ UNCHANGED splits => SplitsCollect'
      /\ UNCHANGED log => AllWhole(log)'
      /\ UNCHANGED emit => AllWhole(emit)'
  BY <1>1, <1>2, MessagesStay DEF BuffersNumbered, SplitsCollect, AllWhole
<1>4. log \in Seq(Entries) /\ emit \in Seq(Entries)
  BY DEF QueueInv, TypeInv, EntriesTyped
<1>5. \A e \in Entries : IsWhole(e.payload) =>
          /\ AllWhole(Append(log, e)) /\ AllWhole(Append(emit, e))
  BY <1>2, <1>4, AppendProperties, LenProperties DEF AllWhole
<1>10. CASE PeerSends \/ Acknowledge \/ UNCHANGED vars
  <2>1. UNCHANGED <<chan, splits, log, emit>>
    BY <1>10 DEF PeerSends, Acknowledge, vars, queues, control, history
  <2> QED
    BY <1>3, <2>1
<1>11. CASE Tick
  <2>1. UNCHANGED <<log, emit>>
    BY <1>11 DEF Tick, control, history
  <2>2. ASSUME NEW c \in DOMAIN chan', NEW i \in DOMAIN chan'[c].buffer
        PROVE  IsNumbered(chan'[c].buffer[i].payload, c, i)
    <3> DEFINE x == chan[c]
               b == [j \in DOMAIN x.buffer |-> Older(x.buffer[j])]
    <3>1. c \in DOMAIN chan /\ chan'[c] = [x EXCEPT !.buffer = b]
      BY <1>11 DEF Tick
    <3>2. IsChannel(x)
      BY <3>1 DEF QueueInv, TypeInv, ChannelsTyped
    <3>3. x = [next |-> x.next, buffer |-> x.buffer, life |-> x.life] /\ IsBuffer(x.buffer)
      BY <3>2 DEF IsChannel
    <3>4. chan'[c].buffer = b
      BY <3>1, <3>3
    <3>5. i \in DOMAIN x.buffer /\ b[i] = Older(x.buffer[i])
      BY <3>4
    <3>6. x.buffer[i] \in [payload : Seq(Frames), age : Nat]
      BY <3>3, <3>5 DEF IsBuffer
    <3>7. b[i].payload = x.buffer[i].payload
      BY <3>5, <3>6 DEF Older
    <3>8. IsNumbered(x.buffer[i].payload, c, i)
      BY <1>2, <3>1, <3>5 DEF BuffersNumbered
    <3> QED
      BY <3>4, <3>7, <3>8
  <2>3. ASSUME NEW s \in DOMAIN splits' PROVE Collects(s, splits'[s])
    <3> DEFINE x == splits[s]
    <3>1. s \in DOMAIN splits /\ splits'[s] = [x EXCEPT !.age = x.age + 1]
      BY <1>11 DEF Tick, Older
    <3>2. x = [count |-> x.count, frags |-> x.frags, age |-> x.age, idx |-> x.idx, ch |-> x.ch]
      BY <3>1 DEF QueueInv, TypeInv, SplitsTyped, IsSplitBuffer
    <3>3. Collects(s, x)
      BY <1>2, <3>1 DEF SplitsCollect
    <3> HIDE DEF x
    <3>4. /\ splits'[s].count = x.count /\ splits'[s].ch = x.ch /\ splits'[s].idx = x.idx
          /\ splits'[s].frags = x.frags
      BY <3>1, <3>2
    <3> QED
      BY <3>3, <3>4 DEF Collects
  <2>4. BuffersNumbered' /\ SplitsCollect'
    BY <1>1, <2>2, <2>3, MessagesStay DEF BuffersNumbered, SplitsCollect
  <2> QED
    BY <1>3, <2>1, <2>4
<1>12. CASE ReceiveGarbage \/ \E d \in Datagrams : Receive(d)
  <2>1. Prune /\ UNCHANGED <<log, emit>>
    BY <1>12 DEF Receive, ReceiveGarbage, control
  <2>2. /\ \A c \in DOMAIN chan' :
               /\ c \in DOMAIN chan
               /\ \A i \in DOMAIN chan'[c].buffer :
                      i \in DOMAIN chan[c].buffer /\ chan'[c].buffer[i] = chan[c].buffer[i]
        /\ \A s \in DOMAIN splits' : s \in DOMAIN splits /\ splits'[s] = splits[s]
    BY <2>1, PruneBuffers
  <2>3. BuffersNumbered' /\ SplitsCollect'
    BY <1>1, <1>2, <2>2, MessagesStay DEF BuffersNumbered, SplitsCollect
  <2> QED
    BY <1>3, <2>1, <2>3
<1>13. CASE HandleFrame
  <2> DEFINE f == Head(inbox)
  <2>1. pc = "frames" /\ log' = log /\ f \in Frames
    BY <1>13, HeadTailProperties DEF HandleFrame, QueueInv, TypeInv, FramesTyped
  <2> HIDE DEF f
  <2>2. /\ script[f.msg].ch \in Chs /\ OrderIndex(f.msg) \in Indices /\ f.msg \in Ids
        /\ f = [msg |-> f.msg, part |-> f.part] /\ f.part \in 1..script[f.msg].parts
        /\ script[f.msg].parts \in Nat \ {0}
    BY <2>1, FrameFields, FrameIs DEF QueueInv, TypeInv, ControlTyped
  <2>3. CASE WholeFrame(f)
    <3>1. /\ <<f>> \in Seq(Frames) /\ splits' = splits
          /\ Accept(<<f>>, script[f.msg].ch, OrderIndex(f.msg))
      BY <2>1, <2>3 DEF WholeFrame
    <3>2. script[f.msg].parts = 1 /\ f.part = 1
      BY <2>2, <2>3 DEF WholeFrame, IsSplit
    <3>3. <<f>> = Whole(f.msg)
      BY <2>2, <3>2 DEF Whole
    <3>4. IsNumbered(<<f>>, script[f.msg].ch, OrderIndex(f.msg))
      BY <2>2, <3>3 DEF IsNumbered
    <3>5. BuffersNumbered' /\ AllWhole(emit)'
      BY <1>1, <1>2, <2>1, <2>2, <3>1, <3>4, AcceptSource
    <3> QED
      BY <1>3, <2>1, <3>1, <3>5
  <2>4. CASE SkippedFragment(f)
    BY <1>3, <2>1, <2>4 DEF SkippedFragment
  <2>5. CASE Fragment(f)
    <3> DEFINE sid == SplitId(f.msg)
               new == Filled(f, SplitBuffer(f))
    <3>1. IsSplitBuffer(new) /\ (Complete(new) => new.frags \in Seq(Frames))
      BY <2>1, FilledType DEF QueueInv
    <3>2. Collects(sid, new) /\ (Complete(new) => IsNumbered(new.frags, new.ch, new.idx))
      BY <1>2, <2>1, <2>5, FilledSource DEF Fragment
    <3> HIDE DEF new
    <3>3. new.ch \in Chs /\ new.idx \in Indices
      BY <3>1 DEF IsSplitBuffer
    <3>4. CASE Complete(new)
      <4>1. splits' = [i \in DOMAIN splits \ {sid} |-> splits[i]] /\ Accept(new.frags, new.ch, new.idx)
        BY <2>5, <3>4 DEF Fragment, new
      <4>2. BuffersNumbered' /\ AllWhole(emit)'
        BY <1>1, <1>2, <2>1, <3>1, <3>2, <3>3, <3>4, <4>1, AcceptSource
      <4>3. SplitsCollect'
        BY <1>1, <1>2, <4>1, MessagesStay DEF SplitsCollect
      <4> QED
        BY <1>3, <2>1, <4>2, <4>3
    <3>5. CASE ~Complete(new)
      <4>1. /\ splits' = [i \in DOMAIN splits \cup {sid} |-> IF i = sid THEN new ELSE splits[i]]
            /\ UNCHANGED <<chan, emit>>
        BY <2>5, <3>5 DEF Fragment, new
      <4>2. SplitsCollect'
        BY <1>1, <1>2, <3>2, <4>1, MessagesStay DEF SplitsCollect
      <4> QED
        BY <1>3, <2>1, <4>1, <4>2
    <3> QED
      BY <3>4, <3>5
  <2> QED
    BY <1>13, <2>3, <2>4, <2>5 DEF HandleFrame, f
<1>14. CASE Flush
  <2>1. UNCHANGED <<log, splits>> /\ flushing \in DOMAIN chan
    BY <1>14 DEF Flush, history, QueueInv, TypeInv, ControlTyped
  <2>2. CASE UNCHANGED <<chan, emit>>
    BY <1>3, <2>1, <2>2
  <2>3. CASE LET x == chan[flushing]
             IN  /\ x.next \in DOMAIN x.buffer /\ DOMAIN chan' = DOMAIN chan
                 /\ \A c \in DOMAIN chan : c # flushing => chan'[c] = chan[c]
                 /\ chan'[flushing].buffer = [i \in DOMAIN x.buffer \ {x.next} |-> x.buffer[i]]
                 /\ emit' = Append(emit, Entry(x.buffer[x.next].payload, flushing, x.next, x.life))
    <3> DEFINE x == chan[flushing]
               e == Entry(x.buffer[x.next].payload, flushing, x.next, x.life)
    <3>1. IsNumbered(x.buffer[x.next].payload, flushing, x.next)
      BY <1>2, <2>1, <2>3 DEF BuffersNumbered
    <3>2. IsChannel(x) /\ flushing \in Chs
      BY <2>1 DEF QueueInv, TypeInv, ChannelsTyped, Chs
    <3>3. e \in Entries
      BY <2>3, <3>2 DEF Entry, Entries, IsChannel, IsBuffer
    <3>4. IsWhole(e.payload)
      BY <3>1 DEF IsNumbered, IsWhole, Entry
    <3>5. emit' = Append(emit, e)
      BY <2>3
    <3> HIDE DEF e
    <3>6. AllWhole(emit)'
      <4>1. AllWhole(Append(emit, e))
        BY <1>5, <3>3, <3>4
      <4> QED
        BY <1>1, <3>5, <4>1, MessagesStay DEF AllWhole
    <3>7. ASSUME NEW c \in DOMAIN chan', NEW i \in DOMAIN chan'[c].buffer
          PROVE  IsNumbered(chan'[c].buffer[i].payload, c, i)
      BY <1>2, <2>1, <2>3, <3>7 DEF BuffersNumbered
    <3>8. BuffersNumbered'
      BY <1>1, <3>7, MessagesStay DEF BuffersNumbered
    <3> QED
      BY <1>3, <2>1, <3>6, <3>8
  <2> QED
    BY <1>14, <2>2, <2>3, FlushBuffers
<1>15. CASE Dispatch
  <2>1. /\ emit # <<>> /\ log' = Append(log, Head(emit)) /\ emit' = Tail(emit)
        /\ (chan' = chan \/ DOMAIN chan' = {}) /\ (splits' = splits \/ DOMAIN splits' = {})
    BY <1>15 DEF Dispatch, DropState, NoFn, queues, QueueInv, TypeInv, ControlTyped
  <2>2. /\ Head(emit) \in Entries /\ Head(emit) = emit[1] /\ 1 \in 1..Len(emit)
        /\ Len(Tail(emit)) = Len(emit) - 1 /\ Len(emit) \in Nat
        /\ \A k \in 1..Len(Tail(emit)) : Tail(emit)[k] = emit[k + 1]
    BY <1>4, <2>1, HeadTailProperties, LenProperties, EmptySeq
  <2>3. AllWhole(Append(log, Head(emit)))
    BY <1>2, <1>5, <2>2 DEF AllWhole
  <2>4. AllWhole(Tail(emit))
    BY <1>2, <2>2 DEF AllWhole
  <2>5. AllWhole(log)' /\ AllWhole(emit)'
    BY <1>1, <2>1, <2>3, <2>4, MessagesStay DEF AllWhole
  <2>6. BuffersNumbered' /\ SplitsCollect'
    BY <1>3, <2>1 DEF BuffersNumbered, SplitsCollect
  <2> QED
    BY <2>5, <2>6
<1> QED
  BY <1>10, <1>11, <1>12, <1>13, <1>14, <1>15 DEF Next

(* What is dispatched is one message, whole, in the order of its fragments, *)
(* however these arrived, were repeated, or met others.                     *)
THEOREM MessagesStayWhole == Spec => []ReassemblyIntact
<1>1. Init => SourceInv
  <2> SUFFICES ASSUME Init PROVE SourceInv
    OBVIOUS
  <2>1. DOMAIN chan = {} /\ DOMAIN splits = {} /\ Len(log) = 0 /\ Len(emit) = 0
    BY EmptySeq DEF Init, NoFn
  <2> QED
    BY <2>1 DEF SourceInv, BuffersNumbered, SplitsCollect, AllWhole
<1>2. QueueInv /\ SourceInv /\ [Next]_vars => QueueInv' /\ SourceInv'
  BY QueueStep, SourceStep
<1>3. QueueInv /\ SourceInv => ReassemblyIntact
  BY LenProperties
  DEF SourceInv, AllWhole, IsWhole, ReassemblyIntact, QueueInv, TypeInv, EntriesTyped
<1> QED
  BY <1>1, <1>2, <1>3, QueueStart, PTL DEF Spec

(***************************************************************************)
(* An acknowledgement is never a lie: every frame that was read and        *)
(* acknowledged is accounted for.                                          *)
(***************************************************************************)
(* The frames that are dispatched, about to be, waiting, or expired.        *)
Accounted == FramesOfEntries(log) \cup FramesOfEntries(emit) \cup Waiting \cup expired

AckInv ==
    WireHasRoom => closed \/
        /\ \A f \in acked : f \in Accounted \/ TooManyParts(f)
        /\ \A f \in datagram : f \in Accounted \/ TooManyParts(f) \/ f \in FramesIn(inbox)

(* With room on the wire, a channel gives no index twice.                   *)
LEMMA IndexInjective ==
    ASSUME script \in Seq(Messages), WireHasRoom, NEW m \in Ids, NEW k \in Ids,
           script[m].ch = script[k].ch, OrderIndex(m) = OrderIndex(k)
    PROVE  m = k
<1>1. /\ Ids = 1..Len(script) /\ Len(script) \in Nat /\ Len(script) <= IndexMod
      /\ IndexMod \in Nat \ {0}
  BY LenProperties, WireAssumption DEF Ids, WireHasRoom
<1>2. ASSUME NEW j \in Ids
      PROVE  /\ IsFiniteSet(Peers(j)) /\ Cardinality(Peers(j)) \in Nat
             /\ OrderIndex(j) = Cardinality(Peers(j))
  <2>1. Peers(j) \subseteq 1..(j - 1) /\ j \in Nat \ {0} /\ j <= Len(script) /\ j - 1 \in Nat
    BY <1>1 DEF Peers
  <2>5. \A b \in Nat : IsFiniteSet(1..b) /\ Cardinality(1..b) = b
    <3>1. \A b \in Nat : IsFiniteSet(1..b) /\ Cardinality(1..b) = IF 1 > b THEN 0 ELSE b - 1 + 1
      BY FS_Interval
    <3> QED
      BY <3>1
  <2>2. IsFiniteSet(Peers(j)) /\ Cardinality(Peers(j)) <= j - 1
    BY <2>1, <2>5, FS_Subset
  <2>3. Cardinality(Peers(j)) \in Nat
    BY <2>2, FS_CardinalityType
  <2>4. Cardinality(Peers(j)) < IndexMod
    BY <1>1, <2>1, <2>2, <2>3
  <2> QED
    BY <1>1, <2>2, <2>3, <2>4 DEF OrderIndex
<1>3. ASSUME NEW i \in Ids, NEW j \in Ids, i < j, script[i].ch = script[j].ch
      PROVE  Cardinality(Peers(i)) # Cardinality(Peers(j))
  <2>1. Peers(i) \subseteq Peers(j) /\ i \in Peers(j) /\ i \notin Peers(i)
    BY <1>1, <1>3 DEF Peers
  <2> QED
    BY <1>2, <2>1, FS_Subset
<1> QED
  BY <1>1, <1>2, <1>3

(* Where a frame can wait: in a split buffer, or in the buffer of a channel.*)
InSplit(f) == \E s \in DOMAIN splits : \E p \in DOMAIN splits[s].frags : f = splits[s].frags[p]
InBuffer(f) ==
    \E c \in DOMAIN chan : \E i \in DOMAIN chan[c].buffer : f \in FramesIn(chan[c].buffer[i].payload)

(* These two are all.                                                       *)
LEMMA WaitingIs ==
    ASSUME NEW f
    PROVE  /\ f \in Waiting <=> InSplit(f) \/ InBuffer(f)
           /\ f \in Waiting' <=> InSplit(f)' \/ InBuffer(f)'
BY DEF Waiting, InSplit, InBuffer, FramesOfSplits, FramesOfBuffers, FramesIn

(* Expiry accounts for what it discards.                                    *)
LEMMA PruneAccounts ==
    ASSUME QueueInv, Prune, NEW f \in Waiting
    PROVE  f \in Waiting' \/ f \in expired'
<1>1. expired' = expired \cup FramesOfSplits({s \in DOMAIN splits : ~Alive(splits[s])})
                         \cup FramesOfBuffers(LAMBDA e : ~Alive(e))
  BY DEF Prune
<1>2. CASE InSplit(f)
  <2>1. PICK s \in DOMAIN splits : \E p \in DOMAIN splits[s].frags : f = splits[s].frags[p]
    BY <1>2 DEF InSplit
  <2>2. CASE Alive(splits[s])
    <3>1. s \in DOMAIN splits' /\ splits'[s] = splits[s]
      BY <2>1, <2>2 DEF Prune, PrunedSplits
    <3> QED
      BY <2>1, <3>1, WaitingIs DEF InSplit
  <2>3. CASE ~Alive(splits[s])
    BY <1>1, <2>1, <2>3 DEF FramesOfSplits, FramesIn
  <2> QED
    BY <2>2, <2>3
<1>3. CASE InBuffer(f)
  <2>1. PICK c \in DOMAIN chan : \E i \in DOMAIN chan[c].buffer :
            f \in FramesIn(chan[c].buffer[i].payload)
    BY <1>3 DEF InBuffer
  <2>2. PICK i \in DOMAIN chan[c].buffer : f \in FramesIn(chan[c].buffer[i].payload)
    BY <2>1
  <2>3. CASE Alive(chan[c].buffer[i])
    <3> DEFINE b == [j \in AliveIn(chan[c].buffer) |-> chan[c].buffer[j]]
    <3>1. i \in AliveIn(chan[c].buffer)
      BY <2>3 DEF AliveIn
    <3>2. c \in DOMAIN chan' /\ chan'[c] = [chan[c] EXCEPT !.buffer = b]
      BY <3>1 DEF Prune, PrunedChannels
    <3>3. chan[c] = [next |-> chan[c].next, buffer |-> chan[c].buffer, life |-> chan[c].life]
      BY DEF QueueInv, TypeInv, ChannelsTyped, IsChannel
    <3>4. chan'[c].buffer = b
      BY <3>2, <3>3
    <3>5. i \in DOMAIN chan'[c].buffer /\ chan'[c].buffer[i] = chan[c].buffer[i]
      BY <3>1, <3>4
    <3> QED
      BY <2>2, <3>2, <3>5, WaitingIs DEF InBuffer
  <2>4. CASE ~Alive(chan[c].buffer[i])
    BY <1>1, <2>2, <2>4 DEF FramesOfBuffers
  <2> QED
    BY <2>3, <2>4
<1> QED
  BY <1>2, <1>3, WaitingIs

(* The frames of a sequence of payloads, as it grows at its end.            *)
LEMMA FramesAppended ==
    ASSUME NEW entries \in Seq(Entries), NEW e \in Entries
    PROVE  FramesOfEntries(Append(entries, e)) = FramesOfEntries(entries) \cup FramesIn(e.payload)
<1>1. /\ Append(entries, e) \in Seq(Entries) /\ Len(Append(entries, e)) = Len(entries) + 1
      /\ \A i \in 1..Len(entries) : Append(entries, e)[i] = entries[i]
      /\ Append(entries, e)[Len(entries) + 1] = e
  BY AppendProperties
<1>2. /\ DOMAIN entries = 1..Len(entries) /\ Len(entries) \in Nat
      /\ DOMAIN Append(entries, e) = 1..(Len(entries) + 1)
  BY <1>1, LenProperties
<1> DEFINE a == Append(entries, e)
<1> HIDE DEF a
<1>3. DOMAIN a = DOMAIN entries \cup {Len(entries) + 1} /\ a[Len(entries) + 1] = e
      /\ \A i \in DOMAIN entries : a[i] = entries[i]
  BY <1>1, <1>2 DEF a
<1> QED
  BY <1>3 DEF FramesOfEntries, a

(* As it loses its head.                                                    *)
LEMMA FramesSplit ==
    ASSUME NEW entries \in Seq(Entries), entries # <<>>
    PROVE  FramesOfEntries(entries) =
               FramesIn(Head(entries).payload) \cup FramesOfEntries(Tail(entries))
<1> DEFINE t == Tail(entries)
<1>1. /\ t \in Seq(Entries) /\ Len(t) = Len(entries) - 1 /\ Head(entries) = entries[1]
      /\ \A i \in 1..Len(t) : t[i] = entries[i + 1]
  BY HeadTailProperties
<1>2. /\ DOMAIN entries = 1..Len(entries) /\ Len(entries) \in Nat \ {0} /\ DOMAIN t = 1..Len(t)
  BY <1>1, LenProperties, EmptySeq
<1> HIDE DEF t
<1>3. ASSUME NEW f \in FramesOfEntries(entries)
      PROVE  f \in FramesIn(Head(entries).payload) \cup FramesOfEntries(t)
  <2>1. PICK k \in DOMAIN entries : f \in FramesIn(entries[k].payload)
    BY <1>3 DEF FramesOfEntries
  <2>2. CASE k = 1
    BY <1>1, <2>1, <2>2
  <2>3. CASE k # 1
    <3>1. k - 1 \in DOMAIN t /\ t[k - 1] = entries[k]
      BY <1>1, <1>2, <2>1, <2>3
    <3> QED
      BY <2>1, <3>1 DEF FramesOfEntries
  <2> QED
    BY <2>2, <2>3
<1>4. FramesIn(Head(entries).payload) \subseteq FramesOfEntries(entries)
  BY <1>1, <1>2 DEF FramesOfEntries
<1>5. ASSUME NEW k \in DOMAIN t PROVE FramesIn(t[k].payload) \subseteq FramesOfEntries(entries)
  <2>1. k + 1 \in DOMAIN entries /\ t[k] = entries[k + 1]
    BY <1>1, <1>2
  <2> QED
    BY <2>1 DEF FramesOfEntries
<1>6. FramesOfEntries(t) \subseteq FramesOfEntries(entries)
  BY <1>5 DEF FramesOfEntries
<1> QED
  BY <1>3, <1>4, <1>6 DEF t

(* A whole message that is accepted is accounted for, and loses none of the *)
(* frames that wait in a channel: at its number there is only itself.       *)
LEMMA AcceptAccounts ==
    ASSUME QueueInv, BuffersNumbered, WireHasRoom, pc = "frames", script' = script, Frames' = Frames,
           NEW payload \in Seq(Frames), NEW ch \in Chs, NEW idx \in Indices,
           IsNumbered(payload, ch, idx), Accept(payload, ch, idx)
    PROVE  /\ \A g : InBuffer(g) => InBuffer(g)'
           /\ FramesOfEntries(emit) = {}
           /\ \A g \in FramesIn(payload) : InBuffer(g)' \/ g \in FramesOfEntries(emit')
<1>1. emit = <<>> /\ FramesOfEntries(emit) = {} /\ script \in Seq(Messages)
  <2>1. emit = <<>> /\ script \in Seq(Messages)
    BY DEF QueueInv, TypeInv, ControlTyped
  <2>2. DOMAIN emit = {}
    BY <2>1
  <2> QED
    BY <2>1, <2>2 DEF FramesOfEntries
<1>2. CASE ch = Unordered
  <2>1. emit' = <<Entry(payload, ch, idx, 0)>> /\ chan' = chan
    BY <1>2 DEF Accept
  <2>2. 1 \in DOMAIN emit' /\ emit'[1].payload = payload
    BY <2>1 DEF Entry
  <2> QED
    BY <1>1, <2>1, <2>2 DEF FramesOfEntries, InBuffer
<1>3. CASE ch # Unordered
  <2>1. /\ DOMAIN chan' = DOMAIN chan \cup {ch}
        /\ \A c \in DOMAIN chan : c # ch => chan'[c] = chan[c]
        /\ chan'[ch].buffer = WithPayload(IF ch \in DOMAIN chan THEN chan[ch].buffer ELSE NoFn,
                                          idx, payload)
    BY <1>3, AcceptChannels DEF QueueInv
  <2>2. idx \in DOMAIN chan'[ch].buffer /\ chan'[ch].buffer[idx].payload = payload
    BY <2>1 DEF WithPayload
  <2>3. ASSUME NEW g, NEW c \in DOMAIN chan, NEW i \in DOMAIN chan[c].buffer,
               g \in FramesIn(chan[c].buffer[i].payload)
        PROVE  InBuffer(g)'
    <3>1. CASE c # ch
      BY <2>1, <2>3, <3>1 DEF InBuffer
    <3>2. CASE c = ch /\ i # idx
      <4>1. i \in DOMAIN chan'[ch].buffer /\ chan'[ch].buffer[i] = chan[ch].buffer[i]
        BY <2>1, <3>2 DEF WithPayload
      <4> QED
        BY <2>1, <2>3, <3>2, <4>1 DEF InBuffer
    <3>3. CASE c = ch /\ i = idx
      <4>1. PICK m \in Ids : payload = Whole(m) /\ script[m].ch = ch /\ OrderIndex(m) = idx
        BY DEF IsNumbered
      <4>2. PICK k \in Ids : /\ chan[c].buffer[i].payload = Whole(k)
                             /\ script[k].ch = ch /\ OrderIndex(k) = idx
        BY <2>3, <3>3 DEF BuffersNumbered, IsNumbered
      <4>3. m = k
        BY <1>1, <4>1, <4>2, IndexInjective
      <4> QED
        BY <2>1, <2>2, <2>3, <4>1, <4>2, <4>3 DEF InBuffer
    <3> QED
      BY <3>1, <3>2, <3>3
  <2>4. \A g : InBuffer(g) => InBuffer(g)'
    BY <2>3 DEF InBuffer
  <2>5. \A g \in FramesIn(payload) : InBuffer(g)'
    BY <2>1, <2>2 DEF InBuffer
  <2> QED
    BY <1>1, <2>4, <2>5
<1> QED
  BY <1>2, <1>3

(* Time changes no payload.                                                 *)
LEMMA TickKeeps ==
    ASSUME QueueInv, Tick, NEW f \in Accounted
    PROVE  f \in Accounted'
<1>1. UNCHANGED <<log, emit, expired>>
  BY DEF Tick, control, history
<1>2. CASE InSplit(f)
  <2>1. PICK s \in DOMAIN splits : \E p \in DOMAIN splits[s].frags : f = splits[s].frags[p]
    BY <1>2 DEF InSplit
  <2> DEFINE x == splits[s]
  <2>2. s \in DOMAIN splits' /\ splits'[s] = [x EXCEPT !.age = x.age + 1]
    BY <2>1 DEF Tick, Older
  <2>3. x = [count |-> x.count, frags |-> x.frags, age |-> x.age, idx |-> x.idx, ch |-> x.ch]
    BY <2>1 DEF QueueInv, TypeInv, SplitsTyped, IsSplitBuffer
  <2> HIDE DEF x
  <2>4. splits'[s].frags = x.frags
    BY <2>2, <2>3
  <2>5. InSplit(f)'
    BY <2>1, <2>2, <2>4 DEF InSplit, x
  <2> QED
    BY <2>5, WaitingIs DEF Accounted
<1>3. CASE InBuffer(f)
  <2>1. PICK c \in DOMAIN chan : \E i \in DOMAIN chan[c].buffer :
            f \in FramesIn(chan[c].buffer[i].payload)
    BY <1>3 DEF InBuffer
  <2>2. PICK i \in DOMAIN chan[c].buffer : f \in FramesIn(chan[c].buffer[i].payload)
    BY <2>1
  <2> DEFINE x == chan[c]
             b == [j \in DOMAIN x.buffer |-> Older(x.buffer[j])]
  <2>3. c \in DOMAIN chan' /\ chan'[c] = [x EXCEPT !.buffer = b]
    BY DEF Tick
  <2>4. x = [next |-> x.next, buffer |-> x.buffer, life |-> x.life] /\ IsBuffer(x.buffer)
    BY DEF QueueInv, TypeInv, ChannelsTyped, IsChannel
  <2>5. chan'[c].buffer = b
    BY <2>3, <2>4
  <2>6. i \in DOMAIN b /\ b[i].payload = x.buffer[i].payload
    BY <2>4 DEF IsBuffer, Older
  <2>7. InBuffer(f)'
    BY <2>2, <2>3, <2>5, <2>6 DEF InBuffer
  <2> QED
    BY <2>7, WaitingIs DEF Accounted
<1> QED
  BY <1>1, <1>2, <1>3, WaitingIs DEF Accounted, FramesOfEntries

(* The flush moves a payload from the buffer to what is dispatched next.    *)
LEMMA FlushKeeps ==
    ASSUME QueueInv, Flush, NEW f \in Accounted
    PROVE  f \in Accounted'
<1>1. UNCHANGED <<log, splits, expired>> /\ flushing \in DOMAIN chan
  BY DEF Flush, history, QueueInv, TypeInv, ControlTyped
<1>2. CASE UNCHANGED <<chan, emit>>
  <2>1. InSplit(f)' = InSplit(f) /\ InBuffer(f)' = InBuffer(f)
    BY <1>1, <1>2 DEF InSplit, InBuffer
  <2> QED
    BY <1>1, <1>2, <2>1, WaitingIs DEF Accounted, FramesOfEntries
<1>3. CASE LET x == chan[flushing]
           IN  /\ x.next \in DOMAIN x.buffer /\ DOMAIN chan' = DOMAIN chan
               /\ \A c \in DOMAIN chan : c # flushing => chan'[c] = chan[c]
               /\ chan'[flushing].buffer = [i \in DOMAIN x.buffer \ {x.next} |-> x.buffer[i]]
               /\ emit' = Append(emit, Entry(x.buffer[x.next].payload, flushing, x.next, x.life))
  <2> DEFINE x == chan[flushing]
             e == Entry(x.buffer[x.next].payload, flushing, x.next, x.life)
  <2>1. IsChannel(x) /\ flushing \in Chs
    BY <1>1 DEF QueueInv, TypeInv, ChannelsTyped, Chs
  <2>2. e \in Entries /\ e.payload = x.buffer[x.next].payload
    BY <1>3, <2>1 DEF Entry, Entries, IsChannel, IsBuffer
  <2>3. emit' = Append(emit, e) /\ emit \in Seq(Entries)
    BY <1>3 DEF QueueInv, TypeInv, EntriesTyped
  <2> HIDE DEF e
  <2>4. FramesOfEntries(emit)' = FramesOfEntries(emit) \cup FramesIn(e.payload)
    <3>1. FramesOfEntries(emit') = FramesOfEntries(emit) \cup FramesIn(e.payload)
      BY <2>2, <2>3, FramesAppended
    <3> QED
      BY <3>1 DEF FramesOfEntries, FramesIn
  <2>5. ASSUME NEW c \in DOMAIN chan, NEW i \in DOMAIN chan[c].buffer,
               f \in FramesIn(chan[c].buffer[i].payload)
        PROVE  InBuffer(f)' \/ f \in FramesIn(e.payload)
    <3>1. CASE c # flushing
      BY <1>3, <2>5, <3>1 DEF InBuffer
    <3>2. CASE c = flushing /\ i # x.next
      <4>1. i \in DOMAIN chan'[flushing].buffer /\ chan'[flushing].buffer[i] = chan[c].buffer[i]
        BY <1>3, <2>5, <3>2
      <4> QED
        BY <1>1, <1>3, <2>5, <4>1 DEF InBuffer
    <3>3. CASE c = flushing /\ i = x.next
      BY <2>2, <2>5, <3>3
    <3> QED
      BY <3>1, <3>2, <3>3
  <2>6. InBuffer(f) => InBuffer(f)' \/ f \in FramesIn(e.payload)
    BY <2>5 DEF InBuffer
  <2>7. InSplit(f)' = InSplit(f) /\ FramesOfEntries(log)' = FramesOfEntries(log)
    BY <1>1 DEF InSplit, FramesOfEntries
  <2> QED
    BY <1>1, <2>4, <2>6, <2>7, WaitingIs DEF Accounted
<1> QED
  BY <1>2, <1>3, FlushBuffers

(* A dispatched payload is in the log.                                      *)
LEMMA DispatchKeeps ==
    ASSUME QueueInv, Dispatch, ~closed', NEW f \in Accounted
    PROVE  f \in Accounted'
<1>1. /\ emit # <<>> /\ log' = Append(log, Head(emit)) /\ emit' = Tail(emit)
      /\ UNCHANGED <<chan, splits, expired>>
  BY DEF Dispatch, queues, QueueInv, TypeInv, ControlTyped
<1>2. log \in Seq(Entries) /\ emit \in Seq(Entries) /\ Head(emit) \in Entries
  BY <1>1, HeadTailProperties DEF QueueInv, TypeInv, EntriesTyped
<1>3. FramesOfEntries(emit) = FramesIn(Head(emit).payload) \cup FramesOfEntries(emit')
  BY <1>1, <1>2, FramesSplit
<1>4. FramesOfEntries(log') = FramesOfEntries(log) \cup FramesIn(Head(emit).payload)
  BY <1>1, <1>2, FramesAppended
<1>5. /\ FramesOfEntries(log)' = FramesOfEntries(log') /\ FramesOfEntries(emit)' = FramesOfEntries(emit')
      /\ InSplit(f)' = InSplit(f) /\ InBuffer(f)' = InBuffer(f)
  BY <1>1 DEF FramesOfEntries, FramesIn, InSplit, InBuffer
<1> QED
  BY <1>1, <1>3, <1>4, <1>5, WaitingIs DEF Accounted

(* A frame that is handled is accounted for, and costs no other.            *)
LEMMA HandleKeeps ==
    ASSUME QueueInv, SourceInv, WireHasRoom, HandleFrame, script' = script, Frames' = Frames
    PROVE  /\ \A g \in Accounted : g \in Accounted'
           /\ Head(inbox) \in Accounted' \/ TooManyParts(Head(inbox))
<1> DEFINE f == Head(inbox)
<1>1. pc = "frames" /\ UNCHANGED <<log, expired>> /\ f \in Frames
  BY HeadTailProperties DEF HandleFrame, QueueInv, TypeInv, FramesTyped
<1>2. BuffersNumbered /\ SplitsCollect
  BY DEF SourceInv
<1> HIDE DEF f
<1>3. /\ script[f.msg].ch \in Chs /\ OrderIndex(f.msg) \in Indices /\ f.msg \in Ids
      /\ f = [msg |-> f.msg, part |-> f.part] /\ f.part \in 1..script[f.msg].parts
      /\ script[f.msg].parts \in Nat \ {0}
  BY <1>1, FrameFields, FrameIs DEF QueueInv, TypeInv, ControlTyped
<1>4. FramesOfEntries(log)' = FramesOfEntries(log)
  BY <1>1 DEF FramesOfEntries
<1>5. CASE WholeFrame(f)
  <2>1. /\ <<f>> \in Seq(Frames) /\ splits' = splits
        /\ Accept(<<f>>, script[f.msg].ch, OrderIndex(f.msg))
    BY <1>1, <1>5 DEF WholeFrame
  <2>2. script[f.msg].parts = 1 /\ f.part = 1
    BY <1>3, <1>5 DEF WholeFrame, IsSplit
  <2>3. <<f>> = Whole(f.msg)
    BY <1>3, <2>2 DEF Whole
  <2>4. IsNumbered(<<f>>, script[f.msg].ch, OrderIndex(f.msg)) /\ f \in FramesIn(<<f>>)
    BY <1>3, <2>3 DEF IsNumbered, FramesIn
  <2> DEFINE payload == <<f>>
             ch == script[f.msg].ch
             idx == OrderIndex(f.msg)
  <2> HIDE DEF payload, ch, idx
  <2>5. /\ \A g : InBuffer(g) => InBuffer(g)'
        /\ FramesOfEntries(emit) = {}
        /\ \A g \in FramesIn(payload) : InBuffer(g)' \/ g \in FramesOfEntries(emit')
    <3>1. /\ payload \in Seq(Frames) /\ ch \in Chs /\ idx \in Indices
          /\ Accept(payload, ch, idx) /\ IsNumbered(payload, ch, idx)
      BY <1>3, <2>1, <2>4 DEF payload, ch, idx
    <3> QED
      BY <1>1, <1>2, <3>1, AcceptAccounts
  <2>6. FramesOfEntries(emit') = FramesOfEntries(emit)'
    BY DEF FramesOfEntries, FramesIn
  <2>7. \A g : InSplit(g)' = InSplit(g)
    BY <2>1 DEF InSplit
  <2>8. f \in FramesIn(payload)
    BY <2>4 DEF payload
  <2>9. \A g \in Accounted : g \in Accounted'
    BY <1>1, <1>4, <2>5, <2>7, WaitingIs DEF Accounted
  <2>10. f \in Accounted'
    BY <2>5, <2>6, <2>8, WaitingIs DEF Accounted
  <2> QED
    BY <2>9, <2>10 DEF f
<1>6. CASE SkippedFragment(f)
  <2>1. UNCHANGED <<chan, splits, emit>> /\ TooManyParts(f)
    BY <1>6 DEF SkippedFragment
  <2>2. /\ FramesOfEntries(emit)' = FramesOfEntries(emit)
        /\ \A g : InSplit(g)' = InSplit(g) /\ InBuffer(g)' = InBuffer(g)
    BY <2>1 DEF FramesOfEntries, InSplit, InBuffer
  <2> QED
    BY <1>1, <1>4, <2>1, <2>2, WaitingIs DEF Accounted, f
<1>7. CASE Fragment(f)
  <2> DEFINE sid == SplitId(f.msg)
             new == Filled(f, SplitBuffer(f))
  <2>1. IsSplitBuffer(new) /\ (Complete(new) => new.frags \in Seq(Frames))
    BY <1>1, FilledType DEF QueueInv
  <2>2. /\ Complete(new) => IsNumbered(new.frags, new.ch, new.idx)
        /\ f.part \in DOMAIN new.frags /\ new.frags[f.part] = f
        /\ sid \in DOMAIN splits =>
              \A p \in DOMAIN splits[sid].frags :
                  p \in DOMAIN new.frags /\ new.frags[p] = splits[sid].frags[p]
    BY <1>1, <1>2, <1>7, FilledSource DEF Fragment
  <2> HIDE DEF new, sid
  <2>3. new.ch \in Chs /\ new.idx \in Indices
    BY <2>1 DEF IsSplitBuffer
  <2>4. f \in FramesIn(new.frags)
    BY <2>2 DEF FramesIn
  <2>5. ASSUME NEW g, NEW s \in DOMAIN splits, NEW p \in DOMAIN splits[s].frags, g = splits[s].frags[p]
        PROVE  \/ g \in FramesIn(new.frags)
               \/ s # sid
    BY <2>2, <2>5 DEF FramesIn
  <2>6. CASE Complete(new)
    <3>1. splits' = [i \in DOMAIN splits \ {sid} |-> splits[i]] /\ Accept(new.frags, new.ch, new.idx)
      BY <1>7, <2>6 DEF Fragment, new, sid
    <3>2. /\ \A g : InBuffer(g) => InBuffer(g)'
          /\ FramesOfEntries(emit) = {}
          /\ \A g \in FramesIn(new.frags) : InBuffer(g)' \/ g \in FramesOfEntries(emit')
      BY <1>1, <1>2, <2>1, <2>2, <2>3, <2>6, <3>1, AcceptAccounts
    <3>3. FramesOfEntries(emit') = FramesOfEntries(emit)'
      BY DEF FramesOfEntries, FramesIn
    <3>4. \A g : InSplit(g) => InSplit(g)' \/ g \in FramesIn(new.frags)
      BY <2>5, <3>1 DEF InSplit
    <3> QED
      BY <1>1, <1>4, <2>4, <3>2, <3>3, <3>4, WaitingIs DEF Accounted, f
  <2>7. CASE ~Complete(new)
    <3>1. /\ splits' = [i \in DOMAIN splits \cup {sid} |-> IF i = sid THEN new ELSE splits[i]]
          /\ UNCHANGED <<chan, emit>>
      BY <1>7, <2>7 DEF Fragment, new, sid
    <3>2. \A g \in FramesIn(new.frags) : InSplit(g)'
      BY <3>1 DEF FramesIn, InSplit
    <3>3. ASSUME NEW g, InSplit(g) PROVE InSplit(g)'
      <4>1. PICK s \in DOMAIN splits : \E p \in DOMAIN splits[s].frags : g = splits[s].frags[p]
        BY <3>3 DEF InSplit
      <4>2. CASE s = sid
        BY <2>5, <3>2, <4>1, <4>2
      <4>3. CASE s # sid
        <5>1. s \in DOMAIN splits' /\ splits'[s] = splits[s]
          BY <3>1, <4>1, <4>3
        <5> QED
          BY <4>1, <5>1 DEF InSplit
      <4> QED
        BY <4>2, <4>3
    <3>4. FramesOfEntries(emit)' = FramesOfEntries(emit) /\ \A g : InBuffer(g)' = InBuffer(g)
      BY <3>1 DEF FramesOfEntries, InBuffer
    <3> QED
      BY <1>1, <1>4, <2>4, <3>2, <3>3, <3>4, WaitingIs DEF Accounted, f
  <2> QED
    BY <2>6, <2>7
<1> QED
  BY <1>5, <1>6, <1>7 DEF HandleFrame, f

(* Every step keeps the account.                                            *)
LEMMA AckStep ==
    ASSUME QueueInv, SourceInv, AckInv, [Next]_vars
    PROVE  AckInv'
<1>1. /\ script' = script /\ Frames' = Frames /\ WireHasRoom' = WireHasRoom
      /\ \A f : TooManyParts(f)' = TooManyParts(f)
  BY FramesStay, MessagesStay DEF TooManyParts, IsSplit
<1>2. closed => closed'
  BY DEF Next, PeerSends, Tick, Receive, ReceiveGarbage, HandleFrame, Flush, Dispatch, Acknowledge,
         vars, history
<1> SUFFICES ASSUME WireHasRoom, ~closed'
             PROVE  /\ \A f \in acked' : f \in Accounted' \/ TooManyParts(f)
                    /\ \A f \in datagram' :
                           f \in Accounted' \/ TooManyParts(f) \/ f \in FramesIn(inbox')
  <2>1. FramesIn(inbox)' = FramesIn(inbox')
    BY DEF FramesIn
  <2> QED
    BY <1>1, <2>1 DEF AckInv
<1>3. /\ \A f \in acked : f \in Accounted \/ TooManyParts(f)
      /\ \A f \in datagram : f \in Accounted \/ TooManyParts(f) \/ f \in FramesIn(inbox)
  BY <1>2 DEF AckInv
<1>4. inbox \in Seq(Frames)
  BY DEF QueueInv, TypeInv, FramesTyped
<1>10. CASE PeerSends \/ UNCHANGED vars
  <2>1. UNCHANGED <<acked, datagram, inbox, chan, splits, log, emit, expired>>
    BY <1>10 DEF PeerSends, vars, queues, control, history
  <2>2. \A f : InSplit(f)' = InSplit(f) /\ InBuffer(f)' = InBuffer(f)
    BY <2>1 DEF InSplit, InBuffer
  <2>3. Accounted \subseteq Accounted'
    BY <2>1, <2>2, WaitingIs DEF Accounted, FramesOfEntries
  <2> QED
    BY <1>3, <2>1, <2>3
<1>11. CASE Tick
  <2>1. UNCHANGED <<acked, datagram, inbox>>
    BY <1>11 DEF Tick, control, history
  <2> QED
    BY <1>3, <1>11, <2>1, TickKeeps
<1>12. CASE ReceiveGarbage \/ \E d \in Datagrams : Receive(d)
  <2>1. Prune /\ UNCHANGED <<log, emit, acked>>
    BY <1>12 DEF Receive, ReceiveGarbage, control
  <2>2. expired \subseteq expired'
    BY <2>1 DEF Prune
  <2>3. Accounted \subseteq Accounted'
    BY <2>1, <2>2, PruneAccounts DEF Accounted, FramesOfEntries
  <2>4. CASE ReceiveGarbage
    <3>1. UNCHANGED <<datagram, inbox>>
      BY <2>4 DEF ReceiveGarbage, control
    <3> QED
      BY <1>3, <2>1, <2>3, <3>1
  <2>5. ASSUME NEW d \in Datagrams, Receive(d)
        PROVE  datagram' \subseteq FramesIn(inbox')
    <3>1. PICK n \in 1..Len(d) : inbox' = SubSeq(d, 1, n) /\ datagram' = {d[i] : i \in 1..n}
      BY <2>5 DEF Receive
    <3>2. d \in Seq(OnTheWay) /\ Len(d) \in Nat /\ n \in 1..Len(d)
      BY BoundAssumption DEF Datagrams
    <3>3. DOMAIN inbox' = 1..n /\ \A i \in 1..n : inbox'[i] = d[i]
      BY <3>1, <3>2
    <3> QED
      BY <3>1, <3>3 DEF FramesIn
  <2> QED
    BY <1>3, <1>12, <2>1, <2>3, <2>4, <2>5
<1>13. CASE HandleFrame
  <2> DEFINE f == Head(inbox)
             t == Tail(inbox)
  <2>1. UNCHANGED <<acked, datagram>> /\ inbox # <<>> /\ inbox' = t
    BY <1>13 DEF HandleFrame
  <2>2. \A g \in FramesIn(inbox) : g = f \/ g \in FramesIn(t)
    <3>1. /\ t \in Seq(Frames) /\ Len(t) = Len(inbox) - 1 /\ f = inbox[1]
          /\ \A i \in 1..Len(t) : t[i] = inbox[i + 1]
      BY <1>4, <2>1, HeadTailProperties
    <3>2. DOMAIN inbox = 1..Len(inbox) /\ Len(inbox) \in Nat /\ DOMAIN t = 1..Len(t)
      BY <1>4, <3>1, LenProperties
    <3> HIDE DEF f, t
    <3>3. \A i \in DOMAIN inbox : i = 1 \/ (i - 1 \in DOMAIN t /\ t[i - 1] = inbox[i])
      BY <3>1, <3>2
    <3> QED
      BY <3>1, <3>3 DEF FramesIn
  <2>3. (\A g \in Accounted : g \in Accounted') /\ (f \in Accounted' \/ TooManyParts(f))
    BY <1>1, <1>13, HandleKeeps
  <2> HIDE DEF f, t
  <2> QED
    BY <1>3, <2>1, <2>2, <2>3
<1>14. CASE Flush
  <2>1. UNCHANGED <<acked, datagram, inbox>>
    BY <1>14 DEF Flush, history
  <2> QED
    BY <1>3, <1>14, <2>1, FlushKeeps
<1>15. CASE Dispatch
  <2>1. UNCHANGED <<acked, datagram, inbox>>
    BY <1>15 DEF Dispatch
  <2> QED
    BY <1>3, <1>15, <2>1, DispatchKeeps
<1>16. CASE Acknowledge
  <2>1. /\ acked' = acked \cup datagram /\ datagram' = {} /\ inbox = <<>>
        /\ UNCHANGED <<chan, splits, log, emit, expired>>
    BY <1>16 DEF Acknowledge, queues
  <2>2. \A f : InSplit(f)' = InSplit(f) /\ InBuffer(f)' = InBuffer(f)
    BY <2>1 DEF InSplit, InBuffer
  <2>3. Accounted \subseteq Accounted'
    BY <2>1, <2>2, WaitingIs DEF Accounted, FramesOfEntries
  <2>4. FramesIn(inbox) = {}
    <3>1. DOMAIN inbox = {}
      BY <2>1
    <3> QED
      BY <3>1 DEF FramesIn
  <2> QED
    BY <1>3, <2>1, <2>3, <2>4
<1> QED
  BY <1>10, <1>11, <1>12, <1>13, <1>14, <1>15, <1>16 DEF Next

(* No acknowledgement hides a loss: a frame that was read and acknowledged  *)
(* was dispatched, is about to be, waits, expired, belongs to a message of  *)
(* too many parts, or its peer has said goodbye.                            *)
THEOREM AcknowledgedIsAccounted == Spec => []AckedIsAccounted
<1>1. Init => SourceInv /\ AckInv
  <2> SUFFICES ASSUME Init PROVE SourceInv /\ AckInv
    OBVIOUS
  <2>1. DOMAIN chan = {} /\ DOMAIN splits = {} /\ Len(log) = 0 /\ Len(emit) = 0
        /\ acked = {} /\ datagram = {}
    BY EmptySeq DEF Init, NoFn
  <2> QED
    BY <2>1 DEF SourceInv, BuffersNumbered, SplitsCollect, AllWhole, AckInv
<1>2. QueueInv /\ SourceInv /\ AckInv /\ [Next]_vars => QueueInv' /\ SourceInv' /\ AckInv'
  BY QueueStep, SourceStep, AckStep
<1>3. AckInv => AckedIsAccounted
  BY DEF AckInv, AckedIsAccounted, Accounted
<1> QED
  BY <1>1, <1>2, <1>3, QueueStart, PTL DEF Spec

(***************************************************************************)
(* A first-in first-out channel                                            *)
(***************************************************************************)

(* The frame that is handled next, or delivered next when none is read.     *)
Facing == IF inbox = <<>> THEN cursor ELSE inbox[1]

(* How many of the first n - 1 messages go to channel c.                    *)
EarlierOf(s, c, n) == Cardinality({k \in 1..(n - 1) : s[k].ch = c})
Earlier(c, n) == EarlierOf(script, c, n)

(* Only the message whose fragments are being delivered has a split buffer, *)
(* and it holds those that came.                                            *)
SplitOpen(f) ==
    IF f.part = 1 THEN DOMAIN splits = {}
    ELSE /\ DOMAIN splits = {SplitId(f.msg)}
         /\ splits[SplitId(f.msg)].count = script[f.msg].parts
         /\ splits[SplitId(f.msg)].ch = script[f.msg].ch
         /\ splits[SplitId(f.msg)].idx = OrderIndex(f.msg)
         /\ splits[SplitId(f.msg)].frags = [p \in 1..(f.part - 1) |-> [msg |-> f.msg, part |-> p]]

(* Every channel but the one being flushed is empty and expects its next    *)
(* message.                                                                 *)
ChannelsWait(n) ==
    \A c \in DOMAIN chan :
        /\ c # Unordered
        /\ ~(pc = "flush" /\ c = flushing) =>
               DOMAIN chan[c].buffer = {} /\ chan[c].next = Earlier(c, n)

(* The frames read are in turn, up to those still to come.                  *)
InboxInTurn ==
    /\ \A i \in 1..(Len(inbox) - 1) : inbox[i + 1] = FollowingFrame(inbox[i]) /\ ~IsSplit(inbox[i].msg)
    /\ inbox # <<>> => cursor = FollowingFrame(inbox[Len(inbox)])
    /\ pc = "idle" => inbox = <<>>

(* A whole message is on its way through its channel.                       *)
InFlush(m) ==
    /\ flushing = script[m].ch
    /\ \/ /\ emit = <<>>
          /\ DOMAIN chan[flushing].buffer = {chan[flushing].next}
          /\ chan[flushing].next + 1 = Earlier(flushing, m + 1)
          /\ chan[flushing].buffer[chan[flushing].next].payload # <<>>
          /\ chan[flushing].buffer[chan[flushing].next].payload[1].msg = m
       \/ /\ Len(emit) = 1 /\ emit[1].payload # <<>> /\ emit[1].payload[1].msg = m
          /\ DOMAIN chan[flushing].buffer = {}
          /\ chan[flushing].next = Earlier(flushing, m + 1)

(* It is to be dispatched.                                                  *)
InDispatch(m) == Len(emit) = 1 /\ emit[1].payload # <<>> /\ emit[1].payload[1].msg = m

(* That frame is one of the script, or the first one behind it.             *)
FacingSane ==
    /\ Facing = [msg |-> Facing.msg, part |-> Facing.part]
    /\ Facing.msg \in Nat \ {0} /\ Facing.part \in Nat \ {0}
    /\ Facing.part > 1 => Facing.msg \in Ids /\ Facing.part <= script[Facing.msg].parts

(* Where the receive path is in a stream of messages.                       *)
FifoNow ==
    /\ InboxInTurn /\ FacingSane
    /\ SplitOpen(Facing) /\ ChannelsWait(Facing.msg)
    /\ pc \in {"idle", "frames"} => Len(log) = Facing.msg - 1
    /\ pc \in {"flush", "dispatch"} =>
           Facing.part = 1 /\ Facing.msg > 1 /\ Len(log) = Facing.msg - 2
    /\ pc = "flush" => InFlush(Facing.msg - 1)
    /\ pc = "dispatch" => InDispatch(Facing.msg - 1)
FifoInv == orderly /\ expired = {} => FifoNow

(* Enough indices for the messages of each channel, and none of too many    *)
(* parts.                                                                   *)
FitsWire(s) ==
    /\ \A c \in Nat : Cardinality({k \in DOMAIN s : s[k].ch = c}) <= IndexMod
    /\ \A m \in DOMAIN s : s[m].parts <= MaxParts
ScriptFits == orderly => FitsWire(script)

(* What is read and buffered are frames the peer has sent, and a payload    *)
(* begins with one.                                                         *)
Begun(payload) == payload # <<>> /\ payload[1] \in OnTheWay
SentInv ==
    /\ \A i \in DOMAIN inbox : inbox[i] \in OnTheWay
    /\ \A s \in DOMAIN splits :
          /\ splits[s].count # 0
          /\ \A p \in DOMAIN splits[s].frags : splits[s].frags[p] \in OnTheWay
    /\ \A c \in DOMAIN chan : \A i \in DOMAIN chan[c].buffer : Begun(chan[c].buffer[i].payload)
    /\ \A k \in DOMAIN emit : Begun(emit[k].payload)

(***************************************************************************)
(* What was sent                                                           *)
(***************************************************************************)

(* Time changes nothing but the ages.                                       *)
LEMMA OnlyAges ==
    ASSUME QueueInv, Tick
    PROVE  /\ UNCHANGED <<active, control, history, script, orderly, sent, cursor>>
           /\ DOMAIN chan' = DOMAIN chan /\ DOMAIN splits' = DOMAIN splits
           /\ \A c \in DOMAIN chan :
                 /\ chan'[c].next = chan[c].next /\ DOMAIN chan'[c].buffer = DOMAIN chan[c].buffer
                 /\ \A i \in DOMAIN chan[c].buffer :
                       chan'[c].buffer[i].payload = chan[c].buffer[i].payload
           /\ \A s \in DOMAIN splits :
                 /\ splits'[s].count = splits[s].count /\ splits'[s].frags = splits[s].frags
                 /\ splits'[s].idx = splits[s].idx /\ splits'[s].ch = splits[s].ch
<1>1. ASSUME NEW c \in DOMAIN chan
      PROVE  /\ chan'[c].next = chan[c].next /\ DOMAIN chan'[c].buffer = DOMAIN chan[c].buffer
             /\ \A i \in DOMAIN chan[c].buffer :
                   chan'[c].buffer[i].payload = chan[c].buffer[i].payload
  <2> DEFINE x == chan[c]
             b == [i \in DOMAIN x.buffer |-> Older(x.buffer[i])]
  <2>1. chan'[c] = [x EXCEPT !.buffer = b]
    BY DEF Tick
  <2>2. IsChannel(x)
    BY DEF QueueInv, TypeInv, ChannelsTyped
  <2>3. x = [next |-> x.next, buffer |-> x.buffer, life |-> x.life] /\ IsBuffer(x.buffer)
    BY <2>2 DEF IsChannel
  <2>4. \A i \in DOMAIN x.buffer : b[i].payload = x.buffer[i].payload
    BY <2>3 DEF IsBuffer, Older
  <2>5. DOMAIN b = DOMAIN x.buffer
    OBVIOUS
  <2> HIDE DEF b, x
  <2>6. chan'[c] = [next |-> x.next, buffer |-> b, life |-> x.life]
    BY <2>1, <2>3
  <2> QED
    BY <2>4, <2>5, <2>6 DEF x
<1>2. ASSUME NEW s \in DOMAIN splits
      PROVE  /\ splits'[s].count = splits[s].count /\ splits'[s].frags = splits[s].frags
             /\ splits'[s].idx = splits[s].idx /\ splits'[s].ch = splits[s].ch
  <2> DEFINE x == splits[s]
  <2>1. splits'[s] = [x EXCEPT !.age = x.age + 1]
    BY DEF Tick, Older
  <2>2. x = [count |-> x.count, frags |-> x.frags, age |-> x.age, idx |-> x.idx, ch |-> x.ch]
    BY DEF QueueInv, TypeInv, SplitsTyped, IsSplitBuffer
  <2> HIDE DEF x
  <2> QED
    BY <2>1, <2>2 DEF x
<1> QED
  BY <1>1, <1>2 DEF Tick

(* What was sent stays sent.                                                *)
LEMMA SentStays ==
    ASSUME QueueInv, [Next]_vars
    PROVE  /\ sent \in Nat /\ sent' \in Nat /\ sent <= sent'
           /\ OnTheWay \subseteq OnTheWay'
           /\ \A payload : Begun(payload) => Begun(payload)'
<1>1. Frames' = Frames /\ script \in Seq(Messages) /\ sent \in 0..Len(script)
  BY FramesStay DEF QueueInv, TypeInv, ControlTyped
<1>2. sent \in Nat
  BY <1>1, LenProperties
<1>3. sent' = sent \/ sent' = sent + 1
  BY DEF Next, PeerSends, Tick, Receive, ReceiveGarbage, HandleFrame, Flush, Dispatch, Acknowledge,
         vars, network
<1>4. \A f \in Frames : f.msg \in Nat
  BY <1>1, FrameFields, LenProperties DEF Ids
<1>5. OnTheWay \subseteq OnTheWay'
  BY <1>1, <1>2, <1>3, <1>4 DEF OnTheWay
<1> QED
  BY <1>2, <1>3, <1>5 DEF Begun

(* A payload accepted begins with a frame that was sent: so do those that   *)
(* wait or go out.                                                          *)
LEMMA AcceptBegun ==
    ASSUME QueueInv, SentInv, Frames' = Frames, emit = <<>>,
           NEW payload \in Seq(Frames), NEW ch \in Chs, NEW idx \in Indices,
           Accept(payload, ch, idx), Begun(payload)
    PROVE  /\ \A c \in DOMAIN chan' : \A i \in DOMAIN chan'[c].buffer : Begun(chan'[c].buffer[i].payload)
           /\ \A k \in DOMAIN emit' : Begun(emit'[k].payload)
<1>1. CASE ch = Unordered
  <2>1. UNCHANGED chan /\ emit' = <<Entry(payload, ch, idx, 0)>>
    BY <1>1 DEF Accept
  <2>2. \A k \in DOMAIN emit' : emit'[k] = Entry(payload, ch, idx, 0)
    BY <2>1
  <2> QED
    BY <2>1, <2>2 DEF SentInv, Entry
<1>2. CASE ch # Unordered
  <2>1. /\ DOMAIN chan' = DOMAIN chan \cup {ch}
        /\ \A c \in DOMAIN chan : c # ch => chan'[c] = chan[c]
        /\ chan'[ch].buffer = WithPayload(IF ch \in DOMAIN chan THEN chan[ch].buffer ELSE NoFn,
                                          idx, payload)
    BY <1>2, AcceptChannels DEF QueueInv
  <2>2. emit' = emit
    BY <1>2 DEF Accept
  <2>3. \A i \in DOMAIN chan'[ch].buffer :
            \/ chan'[ch].buffer[i].payload = payload
            \/ ch \in DOMAIN chan /\ i \in DOMAIN chan[ch].buffer /\ chan'[ch].buffer[i] = chan[ch].buffer[i]
    BY <2>1 DEF WithPayload, NoFn
  <2>4. \A i \in DOMAIN chan'[ch].buffer : Begun(chan'[ch].buffer[i].payload)
    BY <2>3 DEF SentInv
  <2>5. \A c \in DOMAIN chan : \A i \in DOMAIN chan[c].buffer : Begun(chan[c].buffer[i].payload)
    BY DEF SentInv
  <2> QED
    BY <2>1, <2>2, <2>4, <2>5 DEF SentInv
<1> QED
  BY <1>1, <1>2

(* Every step keeps that.                                                   *)
LEMMA SentStep ==
    ASSUME QueueInv, SentInv, [Next]_vars
    PROVE  SentInv'
<1>1. script' = script /\ Frames' = Frames /\ Entries' = Entries
  BY FramesStay
<1>2. /\ inbox \in Seq(Frames) /\ emit \in Seq(Entries) /\ (pc = "frames" => emit = <<>>)
      /\ script \in Seq(Messages)
  BY DEF QueueInv, TypeInv, ControlTyped, FramesTyped, EntriesTyped
<1>3. OnTheWay \subseteq OnTheWay' /\ \A payload : Begun(payload) => Begun(payload)'
  BY SentStays
<1>a. ASSUME \A i \in DOMAIN inbox' : inbox'[i] \in OnTheWay,
             \A s \in DOMAIN splits' :
                 /\ splits'[s].count # 0
                 /\ \A p \in DOMAIN splits'[s].frags : splits'[s].frags[p] \in OnTheWay,
             \A c \in DOMAIN chan' : \A i \in DOMAIN chan'[c].buffer : Begun(chan'[c].buffer[i].payload),
             \A k \in DOMAIN emit' : Begun(emit'[k].payload)
      PROVE  SentInv'
  <2>1. \A c \in DOMAIN chan' : \A i \in DOMAIN chan'[c].buffer :
            chan'[c].buffer[i].payload # <<>> /\ chan'[c].buffer[i].payload[1] \in OnTheWay'
    BY <1>3, <1>a DEF Begun
  <2>2. \A k \in DOMAIN emit' : emit'[k].payload # <<>> /\ emit'[k].payload[1] \in OnTheWay'
    BY <1>3, <1>a DEF Begun
  <2> QED
    BY <1>3, <1>a, <2>1, <2>2 DEF SentInv, Begun
<1>4. CASE PeerSends \/ Acknowledge \/ UNCHANGED vars
  <2>1. UNCHANGED <<inbox, splits, chan, emit>>
    BY <1>4 DEF PeerSends, Acknowledge, vars, queues, control, network
  <2> QED
    BY <1>a, <2>1 DEF SentInv
<1>5. CASE Tick
  <2>1. UNCHANGED <<inbox, emit>>
    BY <1>5 DEF Tick, control
  <2> QED
    BY <1>5, <1>a, <2>1, OnlyAges DEF SentInv
<1>6. ASSUME Prune, UNCHANGED emit, \A i \in DOMAIN inbox' : inbox'[i] \in OnTheWay
      PROVE  SentInv'
  <2>1. \A s \in DOMAIN splits' : s \in DOMAIN splits /\ splits'[s] = splits[s]
    BY <1>6 DEF Prune, PrunedSplits
  <2>2. \A c \in DOMAIN chan' :
            /\ c \in DOMAIN chan
            /\ \A i \in DOMAIN chan'[c].buffer :
                  i \in DOMAIN chan[c].buffer /\ chan'[c].buffer[i] = chan[c].buffer[i]
    <3> SUFFICES ASSUME NEW c \in DOMAIN chan'
                 PROVE  /\ c \in DOMAIN chan
                        /\ \A i \in DOMAIN chan'[c].buffer :
                              i \in DOMAIN chan[c].buffer /\ chan'[c].buffer[i] = chan[c].buffer[i]
      OBVIOUS
    <3> DEFINE x == chan[c]
               b == [i \in AliveIn(x.buffer) |-> x.buffer[i]]
    <3>1. c \in DOMAIN chan /\ chan'[c] = [x EXCEPT !.buffer = b]
      BY <1>6 DEF Prune, PrunedChannels
    <3>2. x = [next |-> x.next, buffer |-> x.buffer, life |-> x.life]
      BY <3>1 DEF QueueInv, TypeInv, ChannelsTyped, IsChannel
    <3>3. DOMAIN b \subseteq DOMAIN x.buffer /\ \A i \in DOMAIN b : b[i] = x.buffer[i]
      BY DEF AliveIn
    <3> HIDE DEF b, x
    <3>4. chan'[c].buffer = b
      BY <3>1, <3>2
    <3> QED
      BY <3>1, <3>3, <3>4 DEF x
  <2> QED
    BY <1>6, <1>a, <2>1, <2>2 DEF SentInv
<1>7. ASSUME NEW d \in Datagrams, Receive(d) PROVE SentInv'
  <2>1. Prune /\ UNCHANGED emit
    BY <1>7 DEF Receive
  <2>2. PICK k \in 1..MaxFrames : d \in [1..k -> OnTheWay]
    BY DEF Datagrams
  <2>3. d \in Seq(Frames) /\ Len(d) = k /\ k \in Nat
    BY <2>2, BoundAssumption, SeqDef DEF OnTheWay
  <2>4. PICK n \in 1..k : inbox' = SubSeq(d, 1, n)
    BY <1>7, <2>3 DEF Receive
  <2>5. \A i \in 1..n : d[i] \in OnTheWay
    BY <2>2, <2>3, <2>4
  <2>6. inbox' \in Seq(OnTheWay)
    BY <2>3, <2>4, <2>5, SubSeqProperties
  <2>7. \A i \in DOMAIN inbox' : inbox'[i] \in OnTheWay
    BY <2>6, LenProperties, ElementOfSeq
  <2> QED
    BY <1>6, <2>1, <2>7
<1>8. CASE ReceiveGarbage
  BY <1>6, <1>8 DEF ReceiveGarbage, control, SentInv
<1>9. CASE HandleFrame
  <2> DEFINE f == Head(inbox)
  <2>1. pc = "frames" /\ emit = <<>> /\ inbox' = Tail(inbox) /\ f \in Frames /\ f \in OnTheWay
    <3>1. inbox # <<>> /\ pc = "frames" /\ inbox' = Tail(inbox)
      BY <1>9 DEF HandleFrame
    <3>2. f = inbox[1] /\ 1 \in DOMAIN inbox
      BY <1>2, <3>1, LenProperties, EmptySeq
    <3> QED
      BY <1>2, <3>1, <3>2 DEF SentInv, OnTheWay
  <2>2. \A i \in DOMAIN inbox' : inbox'[i] \in OnTheWay
    <3>1. inbox # <<>>
      BY <1>9 DEF HandleFrame
    <3>2. /\ Tail(inbox) \in Seq(Frames) /\ Len(Tail(inbox)) = Len(inbox) - 1
          /\ \A i \in 1..Len(Tail(inbox)) : Tail(inbox)[i] = inbox[i + 1]
      BY <1>2, <3>1, HeadTailProperties
    <3>3. DOMAIN inbox = 1..Len(inbox) /\ DOMAIN Tail(inbox) = 1..(Len(inbox) - 1) /\ Len(inbox) \in Nat
      BY <1>2, <3>2, LenProperties
    <3>4. ASSUME NEW i \in 1..(Len(inbox) - 1) PROVE Tail(inbox)[i] = inbox[i + 1] /\ i + 1 \in DOMAIN inbox
      BY <3>2, <3>3
    <3> QED
      BY <2>1, <3>3, <3>4 DEF SentInv
  <2>3. script[f.msg].ch \in Chs /\ OrderIndex(f.msg) \in Indices /\ script[f.msg].parts \in Nat \ {0}
    BY <1>2, <2>1, FrameFields
  <2> HIDE DEF f
  <2>4. ASSUME NEW payload \in Seq(Frames), NEW ch \in Chs, NEW idx \in Indices,
               Accept(payload, ch, idx), Begun(payload),
               \A s \in DOMAIN splits' : s \in DOMAIN splits /\ splits'[s] = splits[s]
        PROVE  SentInv'
    BY <1>1, <1>a, <2>1, <2>2, <2>4, AcceptBegun DEF SentInv
  <2>5. CASE WholeFrame(f)
    <3>1. <<f>> \in Seq(Frames) /\ Begun(<<f>>)
      BY <2>1 DEF Begun
    <3>2. Accept(<<f>>, script[f.msg].ch, OrderIndex(f.msg)) /\ UNCHANGED splits
      BY <2>5 DEF WholeFrame
    <3> QED
      BY <2>3, <2>4, <3>1, <3>2
  <2>6. CASE SkippedFragment(f)
    BY <1>a, <2>2, <2>6 DEF SkippedFragment, SentInv
  <2>7. CASE Fragment(f)
    <3> DEFINE old == SplitBuffer(f)
               new == Filled(f, old)
               sid == SplitId(f.msg)
    <3>1. IsSplitBuffer(new) /\ (Complete(new) => new.frags \in Seq(Frames))
      BY <2>1, FilledType DEF QueueInv
    <3>2. /\ old.count # 0 /\ \A p \in DOMAIN old.frags : old.frags[p] \in OnTheWay
          /\ old = [count |-> old.count, frags |-> old.frags, age |-> old.age, idx |-> old.idx, ch |-> old.ch]
      <4>1. CASE sid \in DOMAIN splits
        BY <4>1 DEF SplitBuffer, SentInv, QueueInv, TypeInv, SplitsTyped, IsSplitBuffer
      <4>2. CASE sid \notin DOMAIN splits
        BY <2>3, <4>2 DEF SplitBuffer, NoFn
      <4> QED
        BY <4>1, <4>2
    <3>3. new.count # 0 /\ \A p \in DOMAIN new.frags : new.frags[p] \in OnTheWay
      <4> HIDE DEF old
      <4>1. CASE ~Fits(f, old)
        BY <3>2, <4>1 DEF Filled
      <4>2. CASE Fits(f, old)
        <5> DEFINE g == [p \in DOMAIN old.frags \cup {f.part} |-> IF p = f.part THEN f ELSE old.frags[p]]
        <5>1. \A p \in DOMAIN g : g[p] \in OnTheWay
          BY <2>1, <3>2
        <5>2. new = [old EXCEPT !.frags = g]
          BY <4>2 DEF Filled
        <5> HIDE DEF g, new
        <5>3. new.count = old.count /\ new.frags = g
          BY <3>2, <5>2
        <5> QED
          BY <3>2, <5>1, <5>3
      <4> QED
        BY <4>1, <4>2
    <3> HIDE DEF new, old
    <3>4. new.ch \in Chs /\ new.idx \in Indices /\ new.count \in Nat
      BY <3>1 DEF IsSplitBuffer
    <3>5. CASE Complete(new)
      <4>1. /\ splits' = [i \in DOMAIN splits \ {sid} |-> splits[i]]
            /\ Accept(new.frags, new.ch, new.idx)
        BY <2>7, <3>5 DEF Fragment, new, old
      <4>2. DOMAIN new.frags = 1..new.count /\ 1 \in DOMAIN new.frags
        BY <3>3, <3>4, <3>5 DEF Complete
      <4>3. new.frags # <<>>
        <5>1. new.frags \in Seq(Frames)
          BY <3>1, <3>5
        <5>2. 1 \in 1..Len(new.frags)
          BY <4>2, <5>1, LenProperties
        <5> QED
          BY <5>2, EmptySeq
      <4>4. Begun(new.frags)
        BY <3>3, <4>2, <4>3 DEF Begun
      <4> QED
        BY <2>4, <3>1, <3>4, <3>5, <4>1, <4>4
    <3>6. CASE ~Complete(new)
      <4>1. /\ splits' = [i \in DOMAIN splits \cup {sid} |-> IF i = sid THEN new ELSE splits[i]]
            /\ UNCHANGED <<chan, emit>>
        BY <2>7, <3>6 DEF Fragment, new, old
      <4>2. \A s \in DOMAIN splits' :
                /\ splits'[s].count # 0
                /\ \A p \in DOMAIN splits'[s].frags : splits'[s].frags[p] \in OnTheWay
        BY <3>3, <4>1 DEF SentInv
      <4> QED
        BY <1>a, <2>2, <4>1, <4>2 DEF SentInv
    <3> QED
      BY <3>5, <3>6
  <2> QED
    BY <1>9, <2>5, <2>6, <2>7 DEF HandleFrame, f
<1>10. CASE Flush
  <2>1. UNCHANGED <<inbox, splits>>
    BY <1>10 DEF Flush
  <2> DEFINE x == chan[flushing]
             n == x.next
             b == [i \in DOMAIN x.buffer \ {n} |-> x.buffer[i]]
  <2>2. flushing \in DOMAIN chan /\ x = [next |-> n, buffer |-> x.buffer, life |-> x.life]
    BY <1>10 DEF Flush, QueueInv, TypeInv, ControlTyped, ChannelsTyped, IsChannel
  <2>3. CASE n \notin DOMAIN x.buffer
    BY <1>10, <1>a, <2>1, <2>3 DEF Flush, SentInv
  <2>4. CASE n \in DOMAIN x.buffer
    <3>1. /\ emit' = Append(emit, Entry(x.buffer[n].payload, flushing, n, x.life))
          /\ chan' = [chan EXCEPT ![flushing] = [x EXCEPT !.next = n + 1, !.buffer = b]]
      BY <1>10, <2>4 DEF Flush, Advanced
    <3>2. DOMAIN b \subseteq DOMAIN x.buffer /\ \A i \in DOMAIN b : b[i] = x.buffer[i]
      OBVIOUS
    <3>3. \A i \in DOMAIN x.buffer : Begun(x.buffer[i].payload)
      BY <2>2 DEF SentInv
    <3> HIDE DEF b
    <3>4. DOMAIN chan' = DOMAIN chan /\ chan'[flushing] = [x EXCEPT !.next = n + 1, !.buffer = b]
          /\ \A c \in DOMAIN chan : c # flushing => chan'[c] = chan[c]
      BY <2>2, <3>1
    <3>5. chan'[flushing].buffer = b
      BY <2>2, <3>4
    <3>6. \A c \in DOMAIN chan' : \A i \in DOMAIN chan'[c].buffer : Begun(chan'[c].buffer[i].payload)
      BY <3>2, <3>3, <3>4, <3>5 DEF SentInv
    <3> DEFINE e == Entry(x.buffer[n].payload, flushing, n, x.life)
    <3>7. Begun(e.payload)
      BY <2>4, <3>3 DEF Entry
    <3>8. emit' = Append(emit, e)
      BY <3>1
    <3> HIDE DEF e
    <3>9. \A k \in DOMAIN emit' : (k \in DOMAIN emit /\ emit'[k] = emit[k]) \/ emit'[k] = e
      BY <1>2, <3>8
    <3>10. \A k \in DOMAIN emit' : Begun(emit'[k].payload)
      BY <3>7, <3>9 DEF SentInv
    <3> QED
      BY <1>a, <2>1, <3>6, <3>10 DEF SentInv
  <2> QED
    BY <2>3, <2>4
<1>11. CASE Dispatch
  <2>1. /\ emit # <<>> /\ emit' = Tail(emit) /\ UNCHANGED inbox
        /\ UNCHANGED <<chan, splits>> \/ (DOMAIN chan' = {} /\ DOMAIN splits' = {})
    BY <1>11 DEF Dispatch, DropState, NoFn, queues, QueueInv, TypeInv, ControlTyped
  <2>2. \A k \in DOMAIN emit' : k + 1 \in DOMAIN emit /\ emit'[k] = emit[k + 1]
    <3>1. /\ Tail(emit) \in Seq(Entries) /\ Len(Tail(emit)) = Len(emit) - 1
          /\ \A i \in 1..Len(Tail(emit)) : Tail(emit)[i] = emit[i + 1]
      BY <1>2, <2>1, HeadTailProperties
    <3>2. DOMAIN emit = 1..Len(emit) /\ DOMAIN Tail(emit) = 1..(Len(emit) - 1) /\ Len(emit) \in Nat
      BY <1>2, <3>1, LenProperties
    <3> QED
      BY <2>1, <3>1, <3>2
  <2>3. \A k \in DOMAIN emit' : Begun(emit'[k].payload)
    BY <2>2 DEF SentInv
  <2>4. CASE UNCHANGED <<chan, splits>>
    BY <1>a, <2>1, <2>3, <2>4 DEF SentInv
  <2>5. CASE DOMAIN chan' = {} /\ DOMAIN splits' = {}
    BY <1>a, <2>1, <2>3, <2>5 DEF SentInv
  <2> QED
    BY <2>1, <2>4, <2>5
<1> QED
  BY <1>4, <1>5, <1>7, <1>8, <1>9, <1>10, <1>11 DEF Next

(***************************************************************************)
(* Frames in turn                                                          *)
(***************************************************************************)

(* The frame behind a frame is the next of its message, or the first of the *)
(* next message.                                                            *)
LEMMA FollowingShape ==
    ASSUME script \in Seq(Messages), NEW f \in Frames
    PROVE  /\ f = [msg |-> f.msg, part |-> f.part] /\ f.msg \in Nat \ {0} /\ f.part \in Nat \ {0}
           /\ f.part < script[f.msg].parts =>
                  FollowingFrame(f) = [msg |-> f.msg, part |-> f.part + 1]
           /\ f.part = script[f.msg].parts =>
                  FollowingFrame(f) = [msg |-> f.msg + 1, part |-> 1]
<1>1. PICK m \in Ids : \E p \in 1..script[m].parts : f = [msg |-> m, part |-> p]
  BY DEF Frames
<1>2. m \in 1..Len(script) /\ script[m] \in Messages
  BY <1>1, LenProperties, ElementOfSeq DEF Ids
<1>3. m \in Nat \ {0} /\ script[m].parts \in Nat
  BY <1>2, LenProperties DEF Messages
<1>4. PICK p \in 1..script[m].parts : f = [msg |-> m, part |-> p]
  BY <1>1
<1> QED
  BY <1>2, <1>3, <1>4 DEF FollowingFrame

(* The messages do not change, nor what is read off them.                   *)
LEMMA ScriptStays ==
    ASSUME script' = script
    PROVE  /\ \A c, n : Earlier(c, n)' = Earlier(c, n)
           /\ \A m : OrderIndex(m)' = OrderIndex(m)
           /\ \A m : SplitId(m)' = SplitId(m) /\ IsSplit(m)' = IsSplit(m)
           /\ \A f : FollowingFrame(f)' = FollowingFrame(f)
           /\ Ids' = Ids
BY DEF Earlier, OrderIndex, Peers, SplitId, IsSplit, FollowingFrame, Ids

(* The order index of a message is the number of earlier ones of its        *)
(* channel, which counts by one.                                            *)
LEMMA EarlierGrows ==
    ASSUME script \in Seq(Messages), NEW m \in Ids, NEW c
    PROVE  /\ Earlier(c, m) \in Nat
           /\ Earlier(c, m + 1) = Earlier(c, m) + (IF script[m].ch = c THEN 1 ELSE 0)
           /\ FitsWire(script) /\ c \in Nat /\ script[m].ch = c =>
                  OrderIndex(m) = Earlier(c, m)
<1> DEFINE S(n) == {k \in 1..(n - 1) : script[k].ch = c}
<1>1. m \in 1..Len(script) /\ Len(script) \in Nat /\ Ids = 1..Len(script) /\ m \in Nat \ {0}
  BY LenProperties DEF Ids
<1>2. IsFiniteSet(S(m))
  <2>1. S(m) \subseteq 1..(m - 1) /\ m - 1 \in Int
    BY <1>1
  <2>2. IsFiniteSet(1..(m - 1))
    BY <2>1, FS_Interval
  <2> QED
    BY <2>1, <2>2, FS_Subset
<1>3. Cardinality(S(m)) \in Nat /\ Cardinality(S(m)) = Earlier(c, m)
      /\ Cardinality(S(m + 1)) = Earlier(c, m + 1)
  BY <1>2, FS_CardinalityType DEF Earlier, EarlierOf
<1>4. m \notin S(m) /\ S(m + 1) = IF script[m].ch = c THEN S(m) \cup {m} ELSE S(m)
  BY <1>1
<1>5. Cardinality(S(m) \cup {m}) = Cardinality(S(m)) + 1
  BY <1>2, <1>4, FS_AddElement
<1>6. ASSUME FitsWire(script), c \in Nat, script[m].ch = c
      PROVE  OrderIndex(m) = Earlier(c, m)
  <2> DEFINE A == {k \in DOMAIN script : script[k].ch = c}
  <2>1. Cardinality(A) <= IndexMod
    BY <1>6 DEF FitsWire
  <2>2. IsFiniteSet(A)
    <3>1. A \subseteq 1..Len(script) /\ IsFiniteSet(1..Len(script))
      BY <1>1, FS_Interval DEF Ids
    <3> QED
      BY <3>1, FS_Subset
  <2>3. S(m) \cup {m} \subseteq A
    BY <1>1, <1>6 DEF Ids
  <2>4. Cardinality(S(m) \cup {m}) <= Cardinality(A) /\ Cardinality(A) \in Nat
    BY <2>2, <2>3, FS_Subset, FS_CardinalityType
  <2>5. Cardinality(S(m)) < IndexMod
    BY <1>3, <1>5, <2>1, <2>4, WireAssumption
  <2>6. OrderIndex(m) = Cardinality(S(m)) % IndexMod
    BY <1>6 DEF OrderIndex, Peers
  <2> QED
    BY <1>3, <2>5, <2>6, WireAssumption
<1> HIDE DEF S
<1>7. Cardinality(S(m + 1)) = Cardinality(S(m)) + (IF script[m].ch = c THEN 1 ELSE 0)
  <2>1. CASE script[m].ch = c
    <3>1. S(m + 1) = S(m) \cup {m}
      BY <1>4, <2>1
    <3> QED
      BY <1>5, <2>1, <3>1
  <2>2. CASE script[m].ch # c
    <3>1. S(m + 1) = S(m)
      BY <1>4, <2>2
    <3> QED
      BY <1>3, <2>2, <3>1
  <2> QED
    BY <2>1, <2>2
<1> QED
  BY <1>3, <1>6, <1>7

(* What does not touch the queues keeps the stream in turn.                 *)
LEMMA QuietKeepsTurn ==
    ASSUME FifoNow, script' = script, UNCHANGED <<cursor, inbox, pc, emit, flushing, log>>,
           DOMAIN chan' \subseteq DOMAIN chan, DOMAIN splits' = DOMAIN splits,
           \A c \in DOMAIN chan' :
               /\ chan'[c].next = chan[c].next /\ DOMAIN chan'[c].buffer = DOMAIN chan[c].buffer
               /\ \A i \in DOMAIN chan[c].buffer :
                     chan'[c].buffer[i].payload = chan[c].buffer[i].payload,
           pc = "flush" => flushing \in DOMAIN chan',
           \A s \in DOMAIN splits :
               /\ splits'[s].count = splits[s].count /\ splits'[s].frags = splits[s].frags
               /\ splits'[s].idx = splits[s].idx /\ splits'[s].ch = splits[s].ch
    PROVE  FifoNow'
<1>1. Facing' = Facing
  BY DEF Facing
<1>2. InboxInTurn' /\ FacingSane'
  BY <1>1, ScriptStays DEF FifoNow, InboxInTurn, FacingSane
<1>3. SplitOpen(Facing)'
  <2>1. SplitOpen(Facing) /\ \A m : SplitId(m)' = SplitId(m) /\ OrderIndex(m)' = OrderIndex(m)
    BY ScriptStays DEF FifoNow
  <2>2. CASE Facing.part = 1
    BY <1>1, <2>1, <2>2 DEF SplitOpen
  <2>3. CASE Facing.part # 1
    <3>1. SplitId(Facing.msg) \in DOMAIN splits
      BY <2>1, <2>3 DEF SplitOpen
    <3> QED
      BY <1>1, <2>1, <2>3, <3>1 DEF SplitOpen
  <2> QED
    BY <2>2, <2>3
<1>4. ChannelsWait(Facing.msg)'
  BY <1>1, ScriptStays DEF FifoNow, ChannelsWait
<1>5. pc = "flush" => InFlush(Facing.msg - 1)'
  BY <1>1, ScriptStays DEF FifoNow, InFlush
<1>6. pc = "dispatch" => InDispatch(Facing.msg - 1)'
  BY <1>1 DEF FifoNow, InDispatch
<1> QED
  BY <1>1, <1>2, <1>3, <1>4, <1>5, <1>6 DEF FifoNow, InFlush, InDispatch

(* A whole message that comes in turn goes to a channel that waits for it.  *)
LEMMA AcceptInTurn ==
    ASSUME QueueInv, script' = script, pc = "frames", FitsWire(script),
           NEW m \in Ids, ChannelsWait(m),
           NEW payload \in Seq(Frames), payload # <<>>, payload[1].msg = m,
           Accept(payload, script[m].ch, OrderIndex(m))
    PROVE  /\ pc' \in {"flush", "dispatch"}
           /\ pc' = "flush" => InFlush(m)'
           /\ pc' = "dispatch" => InDispatch(m)'
           /\ ChannelsWait(m + 1)'
<1> DEFINE ch == script[m].ch
           idx == OrderIndex(m)
<1>1. script \in Seq(Messages) /\ emit = <<>> /\ life \in Nat
  BY DEF QueueInv, TypeInv, ControlTyped
<1>2. ch \in Chs
  <2>1. m \in 1..Len(script) /\ script[m] \in Messages
    BY <1>1, LenProperties, ElementOfSeq DEF Ids
  <2> QED
    BY <2>1 DEF Messages, Chs
<1>3. \A c : /\ Earlier(c, m) \in Nat /\ (c # ch => Earlier(c, m + 1) = Earlier(c, m))
             /\ (c = ch => Earlier(c, m + 1) = Earlier(c, m) + 1)
             /\ (c \in Nat /\ c = ch => idx = Earlier(c, m))
  <2> SUFFICES ASSUME NEW c
               PROVE  /\ Earlier(c, m) \in Nat /\ (c # ch => Earlier(c, m + 1) = Earlier(c, m))
                      /\ (c = ch => Earlier(c, m + 1) = Earlier(c, m) + 1)
                      /\ (c \in Nat /\ c = ch => idx = Earlier(c, m))
    OBVIOUS
  <2> QED
    BY <1>1, EarlierGrows
<1>4. \A c, n : Earlier(c, n)' = Earlier(c, n)
  BY ScriptStays
<1>5. \A c \in DOMAIN chan : /\ c # Unordered /\ DOMAIN chan[c].buffer = {}
                             /\ chan[c].next = Earlier(c, m) /\ IsChannel(chan[c])
  BY DEF ChannelsWait, QueueInv, TypeInv, ChannelsTyped
<1>6. Accept(payload, ch, idx)
  OBVIOUS
<1> HIDE DEF ch, idx
<1>7. CASE ch = Unordered
  <2> DEFINE e == Entry(payload, ch, idx, 0)
  <2>1. emit' = <<e>> /\ pc' = "dispatch" /\ chan' = chan
    BY <1>6, <1>7 DEF Accept
  <2>2. e.payload = payload
    BY DEF Entry
  <2> HIDE DEF e
  <2>3. InDispatch(m)'
    BY <2>1, <2>2 DEF InDispatch
  <2>4. ChannelsWait(m + 1)'
    BY <1>3, <1>4, <1>5, <1>7, <2>1 DEF ChannelsWait
  <2> QED
    BY <2>1, <2>3, <2>4
<1>8. CASE ch # Unordered
  <2> DEFINE old == IF ch \in DOMAIN chan THEN chan[ch] ELSE FreshChannel(life + 1)
  <2>1. /\ chan' = [c \in DOMAIN chan \cup {ch} |-> IF c # ch THEN chan[c] ELSE Insert(old, idx, payload)]
        /\ flushing' = ch /\ pc' = "flush" /\ emit' = <<>>
    BY <1>1, <1>6, <1>8 DEF Accept
  <2>2. ch \in Nat /\ idx = Earlier(ch, m) /\ idx \in Nat
    BY <1>2, <1>3, <1>8 DEF Chs
  <2>3. IsChannel(old) /\ DOMAIN old.buffer = {} /\ (old.next = idx \/ old.next = 0)
    <3>1. CASE ch \in DOMAIN chan
      BY <1>5, <2>2, <3>1
    <3>2. CASE ch \notin DOMAIN chan
      <4>1. IsChannel(FreshChannel(life + 1))
        BY <1>1, FreshType
      <4> QED
        BY <3>2, <4>1 DEF FreshChannel, NoFn
    <3> QED
      BY <3>1, <3>2
  <2> HIDE DEF old
  <2> DEFINE b == WithPayload(old.buffer, idx, payload)
  <2>4. old = [next |-> old.next, buffer |-> old.buffer, life |-> old.life]
    BY <2>3 DEF IsChannel
  <2>5. Adopts(old, idx) <=> old.next = 0
    BY <2>3 DEF Adopts
  <2>6. Insert(old, idx, payload) = [old EXCEPT !.buffer = b,
                                                !.next = IF Adopts(old, idx) THEN idx ELSE old.next]
    BY DEF Insert
  <2>7. DOMAIN b = {idx} /\ b[idx].payload = payload
    BY <2>3 DEF WithPayload
  <2> HIDE DEF b
  <2>8. Insert(old, idx, payload).buffer = b /\ Insert(old, idx, payload).next = idx
    BY <2>3, <2>4, <2>5, <2>6
  <2>9. /\ DOMAIN chan' = DOMAIN chan \cup {ch} /\ chan'[ch].buffer = b /\ chan'[ch].next = idx
        /\ \A c \in DOMAIN chan : c # ch => chan'[c] = chan[c]
    BY <2>1, <2>8
  <2>10. idx + 1 = Earlier(ch, m + 1)
    BY <1>3, <2>2
  <2>11. InFlush(m)'
    <3>1. script'[m].ch = ch
      BY DEF ch
    <3>2. EarlierOf(script, ch, m + 1) = idx + 1
      BY <2>10 DEF Earlier
    <3> QED
      BY <2>1, <2>7, <2>9, <3>1, <3>2 DEF InFlush, Earlier
  <2>12. ChannelsWait(m + 1)'
    BY <1>3, <1>4, <1>5, <1>8, <2>1, <2>9 DEF ChannelsWait
  <2> QED
    BY <2>1, <2>11, <2>12
<1> QED
  BY <1>7, <1>8

(* While the network keeps order, expiry drops the channels, all empty, and *)
(* no fragments: none that expired is known.                                *)
LEMMA PruneInTurn ==
    ASSUME QueueInv, FifoNow, pc = "idle", Prune, expired' = {}
    PROVE  /\ DOMAIN chan' = {} /\ DOMAIN splits' = DOMAIN splits
           /\ \A s \in DOMAIN splits : splits'[s] = splits[s]
<1>1. DOMAIN chan' = {}
  <2>1. \A c \in DOMAIN chan : DOMAIN chan[c].buffer = {}
    BY DEF FifoNow, ChannelsWait
  <2>2. \A c \in DOMAIN chan : AliveIn(chan[c].buffer) = {}
    BY <2>1 DEF AliveIn
  <2> QED
    BY <2>2 DEF Prune, PrunedChannels
<1>2. ASSUME NEW s \in DOMAIN splits PROVE Alive(splits[s])
  <2>1. Facing.part # 1 /\ s = SplitId(Facing.msg)
    BY <1>2 DEF FifoNow, SplitOpen
  <2>2. Facing.part \in Nat /\ 1 \in 1..(Facing.part - 1)
    BY <2>1 DEF FifoNow, FacingSane
  <2>3. 1 \in DOMAIN splits[s].frags
    BY <2>1, <2>2 DEF FifoNow, SplitOpen
  <2>4. splits[s].frags[1] \in FramesIn(splits[s].frags)
    BY <2>3 DEF FramesIn
  <2>5. ~Alive(splits[s]) => splits[s].frags[1] \in expired'
    BY <2>4 DEF Prune, FramesOfSplits
  <2> QED
    BY <2>5
<1> QED
  BY <1>1, <1>2 DEF Prune, PrunedSplits

(* A datagram continues the stream.                                         *)
LEMMA ReceiveInTurn ==
    ASSUME QueueInv, FifoNow, orderly, script' = script, expired' = {},
           NEW d \in Datagrams, Receive(d)
    PROVE  FifoNow'
<1>1. pc = "idle" /\ pc' = "frames" /\ Prune /\ cursor' = FollowingFrame(d[Len(d)])
      /\ UNCHANGED <<flushing, emit, log>>
  BY DEF Receive
<1>2. inbox = <<>> /\ Facing = cursor
  BY <1>1 DEF FifoNow, InboxInTurn, Facing
<1>3. InTurn(d) /\ \E k \in 1..MaxFrames : d \in [1..k -> OnTheWay]
  BY DEF Datagrams
<1>4. PICK k \in 1..MaxFrames : d \in [1..k -> OnTheWay]
  BY <1>3
<1>5. d \in Seq(Frames) /\ Len(d) = k /\ k \in Nat \ {0} /\ DOMAIN d = 1..k
  BY <1>4, BoundAssumption, SeqDef DEF OnTheWay
<1>6. inbox' = d
  <2>1. PICK n \in 1..k : ReadsTo(d, n) /\ inbox' = SubSeq(d, 1, n)
    BY <1>5 DEF Receive
  <2>2. n = k
    BY <1>3, <1>5, <2>1 DEF ReadsTo, InTurn
  <2> QED
    <3>1. SubSeq(d, 1, Len(d)) = d
      BY <1>5, SubSeqFull
    <3> QED
      BY <1>5, <2>1, <2>2, <3>1
<1>7. inbox' # <<>> /\ inbox'[1] = cursor
  BY <1>3, <1>5, <1>6, EmptySeq DEF InTurn
<1>8. Facing' = Facing
  BY <1>2, <1>7 DEF Facing
<1>9. InboxInTurn'
  BY <1>1, <1>3, <1>6, ScriptStays DEF InTurn, InboxInTurn
<1>10. /\ DOMAIN chan' = {} /\ DOMAIN splits' = DOMAIN splits
       /\ \A s \in DOMAIN splits : splits'[s] = splits[s]
  BY <1>1, PruneInTurn
<1>11. SplitOpen(Facing)' /\ FacingSane' /\ ChannelsWait(Facing.msg)'
  <2>1. /\ SplitOpen(Facing) /\ FacingSane
        /\ \A m : SplitId(m)' = SplitId(m) /\ OrderIndex(m)' = OrderIndex(m)
    BY ScriptStays DEF FifoNow
  <2>2. SplitOpen(Facing)'
    BY <1>8, <1>10, <2>1 DEF SplitOpen
  <2>3. FacingSane'
    BY <1>8, <2>1, ScriptStays DEF FacingSane
  <2>4. ChannelsWait(Facing.msg)'
    BY <1>10 DEF ChannelsWait
  <2> QED
    BY <2>2, <2>3, <2>4
<1> QED
  BY <1>1, <1>8, <1>9, <1>11 DEF FifoNow

(* A turn of the flush moves the message on.                                *)
LEMMA FlushInTurn ==
    ASSUME QueueInv, FifoNow, script' = script, Flush
    PROVE  FifoNow'
<1>1. PICK g : g = Facing
  OBVIOUS
<1> DEFINE m == g.msg - 1
           x == chan[flushing]
           n == x.next
           b == [i \in DOMAIN x.buffer \ {n} |-> x.buffer[i]]
<1>2. /\ pc = "flush" /\ UNCHANGED <<inbox, cursor, splits, log>> /\ flushing \in DOMAIN chan
      /\ x = [next |-> n, buffer |-> x.buffer, life |-> x.life] /\ n \in Nat
  BY DEF Flush, history, network, QueueInv, TypeInv, ControlTyped, ChannelsTyped, IsChannel
<1>3. /\ g.part = 1 /\ g.msg > 1 /\ g.msg \in Nat /\ Len(log) = g.msg - 2
      /\ InFlush(m) /\ ChannelsWait(g.msg) /\ InboxInTurn /\ FacingSane /\ SplitOpen(g)
  BY <1>1, <1>2 DEF FifoNow, FacingSane
<1>4. Facing' = g /\ m + 1 = g.msg
  BY <1>1, <1>2, <1>3 DEF Facing
<1>5. FacingSane' /\ SplitOpen(g)'
  BY <1>1, <1>2, <1>3, <1>4, ScriptStays DEF FacingSane, SplitOpen
<1>6. CASE n \in DOMAIN x.buffer
  <2> DEFINE e == Entry(x.buffer[n].payload, flushing, n, x.life)
  <2>1. /\ emit' = Append(emit, e) /\ pc' = pc /\ flushing' = flushing
        /\ chan' = [chan EXCEPT ![flushing] = [x EXCEPT !.next = n + 1, !.buffer = b]]
    BY <1>6 DEF Flush, Advanced, GoOn
  <2>2. /\ emit = <<>> /\ DOMAIN x.buffer = {n} /\ n + 1 = EarlierOf(script, flushing, m + 1)
        /\ x.buffer[n].payload # <<>> /\ x.buffer[n].payload[1].msg = m
        /\ flushing = script[m].ch
    BY <1>3, <1>6 DEF InFlush, Earlier
  <2>3. e.payload = x.buffer[n].payload
    BY DEF Entry
  <2>4. DOMAIN b = {}
    BY <2>2
  <2> HIDE DEF e, b, n, m
  <2>5. chan'[flushing].next = n + 1 /\ chan'[flushing].buffer = b
        /\ DOMAIN chan' = DOMAIN chan /\ \A c \in DOMAIN chan : c # flushing => chan'[c] = chan[c]
    <3>1. chan'[flushing] = [x EXCEPT !.next = n + 1, !.buffer = b]
      BY <1>2, <2>1
    <3> QED
      BY <1>2, <2>1, <3>1
  <2>6. Len(emit') = 1 /\ emit'[1] = e
    BY <2>1, <2>2
  <2>7. InFlush(m)'
    BY <2>1, <2>2, <2>3, <2>4, <2>5, <2>6 DEF InFlush, Earlier, m
  <2>8. ChannelsWait(g.msg)'
    BY <1>2, <1>3, <2>1, <2>5 DEF ChannelsWait, Earlier
  <2>9. InboxInTurn'
    BY <1>2, <1>3, <2>1, ScriptStays DEF InboxInTurn
  <2> QED
    BY <1>2, <1>3, <1>4, <1>5, <2>1, <2>7, <2>8, <2>9 DEF FifoNow, m, InFlush
<1>7. CASE n \notin DOMAIN x.buffer
  <2>1. Stop /\ UNCHANGED <<emit, chan>>
    BY <1>7 DEF Flush
  <2>2. /\ Len(emit) = 1 /\ emit[1].payload # <<>> /\ emit[1].payload[1].msg = m
        /\ DOMAIN x.buffer = {} /\ n = EarlierOf(script, flushing, m + 1)
    BY <1>3, <1>7 DEF InFlush, Earlier
  <2>3. emit # <<>>
    BY <2>2
  <2>4. pc' = "dispatch"
    BY <2>1, <2>3 DEF Stop
  <2>5. InDispatch(m)'
    BY <2>1, <2>2 DEF InDispatch
  <2>6. ChannelsWait(g.msg)'
    BY <1>2, <1>3, <1>4, <2>1, <2>2, <2>4 DEF ChannelsWait, Earlier
  <2>7. InboxInTurn'
    BY <1>2, <1>3, <2>4, ScriptStays DEF InboxInTurn
  <2> QED
    BY <1>2, <1>3, <1>4, <1>5, <2>4, <2>5, <2>6, <2>7 DEF FifoNow, InDispatch
<1> QED
  BY <1>6, <1>7

(* The message is dispatched; a goodbye leaves the queues empty.            *)
LEMMA DispatchInTurn ==
    ASSUME QueueInv, FifoNow, script' = script, Dispatch
    PROVE  FifoNow'
<1>1. PICK g : g = Facing
  OBVIOUS
<1>2. /\ pc = "dispatch" /\ UNCHANGED <<inbox, cursor>> /\ log' = Append(log, Head(emit))
      /\ log \in Seq(Entries) /\ emit \in Seq(Entries)
  BY DEF Dispatch, network, QueueInv, TypeInv, EntriesTyped
<1>3. /\ g.part = 1 /\ g.msg > 1 /\ g.msg \in Nat /\ Len(log) = g.msg - 2
      /\ Len(emit) = 1 /\ ChannelsWait(g.msg) /\ InboxInTurn /\ FacingSane /\ DOMAIN splits = {}
  BY <1>1, <1>2 DEF FifoNow, InDispatch, FacingSane, SplitOpen
<1>4. Facing' = g
  BY <1>1, <1>2 DEF Facing
<1>5. pc' = "frames"
  <2>1. Tail(emit) = <<>>
    <3>1. emit # <<>>
      BY <1>2 DEF QueueInv, TypeInv, ControlTyped
    <3>2. Tail(emit) \in Seq(Entries) /\ Len(Tail(emit)) = 0
      BY <1>2, <1>3, <3>1, HeadTailProperties
    <3> QED
      BY <3>2, EmptySeq
  <2> QED
    BY <2>1 DEF Dispatch
<1>6. Len(log') = g.msg - 1
  BY <1>2, <1>3 DEF FifoNow
<1>7. (UNCHANGED <<chan, splits>>) \/ (DOMAIN chan' = {} /\ DOMAIN splits' = {})
  BY DEF Dispatch, DropState, NoFn, queues
<1>8. FacingSane' /\ SplitOpen(g)'
  BY <1>1, <1>3, <1>4, <1>7, ScriptStays DEF FacingSane, SplitOpen
<1>9. ChannelsWait(g.msg)'
  BY <1>2, <1>3, <1>7 DEF ChannelsWait, Earlier
<1>10. InboxInTurn'
  BY <1>2, <1>3, <1>5, ScriptStays DEF InboxInTurn
<1> QED
  BY <1>4, <1>5, <1>6, <1>8, <1>9, <1>10 DEF FifoNow

(* A frame that comes in turn takes its place: it fills the split buffer of *)
(* its message, or completes it.                                            *)
LEMMA HandleInTurn ==
    ASSUME QueueInv, FifoNow, script' = script, Frames' = Frames, FitsWire(script), HandleFrame
    PROVE  FifoNow'
<1>1. PICK f : f = Head(inbox)
  OBVIOUS
<1> DEFINE parts == script[f.msg].parts
           sid == SplitId(f.msg)
           g == FollowingFrame(f)
<1>2. /\ pc = "frames" /\ inbox # <<>> /\ inbox \in Seq(Frames) /\ script \in Seq(Messages)
      /\ inbox' = Tail(inbox) /\ UNCHANGED <<log, cursor>>
      /\ WholeFrame(f) \/ Fragment(f) \/ SkippedFragment(f)
  BY <1>1 DEF HandleFrame, QueueInv, TypeInv, FramesTyped, ControlTyped, network
<1>3. /\ f = inbox[1] /\ f \in Frames /\ Len(inbox) \in Nat \ {0}
      /\ inbox' \in Seq(Frames) /\ Len(inbox') = Len(inbox) - 1
      /\ \A i \in 1..Len(inbox') : inbox'[i] = inbox[i + 1]
  <2>1. Len(inbox) \in Nat \ {0}
    BY <1>2, EmptySeq, LenProperties
  <2> QED
    BY <1>1, <1>2, <2>1, HeadTailProperties, ElementOfSeq
<1>4. f = Facing /\ InboxInTurn /\ SplitOpen(f) /\ ChannelsWait(f.msg) /\ Len(log) = f.msg - 1
  BY <1>2, <1>3 DEF FifoNow, Facing
<1>5. /\ f.msg \in Ids /\ parts \in Nat \ {0} /\ f.part \in 1..parts /\ sid \in SplitIds
      /\ parts <= MaxParts
  BY <1>2, <1>3, FrameFields DEF FitsWire, Ids
<1>6. /\ f = [msg |-> f.msg, part |-> f.part] /\ f.msg \in Nat \ {0} /\ f.part \in Nat \ {0}
      /\ f.part < parts => g = [msg |-> f.msg, part |-> f.part + 1]
      /\ f.part = parts => g = [msg |-> f.msg + 1, part |-> 1]
  BY <1>2, <1>3, FollowingShape
<1> HIDE DEF g, sid, parts
<1>7. Facing' = g /\ InboxInTurn'
  <2>1. \A i \in 1..(Len(inbox) - 1) : inbox[i + 1] = FollowingFrame(inbox[i]) /\ ~IsSplit(inbox[i].msg)
    BY <1>4 DEF InboxInTurn
  <2>2. cursor = FollowingFrame(inbox[Len(inbox)])
    BY <1>2, <1>4 DEF InboxInTurn
  <2>3. pc' # "idle"
    BY <1>2 DEF WholeFrame, Fragment, SkippedFragment, Accept
  <2>4. inbox' = <<>> <=> Len(inbox') = 0
    BY <1>3, EmptySeq
  <2>5. Facing' = g
    <3>1. CASE Len(inbox) = 1
      BY <1>2, <1>3, <2>2, <2>4, <3>1 DEF Facing, g
    <3>2. CASE Len(inbox) # 1
      <4>1. inbox'[1] = inbox[2] /\ inbox' # <<>>
        BY <1>3, <2>4, <3>2
      <4>2. inbox[2] = FollowingFrame(inbox[1])
        BY <1>3, <2>1, <3>2
      <4> QED
        BY <1>3, <4>1, <4>2 DEF Facing, g
    <3> QED
      BY <3>1, <3>2
  <2>6. \A i \in 1..(Len(inbox') - 1) :
            inbox'[i + 1] = FollowingFrame(inbox'[i]) /\ ~IsSplit(inbox'[i].msg)
    <3>1. ASSUME NEW i \in 1..(Len(inbox') - 1)
          PROVE  inbox'[i + 1] = FollowingFrame(inbox'[i]) /\ ~IsSplit(inbox'[i].msg)
      <4>1. inbox'[i] = inbox[i + 1] /\ inbox'[i + 1] = inbox[i + 2]
            /\ i + 1 \in 1..(Len(inbox) - 1) /\ (i + 1) + 1 = i + 2
        BY <1>3
      <4> QED
        BY <2>1, <4>1
    <3> QED
      BY <3>1
  <2>7. inbox' # <<>> => cursor' = FollowingFrame(inbox'[Len(inbox')])
    <3>1. ASSUME inbox' # <<>> PROVE inbox'[Len(inbox')] = inbox[Len(inbox)]
      BY <1>3, <2>4, <3>1
    <3> QED
      BY <1>2, <2>2, <3>1
  <2> QED
    BY <2>3, <2>5, <2>6, <2>7, ScriptStays DEF InboxInTurn
<1>8. FacingSane'
  <2>1. f.part = parts \/ f.part < parts
    BY <1>5
  <2>2. CASE f.part = parts
    BY <1>6, <1>7, <2>2 DEF FacingSane
  <2>3. CASE f.part < parts
    <3>1. script' = script /\ Ids' = Ids
      BY ScriptStays
    <3> QED
      BY <1>5, <1>6, <1>7, <2>3, <3>1 DEF FacingSane, parts
  <2> QED
    BY <2>1, <2>2, <2>3
<1>9. ASSUME f.part = parts, DOMAIN splits' = {},
             NEW payload \in Seq(Frames), payload # <<>>, payload[1].msg = f.msg,
             Accept(payload, script[f.msg].ch, OrderIndex(f.msg))
      PROVE  FifoNow'
  <2>1. /\ pc' \in {"flush", "dispatch"}
        /\ pc' = "flush" => InFlush(f.msg)'
        /\ pc' = "dispatch" => InDispatch(f.msg)'
        /\ ChannelsWait(f.msg + 1)'
    BY <1>2, <1>4, <1>5, <1>9, AcceptInTurn
  <2>2. Facing' = [msg |-> f.msg + 1, part |-> 1]
    BY <1>6, <1>7, <1>9
  <2>3. Facing'.msg = f.msg + 1 /\ Facing'.part = 1 /\ Facing'.msg - 1 = f.msg
    BY <1>6, <2>2
  <2>4. Len(log') = Facing'.msg - 2 /\ Facing'.msg > 1
    BY <1>2, <1>4, <1>6, <2>3
  <2>5. SplitOpen(Facing)'
    BY <1>9, <2>3 DEF SplitOpen
  <2>6. ChannelsWait(Facing.msg)'
    BY <2>1, <2>3 DEF ChannelsWait
  <2>7. /\ pc' = "flush" => InFlush(Facing.msg - 1)'
        /\ pc' = "dispatch" => InDispatch(Facing.msg - 1)'
    BY <2>1, <2>3 DEF InFlush, InDispatch
  <2> QED
    BY <1>7, <1>8, <2>1, <2>3, <2>4, <2>5, <2>6, <2>7 DEF FifoNow
<1>10. CASE WholeFrame(f)
  <2>1. parts = 1 /\ f.part = 1 /\ DOMAIN splits = {}
    BY <1>4, <1>5, <1>10 DEF WholeFrame, IsSplit, SplitOpen, parts
  <2>2. <<f>> \in Seq(Frames) /\ <<f>> # <<>> /\ <<f>>[1].msg = f.msg
    BY <1>3
  <2>3. Accept(<<f>>, script[f.msg].ch, OrderIndex(f.msg)) /\ UNCHANGED splits
    BY <1>10 DEF WholeFrame
  <2> QED
    BY <1>9, <2>1, <2>2, <2>3
<1>11. CASE SkippedFragment(f)
  BY <1>5, <1>11, WireAssumption DEF SkippedFragment, TooManyParts, parts
<1>12. CASE Fragment(f)
  <2> DEFINE old == SplitBuffer(f)
             new == Filled(f, old)
             have == [p \in 1..(f.part - 1) |-> [msg |-> f.msg, part |-> p]]
             all == [p \in 1..f.part |-> [msg |-> f.msg, part |-> p]]
  <2>1. /\ old = [count |-> old.count, frags |-> old.frags, age |-> old.age, idx |-> old.idx, ch |-> old.ch]
        /\ old.count = parts /\ old.frags = have
        /\ old.idx = OrderIndex(f.msg) /\ old.ch = script[f.msg].ch
    <3>1. CASE f.part = 1
      <4>1. old = [count |-> parts, frags |-> NoFn, age |-> 0,
                   idx |-> OrderIndex(f.msg), ch |-> script[f.msg].ch]
        BY <1>4, <3>1 DEF SplitBuffer, SplitOpen, parts
      <4>2. have = NoFn
        BY <3>1 DEF NoFn
      <4> HIDE DEF old, have
      <4> QED
        BY <4>1, <4>2
    <3>2. CASE f.part # 1
      <4>1. /\ DOMAIN splits = {sid} /\ old = splits[sid]
            /\ old.count = parts /\ old.frags = have
            /\ old.idx = OrderIndex(f.msg) /\ old.ch = script[f.msg].ch
        BY <1>4, <3>2 DEF SplitBuffer, SplitOpen, parts, sid
      <4> QED
        BY <4>1 DEF QueueInv, TypeInv, SplitsTyped, IsSplitBuffer
    <3> QED
      BY <3>1, <3>2
  <2>2. /\ DOMAIN splits \subseteq {sid}
        /\ f.part \in Nat /\ f.part >= 1 /\ f.part <= parts /\ DOMAIN have = 1..(f.part - 1)
    BY <1>4, <1>5 DEF SplitOpen, sid
  <2> HIDE DEF old
  <2>3. Fits(f, old)
    BY <2>1, <2>2 DEF Fits
  <2>4. new = [old EXCEPT !.frags = [p \in DOMAIN old.frags \cup {f.part} |->
                                        IF p = f.part THEN f ELSE old.frags[p]]]
    BY <2>3 DEF Filled
  <2>5. [p \in DOMAIN old.frags \cup {f.part} |-> IF p = f.part THEN f ELSE old.frags[p]] = all
    <3>1. DOMAIN old.frags \cup {f.part} = 1..f.part
      BY <2>1, <2>2
    <3>2. \A p \in 1..f.part : (IF p = f.part THEN f ELSE old.frags[p]) = [msg |-> f.msg, part |-> p]
      BY <1>6, <2>1, <2>2
    <3> QED
      BY <3>1, <3>2
  <2>6. new = [count |-> parts, frags |-> all, age |-> old.age,
               idx |-> OrderIndex(f.msg), ch |-> script[f.msg].ch]
    <3> HIDE DEF new, all, have
    <3> QED
      BY <2>1, <2>4, <2>5
  <2>7. IsSplit(f.msg) /\ (Complete(new) => new.frags \in Seq(Frames))
    BY <1>3, <1>12, FilledType DEF Fragment, QueueInv, old
  <2>8. /\ Complete(new) => /\ splits' = [i \in DOMAIN splits \ {sid} |-> splits[i]]
                            /\ Accept(new.frags, new.ch, new.idx)
        /\ ~Complete(new) => /\ splits' = [i \in DOMAIN splits \cup {sid} |->
                                               IF i = sid THEN new ELSE splits[i]]
                             /\ UNCHANGED <<chan, life, flushing, emit, pc>>
    BY <1>12 DEF Fragment, old, sid
  <2>9. Complete(new) <=> f.part = parts
    <3>1. DOMAIN new.frags = 1..f.part /\ new.count = parts
      BY <2>6
    <3>2. 1..f.part = 1..parts <=> f.part = parts
      BY <1>5
    <3> QED
      BY <3>1, <3>2 DEF Complete
  <2> HIDE DEF new, all
  <2>10. new.frags = all /\ new.count = parts /\ new.ch = script[f.msg].ch /\ new.idx = OrderIndex(f.msg)
    BY <2>6
  <2>11. CASE f.part = parts
    <3>1. DOMAIN splits' = {}
      BY <2>2, <2>8, <2>9, <2>11
    <3>2. all \in Seq(Frames) /\ Accept(all, script[f.msg].ch, OrderIndex(f.msg))
      BY <2>7, <2>8, <2>9, <2>10, <2>11
    <3>3. 1 \in DOMAIN all /\ all[1].msg = f.msg
      BY <2>2 DEF all
    <3>4. all # <<>>
      BY <3>3, EmptySeq
    <3> QED
      BY <1>9, <2>11, <3>1, <3>2, <3>3, <3>4
  <2>12. CASE f.part # parts
    <3>1. DOMAIN splits' = {sid} /\ splits'[sid] = new /\ UNCHANGED <<chan, flushing, emit, pc>>
      BY <2>2, <2>8, <2>9, <2>12
    <3>2. Facing' = [msg |-> f.msg, part |-> f.part + 1]
      BY <1>5, <1>6, <1>7, <2>12
    <3>3. Facing'.msg = f.msg /\ Facing'.part = f.part + 1 /\ f.part + 1 # 1 /\ (f.part + 1) - 1 = f.part
      BY <1>6, <3>2
    <3>4. SplitOpen(Facing)'
      <4>1. \A m : SplitId(m)' = SplitId(m) /\ OrderIndex(m)' = OrderIndex(m)
        BY ScriptStays
      <4>2. new.frags = [p \in 1..f.part |-> [msg |-> f.msg, part |-> p]]
        BY <2>10 DEF all
      <4> QED
        BY <2>10, <3>1, <3>3, <4>1, <4>2 DEF SplitOpen, parts, sid
    <3>5. ChannelsWait(Facing.msg)'
      BY <1>4, <3>1, <3>3 DEF ChannelsWait, Earlier
    <3> QED
      BY <1>2, <1>4, <1>7, <1>8, <3>1, <3>3, <3>4, <3>5 DEF FifoNow
  <2> QED
    BY <2>11, <2>12
<1> QED
  BY <1>2, <1>10, <1>11, <1>12

(* What a step does to the record that the abstract channel sees.           *)
LEMMA RecordMoves ==
    ASSUME QueueInv, [Next]_vars
    PROVE  /\ orderly' = orderly /\ expired \subseteq expired'
           /\ \/ UNCHANGED <<sent, log, expired>>
              \/ sent' = sent + 1 /\ UNCHANGED <<log, expired>>
              \/ UNCHANGED <<sent, log>>
              \/ Dispatch /\ UNCHANGED <<sent, expired>>
BY DEF Next, PeerSends, Tick, Receive, ReceiveGarbage, Prune, HandleFrame, Flush, Dispatch,
       Acknowledge, vars, control, history, network

(* Every step keeps the stream in turn.                                     *)
LEMMA FifoStep ==
    ASSUME QueueInv, ScriptFits, FifoInv, [Next]_vars
    PROVE  ScriptFits' /\ FifoInv'
<1>1. script' = script /\ Frames' = Frames /\ orderly' = orderly /\ expired \subseteq expired'
  BY FramesStay, RecordMoves
<1>2. ScriptFits'
  BY <1>1 DEF ScriptFits
<1>3. ASSUME orderly, expired' = {} PROVE FifoNow'
  <2>1. FifoNow /\ FitsWire(script)
    BY <1>1, <1>3 DEF FifoInv, ScriptFits
  <2>2. pc = "flush" => flushing \in DOMAIN chan
    BY DEF QueueInv, TypeInv, ControlTyped
  <2>3. ASSUME UNCHANGED <<chan, splits, cursor, inbox, pc, emit, flushing, log>> PROVE FifoNow'
    BY <1>1, <2>1, <2>2, <2>3, QuietKeepsTurn
  <2>4. CASE PeerSends \/ UNCHANGED vars
    BY <2>3, <2>4 DEF PeerSends, vars, queues, control, history, network
  <2>5. CASE Acknowledge
    <3>1. /\ pc = "frames" /\ pc' = "idle" /\ inbox = <<>>
          /\ UNCHANGED <<chan, splits, cursor, inbox, emit, flushing, log>>
      BY <2>5 DEF Acknowledge, queues, network
    <3>2. Facing' = Facing
      BY <3>1 DEF Facing
    <3>3. InboxInTurn'
      BY <1>1, <2>1, <3>1, ScriptStays DEF FifoNow, InboxInTurn
    <3>4. FacingSane'
      BY <1>1, <2>1, <3>2, ScriptStays DEF FifoNow, FacingSane
    <3>5. SplitOpen(Facing)'
      <4>1. SplitOpen(Facing) /\ \A m : SplitId(m)' = SplitId(m) /\ OrderIndex(m)' = OrderIndex(m)
        BY <1>1, <2>1, ScriptStays DEF FifoNow
      <4> QED
        BY <1>1, <3>1, <3>2, <4>1 DEF SplitOpen
    <3>6. ChannelsWait(Facing.msg)'
      BY <1>1, <2>1, <3>1, <3>2 DEF FifoNow, ChannelsWait, Earlier
    <3> QED
      BY <2>1, <3>1, <3>2, <3>3, <3>4, <3>5, <3>6 DEF FifoNow
  <2>6. CASE Tick
    <3>1. /\ UNCHANGED <<cursor, inbox, pc, emit, flushing, log>>
          /\ DOMAIN chan' = DOMAIN chan /\ DOMAIN splits' = DOMAIN splits
      BY <2>6, OnlyAges DEF control, history
    <3> QED
      BY <1>1, <2>1, <2>2, <2>6, <3>1, OnlyAges, QuietKeepsTurn
  <2>7. CASE ReceiveGarbage
    <3>1. pc = "idle" /\ Prune /\ UNCHANGED <<cursor, inbox, pc, emit, flushing, log>>
      BY <2>7 DEF ReceiveGarbage, control, network
    <3>2. /\ DOMAIN chan' = {} /\ DOMAIN splits' = DOMAIN splits
          /\ \A s \in DOMAIN splits : splits'[s] = splits[s]
      BY <1>3, <2>1, <3>1, PruneInTurn
    <3> QED
      BY <1>1, <2>1, <3>1, <3>2, QuietKeepsTurn
  <2>8. ASSUME NEW d \in Datagrams, Receive(d) PROVE FifoNow'
    BY <1>1, <1>3, <2>1, <2>8, ReceiveInTurn
  <2>9. CASE HandleFrame
    BY <1>1, <2>1, <2>9, HandleInTurn
  <2>10. CASE Flush
    BY <1>1, <2>1, <2>10, FlushInTurn
  <2>11. CASE Dispatch
    BY <1>1, <2>1, <2>11, DispatchInTurn
  <2> QED
    BY <2>4, <2>5, <2>6, <2>7, <2>8, <2>9, <2>10, <2>11 DEF Next
<1> QED
  BY <1>1, <1>2, <1>3 DEF FifoInv

(* A peer on an orderly network has no more messages than its channels have *)
(* indices, and none of too many parts.                                     *)
OrderlyFits == \A case \in Cases : case.orderly => FitsWire(case.script)

(* Before the first message the stream is in turn.                          *)
LEMMA FifoStart ==
    ASSUME OrderlyFits, Init
    PROVE  SentInv /\ ScriptFits /\ FifoInv
<1>1. /\ DOMAIN chan = {} /\ DOMAIN splits = {} /\ inbox = <<>> /\ emit = <<>> /\ log = <<>>
      /\ pc = "idle" /\ cursor = [msg |-> 1, part |-> 1]
  BY DEF Init, NoFn
<1>2. SentInv
  BY <1>1 DEF SentInv
<1>3. ScriptFits
  BY DEF Init, ScriptFits, OrderlyFits
<1>4. Facing = [msg |-> 1, part |-> 1]
  BY <1>1 DEF Facing
<1>5. Facing.msg = 1 /\ Facing.part = 1
  BY <1>4
<1>6. FacingSane
  BY <1>4, <1>5 DEF FacingSane
<1>7. InboxInTurn
  BY <1>1 DEF InboxInTurn
<1>8. SplitOpen(Facing) /\ ChannelsWait(Facing.msg)
  BY <1>1, <1>5 DEF SplitOpen, ChannelsWait
<1>9. FifoNow
  BY <1>1, <1>5, <1>6, <1>7, <1>8 DEF FifoNow
<1> QED
  BY <1>2, <1>3, <1>9 DEF FifoInv

(* The messages dispatched.                                                 *)
Got == [k \in DOMAIN log |-> log[k].payload[1].msg]

(* A step is one of the abstract channel, or none.                          *)
LEMMA FifoMaps ==
    ASSUME QueueInv, SentInv, FifoInv, [Next]_vars
    PROVE  [Fifo!SendOne \/ Fifo!Break \/ Fifo!DeliverNext \/ Fifo!DeliverAny]_(Fifo!vars)
<1>1. /\ orderly' = orderly /\ expired \subseteq expired'
      /\ \/ UNCHANGED <<sent, log, expired>>
         \/ sent' = sent + 1 /\ UNCHANGED <<log, expired>>
         \/ UNCHANGED <<sent, log>>
         \/ Dispatch /\ UNCHANGED <<sent, expired>>
  BY RecordMoves
<1>2. CASE UNCHANGED <<sent, log, expired>>
  BY <1>1, <1>2 DEF Fifo!vars
<1>3. CASE sent' = sent + 1 /\ UNCHANGED <<log, expired>>
  BY <1>1, <1>3 DEF Fifo!SendOne
<1>4. CASE UNCHANGED <<sent, log>>
  <2>1. CASE (orderly /\ expired = {})' = (orderly /\ expired = {})
    BY <1>1, <1>4, <2>1 DEF Fifo!vars
  <2>2. CASE (orderly /\ expired = {})' # (orderly /\ expired = {})
    <3>1. (orderly /\ expired = {}) /\ ~(orderly /\ expired = {})'
      BY <1>1, <2>2
    <3>2. (orderly /\ expired = {})' = FALSE
      BY <3>1
    <3> QED
      BY <1>4, <3>1, <3>2 DEF Fifo!Break
  <2> QED
    BY <2>1, <2>2
<1>5. CASE Dispatch /\ UNCHANGED <<sent, expired>>
  <2> DEFINE e == Head(emit)
             m == e.payload[1].msg
  <2>1. /\ pc = "dispatch" /\ log' = Append(log, e) /\ emit # <<>>
        /\ log \in Seq(Entries) /\ emit \in Seq(Entries) /\ script \in Seq(Messages)
        /\ sent \in 0..Len(script)
    BY <1>5 DEF Dispatch, QueueInv, TypeInv, EntriesTyped, ControlTyped
  <2>2. e = emit[1] /\ 1 \in DOMAIN emit /\ e \in Entries
    BY <2>1, EmptySeq, HeadTailProperties, LenProperties, ElementOfSeq
  <2>3. m \in 1..sent
    <3>1. Begun(e.payload)
      BY <2>2 DEF SentInv
    <3>2. e.payload[1] \in Frames /\ m <= sent
      BY <3>1 DEF Begun, OnTheWay
    <3>3. m \in Ids /\ Ids = 1..Len(script)
      BY <2>1, <3>2, FrameFields, LenProperties DEF Ids
    <3> QED
      BY <2>1, <3>2, <3>3, LenProperties
  <2> HIDE DEF e
  <2>4. Got' = Append(Got, m) /\ Len(Got) = Len(log)
    <3>1. /\ DOMAIN log = 1..Len(log) /\ Len(log) \in Nat /\ DOMAIN log' = 1..(Len(log) + 1)
          /\ log'[Len(log) + 1] = e /\ \A k \in 1..Len(log) : log'[k] = log[k]
      BY <2>1, <2>2, LenProperties, AppendProperties
    <3>2. m \in Nat
      BY <2>1, <2>3, LenProperties
    <3> DEFINE G == [k \in 1..Len(log) |-> log[k].payload[1].msg]
    <3>3. Got = G /\ Got' = [k \in 1..(Len(log) + 1) |-> log'[k].payload[1].msg]
      BY <3>1 DEF Got
    <3>4. G \in Seq({G[k] : k \in 1..Len(log)} \cup {m}) /\ Len(G) = Len(log)
      <4>1. G \in [1..Len(log) -> {G[k] : k \in 1..Len(log)} \cup {m}]
        OBVIOUS
      <4> QED
        BY <3>1, <4>1, SeqDef
    <3>5. Append(G, m) = [k \in 1..(Len(log) + 1) |-> IF k \in 1..Len(log) THEN G[k] ELSE m]
      <4> DEFINE T == {G[k] : k \in 1..Len(log)} \cup {m}
      <4>1. G \in Seq(T) /\ m \in T
        BY <3>4
      <4> HIDE DEF G, m, T
      <4>2. /\ Append(G, m) \in Seq(T) /\ Len(Append(G, m)) = Len(log) + 1
            /\ \A k \in 1..Len(log) : Append(G, m)[k] = G[k]
            /\ Append(G, m)[Len(log) + 1] = m
        BY <3>1, <3>4, <4>1, AppendProperties
      <4>3. Append(G, m) \in [1..(Len(log) + 1) -> T]
        BY <4>2, LenProperties
      <4> DEFINE A == Append(G, m)
                 L == Len(log)
      <4>4. /\ L \in Nat /\ A \in [1..(L + 1) -> T]
            /\ A[L + 1] = m /\ \A k \in 1..L : A[k] = G[k]
        BY <3>1, <4>2, <4>3
      <4> HIDE DEF A, L
      <4>5. A = [k \in 1..(L + 1) |-> IF k \in 1..L THEN G[k] ELSE m]
        BY <4>4
      <4> QED
        BY <4>5 DEF A, L
    <3>6. \A k \in 1..(Len(log) + 1) :
              log'[k].payload[1].msg = IF k \in 1..Len(log) THEN G[k] ELSE m
      BY <3>1
    <3> QED
      BY <3>3, <3>4, <3>5, <3>6
  <2>5. CASE orderly /\ expired = {}
    <3>1. FifoNow
      BY <2>5 DEF FifoInv
    <3>2. Len(log) = Facing.msg - 2 /\ Facing.msg \in Nat /\ emit[1].payload[1].msg = Facing.msg - 1
      BY <2>1, <3>1 DEF FifoNow, FacingSane, InDispatch
    <3>3. m = Len(Got) + 1
      BY <2>2, <2>4, <3>2
    <3>4. Len(Got) < sent
      BY <2>1, <2>3, <3>3, LenProperties
    <3> HIDE DEF m
    <3> QED
      BY <1>1, <1>5, <2>4, <2>5, <3>3, <3>4 DEF Fifo!DeliverNext, Got
  <2>6. CASE ~(orderly /\ expired = {})
    <3> HIDE DEF m
    <3> QED
      BY <1>1, <1>5, <2>3, <2>4, <2>6 DEF Fifo!DeliverAny, Got
  <2> QED
    BY <2>5, <2>6
<1> QED
  BY <1>1, <1>2, <1>3, <1>4, <1>5

(* Over a network that keeps order, and while nothing expires, the receive  *)
(* path hands on every message, whole fragments and goodbyes among them,    *)
(* once and in turn, whatever channels they use; and in any case nothing    *)
(* but what the peer sent.                                                  *)
THEOREM ReceivesInTurn ==
    ASSUME OrderlyFits
    PROVE  Spec => ImplementsFifo
<1>1. Init => QueueInv /\ SentInv /\ ScriptFits /\ FifoInv
  BY FifoStart, QueueStart
<1>2. QueueInv /\ SentInv /\ ScriptFits /\ FifoInv /\ [Next]_vars
          => (QueueInv /\ SentInv /\ ScriptFits /\ FifoInv)'
  BY QueueStep, SentStep, FifoStep
<1>3. Init => Fifo!Init
  <2> SUFFICES ASSUME Init PROVE Fifo!Init
    OBVIOUS
  <2>1. log = <<>> /\ sent = 0 /\ DOMAIN log = {}
    BY DEF Init
  <2>2. Got = <<>>
    BY <2>1 DEF Got
  <2> QED
    BY <2>1, <2>2 DEF Fifo!Init, Got
<1>4. QueueInv /\ SentInv /\ ScriptFits /\ FifoInv /\ [Next]_vars
          => [Fifo!SendOne \/ Fifo!Break \/ Fifo!DeliverNext \/ Fifo!DeliverAny]_(Fifo!vars)
  BY FifoMaps
<1> QED
  BY <1>1, <1>2, <1>3, <1>4, PTL DEF Spec, ImplementsFifo, Fifo!Spec
=============================================================================
