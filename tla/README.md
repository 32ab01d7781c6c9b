# A TLA+ development of SkinGetBE

SkinGetBE captures the skin of a Minecraft Bedrock client: it accepts a
connection, negotiates the Bedrock protocol far enough to receive the Login
packet, writes the skin as `skins/<player>_<skin>.png` with a `.json` sidecar,
answers, and closes. This directory holds models of its stateful parts and of
the codecs whose reading is a guess, TLC runs over small instances, and TLAPS
proofs for every instance. Paths below are relative to `src/src/`.

## 1. Inventory

| Component | State | Operations | Talks to | Modelled in |
|---|---|---|---|---|
| Capture store (`bedrock/skin.rs`) | the `skins` directory; the local variables of each call | `save_login_capture`, `next_available_stem` | called, without an await, by every session task | `CaptureStore`, `CaptureLog` |
| NetherNet session (`main.rs` `handle_session`) | `compression_enabled`, the two open flags, the batch in hand | receive, decode, `0xc1`, `0x01`, send, close | two channels of `nethernet-tokio`, the capture store | `NetherSession`, `CaptureService` |
| Listeners and startup (`main.rs` `main`) | configuration, listeners | accept, spawn, Ctrl+C | sessions | "a task per connection"; the start in `ConfigStore` |
| Batch codec (`bedrock/batch.rs`) | none | `decompress_batch`, `compress_batch`, `parse_batch` | both session layers | `BatchCodec` (framing), the sessions (which encoding decodes when) |
| RakNet receive path (`raknet/server/mod.rs`, `session.rs`) | split buffers, ordered channels | `handle_game_packet`, `buffer_ordered_payload`, the two prunings, `drop_connection_state` | dispatch | `FrameReceive`, `FifoChannel` |
| RakNet send path (`frames.rs`, `handshake.rs`, worker of `mod.rs`) | counters, pending messages, flow control | `send_frame`, ACK, NACK, resend worker, expiry | the peer | `ReliableSend` |
| RakNet session table and Bedrock handlers (`mod.rs`, `bedrock.rs`, `handshake.rs`, `session.rs`) | `connections`, the runtime version pair | `handle_packet`, handshake, dispatch, `0xc1`, Login | the other two RakNet parts, the capture store | `SessionLifecycle` |
| Frame-set parser (`raknet/protocol.rs`) | none | `parse_frame_set`, its two readings of a length | receive path | `FrameCodec` |
| Login parser (`bedrock/login.rs`) | none | the six layouts, the size of the skin | sessions | `LoginCodec` |
| Configuration (`util/config.rs`) | `config.jsonc` | load, normalise, save, the comment stripper, the escaping | startup | `ConfigStore`, `ConfigText` |
| Binary buffer (`util/buffer.rs`) | a position | bounded reads and writes | the codecs | `WireBuffer` |
| Version table (`bedrock/version.rs`) | table, fallbacks, warned set | `resolve_version` | everyone | as a function of the protocol |
| JWT (`crypto/jwt.rs`), responses (`bedrock/responses.rs`) | none | decoding, building | sessions | outcomes and kinds only |
| UDP, STUN, CLI, logger, errors, build files | sockets, none | I/O, formatting | | not modelled |

The NetherNet half is what the program runs. The RakNet half is kept as a
library: nothing in `main.rs` starts it, and the tests of `mod.rs` drive it
with a loop that handles one datagram at a time. Its state is nevertheless
behind locks for concurrent callers, and its resend worker is a task of its own.

What is hard here, and what makes each part correct:

* **Capture store**: two sessions on two runtime threads, every system call a
  point of interleaving, a process killed between any two. Correct when what
  was reported saved stays, image and sidecar belong together, and nothing
  that existed is touched (in the numbered modes).
* **NetherNet session**: two channels, one of them lossy; a flag that changes
  how bytes are read while bytes are on the way. Correct when a client that
  follows the protocol is heard and can decode its answer, the answer is the
  last message, and the task ends.
* **Receive path**: loss, repetition, reordering, expiry, wrapping numbers.
  Correct when messages are reassembled intact, order holds, and what was
  acknowledged is not silently gone.
* **Send path**: numbering and registering under separate locks, ACKs, NACKs,
  timeouts and drops in any order. Correct when numbers are unique, nothing
  is lost silently, retries are bounded, and flow control stays in its limits.
* **Session table**: checks and uses under separate locks, a Login that takes
  1.75 s with sends and sleeps. Correct when a session is captured once, its
  encoding agrees with the negotiation, and it ends.
* **Configuration**: a file that is read, completed and rewritten in place at
  every start, by a writer and a comment stripper of its own. Correct when no
  start, error or kill loses what the user wrote, and what is written reads back.
* **Codecs**: parsers that try several readings of the same bytes. Correct when
  what a peer wrote, in any of the forms, is what is read, and a cut item is
  not taken for another.

## 2. Modules

**`CaptureStore`** has one action per system call of `save_login_capture`. A
file is the set of captures whose bytes it holds: `{c}` complete, `{}` created
or truncated and not filled, `{c, d}` the overlay of two writers. A stem is a
sequence, the base name and perhaps a number, so that names of different
captures may coincide as they may in the code. `Crash` keeps the files and
forgets the calls. **`CaptureLog`** is its abstraction: an append-only set of
captures; `ImplementsLog` is the refinement, `kept` being the captures whose
image is complete. **`CaptureStoreProofs`** holds its theorems.

**`NetherSession`** has the client, the two channels and the task of
`handle_session`, one action between two awaits. Which client messages are "in
turn" is defined from the negotiation (`InTurn`); the client may send anything.
`handle_session` takes a leading `0xfe` off every message, which is the marker
some clients still send, or the first byte of a raw batch's own length
(`first`); a batch that has lost that byte is read as anything (`Misreadings`),
and `trimmed` remembers it.
**`CaptureService`** replaces its abstract save by the steps of `CaptureStore`
(instantiated with sessions as workers and as captures) and is shown to
implement `NetherSession` again (`ImplementsSessions`).
**`NetherSessionProofs`** holds the theorems about one session,
**`CaptureServiceProofs`** those about the composition.

**`FrameReceive`** is `handle_game_packet` for one peer: expiry, then frame by
frame, the flush loop turn by turn, dispatch and acknowledgement. Which frames
of a datagram are read at all (`ReadsTo`) is what `FrameCodec` computes from
bytes. **`FifoChannel`** is the channel it implements when the network keeps
order. **`FrameReceiveProofs`** holds the theorems about the path itself and,
built on them, the refinement.

**`ReliableSend`** is `send_frame` with its two critical sections and the error
of `send_to` that ends it in the middle of a message (`TransmitFails`), the ACK
and NACK walks, the worker and expiry. A walk under the lock is stepped frame by
frame while nobody else steps: nothing else reads or writes what it visits.
**`ReliableSendProofs`** holds its theorems.

**`SessionLifecycle`** is `handle_packet` down to `handle_login_packet`: one
task per call, a step per lock, send and sleep. `ensure_session` makes a session
in two steps under the table's lock, because it reads the runtime protocol and
version under locks of their own. A datagram is handled frame by frame, each of
which ensures a session, and a frame releases any number of payloads: which
ones is what `FrameReceive` models, and what lies behind `Send`, one step here,
`ReliableSend`. The split buffers' lock is taken alone to expire and to clear,
and inside the table's to place a fragment and to count what a dropped session
leaves; it is always given back by a step of its own (`Pruned`, `Assemble`,
`Counted`, `Cleared`). A protocol number is 32 bits wide on the way in and 16
in the session and the runtime (`AsU16`), while its version is looked up for
the number itself (`PairOf`).
**`SessionLifecycleProofs`** holds its theorems.

**`ConfigStore`** is `ConfigManager` over any number of starts: load, normalise,
truncate, write, bind, with a disk error or a kill at each system call and an
edit of the user between starts. A file is a record of JSON literals, or torn,
or absent. **`ConfigText`** is what happens to one string: the writer's escaping,
the comment stripper, and the JSON reader, over characters that matter to them
(a letter, a quote, a backslash, the letters of escapes, a control character...).
**`ConfigStoreProofs`** holds the theorems about both.

**`WireBuffer`** has the bounded reads and writes of `BinaryBuffer`,
**`FrameCodec`** `parse_frame_set` with the choice between bits and bytes,
**`BatchCodec`** the length-prefixed batch, **`LoginCodec`** the six layouts, the
conditions on their tokens (UTF-8 text, a brace, two full stops) and the guess of
the skin's size. Each also has the encoder a peer uses, which is
external: it follows from the layout the parser reads. **`Codecs`** composes
them: one item is written, perhaps loses its end, and is read. What they compute
by recursion they write as recursive functions. **`CodecsProofs`** holds the
theorems about them.

`MC*` modules hold the instances. Definitions named `... mutant` in the comments
beside them are deliberate faults that show the properties can fail; no
behaviour uses them. `PROJECT.json` maps every definition to its lines.

## 3. Runs

| Run | Instance | Shows |
|---|---|---|
| `CaptureFiles` | every savemode, one thread, three captures with colliding names, files of earlier runs, disk errors, two kills, a counter that saturates | saved files stay, pairs match, numbering is dense, a torn pair has a cause, saves return; the log refinement |
| `CaptureRace` | two threads, one base name | **violated**: `SavedIsOnDisk` |
| `NetherSession` | one session, up to three batches of nine kinds, among them marked ones and raw ones whose length begins with `0xfe` | negotiation, one answer, readable, last; ends |
| `CaptureService` | two sessions of different players, one directory | answered when settled; a login becomes a file; refines `NetherSession` |
| `FrameReorder` | five scripts over a network without order (a split message between whole ones, a goodbye, too many parts, one split id twice, a wrapping index), and a mixture over an orderly one | queues, reassembly, order in a channel's life, acknowledged frames accounted for; refines `FifoChannel` |
| `FrameOrder` | a reordering network, two messages | **violated**: `DispatchedInOrder` |
| `SendRetries` | two tasks, a message of two frames and an unreliable one, send errors, ACK, NACK, time, a dropped session | unique numbers, accounting, limits, no silent loss, bounded retries |
| `SendRetriesEnd` | one task, two messages, fair | retrying ends |
| `Lifecycle` | one task with two peers and four datagrams, or one peer and five, of fifteen kinds (several frames, fragments, payloads, numbers of more than 16 bits); two tasks, one peer, three datagrams of five kinds; fair | a Login ends its life, encodings, who opens sessions, version pairs; captured sessions end, calls return |
| `ConfigStore` | every version literal of up to three characters, keys left out, odd values | a refusal has a cause, settings are kept, the program runs as the file says |
| `Codecs` | frame sets of up to four frames, batches, Logins in six layouts, skin sizes; batches and Logins cut anywhere | what was written is read |
| `FrameFragments` | a fragment in front of another frame | **violated**: `AllFramesReturned` |

The violated runs each state what a comment or the README says and what the
code does not do; `PROJECT.json` quotes both under `findings`:

1. `exists()` then `fs::write` is not atomic: two captures of one name at once
   overwrite each other although numbered saving is on.
2. An ordered channel is dropped, with its next index, whenever its buffer is
   empty: late and repeated payloads are dispatched out of order.
3. `parse_frame_set` stops behind a fragment (`raknet/protocol.rs:56`), though
   its comment (line 114) promises all frames of the set; the frames behind it
   are lost although their datagram is acknowledged.

More observations are part of the models, and no run is spent on them:

* every fragment of an ordered message takes an order index of its own
  (`ReliableSend`'s `Allocate`);
* pending messages expire only when the same peer sends something
  (`ReliableSend`'s `Prune` has no fairness);
* two logins at once may leave protocol and version mismatched until the next
  login (`VersionPairsAgree` says that nothing else does);
* a raw batch whose first length begins with `0xfe` (254, 382, ... bytes) loses
  that byte (`main.rs:183`) and is read as something else
  (`ConformingClientIsHeard` says that no other batch of a conforming client is);
* a frame behind a goodbye or a Login in the same datagram opens the session
  anew, without a handshake, because each frame ensures one (`mod.rs:243` and
  `334`; `LivesStartAtHandshake` says that only such a datagram does), and two
  Logins in two frames of a datagram are both captured, on two lives;
* a client that names a protocol of 65536 or more gets a session with what the
  cast leaves of it (`bedrock.rs:77` and `160`) and the version of the whole
  number, and the pong advertises that pair (`VersionPairsAgree` names it);
* an error of `send_to` leaves the rest of a message unsent (`frames.rs:236`);
* `escape_json_string` writes a control character as it is, and the next start
  refuses the file; a file torn by a kill is refused until the user acts
  (`RefusalHasCause` names both);
* the protocols 256 and 65536 are each other's reverse, so the little-endian and
  the big-endian layout exchange them (`LoginReadBack` names them);
* a short fragment followed by seven times its bytes or more can make the
  reading in bytes win;
* sequence and order numbers have 24 bits on the wire and 32 in the session, and
  a frame of 8192 bytes or more overflows the 16 bits of its length in bits.

**Bounds.** Captures, messages and datagrams are few because each property
speaks of at most two of them and the state the code keeps per item is
independent of the others; the numbers that matter (attempts, wrap of the
indexes, TTL, the saturating counter, the window's floor) are constants set
low enough that the runs pass them. `MaxCrashes`, `MaxSends`, `MaxLog`,
`MaxTicks`, `MaxDrops` and the `arrivals` of a `Lifecycle` caller bound
histories only; ages stop at `AgeCap`, above every limit they are compared with.
Five datagrams hold the opening, a negotiation, a login, a repetition, and a new
handshake; four are enough for one peer to meet what another has left in the
runtime pair, and three for a call to meet another in every window between two
locks. `SendRetries` counts two attempts where the code has five: what is
bounded is the comparison with the limit, and one retransmission by the timer
and one by a NACK reach it. The two senders are interchangeable there
(`SenderSymmetry`), and only invariants are checked. The peer of `FrameReorder`
has one of several scripts, and the callers of `Lifecycle` are one of three, so
that each small instance is explored without their product. The items of
`Codecs` have sizes on both sides of the limits of the encodings (lengths of
127/128 and 255/256, protocols of one, two and three bytes), payloads that look like headers, and frames whose length is no
whole number of bytes. `ConfigStore` takes every literal of up to three
characters: the escapes and comment marks have two, and one more on either side
tells them apart from their context.
Deadlock is off where those bounds let a system simply stop.

**Fairness.** `CaptureStore`: weak fairness of a call that has begun, as the
operating system runs its thread. `NetherSession` and `CaptureService`: weak
fairness of a task's own steps; nothing is assumed of the client or of
transport errors. `ReliableSend`: strong fairness of the senders' lock steps and
of the worker's, since the tokio lock is first come, first served, and fairness
of time; nothing is assumed of network or peer. `SessionLifecycle`: weak
fairness of each call's steps; sleeps end and the lock is handed out in order.
`FrameReceive`, `ConfigStore` and `Codecs` have none: what they promise is safety.

## 4. Proofs

All proofs are checked by TLAPS for every value of the constants that satisfies
the `ASSUME`s of the module. The argument is everywhere the same: an invariant
that is inductive, `Init` and every action keeping it, and the property from it.

* `CaptureStoreProofs`. `TypeCorrect` is types plus "a file a call has open is
  there", which types alone need. `SavedIsOnDisk` and `PairFromOneCapture` are
  not inductive: that the image at a path is this call's own depends on what
  each call knows from its probes. `SaveInv` adds that (`WriterKnows`) and that
  no two calls save one capture. It holds when the calls cannot meet on a name
  (`Unshared`: one thread, or candidate names that never coincide), which is
  the assumption of `SaveInvariant`, `SavedStaysOnDisk`, `PairsMatch` and
  `FilesAreNeverOverwritten`; `CaptureRace` shows that it cannot be dropped.
  `NumbersHaveNoGap` holds for any number of threads: `DenseInv` says that a
  call has found every candidate before its own taken, and no step frees a name.
  `TornIsExplained` takes the numbered modes from `SaveInv`; for overwriting with
  one thread `ReplaceInv` says what that thread knows of the pair it is
  replacing. `DirectoryIsLog` is the refinement, in every save mode: `WritePng`
  keeps a capture, truncating its image before replaces one when overwriting,
  the end of a save reports it, and every other step is a stutter of the log. It
  needs `LogInv`: a call that is to report has its image complete, a capture
  that waits is not in the log, and so `Unshared`.
* `NetherSessionProofs`. `SessionInv` is types, `AnswerInv` (the bundle is the
  last message and the task is then past sending), `EncodingInv` (the flag and
  the sent settings agree while no send failed) and `TurnInv` (which batches of
  a conforming client may still be on the way, by the state of the negotiation,
  until one has lost a byte: what it is misread as may set the flag).
  From it `AnsweredOnce`, `AnswerIsReadable` and `NegotiationIsHeard`.
* `CaptureServiceProofs`. Two step simulations: a step of the service is a step
  of `NetherSession` or leaves it alone (`ServiceKeepsSessions`, the refinement
  the run checks, without its fairness), and a step of `CaptureStore` or leaves
  that alone (`ServiceKeepsStore`). So every invariant of either holds of both
  together: `SessionsStayInOrder`, and `ServiceKeepsCaptures` with its
  assumption that the candidate names of two players do not coincide, since here
  every session is a thread. `ToldOnlyWhenSettled` relates the two halves and
  follows from neither: `TellInv` says that a save under way is that of a session
  that waits for it, of its own capture, and that a save without a verdict is
  still under way.
* `ReliableSendProofs`. `NumbersStayUnique` speaks of every frame that has been
  numbered, whether it is held by a task, registered, about to be sent again or on
  the wire, so also of one whose sending failed. It needs, besides types, that
  every number given away lies below the counter of its life, and that lives only
  grow.
  `FlowStaysWithinLimits` needs the types of the flow variables.
  `InFlightStaysCovered` needs, besides, that a frame waiting to be registered
  has a number that is not pending, even when its session was dropped and
  made anew in between.
  `RetriesStayBounded`: every pending message is kept under
  the number of its own frame, no two tasks are about to register one number
  (`SeqInv`), and a frame has been sent again by the timer fewer times than it has
  attempts (`CountInv`). `NothingIsForgotten` cannot speak of `wire` alone: a
  frame a task or a walk is about to transmit may be acknowledged or expire
  first, so `LossInv` covers those (`Out`), and says that an acknowledgement
  settles only numbers that have arrived. It is claimed until numbers come round
  on the wire (`packetSeq <= WireMod`): after that an acknowledgement of a number
  settles a frame that only shares it.
* `FrameReceiveProofs`. `QueueInv` (types of the queues, nothing ready waits, a
  split buffer has some of its parts and lacks another, and none is there without
  a session) gives `QueuesStayInOrder`; that a fragment filled in completes the
  message or leaves a part missing is `FilledLacks`. `LivesAreInOrder`
  is about `log`, but the flush fills `emit` first, so `OrderInv` speaks of
  `Output`, the two in a row, and says that the last entry of a channel's life
  precedes its next index; dispatch does not change `Output`.
  `SourceInv`: a buffered payload is the whole message
  with that channel and index, a split buffer collects one message. It gives
  `MessagesStayWhole`, and needs that split ids are not shared (`WireHasRoom`).
  `AcknowledgedIsAccounted`: `AckInv` extends the property to
  the frames of the datagram in hand. The case that needs care is a payload
  inserted at an index that is occupied: with room on the wire an index belongs
  to one message (`IndexInjective`, by counting), so nothing is overwritten
  that is not the same.
  `ReceivesInTurn`: the path implements `FifoChannel`, which promises order only
  while the network keeps order and nothing has expired, and otherwise only that
  what is handed on was sent. `SentInv` is the second half, over any network:
  whatever is read, collected, buffered or about to be dispatched begins with a
  frame the peer has sent. `FifoInv` is the first: it determines the whole state
  of the path from `Facing`, the frame that is handled next. Only that frame's
  message has a split buffer, with the parts before it; every channel is empty
  and expects the number of its earlier messages; and as many messages have been
  dispatched. The theorem assumes of an orderly peer that it sends at most
  `IndexMod` messages a channel and none of more than `MaxParts` parts
  (`OrderlyFits`): the code drops the latter, and a channel's index does not wrap
  with that of the wire.
* `SessionLifecycleProofs`. What each step does to the table, the calls and the
  logs is stated once for each kind of step (`QuietDoes`, `MarkingDoes`,
  `SendDoes`...), and the invariants follow from that. `TypeCorrect` needs that
  a call in the middle of a packet still has it (`PacketInv`), and says where a
  call is that holds the lock of the table or of the split buffers.
  `LivesStartAtHandshakes` needs that a lone call past its checks still has its
  session unless it has itself dropped it (`HasInv`), `LoginAlwaysEndsLife` that a
  captured session and one that was told goodbye are those a call is about to
  remove (`LoginInv`, `GoodbyeInv`), `CompressedAfterSettings` that a session whose
  flag is set has been sent its settings, or a call is about to send them
  (`CompressInv`).
  These three speak of one datagram at a time, as the properties do, with any
  number of peers, and of any frames and payloads in it. `VersionPairsStayWhole`
  has a part for any number of tasks: until two calls of `sync_client_version` have
  overlapped, there is one writer at most, and what it has written of the pair is
  its own (`SyncInv`). The part for one task follows pairs from the runtime and
  from the requests into the table and the pongs (`PairInv`): each is one of the
  table, or what the cast has made of a number that a peer has named (`PairOf`).
* `ConfigStoreProofs`. What the scans over a string compute is proved for every
  length by induction, written out as an argument from a least counterexample
  (`LeastNat`, `Upwards`, `Downwards`; the library's induction theorems take an
  operator, which the provers cannot instantiate). `ReadBack` is the result: a
  literal of any string goes through the comment stripper unharmed, whatever
  slashes and stars it holds, and is read as that string, or as none if it holds
  a control character. `StoreInv` then says that the file is the user's text,
  torn, or what the program makes of the user's text (`FileInv`), and that the
  program's configuration is the user's, completed (`ConfigInv`). None of the
  three properties is inductive alone: what a start reads is what an earlier one
  wrote. From it `SettingsStayKept`, `RefusalsHaveCause` and `RunsAsTheFileSays`.
  Assumed: the version table holds no blank and no control character
  (`LatestAssumption`), and the marks for a missing or torn thing are no proper
  values (`MarksAssumption`).
* `CodecsProofs`. `WhatIsLeftIsRead`: of a batch of any packets that has lost any
  part of its end, exactly the packets that are all there are read. It rests on
  what a variable integer of any 31-bit value is (`VarIntShape`: at most five
  bytes, only the last below 128, seven bits of the value in each), hence that it
  is read as that value (`VarIntReads`), and that no part of one ends early
  (`VarIntCut`). What is left of the batch agrees with each packet's bytes as far
  as it goes (`PrefixAgrees`), so a packet is read if it is all there
  (`PacketWhole`) and ends the reading if not (`PacketCut`); from the last whole
  packet back to the first this gives what is read (`PrefixParsed`).
  `BitsAreReadBack`: a frame set whose lengths count bits, down to any bit of the
  last byte, is read as it was written, whatever its payloads hold, if no
  fragment is followed by anything. Numbers of two, three and four bytes are read
  back (`TwoBytes`...), so a frame is (`FrameRead`), and one behind the other all
  of them are found (`FrameFound`). `parse_frame_set_with_mode` is a recursion
  over offsets, well defined because a frame ends behind its start
  (`FrameAdvances`, `PathExists`), and what is found is what it returns
  (`FoundAreRead`); it ends with the data, so the reading in bytes is never tried.
  All of this holds for either reading and the lengths meant for it
  (`SetIsFound`), hence `BytesAreReadBack`: a set whose lengths count bytes is
  read as it was written whenever the reading in bits, which comes first, does
  not get to the end of the data, whatever it has found on the way.
  `LoginsAreReadBack`: whichever layout a Login is written in, and whichever are
  tried before it, its tokens are the ones that are read, its protocol is too but
  for 256 and 65536 in big-endian, which are each other's reverse (`Swapped`), and
  what is left of a cut one is no Login. The lengths of the tokens are read back
  as they were written (`AsLe`), and the protocol is, in either order of bytes
  (`AsBe`) or as a variable integer (`ShortVarInt`, `ShortCases`). A layout other than the
  Login's own would have to find two tokens, text with their marks, somewhere
  else. It does not: a length has a zero byte, which tokens have not, and a token
  that began in front of the chain or inside its length would hold one or leave
  the other token no room (`NoTokenInFront`, `NoTokenInHead`, `NoTokensInFront`,
  `NoTokensInside`). So every layout that accepts finds the tokens where they are
  (`Alone`), and only if nothing is missing (`TokensRead`); the Login's own layout
  does (`OwnLayout`). Hence `WholeIsRead` and `CutIsNone`.
  One case is left open, and named in the theorem: a Login of the first layout,
  cut, whose protocol or chain length is 2^16 or more. There the property is not
  true of all Logins: the bytes of such numbers can be read by a layout with a
  variable integer in front as the lengths of tokens within a skin of megabytes
  (protocol 65537 and a chain of 256 bytes are an example of such numbers).
  `SkinsTaken` is arithmetic (`RowsOf64`). `CodecInv` carries all four through
  the steps. Assumed: a frame's fields fit where they are written and those it
  lacks are 0 (`FrameSetsAssumption`); bytes are below 256, a packet's length
  below 2^31, where TLC's integers end (`BatchesAssumption`; parsing refuses more
  than 10 MB before it gets there); a Login's tokens are text without zero bytes,
  JSON with a brace and a token with two full stops, together within those 10 MB
  (`LoginsAssumption`); a skin has pixels (`SkinsAssumption`;
  without, `parse_login_packet` gives up before it asks for a size).

Only model-checked: everything under fairness (`SavesReturn`, `LoginEndsSession`,
`AbandonedSessionEnds`, `LoginBecomesFile`, `RetriesEnd`, `CapturedSessionEnds`,
`CallsReturn`, and the fairness of `ImplementsSessions`), which is out of this
prover's reach; and a part of `FrameSetReadBack` and `LoginReadBack`. The former
also speaks of a lone batch whose length counts bytes, and that it is read back is
not true of payloads that are frames by accident, so that the reading in bits gets
to the end: `BytesAreReadBack` leaves them out, and the run has none. Of
`LoginReadBack`, the case left open above is checked for protocols at the limits
and short tokens.

## 5. What could come next

1. `FrameReceive` with two calls at once: the window between the two locks of
   `drop_connection_state`, and a reopened session; composed with
   `SessionLifecycle`'s table.

## 6. Not modelled

The external transport beyond two channels; bytes of DEFLATE, PNG, base64, JSON
and JWT, and what is picked out of the JSON of a Login: text handling without
state, whose failure is an input of the sessions. Binding of sockets, STUN (not
called), command line, logging, build files. The legacy login fallback in
`raknet/server/bedrock.rs` never runs, because its buffer has been drained
before it, and with it the asynchronous savers of `bedrock/skin.rs`. Congestion
window and bytes in flight are kept by the code but restrict no send; the model
keeps them likewise. An error of `recv` in `handle_session` returns without
closing the session, which the transport library then ends; the model lets the
task end there.
