# A TLA+ model of the HQC / KEMTLS-PDK handshake for MAVLink, and of the link around it

The repository is an extract of an ArduPilot fork in which a flight controller
and a ground station agree on session keys over MAVLink: the ground station
sends an ephemeral HQC-128 public key, the controller answers with two
ciphertexts, one for that key and one for the pre-distributed static key (PDK),
and a FINISH message with an HMAC over the transcript closes the handshake. The
keys encrypt the payload of later messages and sign them. Around the handshake
are the services of ArduPilot's MAVLink library, which the fork carries along:
missions, parameters, file transfer, routing, and the scheduling of what a link
sends.

Paths below are relative to `src/firmware-fork/libraries/` unless they start
with `experiments/` or `Tools/`.

## 1. The system

| Part | Where | State | Operations |
|---|---|---|---|
| Handshake session | `GCS_MAVLINK/GCS_KEMTLS.cpp`, `GCS.h:195-326` | `hqc_`: state, transcript, buffers, ACK vectors, high-water marks, retries, secrets, keys, three timers | `handle_hqc_hello`, `_pk_chunk`, `_ct_ack`, `_finish`, `tick`, `pump_tx`, `kick_acks`, `start_encap`, `reset` |
| KEM wrapper and entropy status | `AP_KEM/ap_kem.cpp`, `randombytes_linux.c` | a sticky "entropy failed" flag | `ap_kem_enc`, `randombytes` |
| PDK file | `AP_KEM/ap_kem_file.cpp`, `GCS_kemtls_bootstrap.cpp`, `Tools/kemtls` | `APM/CFG/kemtls_pk.bin` and its `.new` | atomic save, load, bootstrap copy, the HELLO handler's reads |
| Signing | `GCS_Signing.cpp` | one key per link in memory, key and timestamp in FRAM, streams shared by the links | `enable_signing_with_key`, `handle_setup_signing`, `load_signing_key`, `save_signing_timestamp`, `update_signing_timestamp` |
| Encryption hook | `GCS_KEMTLS.cpp:154-289` | the session's keys, an 8-bit sequence number | `mavlink_get_crypt_config` |
| Nonce counter, replay window | `experiments/nonce_correction/nonce_ctr.c` | 64-bit counter, 64-entry bitmap | `sender_ctx_next`, `replay_window_check_and_update` |
| Mission transfer | `MissionItemProtocol*.cpp` | one upload: peer, link, next item, timers; the three stores | `handle_mission_*`, `update`, `queued_request_send` |
| File transfer | `GCS_FTP.cpp` | request queue, session slots, one reply buffer, descriptors | `handle_file_transfer_protocol`, `worker`, `handle_request`, `push_reply` |
| Parameters | `GCS_Param.cpp` | a list cursor per link, a request and a reply queue for all | `handle_param_*`, `param_io_timer`, `queued_param_send` |
| Routing | `MAVLink_routing.cpp` | table of routes | `check_and_forward`, `learn_route`, `handle_heartbeat`, `send_to_components` |
| Outgoing messages | `GCS_Common.cpp:1280-1830` | buckets, special and pushed messages, stream rates | `update_send`, `set_ap_message_interval`, `find_next_bucket_to_send` |
| Commands under way | `GCS_Common.cpp:1450-1560` | task slots | `get_task`, `check_tasks`, `conclude` |
| Status texts | `GCS_Common.cpp:2490-2730` | one queue for all links | `send_textv`, `service_statustext`, `prune` |
| Serial pass-through | `GCS_Common.cpp:7135-7285` | `_passthru` | `update_passthru`, `passthru_timer` |
| UDP proxy | `Tools/UDP_Proxy/udpproxy.c` | two sockets and their peers | `main_loop` |
| Ground station | not in the repository | | described in `experiments/proxy_c9/DISENO.md`, section 2 |

**How they interact.** The parser of a link calls `handle_message()`
(`GCS_Common.cpp:4601-4620`), which calls the handler of the message;
`update_send()` (`GCS_Common.cpp:1566`) calls `tick()`. Both run on the main
thread, so one handler or one `tick()` is one atomic step, and what interleaves
is *messages*: of this handshake, of an earlier one, repeated, reordered or
lost, with the timers between any two of them. The HELLO handler reads the PDK
file and calls the KEM; the FINISH handler sets the signing key of every link;
`mavlink_get_crypt_config()` reads the keys whenever a message is packed.
Not everything is on the main thread: file transfer has a worker thread, reads of
parameters go through the IO thread, pass-through through a timer. There the models
have a step per hand-over between the threads.

**What is hard.** No handler but FINISH's looks at `hqc_.state`. What keeps the
session sound is spread over the buffers (`rx.pke` and `rx.cte` null or not),
the lengths, the ACK vectors and the session id, which several handlers and two
timers change; a late message meets whatever the last of them left. Secrets,
ciphertext, ACK vector and transcript must be replaced together when a repeated
PK_CHUNK makes the controller encapsulate again. Three pieces of code count the
window. Two streams share one retry map and one retransmission timer. The
entropy source can fail for good in the middle of a session, and arming the
vehicle changes what FINISH can do.

**What makes each part correct.**

- *Session*: keys exist only in an active session and come from its own two
  secrets; it waits for FINISH only when both ciphertexts have been delivered;
  FINISH is checked against a transcript that binds both secrets; late messages
  do not disturb an active session; no secret is used twice; the window is kept;
  a session in progress goes on or is given up.
- *Both ends*: same keys and transcript, and the ground station believes in a
  session only if the controller established it.
- *PDK file*: after a crash at any step, the old or the new file, never a mixture.
- *Signing*: the timestamps used with a key grow across restarts, however peers move
  them; a key on the wire is the key of the link's session.
- *Replay window*: accepts a counter at most once; a counter never wraps.
- *Mission transfer*: one uploader at a time; what is accepted is what was sent; an
  upload ends by completion, refusal or time-out; a fence changes as a whole.
- *File transfer*: nobody reads or writes the file of another client; a request
  repeated for a lost reply is not executed twice; no descriptor is lost.
- *Parameters*: every read is answered to who asked, with a value the parameter had;
  every list is complete.
- *Routing*: messages go where the documented rules say, and do not circulate.
- *Outgoing messages*: buckets, cursor and cache stay consistent; on a link that keeps
  up nothing starves.
- *Commands and texts*: one final answer; texts in order on every link, and none missing
  without having been overwritten or too old.
- *Pass-through*: the ports are given back.

## 2. Modules

| Module | Models |
|---|---|
| `KeyEstablishment` | abstract: what a session promises about keys (open, renew, waste, establish, close) |
| `HqcSession` | the controller's session with an open peer: every message at any time |
| `HqcSessionProofs` | theorems about `HqcSession` |
| `HqcGroundStation` | an honest ground station (external) |
| `HqcLink` | `HqcSession` and `HqcGroundStation` composed over a network |
| `HqcLinkProofs` | theorems about `HqcLink` |
| `PkBuffer` | the bytes under the fragments of the ephemeral key |
| `ApKem`, `PdkFile`, `Signing`, `ReplayWindow` | randomness and KEM wrapper; key file on a file system with crashes; signing keys and timestamps across restarts; nonce counter and replay window |
| `ReplayFilter` | abstract: what a replay window promises |
| `KeysProofs` | theorems about them, alone and together |
| `MissionItems`, `MissionItemsProofs` | the upload of mission, fence or rally items, and theorems |
| `Ftp`, `ParamQueue`, `Routing`, `Streams`, `Tasks`, `Texts`, `Passthru` | the services of a link |
| `FtpProofs`, `ParamQueueProofs`, `ServicesProofs` | theorems about them: file transfer; parameters; the others, `PkBuffer`, and all of them composed |
| `OrderLemmas` | lemmas: the smallest and the n-th of a set of numbers, functions that go a step further at each number |
| `MC_HqcSession`, `MC_HqcLink`, `MC_Mission` | instances for TLC |
| `MC_Keys`, `MC_Services` | several modules in one instance each: they share no state, so a behaviour chooses one (`part`) and the others stay as they began |

### From the code to `HqcSession`

| Variable | Code |
|---|---|
| `state`, `sid`, `aead` | `hqc_.state`, `rx.session_id`, `hqc_.aead_alg` |
| `th` | `hqc_.th`: the records hashed into it, in order (a hash of a sequence is the sequence) |
| `pke`, `pkeAcked` | `rx.pke` allocated; `rx.pke_acked` |
| `ct`, `ctLen` | `rx.cte`, `rx.cts` (null, or which encapsulation filled them); their lengths non-zero |
| `acked`, `sent` | the ACK vectors; the chunks below `rx.cte_sent` and `rx.cts_sent` |
| `retries` | `rx.retries`, shared by the streams as in the code; 8-bit |
| `ss`, `keys`, `signKey` | `rx.ss_e`, `rx.ss_s`; `ms`, `k_*`, `iv_*`, `k_chacha_*` as the secrets they came from; the links' `signing.secret_key` |
| `armed`, `entropyFailed` | `hal.util->get_soft_armed()`, `ap_kem_entropy_failed()` |
| `encs` | encapsulations so far (names them, and bounds the run) |
| `out` | the messages the last step sent |

One action per way through a handler: `HelloAccept` and `HelloRefuse`;
`PkChunkRefused`, `PkChunkStored` and `PkChunkComplete` (with `EncapsulateOk` or
`EncapsulateFail`); `CtAckIgnored` and `CtAck`; `FinishRefused`,
`FinishMalformed`, `FinishRejected` and `FinishAccepted`; `TickExpire` (20 s),
`TickGiveUp` (retries used up) and `Tick` (pump, then nudge). The intermediate
states HELLO_RCVD, PK_RX, ENCAP_READY and ENCAP_DONE exist only inside a handler
(`SessionInv` proves that no handler leaves the session in one).

Abstractions, and why they are safe:

- *Chunks.* Offsets are counted in MTUs. HELLO cannot change the MTU (220) or the
  window (8): `HqcRxBuf` starts with those and `clamp_kex_params()` leaves them.
  The high-water mark is the set of chunks below it. An ACK's base and 32-bit mask
  are the set of chunks acknowledged, any subset: 11 fragments and 21 chunks fit.
- *Bursts.* `Smallest(S, n)` is the set of chunks a loop visits that walks the
  chunks in order and stops after `n`; so `AckBurst`, `Pumped`, `Stalled` and
  `Nudged` are the loops of `handle_hqc_ct_ack()`, `pump_stream()` and
  `kick_acks()`.
- *Time.* `tick()` may find any RTO and the nudge elapsed, or not; the shared
  `t_last_tx` is kept in `StaDue`: if the ephemeral stream sends, the static one
  is not due. TLC and the proofs thus cover every clock.
- *Cryptography.* A ciphertext, and the secret in it, is the number of its
  encapsulation; keys are the pair of secrets; a tag is the pair and the
  transcript. `BadTag` stands for every tag that does not verify.
- *Failures.* malloc, the PDK file and the KEM may fail where the code checks
  them; `Junk` is a ciphertext buffer that a failed `ap_kem_enc()` filled.

Not covered by the abstraction: fragments that no ground station would cut (shorter
than a slot, but not the last), and a session with id 0, the value `reset()` leaves in
`rx.session_id`. Offsets, the last fragment, base and mask are `PkBuffer`'s, which
has the handler's arithmetic in bytes.

### From the code to `HqcLink`

`HqcGroundStation` is external. It is honest: fresh session ids, whole
fragments, an ACK for every CT_CHUNK with what it holds of that stream, FINISH
when it holds both ciphertexts, decapsulation that fails (`Junk`) when the
chunks it assembled are of different ciphertexts. The history `left` has the sessions
that an ACTIVE controller left for a HELLO. The link keeps messages in a
set per direction. With `Duplicates` nothing is ever removed, which is loss,
repetition and reordering at once. Without, a message is delivered once, up to
`MaxLoss` chunks or ACKs are lost, and a FINISH does not overtake ACKs.

### From the code to the modules about keys

- `ApKem`: `buffer` is the caller's buffer in `Bytes` parts, `source` the place inside
  `randombytes()`, `failed` is `s_entropy_failed`, `op` the PQClean operation under way
  and its draws to come. `KemGets` is a `getrandom()` or `read()` that returns some
  bytes; `KemFallsBack` and `KemFails` are the two `break`s and the zeroing.
- `PdkFile`: one action per system call of `save_kemtls_pk_atomic()` and of the
  bootstrap copy (`writer.step` is the next one), each of which may fail where the code
  looks at the result, or be ignored where it does not. The file system is as weak as
  POSIX allows: `dirs` are the directories a crash may leave, `sure` how much of a file
  is on disk. `PdkRead` is what a HELLO finds after the checks on length and checksum.
- `Signing`: `fram` is the stored `SigningKey`, `signer` a link's `signing` structure.
  Time is counted in ticks of the timestamp. The MAVLink library (external) moves a
  timestamp on for each message signed, by at most a tick per tick (`Tick`), and takes over
  that of a peer that is ahead, by any of `Leads` (`TakeOver`). `HeartbeatSave` is the periodic `save_signing_timestamp()`,
  which may be `HeartbeatPeriod` late; `GpsTime` is `update_signing_timestamp()`;
  `EnableSigningWithKey` is what FINISH does to every link; `Restart` loads from FRAM.
- `ReplayWindow`: the bitmap is the set of its one bits. `AfterNext` is
  `sender_ctx_next()` with its exhaustion, and `FirstSeen`, `Ahead`, `Refused` and
  `Reordered` are the ways through `replay_window_check_and_update()`. The network
  keeps every packet for ever.

### From the code to `MissionItems`

One protocol object (`kind` is mission, fence or rally). `upload` is its state,
`requestQueued` the pushed deferred message, `sinceItem` and `sinceRequest` the two
timers, `stored` the vehicle's items; an item is the upload it came from and its
number, so that mixtures show. One action per message (`MissionCount`,
`WritePartialList`, `MissionItem`, ...), and `UploadTimesOut`, `Resend`,
`QueuedRequestSend` for `update()` and the deferred message. The stores differ where
the code does: mission and rally cut the store when the count arrives, a fence collects
its items aside (`upload.items`) and is written in `LastItem`. Ground stations and
FIFO links that lose messages are external. Two histories, `unheard` and `done`, say
which upload was accepted last; see "What the checks show" for `unheard`.

### From the code to the services

- `Ftp`: `requests` is the queue between the links and the worker, `sessions` the
  slots, `reply` the one buffer. `Handle` is a round of `worker()` up to the point where
  the reply waits for room (`pushing`), `PushReply` the rest. `Claimed`, `IsRepeat` and
  `Serve...` are the parts of the code they are named after. A client numbers requests
  and repeats them as MAVFTP clients do (external).
- `ParamQueue`: `RequestRead`, `IoRead`, `IoPush`, `QueuedParamSend` are the three
  threads of a read; the value is taken in `IoRead` (finding the parameter and reading it,
  `GCS_Param.cpp:388-405`, are one step) and queued in `IoPush`. `Ahead` is
  what `AP_Param::next_scalar()` (external) still finds.
- `Routing`: `Route` is what `packetReceived()` does with a message. The messages of
  every kind and target are quantified over in the properties, not enumerated as steps:
  what is learned depends on sender and link only. A node that calls itself all
  components of our system is among the senders: `learn_route()` keeps no route to it.
- `Streams`: one action per message sent by `update_send()`; `Scheduled`, `Removed`
  and `FindNextBucket` are the functions of those names, applied to buckets, cursor and
  messages left as one value. The loops that set many intervals (`WithIntervals`,
  `WithStreams`, `FromFiles`) are recursive functions over the arrays they run through.
  Clocks are kept as the time since, modulo `Wrap`. Time may pass whatever is due:
  `update_send()` leaves its loop when the link has no room or the loop no time.
- `Tasks`: slots of `GCS_MAVLINK_InProgress`; `CheckTasks(room)` is a round of
  `check_tasks()` in which the links of `room` have space.
- `Texts`: `SendText`, `ServiceStatustext`, `Prune` on the one queue. `Served` and
  `Picked` are the loop in which entries move up. The histories `made`, `shown` and
  `lost` have, per link, the chunks meant for it, those it was sent, and those that were
  overwritten or older than 5 s. Until the first `UpdateSend` texts are for every link.
- `PkBuffer`: `HandleChunk` with offsets and counts in bytes, for keys whose length
  is and is not a multiple of the MTU.
- `Passthru`: `PassthruTimer` on the timer thread, the other actions on the main
  thread; a rate or a parity is the port's own or another. `get_passthru()` is external:
  that it fills `baud1` and `baud2` with the configured rates also when it returns false is
  an assumption, since `update_passthru()` leaves them uninitialised
  (`GCS_Common.cpp:7145`) and restores the ports from them.

## 3. Runs

| Run | Specification | Checks | Size |
|---|---|---|---|
| `session` | `HqcSession!Spec`, open peer | `TypeOK`, `AckedBeforeFinish`, `WindowBound`, `TranscriptBindsSecrets`, `KeysOnlyWhenActive`, `ActiveUndisturbed`, `FreshKeys`, refinement `KeysEstablished` | 108 708 states |
| `link` | `LinkSpec`, `Duplicates = TRUE` | `Agreement`, `DoneTogether` | 433 526 states |
| `link_once` | `LinkFairSpec`, `MaxLoss = 2` | `NotRejected`, `StreamsSettle` | 18 300 states |
| `keys` | `MC_Keys!Spec` | `KeysTypeOK`, `NoTimestampTwice`, `NeverTorn`, `SaveIsDurable`, `RandomOrZero`, `ResultJustified`, `NoncesUnique`, `BitmapExact`, refinement `WindowIsFilter` | 2 517 885 states |
| `mission` | `MissionFairSpec` | `MissionTypeOK`, `AcceptedAsSent`, `Mutex`, `FenceAtomic`, `UploadEnds` | 1 091 183 states |
| `services` | `MC_Services!Spec` | `ServicesTypeOK`, `OwnFile`, `RepeatAnswered`, `FilesEndClosed` (file transfer); `AnswersToAsker`, `ListComplete` (parameters); `RoutedByTheory`, `HeartbeatsDontEcho` (routing); `BucketsConsistent`, `NothingStarves` (streams); `TextsInOrder` (texts); `OneFinalAck` (commands); `PkWhole`; `PortsReleased` | 526 348 states |
| `link_pk` | as `link` | `OnePkSummary` is violated | |
| `session_fail` | as `session` | `FailNotResumed` is violated | |
| `session_signing` | as `session` | `ActiveSigns` is violated | |
| `keys_replay` | as `keys` | `ReplayClosed` is violated | |
| `mission_download` | as `mission` | `DownloadBlocked` is violated | |
| `mission_internal` | as `mission` | `NoInternalError` is violated | |

Deadlock is not checked: every counter is bounded, so a behaviour that has used
its encapsulations, requests, boots or ticks may stop, and the real system rests when
nobody asks it for anything.

**Bounds.** Two session ids tell a message of this session from one of another.
Two fragments make a key that is complete, incomplete, or completed out of order.
Three chunks with a window of two leave one chunk outside the window, so that an
ACK can resend, advance, or both; `MaxRetries = 1` makes retries run out.
Three encapsulations are a static one, an ephemeral one and a third that is
either the repeated PK_CHUNK or the next HELLO. The theorems do not depend on any
of these bounds. In `link` and `link_once` two chunks and a window of one keep
"in flight", "waiting" and "acknowledged" apart; there the open choices are in
the network, and two sessions let messages of the first arrive in the second.

In `keys`: a save every two ticks with a margin of four keeps the proportion of the
code's 30 s and one minute, and the heartbeat may be a tick late; two restarts make a
timestamp loaded twice possible; link `l2` has signing disabled and gets a key only from
a handshake. A peer may be three ahead, again and again up to `MaxTimestamp`: less than
the margin, and with time gone by or twice, more. Two saves and two crashes let a crash fall between any two system calls
of a save that follows another, three inodes are the file, its successor and one left
behind. Three parts of a request for randomness end it at the beginning, inside and at
the end. A window of three bits with counters up to seven has jumps shorter than,
equal to and longer than the window, and counters at both of its edges.

In `mission`: two ground stations, of which one also downloads, and two uploads, so
that one can be in another's way or start over; two items and an oversized count; an
item that does not convert; one message lost; links that hold one message, so that
answers are dropped and requests are queued; a partial upload that starts inside.

In `services`: one slot for two clients of file transfer forces claiming and
refusal, a kill time-out longer than the session time-out keeps "may be claimed" and
"is closed" apart, and one of the two files has the content that reads as
NoSessionsAvailable. The clients ask for ten of the operations; writing without
creating, listing and checksums differ from these only in their error codes. Two
parameters are the one that enables and the one that is hidden; the reply queue holds
one answer. Three links, one of them private, five nodes (one of them
calls itself all components of our system) and a table of two routes:
full and not full. Three buckets for three streamed messages with intervals of one, two and
three, so that messages share a bucket, move, and leave one empty, and two buckets and the
heartbeat can be due ahead of the third; clocks wrap at five; an interval changes, or
everything slows down, or a message is pushed, once. One task slot for two askers. Four chunks
of text, one or two to a text, in a queue of two: the end of a text, or a whole one between
two others, is overwritten or pruned while one link has it and the other has not. Key
lengths and MTUs with every remainder, and a mask shorter than the key.

**Fairness** (`LinkFairness`, only for `StreamsSettle`). The parser and
`update_send()` are called for ever on both ends, so a message in transit is
handled (`FcReceive`, `GcsReceive`), and the ground station starts and finishes
(`GcsStart`, `GcsFinish`). `Retransmit` is a `tick()` that sends or gives up:
with nothing else happening, `t_last_tx` ages until an RTO has elapsed and
`t_last_rx` until the nudge is due. `TickExpire` has no fairness: the 20 s limit
is not what makes the streams progress. Loss is bounded by `MaxLoss`.

The others: `MissionFairness` (for `UploadEnds`) has the main loop run `update()` and
time go on, and asks nothing of stations and links. In `MC_Services`, the FTP worker's
thread runs and every link has room at last, which `push_reply()` waits for
(`FilesEndClosed` is about links that fall silent); `update_send()` is called again and
again, with a link that has room for another message at last, and time passes
(`NothingStarves`); calibration and formatting end, `check_tasks()` is called and finds
room at last (`OneFinalAck`). A part at rest is asked for nothing.

`NothingStarves` has premises of its own, because the code keeps no such promise on a link
that is behind for good: `find_next_bucket_to_send()` counts every overdue bucket as due
in 0 ms and takes the first, so two of them keep a third out. From some time on the link
must have sent all that was due again and again, after at most `MaxLate` ticks in a row
with something due (it may fall behind again as often as it likes; without a bound a
clock of 16 bits wraps and what was late no longer looks so), and delay callbacks must
have stopped claiming to have sent what they did not (`Skipped`).

## 4. What is proved

`HqcSessionProofs` proves, for all values of the constants, from
`SessionIdsAssumption` (ids are non-zero naturals), `AeadOffersAssumption` and
`SizesAssumption` (sizes are positive naturals):

- `TypeCorrect`: `Spec => []TypeOK`. One lemma per handler; `ResetTypes` and
  `BurstsAreChunks` carry the parts they share.
- `WindowInvariant`: `Spec => []WindowBound`. `WindowBound` is not inductive: a
  burst moves the high-water mark to its last chunk, and if it skipped chunks
  below, they would be in flight without having been counted. The strengthening
  `SentIsPrefix` (what is below the mark has no gaps) gives, with
  `SmallestDownward` (a burst has no gaps either among the chunks it may send),
  that after a burst only what was in flight and what the burst counted is in
  flight. `SmallestCardinality` bounds the burst: the map from a chunk to the
  number of candidates before it is injective.
- `SessionInvariant`: `SessionInv`, inductive with `TypeOK`, says what a closed
  session holds (nothing), that a ciphertext with a length has its secret and,
  until FINISH, its buffer, what the transcript of an open session begins with,
  and that secrets not yet used are newer than those of the signing key. The two
  facts the late messages meet are in it: an ACTIVE session has neither `rx.pke`
  nor ciphertext buffers, which is all that makes PK_CHUNK and CT_ACK harmless
  there. From it: `AckedInvariant`, `KeysInvariant`, `TranscriptInvariant`,
  `KeysAreFresh`, `ActiveIsUndisturbed`.
- `Implementation`: `Spec => KE!Spec`, the refinement of `KeyEstablishment`, with
  `SessionPhase` for the phase, the two secrets, the keys and `encs`.

`HqcLinkProofs`, from the same assumptions and that the ground station offers an
algorithm the code knows, for networks with and without `Duplicates`:

- `EndsAgree`: `LinkSpec => []Agreement`. The invariant
  `AgreeInv` says that a FINISH in transit for the current session is the ground
  station's own, made when it held both ciphertexts in full, and that nothing it was
  made of changes afterwards (`Committed`); that a transcript long enough to be FINISHed
  names the algorithm in use; and that an active session has no buffers a late message
  could be for. Agreement at the moment of acceptance follows from the tag; the rest is
  that neither end moves afterwards.

- `EndsAreDoneTogether`: `LinkSpec => []DoneTogether`: a ground station told OK was told so
  by a controller that had accepted its FINISH. Every OK in transit is of a session that is
  established (`Established`: ACTIVE now, or in `left`), and that stays so
  (`EstablishedStays`), because an ACTIVE session ends only in a HELLO; the lemmas before
  it go through the handlers for which say OK (`OkSaidByActive`) and which do not.
- `HonestNotRejected`: `~Duplicates => (LinkSpec => []NotRejected)`. `HonestInv`: HELLO, its
  answer and each fragment are met once (`HelloFirst`, `HelloAckOnce`, `PkChunkOnce`), so
  the key is completed and encapsulated to once; the transcript is the one the ground
  station expects, as far as it goes (`TranscriptAsSent`), and every chunk on its way or
  received is of the ciphertext made for the secret at hand (`CiphertextsAsSent`). With
  `Duplicates` it fails: that is finding 1 below.

The others hold for every value of the constants that satisfies the assumption named
in the module (`SigningAssumption`, `PdkAssumption`, ...: sizes, limits and times are
numbers, ids differ from one another).

`KeysProofs`:

- `BitmapInvariant` (`BitmapExact` is inductive with the types),
  `WindowImplementsFilter` from it, case by case of the four ways out; and
  `NoncesAreUnique`, which needs that every packet on the wire is older than the sender.
- `KemResultsAreJustified` (a weak draw has set the flag, and an operation that returns
  true did not find it) and `BufferIsRandomOrZero` (inductive as it stands: once the last
  part is delivered every part is random, and a failure sets the status and zeroes them
  all).
- `KeyFileNeverTorn`, `SavesAreDurable`. `PdkInv` says of *every* directory a crash may
  leave that its key file is on disk in full (unless its `fsync()` failed unnoticed) and
  that it is not the temporary file now being written.
- `TimestampsAreNew`. `NoTimestampTwice` is not inductive: what a restart will load is in
  FRAM. `SigningInv` bounds the distance of what was used from FRAM by the time since the
  last save and what peers added to it since (`NearFram`), and by the margin once the key
  has left memory (`Covered`). Both need a save of this boot, and a key that does not leave
  memory when peers have taken it past the margin: `forgotten` says that one of these
  failed, the property excepts it, and it is why `ReplayClosed` fails.
- `KeysTyped`: the types of the four, for `MC_Keys!Spec`, in which they are composed: a
  behaviour of the four is a behaviour of each (`EachStepsAlone`).

`MissionItemsProofs`, for any number of stations, items and losses:

- `UploadIsMutex`, `FenceIsAtomic`, `MissionTyped`. `MissionInv` is the shape of the upload
  and of the messages, `StoreTypes` that of what is stored.
- `AcceptedIsWhatWasSent`. Items carry no upload id, so `AcceptInv` is about the links:
  items come after the MISSION_COUNT or partial list that announces their upload
  (`SaidInOrder`); to an upload under way only its own items arrive, unless another was
  announced before them (`OfOneUpload`); and what was taken so far is its own
  (`UnderWay`). The exceptions of the property are in the history (`unheard`), and the
  invariant has them too.

`FtpProofs`, for any clients, slots, descriptors, files and time-outs:

- `RepliesAreAboutOwnFiles`. `OwnFile` speaks of one reply; `FtpInv` of every slot: a
  client's session is in one slot only (`OneSlot`), a descriptor in one session only
  (`OneDescriptor`), and the file behind it is the one the session's client opened last
  (`SlotsOwn`). Claiming an idle slot, killing a silent one and resetting close the
  descriptor before it is used again, which is what keeps the second.
- `RepeatsAreAnswered`, an action property. `ReplyIsLast`: the one reply buffer
  answers the request served last, and the slot that knows its session still exists.

`ParamQueueProofs`, for any parameters, links and queue lengths:

- `ReadsAreAnswered`. `ReadInv` follows a read through its threads: until it is answered it
  is in one queue, or in the IO thread's hands, at a time; and what it may be told always
  includes what it would be told now (`MayBeCurrent`).
- `ListsAreComplete`, `ParamsTyped`. `ListInv` says of the cursor of a list under way that
  the parameters sent are numbered and ascend, that none visible all along lies before
  the cursor unsent (`NoneMissed`), and that, unless the group appeared or vanished, as
  many were sent as there are visible ones before the cursor, of as many as were
  announced (`AsAnnounced`). Counting them is what `OrderLemmas` is for.

`ServicesProofs`:

- `PortsAreReleased`. A port runs at another rate only if that rate is noted and
  pass-through is on, so that disabling finds what it has to restore.
- `MessagesAreRoutedByTheory`, `NothingEchoes`, `RoutesTyped`. `RoutingInv`: every route
  is to someone heard on its link; with the premise of `RoutedByTheory` that the table has
  had room for all, it is exactly who was heard, and one pass over the table decides what
  the theory says. The proof failed for a sender that calls itself all components of our
  own system, for which `learn_route()` keeps no route; `Known` now leaves it out, and the
  run has such a node.
- `KeyIsWhole`, for every key length and MTU, by the arithmetic of fragments: the bytes
  received are the union of the fragments acknowledged, and the contiguous length ends
  at the first fragment missing (`PkInv`).
- `TextsAreInOrder`, `TextsTyped`. `TextsInv` relates the queue to what was made for each
  link: entries are in order, what waits for a link comes after all it was shown, and
  every chunk made for it was shown, was lost, or waits (`AllAccounted`); so what is
  missing before a chunk that was shown does not wait, and was lost.
- `EndsAreToldOnce` (`EndToldOnce` is the safety half of `OneFinalAck`), `TasksTyped`.
  `TasksInv`: a slot refers to a command that has been told IN_PROGRESS and nothing after
  it, and no two slots refer to one command.
- `BucketsStayConsistent`, `StreamsTyped`. `Consistent` is the set of schedules that
  `BucketsConsistent` describes, with their types; every function that changes a
  schedule is proved to stay in it (`ScheduledConsistent`, `RemovedConsistent`,
  `FindsNextBucket`, `ChosenIsBucket`: there always is a bucket to put a message in), then
  the loops over streams and files, which may be of any length, then the actions. What
  the loops compute is a recursive function; `RunsExist` and `StepsStay` (in `OrderLemmas`)
  give that it exists and that it stays in a set its steps do not leave, by the smallest
  number for which it would fail, so no induction theorem with an operator parameter is
  needed.
- `ServicesTyped`: the types of all eight, for `MC_Services!Spec` (`EachAlone`).

Every invariant, and every property of steps, that a run checks is proved. Only
model-checked is liveness (`StreamsSettle`, `UploadEnds`, `FilesEndClosed`,
`NothingStarves`, the second half of `OneFinalAck`), with the fairness it needs, which is
out of the prover's reach; and of course what the runs refute.

## 5. What the checks show

The handshake's key management is sound against any sequence of messages, time-outs
and failures. Six statements of the code's own comments and assertions are not kept:

1. **A repeated PK_CHUNK encapsulates again** (`link_pk`, `GCS_KEMTLS.cpp:776`). The
   completion branch is entered for every fragment received after the key is
   complete. `Agreement` still holds, because FINISH is then rejected: one
   duplicate turns an honest handshake into HQC_KEX_REJECTED. `NotRejected`
   therefore holds only on a link that repeats nothing.
2. **FAIL is left by a CT_ACK** (`session_fail`, `GCS_KEMTLS.cpp:879`). If the
   encapsulation for a repeated PK_CHUNK fails, the previous ciphertext and secret
   stay and its ACKs take the session to WAIT_CF. In the code the transcript then
   lacks the second ciphertext, so an honest FINISH is rejected; the comment of
   `ap_kem.cpp` that the session stops in FAIL does not hold. (For the same failure
   of the *static* encapsulation the state is IDLE, not FAIL.)
3. **ACTIVE without signing** (`session_signing`, `GCS_KEMTLS.cpp:943`). While
   the vehicle is armed the signing key is refused, and nobody looks.
4. **Timestamps used again** (`keys_replay`, `GCS_Signing.cpp:143`). The minute that a
   restart skips covers only what was used since a save, and until the first save (up to
   30 s after a boot) each restart begins at the same timestamp. The same happens when a
   peer whose timestamp was taken over is ahead by more than is left of the minute and the
   power goes before the next save. `NoTimestampTwice`, which excepts just these, is what
   holds.
5. **Download during an upload** (`mission_download`, `MissionItemProtocol.cpp:183`).
   MISSION_REQUEST is answered in a state in which downloading "is blocked".
6. **An internal error from legal messages** (`mission_internal`,
   `MissionItemProtocol_Fence.cpp:147`). A partial write from 0 to 0 to an empty fence
   allocates nothing, and the item it asks for is an INTERNAL_ERROR.

Exceptions that properties state, and why: `AcceptedAsSent` excepts an upload whose
MISSION_COUNT was lost, or whose MISSION_WRITE_PARTIAL_LIST was refused, while an
earlier upload of the same station went on: items carry no upload id, so the vehicle
takes the new items for the old ones. `NeverTorn` excepts a first copy whose `fsync()`
failed unnoticed. `RepeatAnswered` excepts bursts, whose replies are numbered past the
request, and replies whose first byte reads as NoSessionsAvailable
(`GCS_FTP.cpp:810`), which are executed again; and it is about a repeat that follows the
request directly: the worker keeps one reply for all clients, so a repeat that comes after
another client's request has been served is executed a second time.

Also seen while modelling: `passthru_timer()` overwrites `parity1` and `parity2`, so
"Restore original parity" (`GCS_Common.cpp:7175`) compares a parity with itself and a
port that followed the USB host keeps its parity (`PortsReleased` is about rates and
locks only); MAVFTP's sequence number plus one is compared in 32 bits, so request
65535 is never recognised as repeated; the worker of file transfer waits for one link
while the others' requests wait; a read of a parameter may be answered after a
PARAM_SET with the value from before it (`AnswersToAsker` allows any value since the
request). An ACK resends chunks in flight whenever the window has
room, which agrees with the about 2.3 transmissions per chunk that
`experiments/energy_reanalysis/TRAZABILIDAD_handshake.md` measured; and a FINISH
repeated after its OK was lost is answered IN_PROGRESS.

## 6. Not modelled, and the plan

Next, each with its own module:

1. `HqcTimers`: a discrete clock for RTO back-off, nudge and 20 s limit, refining
   the nondeterministic `due` of `Tick`; every session that is not active ends in
   bounded time.
2. `UdpProxy`: the desktop proxy's `select()` loop with two peers.
3. Two handshakes on two links composed with `Signing`: whose key a link signs with.
4. The keystream of `mavlink_get_crypt_config()`: which block counters two messages of a
   session share.
5. Proofs: abstract specifications of the services and their refinement (a text queue
   per link for `Texts`, a set of scheduled messages for `Streams`), and the safety that
   the liveness properties rest on: that a step which leads to the promised state is
   enabled whenever it is waited for.

Modelled, but exercised by no run: the `openWO`, `list`, `crc`, `none`, `ack` and
`truncate` operations of `Ftp`, which the constant `Asking` leaves out of the run to
keep it within minutes; and the rally items of `MissionItems`, which go through the
same actions as a mission's.

Left out for good: the vendored HQC implementation (symbolic here); message packing and
formatting, which most of `GCS_Common.cpp` and `GCS.h` is; commands that call
libraries outside the repository (fence, rally, servo, device operations); parameter
tables and stubs; serial control, which is blocking I/O inside one handler (its loop at
`GCS_serial_control.cpp:129` compares the room with the whole packet, not with what is
left); the key packer and the measurement experiments, which have no state.
