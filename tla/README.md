# A TLA+ development of jay-sip

jay-sip is an Android SIP phone: call control over the JAIN-SIP stack
(`de.tinysip.sip`), audio capture, coding and playback over RTP (`jay.media`,
`jay.dencode`, `jay.codec`, `org.sipdroid.net`, native codecs in `jni/`), and
STUN discovery of the NAT in front of it (`de.tinysip.stun`, `javawi.jstun`).
The repository has no tests; its documentation is javadoc and comments. Paths
below are relative to `src/src/` of the repository.

## Inventory

| Component | State | Operations | Interacts with | What is hard | What makes it correct |
|---|---|---|---|---|---|
| Call control: `SipService`, `SipMessageHandler`, `SipManager` | state, session, contact, request; transactions, dialog, Call-ID, sequence | buttons (register, call, accept, decline, end) and the SipListener callbacks | JAIN-SIP stack (events in, messages out), UI | events in any order, responses matched on the state alone, failing sends that skip the clean-up, UI and event thread without a lock | answers reach the call that is shown; an established call has a live dialog; ACKs match their INVITE; one call at a time |
| SIP data: `LocalSipProfile`, `SipSession`, `SipContact`, `AuthorizationDigest`, formats | values | getters, setters, parsing, digest | call control | format negotiation, strings | the negotiated list is what both sides support, in the local order |
| User interface: `JaySipActivity` | buttons, receiver | click handlers | call control, media, STUN | every button is enabled at every time | - |
| Media control: `MediaService`, `MediaManager` | sockets, the two audio threads | startAudio, stopAudio | UI, capture, playback | restart while old threads still end | a stop ends both threads; an old thread never touches a new one's objects |
| Capture and playback: `LanAudioRecord`, `LanAudioPlay` | flags, timing, sequence numbers | run loops | RTP, workers | lost, late and repeated packets; transfer-time control | no packet is played twice; the gap count is right across the wrap |
| Workers: `Encoder`, `Decoder`, `EchoCancellation` | input slot, queue, idle flag, running flag | startThread, stopThread, putData, getData, run | capture, playback | wait/notify, flags read outside the monitor, restart | every stopped worker ends; no frame lost or overwritten between threads |
| Codecs: `Codec` and subclasses, `jni/*.cpp` | a global reference count | open, encode, decode, close | workers | unbalanced open and close | native state lives as long as a user |
| RTP: `RtpPacket`, `RtpSocket` | packet bytes, latched peer | send, receive, accessors | capture, playback | latching to the first sender, sign of bytes | a header reads back as it was written |
| STUN: `STUNDiscoveryTask`, `DiscoveryTest`, `BindingLifetimeTest` | addresses, timeouts | test1, test2, test1Redo, test3, binary search | UI | retries, late answers | the classification follows the answers; the searches end |
| STUN messages: `javawi.jstun.header`, `attribute`, `util` | bytes | parse, build | STUN tests | lengths, padding | - |
| Bundled code: Speex, spandsp, NIST SDP, sipdroid leftovers | - | - | - | vendored | not this project's subject |

The hazards, each at its line, are in `PROJECT.json`.

## Modules

| Module | Models |
|---|---|
| `SipService` | call control: `SipService.java`, `SipMessageHandler.java`, the call functions of `SipManager.java`, and the buttons that call them |
| `CallLine` | abstract specification: a line used by at most one call |
| `MCSipService` | symmetry of INVITEs and transactions for TLC |
| `SipServiceProofs` | theorems about `SipService`, for all values of its constants |
| `EchoCancellation` | the echo canceller's worker: monitor, input queues, stop and restart of its thread (`EchoCancellation.java`, and `MediaService` as far as it starts and stops it) |
| `FrameQueue` | abstract specification: frames leave in the order they came, once each |
| `EchoCancellationProofs` | theorems about `EchoCancellation` |
| `VoiceThreads` | the capture threads and Encoder workers of successive calls, and the objects they share (`MediaService`, `LanAudioRecord`, `Encoder`) |
| `VoiceSending` | the way of a frame from the microphone to the network: ring, Encoder, echo canceller (`LanAudioRecord`, `Encoder`, `EchoCancellation`) |
| `VoiceChannel` | abstract specification of each half of a call: what is heard was said, and comes in order until a named disorder |
| `CancellerSide` | abstract specification of one side of the echo canceller: a queue from which a pass takes one frame |
| `VoiceCall` | the two halves of a call put together, with the theorem that they make one channel |
| `VoicePlayback` | the way of a packet from the network to the speaker (`RtpSocket`, `RtpPacket`, `LanAudioPlay`, `Decoder`) |
| `SpeexJni` | the native codec states and their count (`jni/speex_jni.cpp`; `g722_jni.cpp` counts in the same way) |
| `StunDiscovery` | the tests of `DiscoveryTest`, the task that runs them and the activity's reaction |
| `VoiceThreadsProofs`, `VoiceSendingProofs`, `VoicePlaybackProofs`, `SpeexJniProofs`, `StunDiscoveryProofs` | theorems about these modules |

`EchoCancellation`, `VoiceThreads` and `VoiceSending` look at the same workers
from three sides: who is woken, whose objects they use, and which frame they
carry. `VoiceSending` has the canceller as one queue from which a pass takes one
frame; that the canceller with all its threads, stops and restarts looks like
that is the theorem `EchoSides`. In the same way `VoiceSending` and
`VoicePlayback` meet in `VoiceChannel`: each is shown to implement it, and
`VoiceCall` composes the two promises, packet by packet, into the one that the far
end hears what the near end says in order.

### How SipService corresponds to the code

The variables `state`, `session`, `contact`, `request` are `currentState`,
`currentSession`, `currentContact`, `currentRequest` of `SipService`;
`serverTx`, `clientTx`, `dialog`, `callID`, `callSeq` are the fields of
`SipMessageHandler`; `handler` says whether that object exists. A session is
named by the INVITE or the client transaction it was made from, a Call-ID by
the first transaction that used it. `invite` and `tx` are what the stack and
the remote parties know: for each INVITE the last answer it got, for each own
transaction its method, Call-ID, CSeq, the CSeq of the ACK, and its phase.

An action is one whole handler with everything it calls. `DeclineCall` and
`HangUp`/`Cancel` are `SipManager.declineCall`/`endCall`: the send and, when it
did not throw, the reset. The branches of `processRequest` for INVITE are
`RecvInviteBusy`, `RecvInviteUnusable` (no usable description), `...NoCodec`,
`...ForUs`, `...NotFound`. `RecvRinging` and `RecvOK` share `ProcessOK`, since
`case 180` has no `break`. A handler whose call throws keeps what it assigned
before and skips the rest; the catch blocks of the listener set `ERROR`. A
button whose call throws before it changed anything (BYE without a live
dialog) is no step.

`sendInvite` may throw at two places. After line 545 the new Call-ID is taken, and
`InviteFailed` spends a transaction for it. Before that (addresses, URIs, Via) it
leaves `currentCallID` and `clientTransaction` as they were, while
`SipService.sendInvite` has made the state CALLING and dropped the session already:
the Call-ID, dialog and raised `callSequence` of the call before are still there.
The history variable `stale` says that this is so, until the next INVITE or `reset()`.

Left out, because no property depends on it: the texts of messages, the
broadcast intents, nonce and realm, `registerTryCount` (never read),
`currentsdp`, and the intermediate states `BYE` and `ERROR` that `reset()`
overwrites within the same handler.

### The stack (external)

The jar of JAIN-SIP is not in the repository. The model relies on:

* events are delivered one at a time, retransmitted INVITEs are absorbed;
* a server transaction refuses a response to another request; a response to a
  finished transaction has no effect or throws;
* an ACK on an early dialog is refused; CANCEL can be built only for an INVITE;
  BYE only on a confirmed dialog;
* CANCEL is delivered for an INVITE that rings, ACK for one answered by 200, BYE
  within a dialog a 200 opened; the 200 to an INVITE is repeated until
  acknowledged;
* with `Faults`, a stack call may throw and a response be unusable; 487 stands
  for every status without a case.

Remote parties are free to send any of these at any time, to several calls at
once; responses may come long after `reset()` forgot the transaction.

### How EchoCancellation corresponds to the code

`runner`, `capQ`, `playQ` are `runner`, `m_cap_q`, `m_play_q`; `capReady` and
`playReady` say that `CaptureSize` and `PlaySize` are not 0. `pc` places every
thread `startThread` ever created in `run()`: at the `while` test (`loop`),
before the idle test (`check`), in `wait()` (`waiting`), between the two
synchronized blocks (`work`), ended. Each synchronized block is one step
(`Await`/`Proceed`, `Work`, `PutCapture`, `PutPlay`), the `while` test another
(`Loop`), so a stop, a restart or another thread can come between any two.
`interrupted` is the interrupt status: `interrupt()` ends a wait by an exception
that the inner loop swallows, or makes the next `wait()` throw. `notify()` picks
any waiting thread. `out` and `fed` record what was passed to the canceller; the
frames themselves are numbers in the order they were put, and `PutCapture` and
`PutPlay` may come at any time, from old and new encoders and decoders alike.
The encoder removes results from `m_out_q` without the monitor; that side of the
queue, a data race, is outside this module, and `out` is the sequence of frames
ever added to it. The byte-array overload of `putData` has no caller and does
the same.

### How VoiceThreads corresponds to the code

Every `startAudio` that finds `runner` null or clears it first creates a capture
thread; threads, Encoders and workers carry the number of the call whose
capture thread made them. `runner`, `encoder` and `recording` are the fields of the one
`LanAudioRecord` (`recording`: its `AudioRecord` records); `encRunner[e]` is the
`runner` of Encoder `e`, `frame` the Encoders with `leftSize # 0`, `coded[e]` the
size of its `m_in_q`. `capture` and `worker` place each thread in its `run()`;
each access to a shared field is a step of its own, in the order of the code:
the Encoder is assigned, then started through the field, which may hold another
thread's Encoder by then; the loop test, the read, `isIdle`, `putData`, `isGetData` and
`getData` follow; at the end `free()` stops the recorder and then whatever
Encoder the field holds. A worker that waits leaves `wait()` with a frame
only, since the interrupt is swallowed in the inner loop. The echo canceller is
one for all calls and in `VoiceSending`; here two workers that encode at once may
race for its one result between `isGetData` and `getshortData`, and the loser's
`removeFirst()` throws (`EndEncode`). The codec and the socket are left out; the playing thread is started and stopped in
the same way and is not repeated. `hasty` says that a call was started before the
threads of the last one had ended or gone to sleep.

### How VoiceSending corresponds to the code

`ring`, `writepos`, `readpos` are `Audio_in` and its positions, counted in frames of
`mFrameSize`; `slot` is `rawdata` with `leftSize`, `output` the worker's local frame,
`queue` is `m_in_q`; `ec_in`, `ec_out`, `ec_size` are `m_cap_q`, `m_out_q` and
`CaptureSize # 0`. The capture thread's pass is `Read`, `PutData`, `Send`; the
worker's pass is `Awake`, `Bypass` or `Cancel` and `Collect`, `Encode`, `SetIdle`;
`Pass` is the canceller's. `Hear` is the moment `Decoder.num_recv` leaves 0, after
which `Warmup` frames still bypass the canceller (20 in the code). Left out:
volume, sleep, timestamps, `mute()`, which has no caller, and the playback side
of the canceller. A first call is modelled; the positions are fields and keep
their distance into the next call, whose ring is new.

### How VoicePlayback corresponds to the code

Packets are numbered in the order sent; a frame is its packet's number. `buf` is
`rtp_packet`, with the random number a new `RtpPacket` is given; `currentseq` and
`lost`, `good` are the fields of that name; `phase` is the place in `run()`. `lost` and
`good` are static and never reset, so a call starts from what earlier calls
left (up to `MaxCarried`). When `good` is above `MaxGood` (110), `lostandgood` multiplies
both by 0.99 at every packet: they lose their `Den`-th part (`Den` is 100). The
counts are whole numbers of a fraction `1/unit`, and averaging makes `unit` `Den` times
as large, so that the products are exact; the rounding of the floats is left out.
`missing` is what `lost` would be, had it been given every packet skipped and never
been averaged. `SetInt` and
`GetInt` are the conversions of `RtpPacket` with bytes of `ByteMod` values. `Receive`
takes any packet in flight, so that the network reorders, `Lose` drops one, and a
packet may stay in flight after it was received (duplicate). `ReceiveFails` is an
IOException: the loop goes on with the buffer as it was. The Decoder's three steps
are the lines of its synchronized block; `isIdle`, `isGetData` and `getData` are
read without the monitor between any two of them. `pcm` is the one array
`processedData`, which every element of `m_out_q` is, so `queue` is a number; a
clone made while the next frame is decoded into the array has parts of both
frames and counts as the older. Left out: statistics other than `lost` and `good`,
packets shorter than a header, the links of the unsynchronized `LinkedList`.

### How SpeexJni corresponds to the code

`codec_open` is the count; `states` says whether `enc_state`, `dec_state` and the bit
buffers exist. `codec_open++` and `--codec_open` are a load (`Open`, `Close`) and a store
(`OpenStore`, `CloseStore`), followed by the building or freeing. `encode` and `decode`
test the count once (`Enter`) and use the states until `Leave`; a count of zero makes
them return 0 (`silent`). Encoders are closed when their worker ends, Decoders never:
`Decoder.free` has no caller. `raced` says that two opens or closes overlapped.

### How StunDiscovery corresponds to the code

`test` is the running test; `since` and `timeout` are its locals in milliseconds,
with the code's values; `natted`, `kind`, `error`, `known`, `tested` are `nodeNatted` and
the fields of `DiscoveryInfo`; `port` says whether `socketTest1` is bound to the
configured port, `leaked` that such a socket was dropped without being closed.
`nat` is the network: whether UDP passes, which address is shown to whom, and
who may answer. An answer needs `Passes`; any answer may be lost (`Retry`, `GiveUp`),
be an error answer, or be such that an exception leaves the test (`Fails`). An
answer that arrives after its attempt's timeout carries an old transaction ID
and counts as lost. `Claims` says what each result promises about the network,
`Real` the most that can be said; they are the reference of `Classified` and model no code.

## Checks

| Run | Bounds | Shows |
|---|---|---|
| `sip_incoming` | 2 INVITEs, 2 transactions, `callSequence` to 2, faults | `TypeOK`; `IncomingAnswerable`: while a call is announced, Accept and Decline reach its caller; `EstablishedDialogLive`: the BYE of an established call has a live dialog; `AnnouncedOncePerReset`; `LineSpec`: refinement of `CallLine` |
| `sip_outgoing` | no INVITE, 3 transactions, `callSequence` to 3, faults | `CallNumbering`: `callSequence` never falls behind the INVITEs of the call; `AckSeqMatches`: an ACK has the number of its INVITE |
| `echo_worker` | 3 threads (two restarts), 3 frames each way | `TypeOK`; `QueuedWhenReady`: no `removeFirst()` on an empty queue; `NoLostWakeup`; `InOrder`: refinement of `FrameQueue`, once in each direction; `LagGrows`: a frame put before the last one was taken delays all later ones for good, and nothing else does; `Served`; `StoppedEnds` |
| `speex_library` | 2 encoders, 2 decoders | `TypeOK`; `CountExact`; `StatesLive`; `NoLeak` |
| `voice_threads` | 2 calls | `TypeOK`; `MicOff`; `LateSend`; `OwnObjects`; `EncodeExclusive`; `MicReleased`; `FrameCoded` |
| `voice_sending` | ring of 3, 1 frame of warm-up, 9 frames | `TypeOK`; `PutForward`: the Encoder gets frames once and in order, however far the reader lags; `Unbroken`; `QueueBound`; `SentForward`: refinement of `VoiceChannel`; `CodedTwice` |
| `voice_playback` | 6 packets, 2 in flight, 1 duplicate, bytes of 4 values, starts 0 and 13, averaging by a third above 3 packets, up to 1 in halves carried over | `TypeOK`; `GivenForward`: frames decoded in order, none twice; `PlayedForward`: refinement of `VoiceChannel`; `QueueBound`; `LostCount`: `lost` is a share of `good`, never above what is missing, and exact until it is averaged |
| `stun_discovery` | the code's timeouts | `TypeOK`; `Classified`; `PortFree`; `Reported` |
| `sip_no_codec` | violation | an INVITE without a common format is not declined |
| `sip_busy` | violation | the second caller gets no 486 |
| `sip_early_media` | violation | a 180 with a description does not end in RINGING |
| `sip_late_ack` | violation | a late ACK establishes a call nobody accepted |

Two INVITEs are enough for every conflict over the one session, request and
server transaction: a third meets the same fields as the second. Three
transactions allow an INVITE, its challenged successor and a CANCEL or a new
call. Incoming calls touch the numbers only through `reset()`, which is a button as
well, so `sip_outgoing` has none; the theorems cover both together. `callSeq` grows
with every ACK that is built, sent or not, so a call that gets one 180 with a
description after another raises it without end: `MaxSeq` bounds it, and 3 lets it
run two ahead of the first INVITE. Each property of a passing run is paired with a
mutation of a mapped definition that violates it (a server transaction per
request, a session taken whatever the state, a pre-incremented ACK number, a
Call-ID kept across calls, ...); the variant stands just before the definition
it replaces. The violation runs use no faults: what they show happens with a
stack that always works.

Three threads let two stopped threads stay behind a running one, so that
`notify()` has a wrong one to pick twice; three frames let two pile up in a queue
before a pass and one come after it.

Two calls are what an old thread needs to meet a new one; the third would meet
the second as the second meets the first (the theorems hold for any number). Two
encoders and two decoders give overlapping opens, overlapping closes, and a close
against an open. A ring of three with nine frames lets the writer overrun a lagging
reader and wrap three times. Starting at 13 of 16 sequence numbers, six packets
cross both the wrap of the low byte and that of the whole number; with gaps believed up
to 2, five missing packets are more than the code believes; a start of 0 makes the
number that the code takes for "none yet" happen. Averaging above 3 packets happens three
times and more within six; counts carried over in halves show that `unit` need not start at 1. The STUN run uses the values of
the code, so it is not an instance but the whole.

Deadlock checking is on for call control: `CreateInstance` is enabled in every
state; and for `speex_library`, where a decoder decodes for ever. It is off for
`voice_threads` (all calls over), `voice_sending` (all frames sent), `voice_playback` (stopped)
and `stun_discovery` (reported), and for `echo_worker`: when all frames of the bound were put and
handled, every thread waits, as the real one does when the audio stops.

Fairness: `echo_worker` assumes weak fairness of each thread's next step, which
says that the scheduler runs every thread that can run; a thread in `wait()` has
no step. Nothing is assumed of the user, who may never stop or start, nor of the
encoder and decoder. `voice_threads` assumes the same of its capture threads and
workers, and nothing of the buttons. `stun_discovery` assumes that a test that waits is answered or
times out (`setSoTimeout` sees to it) and that the UI thread delivers the result;
exceptions are never forced.

What holds is weaker than one might hope, and the model shows it: a stopped
thread that waits ends only when a later frame wakes it, and when two frames of
one direction are put before a pass, one of them stays in its queue from then on,
since a pass takes one frame and clears the size. `LagGrows` states how much: the
canceller never catches up, and the two directions drift apart by the difference
of what each was put too early.

The conditions in the other properties mark where the code does not go further,
each seen by dropping it:

* without `~hasty` (`OwnObjects`, `EncodeExclusive`): a call started right after
  the last one shares recorder and Encoder with the old thread, which then stops
  them under it; both may call `getData` for the same frame, or both workers
  `getshortData` for the same result, and the loser's `removeFirst()` throws and
  ends the process;
* without `~stale` (`AckSeqMatches`, `CallNumbering`): a 180 with a description whose
  ACK throws raises `callSequence` to 2; when the user calls again and `sendInvite`
  throws before line 545, the state is CALLING with the first Call-ID, and the late
  200 of the first INVITE, whose CSeq is 1, is acknowledged with number 2;
* without `unit = Unit` (`LostCount`): once averaging has started `lost` is smaller than
  what is missing, in any call after the first 110 packets of the process;
* without `~raced` (`CountExact`, `StatesLive`, `NoLeak`): a lost update leaves the
  count off for the life of the process, and states freed in use;
* without `~behind` (`SentForward`): a canceller that was slow once gives its frames
  late, and older frames are sent after newer ones;
* without `~reordered` (`GivenForward`, `PlayedForward`): a packet that is late by
  reordering is decoded and played, and the gap computed from it counts 1 lost;
* `Classified` gives up `Real` when an answer that can pass was lost in every
  attempt or was an error answer. A silent `test1Redo` leaves no flag set and the
  activity registers; an error answer to `test1` leaves no public address and
  `startSipRegistration` meets null (`app = "crashed"`, unless the profile is local).

A retry of `test1` from the configured port always fails, since the first attempt's
socket is still bound: the exception leads to the second run, from any port. That is
why `PortFree` holds: what is registered was never tested from a port that leaks.
The branch of `test3` that would loop for ever is not reachable: the test
runs only when the node is natted.

No liveness is stated for call control. `processTimeout` is empty and no
retry or timer exists in the code, so nothing must happen: a call can stay in
CALLING for ever.

## Proofs

`SipServiceProofs` proves, from `SipServiceAssumption` (INVITEs, transactions
and `None` are distinct, `MaxSeq` is a number) alone, for any number of INVITEs and transactions:

| Theorem | States | Argument |
|---|---|---|
| `TypeCorrect` | `[]TypeOK` | inductive; one lemma per kind of message sent |
| `IncomingCorrect` | `[]IncomingAnswerable` | inductive with `TypeOK`: what takes the session needs it free, what frees it leaves INCOMING |
| `EstablishedCorrect` | `[]EstablishedDialogLive` | inductive with `TypeOK`: a step that stays ESTABLISHED keeps confirmed dialogs (`Kept`) |
| `OneLine` | `LineSpec` | step by step refinement; needs `EstablishedDialogLive`, since `Take` must find the line not up |
| `NumberingCorrect` | `[]CallNumbering` | inductive; a fresh Call-ID is used by no record, else the number of an old call would count; that `callSequence` is not behind holds in every state, that it is equal needs `~stale` |
| `AckSeqCorrect` | `AckSeqMatches` | from `CallNumbering`: only `Established` acknowledges, in CALLING or RINGING; with `stale` the number can only be later |
| `AnnouncedCorrect` | `AnnouncedOncePerReset` | with `OnlyArrived`: a new INVITE cannot be the one the server transaction belongs to |
| `NeverAnswered` | an INVITE that arrived, had no answer and is not `currentRequest` (`Unanswered`) stays so for ever | only a new INVITE becomes `currentRequest`, and answers go to the INVITE being handled or to `currentRequest` |
| `NoCodecUnanswered` | every INVITE without a common codec is `Unanswered` after it was handled | with `OnlyArrived`: `currentRequest` is not the INVITE that just came |
| `BusyOncePerReset` | a second caller has its 486 exactly when no INVITE holds the server transaction; otherwise ERROR, and it is `Unanswered` | with `OnlyArrived`, as above |
| `LateAckOnly` | `[]EstablishedWasAccepted`, if no ACK of another INVITE comes while an incoming call is current | `SessionAcked` is inductive; `UpStep` lists the steps that end in ESTABLISHED |
| `HangUpEndsShown` | `[](state = "ESTABLISHED" => dialog = session)`, if an ACK comes only for the current session or for none | inductive, by the same `UpStep` |

The last five say how far three of the findings go. `sip_no_codec` and `sip_busy` show one
caller that is not answered; the theorems say which callers these are and that nothing
later makes up for it. `sip_late_ack` shows one way to an established call nobody
accepted; `LateAckOnly` says that there is no other way, and `HangUpEndsShown`
that the same kind of ACK is what could make endCall hang up another call. The two
hypotheses are about what the remote parties send, and restrict nothing else.

`EchoCancellationProofs` proves, from `EchoAssumption` (`None` is no thread), for
any number of threads and frames:

| Theorem | States | Argument |
|---|---|---|
| `EchoTypeCorrect` | `[]TypeOK` | part of `EchoInv`; needs `RunnerAlive`, for an interrupt of a thread that has not begun would be pending for ever |
| `EchoQueuesCorrect` | `[]QueuedWhenReady` | a size is set only by the put that adds a frame and cleared by every pass that takes one |
| `EchoWakeupsCorrect` | `[]NoLostWakeup` | with `RunnerAlive`: when nobody waits at a put, the current thread is at the test or beyond it; when somebody does, one is woken |
| `EchoInOrder` | `InOrder` | with `Rest`: the queue holds exactly the frames not yet out, in order |
| `EchoLag` | `LagGrows` | from `EchoInv`; put, take and neither are one lemma each (`LagAfterPut`, `LagAfterTake`, `LagAsIs`) |
| `EchoSides` | both sides refine `CancellerSide` | step by step: a pass that finds only the other size set is a stutter here |
| `EchoStopped` | a stopped thread is never the runner again, and each of its steps leads on to its end or between the idle test and `wait()` | `StagesLeft` counts the stages to the end; the safety half of `StoppedEnds` |

`SpeexJniProofs` proves, from `CodecAssumption` (finite, disjoint sets of objects):

| Theorem | States | Argument |
|---|---|---|
| `JniTypeCorrect` | `[]TypeOK` | inductive |
| `CountCorrect`, `StatesCorrect`, `NoLeakCorrect` | `[]CountExact`, `[]StatesLive`, `[]NoLeak` | one invariant: while nothing overlapped, at most one object is between load and store, what it loaded is still the count, the count is the cardinality of the users, and states are live when there is a user that has built |

`VoiceThreadsProofs` proves, from `VoiceAssumption` (`MaxCalls` is a number):

| Theorem | States | Argument |
|---|---|---|
| `VoiceTypeCorrect` | `[]TypeOK` | inductive |
| `MicCorrect` | `[]MicOff` | a thread that set `recording` has `StopRecorder` before it |
| `LateCorrect` | `[]LateSend` | a superseded thread never becomes `runner` again, so it passes the loop test no more; what it sends is what it had begun |
| `ObjectsCorrect`, `EncodeCorrect` | `[]OwnObjects`, `[]EncodeExclusive` | without overlap all earlier threads are `Quiet` and stay so: nobody else assigns the fields, puts a frame or wakes a worker |
| `SupersededEnds` | a capture thread that is not `runner` never is again, and has at most eleven steps to its end | `StepsLeft` counts them; `Started` says that `runner` holds only threads of calls already made. The safety half of `MicReleased` |
| `FrameMannedTillCoded` | a frame in an Encoder that is not stopped has a worker that serves it, at most four steps from coding it, and no step of anyone takes it back, unless it ends the process | `Manned`: the worker an Encoder calls its `runner` serves it and has not ended its `run()`. The safety half of `FrameCoded` |

`VoicePlaybackProofs` proves, from `PlaybackAssumption` (`MaxGap` below `ByteMod`,
`Den` above 1, starts fit two bytes):

| Theorem | States | Argument |
|---|---|---|
| `PlaybackTypeCorrect` | `[]TypeOK` | needs the next invariant: the queue is never negative |
| `QueueCorrect` | `[]QueueBound` | what is pending is bounded by the phase |
| `GivenCorrect` | `GivenForward` | without reordering what is in flight, in the buffer, in the slot, in the array and played is ordered; a frame put twice would have the number in `currentseq` |
| `PlayedCorrect` | `PlayedForward` | the same order, and `Sourced`: every one of these places holds a packet that was sent |
| `LostCorrect` | `[]LostCount` | the gap on the low byte is the true gap when below the limit, by lemmas on `%` and `\div` (`DivMod`, `ModUnique`, `ModShift`, `SeqOfIs`, `GapIs`); averaging takes a part from `lost` and `good` alike and none from `missing` (`Parts`, `Averaged`, `AveragedMissing`, `SharesStep`) |

`VoiceSendingProofs` proves, from `SendingAssumption`:

| Theorem | States | Argument |
|---|---|---|
| `SendingTypeCorrect` | `[]TypeOK` | inductive |
| `SendQueueCorrect` | `[]QueueBound` | as for the Decoder |
| `UnbrokenCorrect`, `PutCorrect` | `[]Unbroken`, `PutForward` | the ring holds the last `RingFrames` frames at their positions modulo its size, and the reader's lag grows by one with every miss |
| `CodedTwiceCorrect` | `[]CodedTwice` | `OInv`, below |
| `SentCorrect` | `SentForward` | `OInv`: `Send` is `Hear`, `Cancel` is `Disorder` when the canceller was behind, all else stutters |
| `CancelsAside` | the canceller's queues refine `CancellerSide` | with `EchoSides`: both modules have the same canceller |

`OInv` follows a frame through the slot, the worker and the canceller. `Line` is what
is in the canceller, results first. `Flow`: the frames on the line strictly
increase, and none is newer than the one put last. `Twice`: for every frame, the times
it was coded and the times it is still `Due` add up to two at most. `Ordered`: until
`behind`, what was sent, what is queued, what is in work and what is on the line
never go back, and at most one frame waits for a pass. None of them is inductive
without the ring's invariant: the line grows only because the ring gives the
Encoder a newer frame every time (`Round`).

`VoiceCall` proves, from nothing else than the two instances of `VoiceChannel`:

| Theorem | States | Argument |
|---|---|---|
| `CallInOrder` | the two halves refine one `VoiceChannel` from microphone to far speaker | every packet carries a frame that was captured, and until the canceller fell behind the packets carry frames that never go back |

`StunDiscoveryProofs` proves, from `StunAssumption` (positive times):

| Theorem | States | Argument |
|---|---|---|
| `StunTypeCorrect` | `[]TypeOK` | a timeout is added only below the limit |
| `ClassifiedCorrect` | `[]Classified` | each test is reached only when the tests before it were answered, or were silent because their answers cannot pass (or `lossy`) |
| `PortFreeCorrect` | `[]PortFree` | a leak of the fixed port is always followed by a run from any port |
| `DiscoveryEnds` | what remains to be done is a number, is smaller after every step, and when nothing remains the activity has its result | `Remaining` counts the runs and tests to come and the retries the timers of the current test still allow; the safety half of `Reported`, and why the loop of `test3` never starts over |

Only model-checked: `Served`, `StoppedEnds`, `MicReleased`, `FrameCoded`, `Reported`.
They are liveness under fairness, out of the prover's reach. For four of them the
part that is safety is proved: `EchoStopped`, `SupersededEnds`, `FrameMannedTillCoded`
and `DiscoveryEnds` each say that every step goes one way towards the end and none goes back (a stopped
canceller thread may still move between the idle test and `wait()`), so that what
is left to TLC is that the steps are taken. Every other property of a passing
run is a theorem.

## Not modelled

* Bundled code: `jni/speex-1.2rc1`, `jni/spandsp`, the NIST SDP classes and the unused
  sipdroid files are libraries of others, most of the repository by size, and
  numeric for the most part; this program's own code is the Java under
  `src/` and the two files of JNI glue. Of the libraries the program uses the codec and echo states only
  through the calls that `SpeexJni` models.
* The interleavings of the UI thread and the stack's thread inside one SIP
  handler: `SipService` runs handlers whole.
* `BindingLifetimeTest`: nothing in the program calls it.
* Building and parsing of STUN messages, SIP texts, SDP, digests: strings and
  bytes; the models take their outcomes as inputs.
* Torn operations on the `LinkedList`s that are shared without a lock.
* Signal processing, G.711 tables, volume, layout, settings, video (empty
  functions).

## Plan

Done: `SipService`, `CallLine`, `EchoCancellation`, `FrameQueue`, `VoiceThreads`,
`VoiceSending`, `VoicePlayback`, `SpeexJni`, `StunDiscovery`, each with its proofs, and
the composition of the two halves of a call (`VoiceChannel`, `VoiceCall`,
`CancellerSide`).

Left, in this order: `SipServiceThreads` (accept, decline, end and reset split at
their field accesses, the UI thread against the event thread);
`CodecNegotiation` (pure operators against a reference definition); the shared
`LinkedList` at the level of its links.
