# TLA+ verification of PS3-Moonlight

PS3-Moonlight is a game-streaming client for the PlayStation 3. It pairs with a
Sunshine or GeForce host, lists the host's applications, launches one, and then
decodes and shows the host's video, plays its audio and sends it the controller,
keyboard and mouse. This directory models the parts of it in which several
threads, a second processor or a remote host meet, checks them with TLC and
proves the safety of each with TLAPS.

Line numbers refer to the files of this repository: `src/` for the program
itself, `third_party/moonlight-common-c/src/` for the streaming library
(abbreviated `common-c/`). In `PROJECT.json` the same files carry one more
leading `src/`.

## 1. Inventory

### Threads

| thread | code | what it does |
|---|---|---|
| main | `src/main.c` `main` | attempt, stream loop (`vdec_poll` about 1000 times a second), shutdown |
| UI | `src/ui.c` `ui_loop` | reads the pad, moves through the menu, draws every frame, `ps3video_draw` |
| input | `src/input.c` `input_loop` | polls pads, keyboards and mice at 250 Hz |
| decoder | common-c `VideoStream.c` | takes decode units from the queue, calls `ps3_video_submit_decode_unit` |
| VDEC callback | `src/video.c` `vdec_callback` | the system's thread: unit consumed, picture ready, error |
| audio receive | common-c `AudioStream.c` | decodes a packet (`DIRECT_SUBMIT`) and writes it to the ring |
| audio playback | `src/audio.c` `audio_loop` | one hardware block at a time from the ring |
| SPU worker | `src/spu/source/spu_opus.c` | another processor; shares a command block by DMA |
| InputSend | common-c `InputStream.c` | takes input packets from a queue and sends them on the control stream |
| video receive | common-c `VideoStream.c`, `VideoDepacketizer.c` | puts frames together and offers them to the decoder thread |
| IDR request | common-c `ControlStream.c` | asks the host for an IDR frame when the event is set |
| control, loss, ... | common-c | internal threads; any may report a termination |
| termination | common-c `Connection.c` | detached, runs `cb_connection_terminated` |

System callbacks (exit request, keyboard, dialogs) run in whichever of the main
and the UI thread polls `sysUtilCheckCallback`.

### Components

| component | state | operations | hard behaviour | what makes it correct | module |
|---|---|---|---|---|---|
| decoded-frame pool (`video.c`) | six buffers, the roles `front_buf` and `write_buf`, a ring of ready buffers, the active flag | setup, `vdec_poll`, `ps3video_draw`, cleanup | two threads work on buffers outside the mutex; cleanup only sleeps | no tearing, newest picture, no spinning search, no use after release | `FramePool`, `FrameRegister` |
| decoder input (`video.c`) | four bitstream buffers, `vdec_au_pending` | submit a unit, callback | unlocked counter in two threads; refusal and retry | buffers owned exclusively, order kept, recovers | `VdecInput` |
| audio ring (`audio.c`) | 32768 floats, two indices | `rb_write`, `rb_read`, reset | writer moves the reader's index; skips | the ring is the tail of the stream, bounded latency, what a plain bounded queue would do | `AudioRing`, `AudioStream` |
| SPU Opus (`spu_opus_bridge.c`, `spu_opus.c`) | command block, bounce buffers, signal | init, decode, shutdown; fetch, work, put back | timeouts, late answers, overwritten signals | each packet decoded once and answered with its own PCM, memory outlives the worker, shutdown ends | `SpuOpus`, `OpusDecoder` |
| session (`main.c`, `ui.c`, `connection.c`, `Connection.c`) | screen, selection, connection status, stage, termination flags | the attempt, the menu, start, stop, terminate, exit | unlocked screen, cancel at any moment, termination at any moment | a request is answered, a loss leaves the stream, an exit completes, nothing is left running | `Session` |
| depacketizer and decode-unit queue (common-c `VideoDepacketizer.c`) | queue of four, the flags that say which frame may be decoded, the request event | frame lost, received, dropped, offered; taken, completed, refused; overflow, refresh, request; stop, destroy, start | overflow against the decoder's own refresh, with flags both threads write without a lock | no gap is forgotten, an overflow is followed by an IDR frame, the picture mends | `DecodeQueue` |
| handshake and pairing (`handshake.c`) | id, key, certificate and the host's fingerprint on disk; what the host trusts | identity, five-step pairing, verification; list and launch | retries, lost answers, saving before the last step, torn files, power cuts | trust is mutual, credentials belong together, trying again helps | `Pairing`; list and launch as outcomes in `Session` |
| settings (`ui.c`) | values, dirty flag, two files | change, debounce, save, load, last flush | two threads save, truncation before the write, a fall-back file | what was reported saved is loaded, no mark is lost | `Settings` |
| keyboard and dialogs (`ui.c`) | `osk_active`, memory container | open, done, cancel, unload, abort | callbacks in two threads | partly, in `Session` | `Session` |
| input (`input.c`, common-c `InputStream.c`) | last pad reading, keys held, packet queue, the packet that takes up sticks | poll, send, batch, queue; take, latch, send; start, stop | two threads share a packet; refused packets; a stop in the middle of a send | the host sees the last reading, no press is batched away, no key stays held | `InputQueue` |
| audio set-up (`audio.c`) | what ten calls acquired, two threads that use it | init with roll-back, cleanup, cleanup again at the end | failure at each step; users that still run | nothing leaked, used after or released twice | `AudioSetup` |
| SPU crypto (`spu_crypto_bridge.c`, `spu_crypto.c`) | as SPU Opus | as SPU Opus | none: no code calls the bridge | not modelled | - |

Not modelled, and not planned: drawing, scaling and the shaders (geometry and
floating point), the log buffer, the UDP logger, random numbers, the OpenSSL and
libc shims (no protocol state), Opus, ENet and the cryptography themselves.

### How the components interact

- The receive thread offers frames to the decoder thread through a bounded queue
  (`DecodeQueue`). The decoder thread puts units into VDEC (`VdecInput`), whose
  refusals go back to the queue as `DR_NEED_IDR`; VDEC puts pictures into
  the pool; the main and the UI thread share the pool (`FramePool`).
- The audio receive thread calls the SPU bridge (`SpuOpus`) or the software
  decoder and writes the result into the ring; the playback thread reads it
  (`AudioRing`).
- The input thread polls all the time; while a stream is up its packets go through the
  queue of the streaming library to the host (`InputQueue`).
- The main thread calls the handshake (`Pairing`) and the streaming library; the library
  starts and stops the threads above and reports back through the callbacks of
  `connection.c`; main and UI thread share `ui_state` (`Session`).
- `Session`'s start of a stream is `FramePool`'s `Setup`, `AudioRing`'s `Restart`,
  `SpuOpus`'s `StartWorker`, `AudioSetup`'s `StartRenderer`, `DecodeQueue`'s and
  `InputQueue`'s `Start`; its `LiStopped` is their ends. The modules are
  kept apart because they share nothing else, and each allows its own start and
  stop at any time its thread could perform it.

The hazards of this code, each at its line and with the properties that would
catch it, are in `PROJECT.json` under `hazards`.

## 2. Modules

### FrameRegister and FramePool

`FrameRegister` is what the pool promises the display: a register which holds the
newest picture of the running stream; a draw samples it whole. `FramePool`
has one action per critical step of `video.c`:

| action | code |
|---|---|
| `Setup` | `ps3_video_setup`, 328-594 |
| `GetPicture`, `Enqueue` | `vdec_poll`: VDEC writes (249), then the part under `frame_mutex` (288-325) |
| `StopVideo`, `Release` | `ps3_video_cleanup` (596-602): clear the flag, sleep 32 ms, `release_video_resources` wherever the UI thread is |
| `DrawCheck`, `DrawTake`, `DrawEnd` | `ps3video_draw`: the test at the top, the part under the mutex (838-866), the rest |
| `Tick` | time passes, at any point of the sleep and of a draw |

A picture is a number; a buffer that VDEC is writing holds `Torn`. The search for
the next `write_buf` is `FirstFree`. The cleanup looks at nothing but its own clock
(`slept`, up to `SleepTicks`); a draw has an `age` and is over before it has taken more
than `DrawTicks`. That a draw takes less than the sleep, `DrawTicks < SleepTicks`, is an
assumption about the display, not about the code, and is made where it is needed only.

### VdecInput

The decoder thread (`Submit`, `Fill`, `Increment`, `Decode`, `Undo`, `Fail`), VDEC
and its callback (`AuDone`, `CbCheck`, `CbLoad`, `CbStore`, `ErrorCallback`) over one
counter. `vdec_au_pending` is a `volatile int` changed with `++` and `--` in two
threads; each of these is a load and a store, as two actions. `Atomic = TRUE` is
the same code with indivisible updates: it separates what the protocol
guarantees from what the data race takes away. VDEC is external: a queue of
`HwDepth` units that may refuse a unit for reasons of its own, and that may or may not
drop what it holds when it raises an error. `Restart` is the end of a stream and the
reset of the next one.

### AudioRing

`rb_write`, `rb_read`, `Underflow` and `Restart`, each one action since each holds
`rb_mutex` throughout. Floats are numbered in writing order, so the ring's contents
say which ones were lost, repeated or left over. `AudioStream` is what the ring promises:
a bounded queue without indices or buffer, in which neither side waits, that gives up
its oldest floats, exactly as many as the new ones need. `StreamSpec` is that
specification with `written` for its newest and `OldestUnread` for its oldest float.

### SpuOpus

The host's steps (`StartWorker` ... `Joined`) and the worker's (`Fetch`, `SpuInit`,
`SpuDecode`, `PutBack`, `SpuQuit`). A step of the worker ends with a DMA transfer,
and `PutBack` returns the whole block as it was fetched: the source of every late
answer and of the lost QUIT. `Timely = TRUE` is an SPU that answers before the
host gives up after 20 ms. Without it a start-up may time out (`InitTimeout`), which frees
the memory and leaves the worker running: `orphan` follows it (`OrphanFetch`, `OrphanWork`,
`OrphanPut`), also beside the worker of the next stream, whose memory may be the same. One
worker is left behind at a time. PCM carries the number of the packet it was decoded from.
`OpusDecoder` is what a timely bridge promises: a decoder that is given a packet, decodes
it once and returns its PCM or nothing. `Stage` and `Result` map block, signal and worker
onto it.

### Session

`main` is the call or test the main thread is at. `Outcomes` and `Tests` tabulate
the handshake calls and the tests of `ui_state` between them (`main.c` 158-268); the
screen changes of the main thread are `SetState`. The streaming library has four
stages: `none`, `starting`, `control` (internal threads run and may report a loss)
and `up`. `Report`, `Terminate` and `ConnectionTerminated` are the guard, the flag
with the new thread, and the callback. The UI thread reads the screen (`UiRead`)
and acts on what it read. Two history variables serve the properties: `confirmed` is where
Cross was last pressed on the list of this attempt (a Circle does not reset it), `cancelled`
that Circle was pressed in this attempt. `StageFailed` takes the failures of the eleven
stages (`Connection.c` 76-137) as one, as what they undo is told apart by `control` only.

### InputQueue

The input thread's controller event is `PadPoll`, `SendCheck`, `SendBatch`, `SendFill`,
`SendOffer`, `PadState`: the steps between which `InputStream.c` gives up its mutex.
Its keyboard is `KeyRead`, `KeyNext`, `KeyFill`, `KeyOffer`. The InputSend thread is
`SenderTake`, `SenderLatch`, `SenderSend` (or `SenderFail`), the main thread `Start`,
`StopFlag`, `StopDrain`, `Stopped`. A packet holder is a cell that is reused after it
was freed; `current` is `currentQueuedControllerPacket[0]`, which no start or stop
resets. `Vk` keeps of the key table that several codes are one key and some are none.
`hostPad` and `hostKeys` are what the host believes, `lost` records that a packet was
discarded. One pad, one keyboard; left out are the mouse, the modifier keys, the
`buttons_pressed` snapshot and a pad unplugged with only a stick deflected.

### Pairing

The client's calls follow one another in `pc`: identity (`LoadId`, `SaveId`,
`CheckCredentials`, `OpenKey`, `WriteKey`, `OpenCert`, `WriteCert`,
`UnlinkCredentials`; `handshake.c` 492-630), verification (`hv_is_paired`), and `hv_pair`
with its exchanges `GetServerCert`, `ClientChallenge` (repeated until the PIN is in),
`ServerChallengeResp`, `ClientPairingSecret`, the fingerprint (`OpenFingerprint`,
`WriteFingerprint`) and `PairChallenge`. A file is absent, torn or holds the number of
what was written; opening it for writing tears it, so that a power cut between two
actions leaves what the disk would. `UnlinkCredentials` removes both files in one step
(`handshake.c` 558-559), since the certificate is never there at that point. A request may be lost on its way out or on its way
back (`RequestLost`, `ClientChallengeLost`: the host has acted and the client does not
know). The host is external: it follows the five steps in order, forgets, restarts,
or is installed anew (`HostChanges`). Hashes, signatures, TLS and PEM are abstracted to
what they compare: a host identity, a certificate number, a right or wrong PIN.
`accepted` is a history variable: which host has accepted which certificate in step 4.

### AudioSetup

`Acquire`, `UseSpu`, `SpuUnavailable` and `StartThread` are the ten calls of
`ps3_renderer_init`; `CallFails` is the failure of any of them, with the releases of its
own branch as a list (`RollBack`), taken one at a time by `Release` and `JoinThread`.
`stopAudioStream` is the library's join of the receive thread before the
clean-up; `Exit` the second clean-up at the end of `main`. The two users are the
playback thread (`AudioLoop`: loop, wait, block) and the receive thread
(`decode_and_play_sample`). `Orphans` are the SPU image and group that a failed
`spu_opus_init` leaves.

### Settings

`mem` is a pair of versions, host and options, because the file has them in that order
and the two are changed by different threads. A save is `StartSave` (which removes the
mark), `Open` (which truncates), `Print1` per key group and `Sync`, in either thread: the
UI thread saves after the debounce and on leaving, the thread that polls the system
callbacks saves a typed host (`ui_osk_callback`), the main thread flushes at the end
(`ShutdownFlush`). The flushes of the main menu's own entries (`ui.c` 989, 996, 1002) find
nothing to save, since leaving the settings flushed already. A failed open takes the
fall-back file, a failed or short write is not noticed by the code, and a power cut
leaves any prefix. `saved` is a history variable, and `intact` says whether the latest
saves were alone and whole, which is what `SavedIsLoaded` is about; the configurations
below show what happens otherwise.

### DecodeQueue

The receive thread has a frame and goes with it through `BeginFrame` (is one missing?),
`ParseUnits` (an IDR frame ends the wait), `LastPacket` (may it be decoded?),
`PendingDrop` (does the decoder thread object?) and `Enqueue`, the points of
`VideoDepacketizer.c` 763-1147 at which it reads or writes what the decoder thread writes
too. `DropFrameState` is `dropFrameState`. `FrameLost` and `ReportLoss` are
`notifyFrameLost`; a report is a request for an IDR frame, because the program does not
announce reference frame invalidation (`video.c` 774). A frame that was reported too
early and arrives after all is possible (`misjudged`). `Overflow` (the
offer is refused and the flag set), `DropRefused`, `FlushOverflow` and `RequestIdr` are the
four steps at a full queue, between which the decoder thread may run; `CompleteNeedIdr`, `FlushRefresh`,
`PendDrop`, `RefreshRequest` the four of `requestDecoderRefresh`. `SendRequest` is the
control stream's request thread. The host is external: it opens with an IDR frame,
sends one when asked, and otherwise what it likes; a request is not lost, as it travels
on a reliable channel. `broken` (history) is set with every frame that is lost, dropped
or refused and cleared when an IDR frame is queued. `overflowed` (history) is set by an
overflow and cleared when an IDR frame is queued; `spoilt` says that since then an IDR
frame ended the wait and was found corrupt afterwards (`CorruptFrame`). The assertion in
`notifyFrameLost` (1162) is compiled with `LC_DEBUG` only and is not part of the model.
`dropFrameState` is taken as one
step; the only variable of it the other thread writes besides `dropStatePending` and
`waitingForIdrFrame` is `idrFrameProcessed`, which changes once in a stream.

## 3. Runs

The runs of `FramePool` and `Pairing` check their module's `TypeOK`. The type
invariants of the other modules hold in the same configurations; those of
`Session`, `InputQueue`, `DecodeQueue` and `VdecInput`, and those of `AudioRing`,
`SpuOpus`, `AudioSetup` and `Settings` as part of the inductive invariants, are proved,
and no listed run repeats them.

Each property is broken by a fault injected into the model: an operator marked
"fault" beside the definition it stands in for, and listed under `mutants`.

| run | bounds | states | shows |
|---|---|---|---|
| `FramePoolAll` | 6 buffers, 9 pictures, sleep 3 ticks, draw 2 | 29 488 | `TypeOK`, `NoTearing`, `SearchTerminates`, `NoDrawAfterRelease`, refinement of `FrameRegister`, `QueuedIsShown` |
| `VdecInputRace` | 4 buffers, depth 5, errors | 66 364 | with the race: `ConsumedInOrder`, `FullIsBusy`, `SaturationRecovers` |
| `AudioRingDrop` | ring 16, block 2, packets 2 and 6, 36 floats | 45 981 | `RingIsTail`, `PlaysOnwards`, `StreamSpec` |
| `SpuOpusTimely` | 12 packets | 2 835 | refinement of `OpusDecoder` (`DecoderSpec`), `ShutdownCompletes` |
| `SpuOpusLate` | 6 packets, timeouts | 2 705 608 | `QuietRequestIsAnswered`: late answers do not outlast a request that finds the SPU idle; `WorkerMemoryAllocated`, beside a worker left behind by an earlier start |
| `SessionAll` | 1 host, 2 applications, 1 report | 329 644 | `LaunchWasConfirmed`, `NoSessionInMenu`, `PairingAnswered`, `DisconnectReturns`, `ExitCompletes` |
| `InputQueueAll` | 4 packets, queue 2, 1 button, 2 stick positions, 1 key | 635 266 | until a packet is discarded: `BatchIsQueued`, `HostWillSeePad`, `HostHoldsKnownKeys` |
| `PairingAll` | 3 challenges, 3 faults | 7 783 | `TypeOK`, `TrustIsMutual`, `CredentialsMatch`, `KeepsPairing`, `PairingRecovers` |
| `AudioSetupAll` | none | 669 | `NothingLeaks`, `NothingUsedAfterRelease`, `ReleasesHeld`, `CleanupReturns` |
| `SettingsAll` | 2 versions, 1 fault | 463 481 | `SavedIsLoaded`, `CleanIsSaved`, `ChangeIsSaved` |
| `DecodeQueueAll` | queue 2, drop limit 5, 1 frame in flight, 2 faults | 801 518 | `GapIsRequested`, `OverflowResumesWithIdr`, `StreamHeals` |

Why the bounds are enough. Nine pictures go round six buffers and fill the ring of
ready buffers, with any number of streams between them. A tick is a third of the cleanup's 32 ms: the
longest draw takes two, so that a draw may begin before the flag is cleared and end at any
tick of the sleep but the last, and `FramePoolSleep.cfg` gives it the third. `VDEC_BUF_COUNT`
is the code's. Sixteen floats keep the proportions of the ring (block < keep < skip <
size), and 36 floats go round it twice and fill it; the proofs cover all sizes.
Packets only separate one request from the next, and six leave room for several
late ones. One host is enough where the address does not matter; two applications
let the cursor move; one reporting thread covers each property that holds.
Two waiting packets, one taken and one being filled are all the packets a
queue of two can need; a full queue, a batch behind the latched packet and a key packet
between two pads occur.
Three faults let two of them meet what a third left behind: a host that accepts while the
answer is lost, a client that keeps an old fingerprint, and a host installed anew. Two
versions tell an old value from a new one in either half of the file, and each fault of
`Settings` needs only the code's own steps to do harm. `AudioSetup` has no parameter, so
that its exploration is complete. In `DecodeQueue` two waiting units make a queue that is
neither empty nor full, and two faults put an overflow or a loss into the decoder's
refresh, in each order; the drop limit is 5, not 120, so that it is reached, and not
less, so that it does not hide a request that is missing (the mutants need it that high).
With its faults spent a receive thread at a full queue waits instead of overflowing
once more.

Deadlock is checked in every passing run but three. In `AudioSetupAll` the program ends.
In `InputQueueAll` a behaviour ends
when a packet was discarded (`FollowLoss`), since its properties are about the time
before. In `SpuOpusLate`, with timeouts the bridge really stops, in a join that waits
for a QUIT that was lost.

What two of the properties say is worth a word. `ChangeIsSaved` does not speak of the mark,
which a save removes before it opens the file (`ui.c` 261), but of the file: a marked change,
or a newer one, is what the next start would load, sooner or later, unless something fails.
`OverflowResumesWithIdr` excepts the one way in which the code does queue a P frame after an
overflow, an IDR frame whose first packet ends the wait and which is then found corrupt;
`DecodeQueueCorrupt.cfg` exhibits it.

### Where the code and what is said of it disagree

| run | property | what happens |
|---|---|---|
| `AudioRingStereo` | `BlocksAreStereo` | a full ring drops an odd number of floats, and the block read next has left and right exchanged (`audio.c` 62-71, 147); the same read then skips to an even backlog (106-108), so that it is one block each time the ring is full |

### Further configurations

They are not among the listed runs. `VdecInputAtomic.cfg` passes: with indivisible updates
`BufferOwnership` and `PendingIsExact` hold, as proved below. Each of the others exhibits
one more statement that the code does not keep; TLC refutes each in seconds.

| configuration | property | what happens |
|---|---|---|
| `VdecInputOwner.cfg` | `BufferOwnership` | a lost update of `vdec_au_pending` admits a unit into a buffer VDEC still holds (`video.c` 625-626, 725, 228) |
| `InputQueueLost.cfg` | `UpdatedIsEnqueued` | a refused packet is freed but stays the one to update: sticks are dead until a button changes (`InputStream.c` 1145-1149) |
| `SessionLost.cfg` | `TerminationEndsStream` | a loss reported before `connectionStarted` is overwritten by it (`connection.c` 41) |
| `PairingStuck.cfg` | `ReportedIsUsable` | a torn certificate is reported as generated, and never replaced (`handshake.c` 540-547, 622-628) |
| `AudioSetupOrphan.cfg` | `EverythingReleased` | a failed `spu_opus_init` leaves its image and group (`spu_opus_bridge.c` 144-156, `audio.c` 164) |
| `SettingsExit.cfg` | `ExitKeepsChanges` | a change between the last flush and the end of the UI thread is never saved (`ui.c` 1554-1570) |
| `SettingsOverlap.cfg` | `OverlapHarmless` | two threads truncate and write the file at once (`ui.c` 269) |
| `SettingsFallback.cfg` | `SaveIsFound` | settings saved to the fall-back file are hidden by the first one (`ui.c` 271, 296) |
| `DecodeQueueRefresh.cfg` | `RefreshResumesWithIdr` | a P frame that passed the test before the refresh is queued after its flush (`VideoDepacketizer.c` 735-752, 1096) |
| `DecodeQueueLeak.cfg` | `UnitsAreFreed` | a unit offered after the shutdown of the queue is never freed (`VideoDepacketizer.c` 533, 171) |
| `DecodeQueueCorrupt.cfg` | `OverflowEndsWithIdr` | an IDR frame that is found corrupt ends the wait after an overflow, and P frames are queued before the next one (`VideoDepacketizer.c` 701, 118-131, 803-815) |
| `FramePoolSleep.cfg` | `NoDrawAfterRelease` | a draw that takes as long as the 32 ms of `video.c` 599 uses freed buffers |
| `VdecInputIdr.cfg` | `UnprocessedUnitRequestsIdr` | a unit that cannot be stored is answered with `DR_OK` (`video.c` 635), against `Limelight.h` 298-300 |
| `SpuOpusFreed.cfg` | `NoWorkerOnFreedMemory` | a start-up timeout frees memory the running worker transfers to (`spu_opus_bridge.c` 142-176) |
| `SessionCancelled.cfg` | `CancelledIsAtMenu` | a user who cancels and opens the settings is not where `main.c` 195-196 assumes |
| `SpuOpusStale.cfg` | `AnswerIsForRequest` | after a timeout the next call may return the earlier packet's PCM |
| `SpuOpusHang.cfg` | `ShutdownCompletes` | a worker that writes its block back over QUIT is waited for without end |
| `SessionCancelStream.cfg` | `CancelIsFinal` | a cancel that falls between two tests becomes a stream |
| `SessionApp.cfg` | `LaunchesConfirmedApp` | the cursor moves between the confirmation and its reading |
| `SessionHost.cfg` | `StreamsFromLaunchedHost` | the address is edited between launch and stream (`main.c` 299 keeps a pointer) |
| `SessionError.cfg` | `ErrorIsShown` | the error screen of `main.c` 341 is overwritten at 346 |
| `SessionTwice.cfg` | `OneTermination` | two threads pass the guard of `Connection.c` 163 together |

### Fairness

Weak fairness is assumed of steps the code takes by itself, and only of those.

- `FramePool`: the UI thread's loop never stops (`UiStep`). Nothing is assumed of the
  main thread, of VDEC or of time: neither that a picture comes nor that a stream ends.
- `VdecInput`: a submit that was entered runs on, VDEC consumes what it accepted, its
  callback runs on. The host need not send another unit.
- `SpuOpus`: a call that was entered runs on and the SPU executes. Packets and
  the end of the stream come when they come.
- `Session`: the main thread's calls return, because each has a timeout of its own
  in `handshake.c` or in the library; the UI thread draws frames; a thread that was
  started is scheduled. The exit combination, the console's exit request, the
  keyboard and the dialogs are the user's, and nothing is assumed of them.
- `InputQueue` states safety only and assumes no fairness.
- `Pairing`: the client's calls return (each has a timeout) and the user begins again, as
  the menu lets him; the PIN is entered while the host asks for it. That it is entered
  late or wrong spends a fault, as every lost message does: they are finitely many, which
  is what "keeps trying" means.
- `AudioSetup`: the main thread goes on, the playback thread runs (its wait ends after
  20 ms, `audio.c`), the receive thread finishes a packet, and a program that exits stops
  its stream.
- `Settings`: the UI and the main thread go on with a save that was begun, and time passes.
- `DecodeQueue`: receive, decoder and request thread go on and the host sends frames. That
  the stream is stopped is not assumed, and `StreamHeals` does not need it.

## 4. Proofs

All are for every value of the constants, with no bound on pictures, packets,
floats or streams other than the constants themselves.

- `FramePoolProofs` (at least three buffers, `DrawTicks < SleepTicks`): `TypeCorrect`,
  `NeverTears`, `SearchAlwaysTerminates`, `ReleaseIsSafe`, `AlwaysDrawsNewest`,
  `ImplementsRegister`. The invariant adds to the types that the ring's head
  is where its tail and count say (`RingShape`), that the three roles of a buffer
  exclude each other (`RolesApart`), where the newest picture is (`Contents`)
  and what each thread's position implies (`Lifecycle`): among it that a draw which is
  under way while the cleanup sleeps began before the sleep did, `slept <= age`, so that
  it is over when the sleep is. Every theorem needs that, since a draw in freed buffers
  would go on in those of the next stream. `RolesApart` is why no
  buffer tears; it is not inductive without `RingShape`, because a drop
  moves the tail. That the search ends is a cardinality argument: at most
  `N - 2` queued buffers and one on screen leave one free.
- `VdecInputProofs`: `AlwaysInOrder`, `NeverStuckFull` and `TypeCorrect` with the race, with
  VDEC errors and across streams, `CounterIsExact` and `BuffersAreOwned` for indivisible updates and
  no errors. The order of the held buffers, the run that ends before `vdec_front`,
  does not depend on the counter, so that the lost update cannot disturb it. `Drift` bounds
  what the race can do to the counter: each lost or doubled update needs one thread inside
  its load and store, and the two of them account for at most two; the loss does not add
  up. `NeverStuckFull` is proved with `Busy`: the counter only becomes full when a unit is
  counted, and from then on that unit is in hand, in VDEC or in its callback, or the counter
  is lowered; without it the decoder would refuse every later unit. With indivisible updates the exact counter bounds the run below the number of
  buffers when a unit is filled; `VdecInputOwner` shows that this assumption is needed.
- `AudioRingProofs` (no assumption): `RingAlwaysTail`, `AlwaysPlaysOnwards`,
  `LatencyAlwaysBounded`, `DropsAreStale`, `ImplementsStream`. The invariant is
  `RingIsTail` with the types; the work is in lemmas on distances in a ring (`Ahead`): what
  a write, a read and a restart do to them (`WriteStep`, `ReadStep`, `RestartStep`) gives
  both the action properties and the refinement, one abstract step for each of the code's.
- `AudioProofs`, first part, `SpuOpus`: `QuietRequests` and `MemoryOutlivesWorker`, with
  timeouts or without; `AnswersMatch` and `ImplementsDecoder` for a timely SPU. The first
  needs an invariant that says which requests the block, the local copy and the bounce
  buffers may still speak of when the SPU was idle at the post (`InFlight`); the second that
  a stream's worker is there only from its start to its join, whatever the block says by
  then; the others that
  host and worker alternate strictly (`HandshakeInvariance`). In the refinement a packet is
  decoded when the worker is about to put the block back; the post, the fetch, the transfer
  back, the start and the end of the worker are stutters, and only the strict alternation
  makes a second decode or a late write-back impossible.
- `AudioProofs`, second part, `AudioSetup` (no parameter, no assumption):
  `NothingEverLeaks`, `NothingEverUsedAfterRelease`, `ReleasesAlwaysHeld`. None is inductive:
  what a release may do depends on the releases still to come. `Releases(t, h)` says that
  the list `t` names nothing twice, has what stands on something else before that, covers
  all that is held and, of what is released unasked, nothing more; it survives its own first
  release (`ReleaseFirst`), and each of the hand-written lists has it for what is held where
  it is used (`ListsSound`). `Building` says what that is (`Acquired`), `Cleaning` that the
  playback thread has been joined before anything is released.
- `InputQueueProofs` (no assumption; until a packet is discarded): `TypeCorrect`,
  `BatchAlwaysQueued`, `HostAlwaysSeesPad`, `OnlySticksChange`, `HostKeysKnown`, on
  `InvariantCorrect`. The invariant says that a packet has one owner (`Ownership`), what
  each position implies (`Positions`), that the packet to update is the newest pad packet on its way
  (`Batch`) and that the newest one holds the last reading (`Truth`). `Truth` is not
  inductive without `Batch`, because only the newest may be updated in place; `Batch`
  not without `Ownership`, because a filled or freed packet must not be a queued one.
  What a step may write to is one lemma (`Untouched`), used by all of them.
  `HostKeysKnown` has an invariant of its own: what the host will hold of a key is decided
  by the last packet about it, and is what the input thread remembers or has yet to send
  (`KeyTruth`); a step that neither adds nor removes a packet about a key changes nothing
  of that (`SameHeld`). `InputQueueLost` shows that the proviso is needed.
- `FilesProofs`, first part, `Pairing` (any number of retries and faults): `TypeCorrect`,
  `TrustMutual`, `Credentials`, `PairingKept`. The invariant adds what is on the disk while a
  key pair is made (`Generating`), that an attempt only runs with credentials that were whole
  (`LoadedWhole`), and that a fingerprint is written after the host accepted
  (`SavesAccepted`); without the last one `TrustIsMutual` is not inductive.
- `FilesProofs`, second part, `Settings` (any number of changes and faults):
  `SavedAlwaysLoaded`, `CleanAlwaysSaved`. The invariant says that a save which is to count is
  alone (`OneSaver`) and that what it has printed is what is in memory, unless a change is
  marked meanwhile, and in the second file only when there is no first one (`Faithful`);
  then what is reported at its end is both on the disk and in memory (`Stands`, which proves
  a little more than the run checks: the unmarked settings are the saved ones also while the
  program ends).
- `SessionProofs` (any hosts, applications and reports): `TypeCorrect`, `LaunchConfirmed`,
  `NothingLeftRunning`. `Chosen` carries the confirmation from the list to the launch: a
  marked selection was made in this list (`Marked`), a list still on screen after the
  wait was left by a selection (`WaitedForChoice`), and from there to the launch a press of
  Cross is remembered, as nothing sets the list anew (`Kept`). An attempt that was cancelled
  is no exception.
  `Bracketed` says at which points of the main thread the library may be at work.
- `DecodeQueueProofs` (any bound of the queue, any limit, any number of faults):
  `TypeCorrect`, `GapsAlwaysRequested`, `OverflowAlwaysResumes`. Only the receive thread ends
  a wait, and only at an IDR frame: unless that one turns out corrupt, nothing but an IDR
  frame follows an overflow (`Resumes`). That no gap is
  forgotten is not inductive alone: an IDR frame on its way may still be dropped because
  the decoder thread set its flag or its pending drop meanwhile. `Refused`, `Unbroken`
  and `Pended` say that in each of these cases another IDR frame is to come, which
  rests on the request being the last of the four steps of `requestDecoderRefresh`.

`AlwaysDrawsNewest` (`DrawsNewest`), `LatencyAlwaysBounded` (`LatencyBounded`),
`DropsAreStale` (`DropsOnlyStale`), `OnlySticksChange` (`OnlySticksAreBatched`), `AnswersMatch`
(`AnswerIsForRequest`) and the theorems of `VdecInputProofs` about indivisible updates are
proved; no listed run repeats them. The two of the ring are consequences of `StreamSpec`,
and `AnswerIsForRequest` is one of `DecoderSpec`, which their runs do check.

Every invariant and every action property of the passing runs is proved. Only
model-checked is liveness (`QueuedIsShown`, `SaturationRecovers`,
`ShutdownCompletes`, `PairingAnswered`, `DisconnectReturns`, `ExitCompletes`,
`PairingRecovers`, `CleanupReturns`, `ChangeIsSaved`, `StreamHeals`), since liveness under
fairness and ENABLED are out of the proof system's reach. The inductive invariants were
checked with TLC before they were proved. `AudioProofs` and `FilesProofs` hold the proofs of
two components each and extend both; for that `AudioSetup` and `Settings` name their
specification `SetupSpec` and `ConfSpec`.
No module uses a recursive operator.

## 5. Plan

Done, in this order: `FrameRegister` and `FramePool`, `VdecInput`, `AudioRing`, `SpuOpus`,
`Session`, `InputQueue`, `Pairing`, `AudioSetup`, `Settings`, `DecodeQueue`, each with its
proofs; the abstract specifications `AudioStream` and `OpusDecoder` with their refinements.

Left, the most useful first:

1. The pad snapshot with its two readers (`input.c` 194), the mouse, a keyboard that
   disconnects, and a pad unplugged with only a stick deflected (`input.c` 282).
2. The UI frame that reads the screen twice (`ui.c` 1500), in `Session`.
3. The set-up of VDEC with its fourteen roll-back points, in the manner of `AudioSetup`.
4. The exchanges of list, information and launch (`handshake.c`), so far outcomes in
   `Session`.
5. Packets within a frame, when `DecodeQueue` is to speak of FEC.

Not modelled, and why: the SPU crypto bridge and its worker, because nothing in the
program calls them; the log buffer, one list under one mutex; drawing, scaling and
shaders, which are geometry and floating point; the network logger, the random numbers
and the shims, which hold no protocol state; codecs, ENet and cryptography, which are
vendored and external to every module.
