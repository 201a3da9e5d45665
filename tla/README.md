# A formal model of yi-hack-Allwinner

yi-hack-Allwinner is an alternative firmware for a family of IP cameras. The
vendor's programs keep running; the firmware adds an RTSP server that reads the
video the vendor's programs leave in shared memory, programs that listen to the
vendor's internal messages, and scripts that start, watch and configure all of
it. This directory holds TLA+ modules for the parts where several threads,
processes or crashes meet, the TLC instances that check them and the TLAPS proofs
of what holds for every instance. Paths below are relative to the repository.

## 1. The system

| part | state it keeps | operations | talks to |
|---|---|---|---|
| **ring reader**, `capture()` in `src/rRTSPServer/src/rRTSPServer.cpp` | four pointers into the camera's ring, ten walked headers | poll the table, check it, walk headers, resynchronise, hand on | camera (shared memory, no lock), frame queues |
| **frame queues**, same file, `Video`/`AudioFramedMemorySource.cpp` | three queues, three mutexes, `fHaveStartedReading`, detected codecs | push and trim; first read, read, stop | capture thread and event loop |
| **server start-up**, `main()`, same file | resolution, audio, back channel, types of the queues, sessions | read options, environment and files, wait for the codecs, build sessions | capture thread, live555 |
| **PCM source**, `WAVAudioFifoSource.cpp` | `fHaveStartedReading`, the background handler, a frame being filled | start, read, stop | the snoop of alsa-lib (a FIFO), event loop |
| **speaker**, `Speaker.cpp` | `fIsActive`, a counter, a named semaphore, a GPIO | switch on, time out, delete | back channel sinks, one thread each |
| **back channel**, `OnDemandServerMediaSubsession_BC.cpp`, `PCMFileSink.cpp`, `ADTS2PCMFileSink.cpp` | stream states, the last of them, what each session holds, the sockets of the source | describe, set up, play, leave, reclaim | live555, speaker, a FIFO |
| **event dispatch**, `src/ipc_cmd/ipc_cmd/ipc_multiplex.c` | nine message queues | forward every message | camera dispatcher (preloaded), ipc2file and others |
| **events to files**, `ipc2file.c` | pid file, last alarm, one file per alarm, sound threads | start, clear the queue, handle, stop | service.sh, ONVIF server |
| **frame grabber**, `src/h264grabber` | the walk over the ring, outputs, the codecs found | open, pass, write | camera (ring), whoever reads the FIFOs |
| **camera commands**, `ipc_cmd.c`, `ptz.c`, `ptz_presets.sh` | options, a daemon, the list of presets | send messages, end a motion event later, edit presets | camera dispatcher |
| **snapshots**, `src/snapshot/snapshot/imggrabber.c`, `thumb.sh` | `/proc`, the parts of a picture found, one `.jpg` per video | look, search, copy, split, write; a round a minute | camera (ring), recordings, cron, web server |
| **services and watchdog**, `service.sh`, `wd.sh` | processes, counters of bad checks | start, stop, check, restart, reboot | every daemon |
| **recordings**, `ftppush.sh`, `clean_records.sh` | last file sent, files on the card | push, remove | camera's recorder, cron |
| **MQTT configuration**, `src/mqtt-config` | connection state, configuration files | connect, subscribe, rewrite | broker |
| **upgrade**, `system.sh`, `update.sh`, `fw_upgrade.sh` | saved configuration, marker files | save, upgrade, restore | boot |
| **web interface**, `src/www/httpd/cgi-bin` | temporary files used as locks | requests | all of the above |

Hard behaviours, and what is correct in each part:

- *ring reader*: nothing locks the ring, so the table is torn under the reader;
  a frame may wrap around the end or end exactly at it. Correct: pointers and
  slots stay in bounds, the reader stays on frame boundaries, frames leave in
  order, once, and none is lost silently.
- *frame queues*: one thread drops from the end the other reads from; the event
  loop blocks inside a callback. Correct: locks balanced, queue bounded, a frame
  that was checked is the one used, order kept, the loop comes back.
- *event dispatch and files*: full queues, readers that die, starts that overlap
  a stop, timers that outlive what they were for. Correct: the dispatcher is
  never held up, one reader, no stale event, the last alarm is visible, a sound
  ends.
- *speaker*: a thread and a callback write the same flags; a deletion leaves the
  semaphore taken. Correct: one holder, no holder that is gone, silence switches
  it off.
- *server start-up*: three places change what is offered, a thread finds the codecs
  meanwhile. Correct: a session exactly for what is captured, one back channel.
- *PCM source*: the handler switches itself off, the device closes and opens.
  Correct: a request always has a handler and is answered.
- *back channel*: sessions that share one stream, which is torn down under them;
  TCP and datagrams on one source. Correct: one live stream, never a torn down one
  for who comes, a client that plays is connected and heard.
- *frame grabber*: it writes from the ring itself, and a slow reader holds it up
  while the camera writes on. Correct: what is written can be decoded, one stream
  does not stop the others for ever.
- *camera commands*: a full queue, a fork that fails, two sides that count free
  places on their own. Correct: a motion event ends, list and camera agree.
- *snapshots*: calls look through `/proc` for each other while they come and go; the
  camera writes over what is searched. Correct: one call at work, all parts of a
  picture, a thumbnail for every video in the end.
- *MQTT configuration*: a file written in place that others replace, power cuts,
  callbacks in an order nobody planned. Correct: the file is as saved, the program is
  subscribed or will notice that it is not, and it can be stopped.
- *services and watchdog* (not modelled): samples older than the restart they lead to,
  a delayed start, counters that are not reset. Correct: one watchdog after a start, none
  after a stop, a reboot only after failures in a row.
- *recordings* (not modelled): two runs at once, removal of what is being written.
- *upgrade* (not modelled): a power cut between two copies.

`PROJECT.json` lists every component, modelled or not, with its files, and every
hazard with its line.

## 2. The modules

| module | what it is |
|---|---|
| `LossyFifo` | abstract: what a frame queue promises to the sink behind it |
| `FrameQueue` | the capture thread and the event loop on the three queues; refines `LossyFifo` |
| `FrameQueueProofs` | its theorems |
| `CaptureRing` | the camera writing the ring, `capture()` reading it |
| `CaptureRingProofs` | its theorems |
| `IpcEvents` | `ipc_multiplex`, `ipc2file`, the part of `service.sh` that starts and stops it |
| `IpcEventsProofs` | its theorems |
| `Speaker` | the speaker objects of the back channel, their threads, the named semaphore |
| `SpeakerProofs` | its theorems |
| `BackChannel` | the shared stream of the back channel and its clients |
| `AudioFifo` | the PCM source on the FIFO of the camera's audio |
| `BackChannelProofs` | the theorems of both |
| `MqttConfig`, `MqttConfigProofs` | `mqtt-config`, its connection and the file it edits; its theorems |
| `H264Grabber`, `H264GrabberProofs` | `h264grabber` and its readers; its theorems |
| `CameraCommands` | `ipc_cmd` and `ptz_presets.sh` |
| `ServerSetup` | `main()` of `rRTSPServer`, from its options to its sessions |
| `Snapshot` | `imggrabber` and `thumb.sh` |
| `ProgramsProofs` | the theorems of these three |
| `MC...` | small instances for TLC |

`MCServer`, `MCBackChannel` and `MCPrograms` instantiate several modules at once. What
stands side by side there shares nothing in the code either: the first step chooses one
of them (`part`, `way`, `program`), the others stay in their initial state. That is a saving of runs
and no composition.

A definition named `Mut...` is not the code: it is a fault a change could bring
in (a lock kept, a wrap left out, a reset forgotten). Put in the place of the
definition after it, it breaks one property; `PROJECT.json` says which.

### FrameQueue

Each thread has a program counter (`capPc`, `loopPc`) that stops at every point
where the other thread can come in between: before a lock, inside each critical
section, after it. `mutex[s]` says who holds the lock of a stream. The actions of
the capture thread are the send loop of `capture()`: `CapFrame`/`CapIgnore` (find
the stream, detect its codec), `CapLock`, `CapPush`, `CapTrim` (one `pop` of the
`while`), `CapUnlock`. The actions of the event loop are `main()` waiting for the
codecs (`StartServer`), live555 starting and stopping the sink of a stream (`Play`,
`Stop`), and `doGetNextFrame` with its two phases: the first read waits for five
frames and drops the surplus (`Sync...`), the main loop looks at the front
(`ReadRetry`, `ReadBad`, `ReadFound`) and leaves **with the mutex held**; `Deliver`
copies, pops and unlocks. The video and the audio source differ in the header they
check and in one `usleep`, so one set of actions stands for both.

A frame is one of the classes `doGetNextFrame` tells apart: good, recognised SPS,
bad header, too large, empty. Left out: bytes, timestamps, the replacement of an
SPS by one with timing information (it changes the bytes, not the class).

`LossyFifo` knows nothing of threads or locks: `Put` appends and, when the buffer
is full, drops the oldest; `Lose` drops the oldest; `Get` hands the oldest on if
it is deliverable. The refinement mapping is the queue without the frame that the
trim loop is about to pop: `CapPush` is `Put`, `CapTrim` a stutter, `SyncDrop`,
`ReadBad` and a `Deliver` of a large frame are `Lose`, any other `Deliver` is `Get`.

### CaptureRing

A pointer is its distance from the start of the ring, 0..N: N, the byte after the
ring, is a value `cb_move` can leave. The camera is external: it writes a frame
whole over the oldest ones, then brings the three words of the table up to date in
any order. It is assumed never to overwrite a frame the reader has not passed (the
real ring holds seconds; the reader polls every 25 ms). `capture()` is one action
per access to the shared table and per walked header. Where the reader stands at no
frame, the header holds junk: any length, or an impossible one. `lastSent`,
`skipped`, `synced` and `need` are history variables, read by the properties (and by
the camera's assumption) only. `synced` is false while the reader has the unchecked
end of its start, and true from the first end that agreed with the table.

### IpcEvents

`Receive` and `Forward` are the preloaded `mq_receive`: one `mq_send` at a time, a
full queue goes without. Every `ipc2file` is a process with its own `exit_main`,
`last_alarm` and sound threads; the files, the pid file and the queues outlive it.
`Signal` only sets the flag; `Die` ends a process anywhere. `Start` is guarded by no
other start being under way, as the scripts start one at a time.

### Speaker

Every sink has an object. `switchSpeaker(SPEAKER_ON)` runs in the event loop, one
action per access to what the thread also uses: `First`, `Second` (the two tests of
`fIsActive`), `TryWait`/`Busy`, `SetActive`, `SetCounter`, `IoctlOn`. The thread
`speaker()` is `Look` (read the counter), `Wake` (decide on what was read before the
sleep), `DecRead`/`DecWrite`, the steps of `switchSpeaker(SPEAKER_OFF)` and `Reset`.
The semaphore and the GPIO outlive the process (`Kill`, an external `killall` of
`wd.sh`). The counter is kept in steps of 100 ms, -1 for off. `leaked` counts the
descriptors that the return for a busy speaker does not close; `CanOpen` is false
when the process has none left. Assumed: the thread sees `fExitThread` while the
destructor sleeps, which the code makes likely and does not ensure.

### BackChannel

`OnDemandServerMediaSubsession_BC` gives all sessions one `StreamState_BC` as long as
there is one (`Reuse`), else makes one (`Create`), without sockets and source if the
client names no port; `Play` is `startPlaying`, with the socket that is closed when a TCP
client is added; `Leave` is a TEARDOWN or a lost
connection; `OutputCloses` is `afterPlayingStreamState_BC`, which reclaims a stream under the
sessions that hold it. `Frame` is `afterGettingFrame` of the two sinks: a frame is
written or, of four kinds, given up, and the next one asked for. `heard` is a history
variable. What live555 does with sockets and sessions is external.

### AudioFifo

`GetNextFrame`, `NotReady`, `ReadFromFile`, `ReadSome` and `ReadNothing` are the handlers
of `WAVAudioFifoSource`; `Captures`, `Uncaptures` and `Snoop` are the patched alsa-lib in
the camera's process. Only the number of bytes is kept, modulo `Word` where the code
counts in `unsigned`. A FIFO without a writer is readable and `read()` returns 0: there
the event loop stays in `doReadFromFile`.

### MqttConfig

`Connect`, `Subscribe` and `Check` are `mqtt_connect` and `mqtt_check_connection`; `Connack`,
`Disconnected` and `Quiet` are what one `mosquitto_loop` may bring, in either of the two
places that call it (`Loop`). `Copy`, `Truncate` and `Write` are `config_replace`, and
`NotCopied`, `NotTruncated` and `NotWritten` its returns when a file cannot be opened; as it
looks at the result of no write, a failing one leaves an empty copy (`Copy`) or an empty
file (`NotWritten`). `system.conf` has 930 bytes, less than a buffer of stdio, so each
file is written at once, when it is closed, or not at all. `EditReads` and `EditRenames` are the
`sed -i` of `set_configs.sh`, which replaces the file under `config_replace` (`held`).
The rows of `config_params` are one for each kind the code tells apart. Three history
variables are read by the properties only: `want`, what was saved last; `missed`, for the
file and each copy the lines that were saved elsewhere since it was made; `blanked`,
whether one of the three accidents that can empty a file or a copy has happened.

### H264Grabber

`Pass` is a walk over the ring (see `CaptureRing`), `TakeUp` and `Deliver` write one
frame after the other from the ring, `Broken` is a write nobody reads. The thread that
opens the FIFOs so that `fopen` returns is `UnlockReads`; `ClientOpens`, `ClientReads`
and `ClientLeaves` are external. A frame that the camera has written over before its
turn may be lost or be taken for a newer one.

### CameraCommands

A process (`ProcessOf`) is the options that `getopt_long` has left set, by their place in
the order in which `main()` of `ipc_cmd` acts on them (`GivenBy`), and the steps still to
do for the one it is at; `Rest` is what a step leaves. `Words` are the strings; the model
only asks that its own literals are among them. `Sends` waits while the queue is full,
`Fails` ends the program, `Forks` is the daemon that ends a motion event or the fork
that fails. `Asked`, `Positioned` and `Finished` are `ptz_presets.sh`, one call at a time.
The camera (`Handle`) takes the first free place for a preset, as the script does.

### ServerSetup

One action for each part of `main()`: `ReadOptions`, `ReadEnvironment`, `NoBuffer` and
`CheckFiles`, `SetQueues`, `ServerUp`, and the three blocks that build the sessions. The
capture thread is `Detection`.

### Snapshot

Every call of `imggrabber` has a pid, which may be one that was free a moment ago. It
looks through `/proc` pid by pid (`Look`), then searches the ring (`WholePass`, or
`BrokenPass` if the camera writes over what is being walked) or a demultiplexed file
(`SplitFile`), and decodes and writes (`GivesUp`, `Writes`, `Ready`). A missing PPS or
IDR does not stop it: it is copied with a length of 0, and two variables are then read
that nothing has set (`got_picture`, `h26x_file_buffer`), so the call may end either way.
The loop over a file is the operator `Rounds`, on the first bytes of its NAL units. `Round`,
`Makes`, `Passes` and `Told` are `thumb.sh`, one of it at a time; `Reboot` cuts all of
it off and leaves the `.jpg` files. minimp4 is not part of the repository: it is
external, and makes one of `Files` or nothing.

## 3. What is checked

| run | instance | shows |
|---|---|---|
| `frame_queue` | low, high and AAC; -r low with audio; limit 2, first read 1; one class of each non-empty kind | `LocksBalanced`, `QueueBounded`, `CheckedFrameInFront`, refinement of `LossyFifo` |
| `frame_queue_live` | low and high, -r low; also empty frames | `EventLoopUnblocks`, `ServerStarts` |
| `server` | ring of 6 bytes, headers of 1, lengths 0 and 2, 4 slots, 5 frames; 2 speakers, counter from 2, 3 descriptors, 4 packets, 1 death | `TypeOK`, `CopiesWrap`, `StaysAligned`, `SentInOrder`, `NoSilentLoss`, `FramesMoveOn`; `OneHolder`, `RunsDown` |
| `capture_ring_sync` | the same ring with 10 slots and lengths 0..2 | **violated:** `SyncLossIsReal` |
| `ipc_events` | 2 queues of 2 messages, 2 processes, 3 messages | `SingleReader`, `LastAlarmShown`, `NoStaleEvent`, `EventsInOrder`, `DispatcherReturns`, `SoundEnds` |
| `ipc_events_restart` | 2 queues of 2 messages, 2 messages | **violated:** `AlreadyRunning` |
| `speaker_busy` | 2 speakers, 3 packets, no death | **violated:** `BusyIsInUse` |
| `back_channel` | 3 clients, 2 streams, 3 SETUPs; a FIFO of 8 bytes, words of 16, frames of 4, 2 closes | `LastIsTheOne`, `PlayedIsConnected`, `PlayedIsHeard`, `AudioFlows` |
| `mqtt_config` | 2 messages, 1 edit, 1 power cut | `AsSaved`, `NobodyDeaf`, `HearsAgain`, `StopHeeded` |
| `mqtt_config_edit` | 1 message, 1 edit | **violated:** `EditKept` |
| `h264grabber` | a ring and passes of 3 frames, pipes of 1, 4 frames, 1 reader that leaves | `TypeOK`, `Decodable`, `MovesOn` |
| `programs` | commands: 2 processes and the script, 2 places, a queue of 1, 2 calls, 2 edits; start-up: 121 option lists, 3 environments; snapshots: 3 pids, 1 video, a ring of 3, 2 other calls, 1 reboot, files of up to three samples | `ProgramsTypeOK`, `ListAgrees`, `MotionEnds`; `OfferedIsFed`; `OneAtATime`, `PartsComplete`, `KeyFrameShown`, `ThumbSettles` |

The type invariants of `FrameQueue`, `IpcEvents`, `Speaker`, `BackChannel`, `AudioFifo` and
`MqttConfig` are not in the runs: they are proved (section 4).

Why the bounds are enough. A queue of two frames is already empty, partly full, full and
over its limit, and a first read of one frame still has too few, enough and too many. A
stream that is wanted, one that is not and one that is not video are the three cases of
the send loop. A ring of six bytes holds two or three frames, frames wrap and end at its
last byte, and five frames fill it more than once, so old ones are overwritten; four
slots are used up by one pass. Two processes are what a restart has; two queues have one
that is read and one that fills up. A queue of two holds one message behind another, so
that the order inside it matters; three messages overfill it, and are an alarm, a sound
and a stop, or a sound again while the first one's thread sleeps. Two speakers are a
holder and one that is refused; a counter from 2 is full, partly down and at 0; four
packets refresh, take over and are refused often enough to use up three descriptors.
Three clients are one in each of three transports, or two in TCP with a third that takes
the socket from them; with two streams one is reclaimed and a new one made. A FIFO of 8
bytes takes blocks of 2 and 4, room of 3 bytes leaves half a sample, and a word of 16
wraps at once when -1 is counted. Two messages, an edit and a power cut are what can
meet in one `config_replace`, and an edit that reads before one and renames after it. A
grabber that is overtaken needs a ring of 3 and 4 frames. A queue of 1 makes every
second `mq_send` wait; two calls are two overlapping motion events; two edits are an add
or a removal after home has moved. Two calls that are not the script's are enough to
meet it and each other in `/proc`, and three pids let a call that ended be replaced by
another under its number. Files of three samples have up to three key frames, in a row
or apart; all of them begin with one.

Bounds that leave something out: `MCEdits` has no add with a number and no preset that
somebody calls Home (the camera is told of neither, so list and camera may disagree then);
a camera that starts late has no presets.

Deadlock checking is off where a bounded instance ends by itself: `IpcEvents` (all
messages sent, all processes gone), `BackChannel` (all clients gone), `H264Grabber` (the
program ended) and `MCPrograms` (everything called, or the server failed to start).

### Fairness

- `FrameQueue`: the camera keeps sending SPS frames of both streams and good frames
  of the wanted ones; the two threads are scheduled; a thread that finds a mutex free
  again and again gets it in the end (strong fairness). The owner always lets go of
  it after a bounded piece of work, the video source sleeps 1 ms between two looks
  and the capture thread 25 ms between two batches. The audio source does not sleep
  when its queue is empty, so the liveness run has no audio stream.
- `CaptureRing`: `capture()` never stops and the camera completes the table it has
  begun. It need not write.
- `IpcEvents`: the dispatcher's forwarding and the processes and their threads are
  scheduled. Nobody has to start, stop or kill, nor does the camera have to send.

- `Speaker`: the event loop and the threads are scheduled. No client has to send,
  come or leave.
- `BackChannel`: a client whose frames reach the sink goes on sending good ones.
  `AudioFifo`: a device that is open captures, and the event loop runs.
- `MqttConfig`: the program goes on (weak). A CONNACK that is there, or a loss of the
  connection, is found in the end (strong, as `mosquitto_loop` may time out in between):
  the keep-alive of 15 s finds it. Nobody has to send, stop, start or repair anything.
- `H264Grabber`: the program and its thread go on, and whoever has an output open reads
  it. Readers need not come, nor the camera write.
- `CameraCommands`: processes go on, `sleep()` ends, the camera reads its queue.
- `Snapshot`: processes, cron and the camera go on, and a pass that is tried again and
  again is sometimes not disturbed (strong): the ring holds seconds, a pass takes less.
  The other calls are bounded, since each of them may turn the script's away.

### Disagreements found

- `SyncLossIsReal`: `cb_move` wraps past the end (`>`), the end pointer at it (`>=`,
  line 518). When the newest frame ends at the last byte of the ring, the walk misses
  its end and runs on through old headers until its ten slots are full, and "sync
  lost" gives all pending frames up in a ring that is intact.
- `AlreadyRunning`: a stopped `ipc2file` waits in `mq_receive` for one more message
  before it ends; a start meanwhile says "Program is already running." and gives up.
  After the next message none runs.
- `EditKept`: `set_configs.sh` answers that there was no error, and `config_replace`,
  which had copied the file before, writes the old line back.
- `BusyIsInUse`: `~Speaker` ends the thread but neither switches off nor posts. After
  a client that leaves within a second of its last packet the semaphore is 0 for
  good: "Speaker is busy", and no object has it.

Two accidents the code has no remedy for are in the model without a property against
them. A power cut, or an open or a write that fails, may empty `system.conf` while
`config_replace` writes it in place; `AsSaved` says when, and that nothing else does. A
first SETUP over UDP without a `client_port` makes a stream with a sink and no source,
which never plays, is never reclaimed and is given to all who come later; `LastIsTheOne`
speaks of streams that have played for that reason.

## 4. What is proved

For every value of the constants, under the named assumptions of each module
(`StreamAssumption`, `FrameAssumption`, `SizeAssumption`; `RingAssumption`;
`QueueAssumption`, `NameAssumption`; `SpeakerAssumption`; `BackChannelAssumption`;
`MqttConfigAssumption`; `SnapshotAssumption`; `AudioAssumption`; `GrabberAssumption`;
`CommandsAssumption`; `SetupAssumption`):

| module | theorem | property |
|---|---|---|
| `FrameQueueProofs` | `TypeCorrect`, `LocksAlwaysBalanced`, `QueueAlwaysBounded`, `CheckedFrameStays` | the invariants of `frame_queue` |
| | `Refinement` | `ImplementsLossyFifo` |
| `CaptureRingProofs` | `TypeCorrect`, `CopiesAlwaysWrap`, `FramesAligned`, `OrderKept`, `NothingSkipped` | `TypeOK`, `CopiesWrap`, `StaysAligned`, `SentInOrder`, `NoSilentLoss` |
| `IpcEventsProofs` | `TypeCorrect`, `OneReader`, `AlarmsShown`, `NothingStale`, `AlwaysInOrder` | `TypeOK`, `SingleReader`, `LastAlarmShown`, `NoStaleEvent`, `EventsInOrder` |
| `SpeakerProofs` | `TypeCorrect`, `OneHolderAlways` | `TypeOK`, `OneHolder` |
| `BackChannelProofs` | `TypeCorrect`, `OneStream`, `PlayersStayConnected` | `TypeOK`, `LastIsTheOne`, `PlayedIsConnected` |
| | `AudioTypeCorrect`, `RequestsAreHeard` | `AudioTypeOK`, `RequestHeard` |
| `MqttConfigProofs` | `TypeCorrect`, `FileIsAsSaved`, `WaitsSubscribed` | `TypeOK`, `AsSaved`, `NobodyDeaf` |
| `H264GrabberProofs` | `GrabberTypeCorrect`, `GrabberDecodable` | `TypeOK`, `Decodable` |
| `ProgramsProofs` | `SetupOffersWhatIsFed` | `OfferedIsFed` |
| | `SnapTypeCorrect`, `OneCallAtWork`, `PartsAreComplete`, `KeyFramesAreShown` | `SnapTypeOK`, `OneAtATime`, `PartsComplete`, `KeyFrameShown` |
| | `CommandsTypeCorrect`, `PresetsAgree` | `CommandsTypeOK`, `ListAgrees` |
| | `ProgramsTypeCorrect` | `ProgramsTypeOK`, in the run of the three |

Each module proves one or two inductive invariants and reads the others off them.

- *FrameQueue.* The invariant joins the types, `LocksBalanced`, `QueueBounded` and
  `CheckedFrameInFront`. No one is inductive alone: `CheckedFrameInFront` survives a
  step of the capture thread because that thread needs the mutex the event loop
  holds, `QueueBounded` because only the owner of the mutex may push. The refinement is
  proved action by action on top of it.
- *CaptureRing.* Lemmas state the pointer arithmetic for every ring: `RingEnd` and
  `CbMove` return to the ring from any place in it and any length that passed the
  check of the header, `CbBytes` is the sequence of the following bytes modulo N. The
  first invariant adds to the types how many slots are used at each point. The second,
  `Aligned`, relates three views of the ring. The camera's: the frames follow each other
  and no two begin at the same byte (`LogRight`), those the reader needs are there
  (`NeedKept`). The table's: its end is the newest frame or the place after it
  (`TableRight`), so an end that agrees with it is where a frame begins, however torn the
  reads before were. The reader's: it stands at the next frame it needs (`InSync`) and
  each header of a walk takes it one frame on (`Walking`). A walk to the end 0 is the odd
  case, as `cb_move` never leads to 0: such a walk goes on until the slots are used up
  or a length is impossible, the sync counts as lost, and the reader begins again at 0, where a frame begins too. This
  is why frames can be given up without any being damaged (the finding of
  `capture_ring_sync`) but never skipped unnoticed, taken twice or cut in the wrong place.
- *IpcEvents.* The invariant says that the process past the check of the pid file is
  the one the file names. That, and not the check itself, is why a second one is
  refused; a file left by a dead process names one that is not alive. A second
  invariant, `Ordered`, follows the numbers of the messages: the dispatcher holds the
  newest, the queue is sorted, what a process holds is older than all that is queued
  (`TakenBefore`), and from the clearing of the queue on nothing older than the start
  of the process is left (`Cleared`).
- *Speaker.* `OneHolder` needs that a thread on its way to the post is that of an
  active object (`OffIsOn`): the event loop takes the semaphore only for an object
  that is off, and cannot take it before the post. The types need that a counter that
  is counted down is above 0 (`CountsDown`), as only its own thread lowers it, and that
  objects that are gone have no flag and no thread (`Lives`).
- *BackChannel.* `LastIsTheOne` is inductive with the types: only a stream with a sink
  can be reclaimed, and that is the last one; what `reclaim()` takes apart is then always
  the one sessions are given, and `PLAY` on a reclaimed stream leaves it reclaimed. It does
  not say that the last stream has a source: one without a `client_port` has none, and one
  whose output could not be opened has no sink (`Whole` is about streams that have played).
  For any number of clients.
- *MqttConfig.* `AsSaved` follows the copies: the one `config_replace` has made
  (`CopyIsRight`) and the one of sed (`DraftIsRight`) hold, beside the line they change,
  what was saved last, but for the lines saved elsewhere since, and are empty only after
  one of the accidents. Either may become the file, over the other.
  `NobodyDeaf` needs that from the SUBSCRIBE on, wherever `main()` is, a connection that is
  up has a subscription and one that is gone is known to be (`Heard`).
- *Snapshot.* `OneAtATime` follows from `NotBoth`: of two calls not both can have passed
  the pid of the other. A pid is passed only while nobody has it, and who comes later
  has still all of `/proc` to look through (`Fresh`). This holds for any number of pids and
  calls, though the look is not one step.
- *AudioFifo.* The flag `fHaveStartedReading` says whether the handler is on
  (`FlagIsRight`), and the event loop reads only for a request (`ReadsForRequest`). The
  counters stay in their word because they are taken modulo `Word`.

- *H264Grabber.* Four facts that need each other. What is to be handled is in the order
  of the camera and before the frame that is next (`Walked`); what was written is older
  than all of it (`InOrder`); an item fits its stream and its codec (`Fitting`). `Begun`
  says why no video stream begins in the middle: the pass that finds the codec leaves the
  SPS itself as the item at hand, and that one write is not dropped, since the thread that
  unlocks the FIFO keeps a reader there until it has read.
- *ServerSetup.* The invariant follows `main()`: a queue has a type from `SetQueues` on
  exactly if its stream is captured (`Marked`), the codecs of both streams are known once
  the server waits no longer (`CodecOK`), and the sessions there are those of the blocks
  passed so far, built of what is settled (`Sessions`).
- *Snapshot, the ring.* `PartsComplete` needs that the parts a search has and the frames
  ahead of it are a whole group at every moment (`Kept`): the ring holds a group or more,
  so what the camera writes over returns at its other end. That is arithmetic modulo the
  length of a group, for any length and any depth of the ring.
- *Snapshot, the file.* `KeyFramesAreShown` is about files of any length. Its hypothesis,
  `KeyFrameFirst`, says what a file that begins with a key frame is, of H.264 or of H.265;
  TLC evaluates it on the files of the run. The loop is a recursive function; that its
  rounds are those between consecutive ends (`RoundsAre`) is proved by the last place where
  the two would differ. From there on the four parts turn out to follow each other without a
  gap (`PartsOfFile`), so the picture is the file from its first part on (`PictureIs`).
- *CameraCommands.* `CmdIInv` joins the types with what a process looks like: it always has
  a step to do until it ends, and the script never has more than one option under way.
  `PresetsAgree` needs `ListIInv`: what is queued leads the places of the camera to some set,
  and what the script has still to send leads that set to its list (`Leads`, `Completes`),
  unless a command failed; and nobody else has a preset message under way. Its hypotheses,
  `ScriptOnly` and `PlainEdits`, are those under which script and camera count alike: only the
  script changes presets, an add gives no number, and no name that is added is Home or empty.
  Without them the code does not promise it, as the camera is told no number. TLC evaluates
  both on the lines and edits of the run (`ListAssumption`).
- *The three programs together.* A step of `MCPrograms` is a step of one of them and leaves
  the others alone (`StepsOfEach`), so invariants carry over.

Induction over numbers, where a lemma needs it, is done with the least or greatest element
of a set (`MinExists`, `MaxExists`).

Every invariant a passing run checks is stated by a theorem, and so are the action
properties and the refinement. Only model-checked: liveness (`EventLoopUnblocks`,
`ServerStarts`, `FramesMoveOn`, `DispatcherReturns`, `SoundEnds`, `RunsDown`, `PlayedIsHeard`,
`AudioFlows`, `HearsAgain`, `StopHeeded`, `MovesOn`, `MotionEnds`, `ThumbSettles`), which is out
of this prover's reach.

## 5. What is not modelled

- live555, libmosquitto, minimp4, the codecs and the vendor's programs, beyond what the
  code sees of them; the bytes of frames, the pixels and the watermark.
- Detection of the ring's offset and header size at start, in three programs: a search
  for patterns in bytes. `sem_fshare_*` is not built.
- The companding and volume functions of the audio filters and the time zone: tables and
  arithmetic without a state.
- The watchdog, the upload and the cleaning of recordings, the upgrade: shell scripts over
  `ps`, `netstat`, `df` and FTP. What they do depends on the outputs of those commands at
  least as much as on their own state. Their hazards are in `PROJECT.json`, without a property.
- The other scripts: text processing and pages without a state, factories for live555
  objects, programs that read or print one message. `speak.sh` and `speaker.sh` use a
  temporary file as a lock; that hazard is listed too.

Assumed and not checked: one `ptz_presets.sh` and one `thumb.sh` at a time; a frame is not
overwritten between the walk over the ring and the copy (the ring holds seconds);
`AudioFlows` ends with the first read that fails (the -1 counts as data there, and in the
end the event loop asks for 0 bytes for ever); the speaker's thread sees `fExitThread`
while the destructor sleeps.
