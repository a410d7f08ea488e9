# A verification of virtual-display in TLA+

`virtual-display` gives Windows a monitor that exists only as a network stream. An indirect display
driver (C++, `src/IndirectDisplay/IddSampleDriver`) receives the frames the OS composes for that
monitor and writes them to shared memory. A service (`src/vd-driver`, Rust) reads them, encodes them
with a hardware codec and streams them to clients over TCP, RTSP and WebRTC.

This directory holds TLA+ models of that program's own logic, TLC runs that check them on small
instances, and theorems about them that TLAPS proves for every value of the constants.
`PROJECT.json` is the index: which definition stands for which lines of `src/`, which run checks
which property, which hazard of the code each property is aimed at, and for each property a change
of the model ("mutant") that makes TLC report it as violated.

    tlc -config config_restarts.cfg MCConfigChannel    # any .cfg, with its MC module
    tlapm ConfigChannelProofs.tla                      # any *Proofs module

Contents: 1 the system, 2 the models, 3 the runs, 4 findings, 5 fairness, 6 proofs, 7 what is not
covered, 8 plan.

## 1. The system

    OS display stack                       vd-driver process
    --------------                         -----------------------------------------------
    driver host process                    main task -- control thread
      framework callbacks --CommitModes--> | MonitorConfiguration  |     \ Monitor::configure
      swap-chain thread ---SendFrame-----> | frame buffer, mutex   |      v
      cursor thread -------UpdateCursor--> | cursor block, mutex   |   command channel (1)
                                           | four auto-reset events|      ^          |
                                             frame task (16 ms) --send_frame         v
                                                                           encoding thread
                                             clients <-- one task each <-- broadcast ring (8),
                                             TCP raw / custom, RTSP,       codec data watch
                                             WebRTC                    <-- audio thread, cursor

| Component | State it keeps | Operations | Meets |
|---|---|---|---|
| Configuration channel: `MonitorClient.cpp`, `main.rs`, `win32.rs` | the four words of `MonitorConfiguration` in the mapping, the configure event, the frame buffer mutex; on each side how far it has got | constructor, `CommitModes`, destructor; startup of `entry()`, `read_configuration`, the configure branch of the control thread | two processes over named kernel objects, either of which may end or restart |
| Frame hand-off and encoding: `MonitorClient::SendFrame`, the frame task of `main.rs`, `monitor.rs` | shared frame, `bgra_buffer`, size atomics, command channel of one place, encoder, `sps`/`pps`/`sps_pps_sent` | `SendFrame`, `configure`, `send_frame`, `encoding_thread` | two mutexes, an event, a channel used in a blocking and a dropping way |
| Video distribution: `tcp_custom.rs`, `tcp.rs`, `webrtc/video.rs`, the channels of `Monitor::new` | broadcast ring of samples, codec data watch, per connection a receiver and what the client has been sent | subscribe, `handle_video`'s biased select, raw loop, `video_sender` | the encoding thread and every client |
| Cursor: `UpdateCursor*` of `MonitorClient.cpp`, cursor thread of `IndirectMonitorContext.cpp`, control thread, image cache of `monitor.rs`, `handle_control` | cursor block, two events, cursor mutex, the driver's last shape id, cache by checksum, two watch channels | position and image updates, client notifications | driver cursor thread, control thread, clients |
| Swap chain: `Driver.cpp`, `IndirectDeviceContext.cpp`, `IndirectMonitorContext.cpp`, `SwapChainProcessor.cpp` | the monitor context and the threads it owns, per swap-chain the terminate event and what has been drawn | adapter start, monitor creation, assign, unassign, cleanup, the processing thread `RunCore` | OS callbacks, processing threads, cursor thread |
| Audio: `audio.rs`, `handle_audio`, `webrtc/audio.rs` | device-change token (1), capture stream, packetizer remainder, codec data watch, broadcast ring | device change, capture, encode, per-client tasks | OS notifications, audio thread, capture callback, clients |
| RTSP: `rtsp.rs` | read buffer, session, transport, playing | the request handlers of `handle_conn` | one client each |
| WebRTC and HTTP: `webrtc/mod.rs`, `http.rs` | the channel of offers, per session a peer connection, two sender tasks, a control loop and a `Notify` | offer and answer, ICE state changes, control loop | browser, the one task that makes sessions |
| ADB: `adb.rs` | none but the list connection and one task per ready device and list | device list tracking, opening reverse tunnels | ADB server |
| Registry, entry points, controller, bindings, protocol schema | small or none | see `PROJECT.json` | |

What makes it hard, component by component, and what correctness means there:

* **Configuration channel.** The writer does not take the mutex the reader takes, so a read can mix
  two modes; both sides initialize the block; an auto-reset event is the only repair; either process
  may vanish with the mutex held. Correct: the last committed mode reaches `Monitor::configure`, and
  the reads the code asserts cannot fail do not fail.
* **Encoding pipeline.** Four threads, two nested mutexes, a channel of one place. `configure` queues
  its command before it stores the sizes; the frame task reads the two sizes one by one. Correct: a
  frame is encoded whole and in its own geometry, samples leave in order, parameter sets come before the
  samples that need them, nobody waits for ever, and after the last switch the newest frame of the
  new mode comes out.
* **Distribution.** Codec data and samples take different channels; a slow client is overrun in the
  ring; a select over three sources must not lose a wakeup. Correct: a TCP client misses nothing or
  is disconnected, and is told the configuration it decodes with at most one sample late.
* **Cursor.** Position words are read and written outside the cursor mutex; a restarted service does
  not get the shape again; the cache is keyed by pixels alone; cursor events have priority over the
  configure event in the control thread's wait.
* **Swap chain.** The OS takes chains away, replaces and abandons them while threads drain them; a
  destructor on a callback waits for a thread that looks at its terminate event only when nothing
  has been drawn. Correct: threads end before what they use, every chain goes back to the OS once,
  callbacks return, and pictures reach the service in order, the newest included.
* **Audio.** Device changes come once per role and at any time; header and packets take different
  channels; a packetizer keeps a remainder. Correct: the stream ends up on the default device, no
  sound is lost between the capture and a client of the custom protocol, and the header is right.
* **RTSP.** Requests, bodies and frames share a byte stream that arrives in pieces. Correct: they are
  kept apart, answered, and samples go only to who plays.
* **WebRTC.** A request can fail half way through a session's construction, a notification reaches only
  those who wait at that moment. Correct: every offer is answered, a failed session ends.
* **ADB.** Retries happen only when something else changes; tasks of several lists overlap. Correct:
  a ready device has its tunnel in the end, unless it was refused.

`PROJECT.json` lists each of these under "hazards" at its line, with the properties that cover it or
the reason none does yet.

## 2. The models

| Module | What it is |
|---|---|
| `ConfigChannel` | the configuration channel, word by word, with ends and restarts |
| `ConfigureCalls` | abstract specification: the calls of `Monitor::configure` it results in |
| `EncoderPipeline` | from the driver's frame copy to the encoded samples |
| `SampleSource` | abstract specification: what the encoding thread leaves visible, on which `VideoStream` is built |
| `VideoStream` | the channels of samples and codec data, and one task per connection |
| `VideoFeed` | abstract specification: what a video connection promises |
| `CursorChannel` | the mouse cursor, from the OS to the clients |
| `RtspSession` | one RTSP connection |
| `SwapChain` | the monitor object of the driver, its swap-chains and the threads it owns |
| `AudioPipeline` | from the default output device to the clients |
| `WebrtcSession` | offers, the task that answers them, and the tasks of each session |
| `AdbTracker` | the device list of the ADB server and the reverse tunnels |
| `MC` followed by any of the above but the three abstract specifications | instances for TLC |
| `Proofs` after the name of `ConfigChannel`, `EncoderPipeline`, `VideoStream`, `CursorChannel`, `RtspSession`, `SwapChain`, `AudioPipeline` or `AdbTracker` | theorems about it and their proofs |

A definition whose comment starts with "Mistake" is not used by the model. It is a plausible bug,
placed before the definition it would replace.

### ConfigChannel

`driver` is the program counter of `MonitorClient` in the driver host: the constructor opens the
events and then the mapping and clears `configured` (`DriverOpenEvents`, `DriverOpenMapping`,
`DriverClear`); `CommitModes(m)` starts a call, `WriteField(f)` are its stores, `SetConfigureEvent`
its end. `DriverDestroy` and `DriverRelease` are the destructor in the order it closes things,
`DriverCrash` the end of the host process. `vd` is the program counter of the configuration code of
`entry()` and later of the control thread; `phase` says which of the three reads it is in.
`ReadField(f)` are the loads of `read_configuration`; `ReadSome` and `ReadNone` its two results, the
second with three different consequences. `FrameTaskLock`, `SwapChainLock` and their unlocks are the
other users of the mutex. `VdExit` is any end of the service.

Decisions: the words are plain stores and loads that race, so both sides go through them in any
order; `SetEvent` and the wait are full barriers. A named kernel object lives while some process has
a handle, so what the last handle's closing loses (block and event content) is lost in the model. A
panicked main thread still has the mapping, through the frame task, until the process ends; a dead
control thread drops its event handle. An abandoned mutex is taken as acquired, as `Mutex::lock` does.

`ConfigureCalls` says what comes out of it: `Call` with the mode on display, which settles what the
control thread owes, and before it any number of `CallTorn` with mixtures of modes, after which it
still owes a call. `MakesConfigureCalls` states that `ConfigChannel` implements it: a mode is on
display from the call of `CommitModes` on, and owed until that call is over, the event is consumed
and the control thread is back in its wait. The ends of the two processes are steps of it
(`MonitorGone`, `ServiceEnds`), so the refinement has no exceptions.

### EncoderPipeline

The driver: `SwitchMode`, `AcquireFrame` (the frame keeps the geometry it was drawn in),
`SendFrameLock`, `SendFrameCopy`. The control thread: `CallConfigure`, `ConfigureSend` (blocks while
the channel is full), `ConfigureStore(f)` (relaxed stores). The frame task: `SyncFirstFrame`, then for
ever `FrameTaskLock`, `LoadSize(f)`, `SendFrameReplace`, `SendFrameNotify`; the frame buffer mutex is
held throughout and `bgra_buffer`'s inside it. The encoding thread: `Receive`, `SkipFrame`,
`RequestFrame`, `LockBuffer`, `DropMisfit` or `Encode`, then `ReceivePacket`, `BroadcastSample`,
`EmptyPacket` until `FrameDone`; for a configure `SameConfiguration` or `OpenEncoder`. `EncoderFails`
is any `?` of the thread: it ends, its guard and its end of the channel go, and nothing restarts it.

Decisions: `ConfigChannel` appears as the flag `owed`: after a switch the control thread still has a
call of `configure` to make, which carries the mode on display, and before it any number of calls
with torn values (bounded by `MaxTornCalls`). `CallConfigure` and `CallConfigureTorn` follow the rules
of `Call` and `CallTorn` of `ConfigureCalls`, while one monitor and one service live. The theorems ask
nothing of the torn values but that they are naturals, so they cover every mixture. Frames are a number and the mode they were drawn in. The frame rate atomic is left
out: nobody reads it. The codec holds frames in `inside`, as a
queue of their numbers; it may hold some back, return packets without data, and put parameter sets
into any packet. Two assumptions are made on it: packets come in the order of the frames (the
encoder is opened for the baseline profile, which has no frames in between that refer to later ones), and the first packet of an encoder
carries both parameter sets (the code sets no global header flag). `sample` records the last sample:
the frame it shows, the stamp it got and its session. A stamp is described by the number of the
frame its command was sent for.

### VideoStream and VideoFeed

The encoding thread is an instance of `SampleSource`: `OpenEncoder`, `StartFrame`, `ReceivePacket`,
`SendSample`, `FrameDone` and `EncoderFails` are the steps of that module, each with what it does to
the broadcast channel. A frame starts only while somebody listens and brings any number of packets,
and a packet is sent as a sample once the codec data of its session are out. `IsSampleSource` states
that `EncoderPipeline` implements `SampleSource`, with its clients as the listeners; so no behaviour of
the encoding thread is missing here, and what is shown of `VideoStream` holds for it. `ring` and `tail` are tokio's broadcast channel: slots with the number of
their sample, overwritten in turn, and a receiver with a cursor `next` that discovers that it lagged
by the number it finds. `codecData` with `seen` is the watch channel. Three kinds of connections:

* `Custom` (`handle_video`): first timestamp, wait for codec data, `ConfigureClient`, then the biased
  select, whose branches are tried in order and one at a time (`ConfigureClient` / `ConfigureAgain` /
  `PassCodecData`, `WriteTimestamp`, `TakeSample` / `LagCloses` / `Sleep`), so that the encoding
  thread can run between them. Every write can fail or time out and then ends the connection.
* `Raw`: `TakeSample` or `LagCloses`.
* `WebRtc` (`video_sender`): `TakeSample`, `LagSkips`, failed writes are passed over, `Done` at any
  time.

`VideoFeed` is the promise without the mechanism: samples are numbered, a client sees those made
after it joined, in order, each once; a strict (TCP) client misses none. `FeedIsKept` states that
`VideoStream` implements it with `made <- tail - 1`, `open <- Receivers`, `seenUpTo <- got`.

### CursorChannel

`cur` is the program counter of the driver's cursor thread: `WaitData`, `QueryCursor` or `QueryFails`,
then the steps of `UpdateCursorImage` (`LockForImage`, `WriteSize`, `WritePixels`, `SetImageEvent`)
when the shape is new and the cursor visible, and of `UpdateCursorPosition` (`WriteWord(w)`,
`SetPositionEvent`) always. `ctl` is that of the control thread: `WaitImage` and `WaitPosition` in the
order in which `WaitForMultipleObjects` looks at its events, `LockToRead` and `SetCursorImage`,
`ReadWord(w)` and `SetCursorPosition`; of its configure branch only the panic matters here.
`position` and `image` are the watch channels, `newPosition[c]` and `newImage[c]` whether a receiver
has something to see, `cache` the LRU cache, the image used last in front (`Recent`). `PositionChanged`, `ImageChanged`, `Borrow`, `WriteDone`,
`WriteFails` are `handle_control` and the loop of the WebRTC control channel, which is the same.
`DriverEnds` is the destructor of `IndirectMonitorContext`, `DriverCrashes` and `VdExit` ends at any
step; objects and mutex behave as in `ConfigChannel`.

Decisions: a shape is its dimensions (`size`) and its bytes (`pixels`); both are written one after the
other, so that a driver that ends between them leaves a mixture. The position words are stored in the
order of the code (`InterlockedExchange` orders them) and loaded in any order (plain loads). The OS
compares shape ids: the model compares shapes.

### RtspSession

One connection. `wire` is what the client has sent and `handle_conn` has not read, `buffer` the
`BufReader`, `at` the place in the loop. `Read` takes any prefix of `wire`, and only into an empty
buffer, as `fill_buf` and `read_exact` do. `InterleavedFrame` and `Consume` are the '$' branch,
`NotEnoughData` the `continue`, `ParseHeaders` and `Consume` a request with its body, `Handle` the
`match` over the methods, `Respond` the answer. While `rx` is set only `TakeSample`, `Lagged` and
`WriteSample` happen. `setup` is `data_tx`, which also keeps the broadcast channel open, so that
`recv` fails by lagging only.

Decisions: `readable()` does not wait in the model. On Windows, where alone the service runs, tokio
keeps a socket ready after a short read and clears it when a read finds nothing; `fill_buf` waits
instead. The mutant `ReadableWhenNew` shows what the other behaviour would do to pipelined requests.
Everything for which the connection is dropped (`?` and `bail!`) is one kind of bad request. Headers
longer than the buffer of 10 KiB are left out; they would end like a request in two pieces.

### SwapChain

`adapter` and `context` are how far `D0Entry`, `AdapterInitFinished`, `PlugIn`, `CreateMonitor` and
`MonitorArrival` got. `op` is the callback of the monitor that runs (`AssignSwapChain`,
`UnassignSwapChain`, `Cleanup`), `at` the place where it is: `JoinCursor` waits for the cursor thread,
`StopProcessor` and `JoinProcessor` are the destructor of `SwapChainProcessor`, `InitDevice` makes the
D3D device and the next processor, `Free` deletes the context. `chain[c]` is a swap-chain with its
thread (`SetDevice`, `Acquire`, `WaitFrame` / `WaitTerminate` / `WaitTimeout` / `WaitFails`,
`CopyFrame`, `Finish`, `LosesChain`, `DeleteChain`), the terminate event and what waits to be
acquired. `Draw` and `Abandon` are the OS.

Decisions: the framework runs the callbacks of one monitor one at a time. Pictures that replace each
other before they are acquired add up what has changed (`ready`), as the OS reports it. A swap-chain
has one size, so the texture is not remade inside one. What `SendFrame` does is `EncoderPipeline`'s
business; here it takes the picture.

### AudioPipeline

`OnDefaultDeviceChanged` is the OS's notice, one per role, which puts the token in the channel of one
place. The audio thread is `DropStream`, `OpenDevice`, `PublishHeader`, `BuildStream`, with
`AudioThreadFails` at every `?`. `Capture` is one call of the stream's callback with a block of any
length, `Packetize` one turn of its loop. A client of the custom protocol is `handle_audio`
(`HeaderChanged`, or `PassHeader` and then `TakePacket`, `Sleep`, `Wake`, `Lagged`), one of WebRTC is
`audio_sender`.

Decisions: captured sound is numbered, and a header carries the number of its stream. Dropping a
stream waits for its callback, as cpal does. `skipped` are the sounds that never get into a packet:
nobody listened, a packet could not be encoded, or the stream was dropped with a remainder.

### WebrtcSession

`http[o]` is the handler of a POST (`Post`, `SendRequest`, `BrowserLeaves`), `stage` the place of
`webrtc_task` in the offer it works on (`ReceiveRequest` to `Reply`); `RequestFails` is any `?` after
which what was spawned runs on. Per session `sender` are its two tasks, `control` its control loop,
`conn` the peer connection. `ConnectionFails` is the state change handler: `notify_waiters` tells who
waits at that moment. `missed` records sessions whose control loop did not hear it, because it was
sending or because its select picked a cursor update while the notification was there.

Decisions: a connection fails only after its sender tasks were polled once: ICE needs seconds to give
up, a spawned task microseconds to run. What is sent is `VideoStream`, `AudioPipeline` and
`CursorChannel`.

### AdbTracker

`tracker` is `run_internal` and `track_devices`: `Connect`, `StartTracking`, `ReadList`, any error
(`ConnectionLost`, `ReadGarbled`), ten seconds of sleep. `attempts[d]` counts the tasks
`enable_reverse` of device `d` at each of their steps; several lists can have started several.
The ADB server and the devices (`ServerStops`, `ServerStarts`, `DeviceChanges`) are external, as the
code uses them: a connection of a server that stops ends once what was sent is read, and a tunnel
lasts as long as its device and the server. `refused` are the devices whose last tasks failed
although server and device were there; nothing repeats those before the next list.

## 3. The runs

| Run | Checks | Bounds and why they suffice |
|---|---|---|
| `config_restarts` | `TypeOK`, `ReadsSucceed`, `MakesConfigureCalls`, `CommitReachesMonitor` | the monitor is up when the service starts, then either process may end once at any step; two modes that differ in two words, so that a read can mix them; two commits, so that the second overwrites a mode not read yet. After both ends the service may start first, so its branch that zeroes the block is taken too |
| `config_startup_race` | `StartupReadSucceeds` (violated) | both start at once, one commit |
| `encoder_safety` | `TypeOK`, `BufferStillWhileEncoding`, `IsSampleSource`, `SamplesInOrder`, `AnnouncedWithItsSize` | one switch and one torn configuration before its right one: three encoder sessions; two frames; the codec may hold one back, so that a call brings none, one or two packets; one client that comes and goes; the encoder may fail anywhere |
| `encoder_progress` | `NobodyWaitsForever`, `NewestFrameIsEncoded` | one switch between two modes with the same number of pixels, which is the hardest case, because the length check of the encoding thread cannot tell them apart; two frames, each drawn before or after the switch, so that an older frame of either mode can be in the buffer, in a command or with the encoding thread when the newest comes; nothing is held back in the codec, since the properties are about what goes in; the encoder may fail anywhere |
| `stream_feed` | `TypeOK`, `NeverTwoSamplesAhead`, `FeedIsKept`, `SamplesArrive` | one client of each kind; a ring of one slot and two samples, so that lagging happens; two encoder sessions; a frame brings any number of packets |
| `cursor_restarts` | `TypeOK`, `ClientShowsPosition`, `ClientShowsShape`, `ImageIsWhole`, `CursorReachesClient` | two shapes that differ in dimensions and bytes, at two places that differ in both coordinates, so that a read can mix them, one cursor hidden; the mixture of the shapes cannot be encoded; any first cursor and one change; a cache of one image; failing queries; one end of each process at any step; a client that comes and goes |
| `rtsp_requests` | `TypeOK`, `MessagesAreKeptApart`, `SamplesFollowPlay`, `RequestsAnswered` | three messages of any kind, cut anywhere: a body or a frame before a request, SETUP and PLAY before a third; two samples through one place, so that the receiver lags |
| `rtsp_split` | `MoreDataAreEnough` (violated) | one request in two pieces |
| `swap_chain` | `TypeOK`, `LifetimesNest`, `PicturesInOrder`, `CallbacksReturn`, `AbandonedChainsReturn`, `NewestPictureSent` | two chains, so that one is assigned over the other, and two pictures, so that one replaces or follows the other; abandonment, cleanup and every failure at any step |
| `audio` | `TypeOK`, `NothingIsMissed`, `NeverTwoPacketsAhead`, `StreamFollowsDevice` | one client of each protocol; one change of the device with two notices: up to three streams; packets of two sounds cut from blocks of up to three, six in all, so that remainders cross blocks and one channel place overruns |
| `webrtc_sessions` | `TypeOK`, `FailureEndsSession`, `OffersAreAnswered` | two offers over a channel of one place: one waits while the other is worked on |
| `adb_tunnels` | `TypeOK`, `NoDeviceIsForgotten`, `TunnelsOpen` | two devices, two changes: one goes and comes back, or both change; one stop of the server, one garbled list |

What they show:

* `MakesConfigureCalls`: although `CommitModes` stores without the mutex, a control thread that
  sleeps on an unset event runs the last committed mode. The event comes after the stores; a read
  that was torn is followed by another. What a torn read gets is never more than words of different
  modes, or words never written.
* `CommitReachesMonitor`: the same as progress, with the frame traffic competing for the mutex and the
  service restarting. It speaks of the last commit: an earlier one may be skipped. It asks nothing
  once a monitor has ended, since its events can then meet a block that its successor has cleared.
* `ReadsSucceed`: with the monitor up before the service starts, and until it ends, the two asserted
  reads cannot fail. This is the other side of the first finding and the first observation of
  section 4.
* `BufferStillWhileEncoding`: what is checked for size is what is encoded, because the guard of
  `bgra_buffer` lives from the check to the last packet. The price is that `send_frame` waits for
  the codec, and with it the driver, although its doc comment (`monitor.rs:204`) calls it
  non-blocking; `NobodyWaitsForever` is what holds instead.
* `SamplesInOrder`: the buffer is overwritten while commands wait or are dropped, but only by newer
  frames, so pictures and stamps never run backwards, over a reconfiguration neither. With nothing
  held back in the codec no sample is stamped later than its picture. A packet that was held back
  is, since it gets the stamp of the command being worked on (section 4).
* `AnnouncedWithItsSize`: `handle_video` takes the sizes from the atomics and the parameter sets from
  the watch. They agree when the sets are announced, or a later configure will announce again,
  except in one window: `configure` queues the command first and stores the sizes after. On a switch
  there and back a frame copied before the switch has the size of the new encoder already and can
  come out before the stores. A Configure written in that window carries the size in between, and
  nothing corrects it before the next announcement. TLC found this window, with two switches, when
  the property was first stated without its third disjunct. The run has one switch; the theorem
  `AnnouncedSize` covers any number.
* `IsSampleSource`: the parameter sets that a reconfiguration keeps are never announced for the new
  encoder, because its first packet replaces them; nothing else that frames, commands and failures
  do changes the watch or brings a sample.
* `NobodyWaitsForever`: the driver can wait for the frame task, which waits for the encoding thread,
  but none of them waits in a circle, and a failing encoding thread releases its guard.
* `NewestFrameIsEncoded`: stale sizes, older frames, of either mode, and dropped commands around a switch
  heal, since the frame task repeats the newest frame at every tick.
* `FeedIsKept`, `NeverTwoSamplesAhead`, `SamplesArrive`: see section 2; the second says that a sample
  may overtake the Configure of its encoder between two polls of the select, but only one.
* `ClientShowsPosition`: the event is set after the three stores, so a read that mixed two positions is
  followed by another; the watch channel and the select only ever skip to a newer value. This holds
  across restarts: what a client shows is either the driver's last answer or nothing yet.
* `ClientShowsShape`: the pixels a client shows are those of the shape the driver sent last, or nothing
  yet. The dimensions are not part of the property: the cache answers with those of the first image
  with the same bytes.
* `CursorReachesClient`: without an end of a process, time and again whoever is connected shows what the
  driver found last, a shape that changed while the cursor was hidden included, since the driver
  remembers the shape it sent and not the one it saw.
* `ImageIsWhole`: only an end of the driver inside the mutex lets a mixed image through.
* `MessagesAreKeptApart` (`CutOffForCause` and `AnswersInOrder`): bodies, frames and pipelined requests
  are kept apart wherever TCP cuts them, except that a request in pieces stops the connection
  (`rtsp_split`).
* `SamplesFollowPlay`: no order of methods, a SETUP before the monitor is registered included, gets
  samples to a client that has not been told that it plays.

* `LifetimesNest` (`OwnersOutliveThreads` and `ChainsAreReturned`): the destructors wait before they free,
  on every path, and exactly one of callback and thread deletes a chain. The exception is a chain
  whose thread could not be created: nobody drains or deletes it.
* `CallbacksReturn`: the terminate event is behind the frame event in the wait and is not looked at while
  pictures keep coming. So the property needs an OS that stops drawing on a chain it takes away.
* `AbandonedChainsReturn`: nothing signals an abandoned chain's thread; the 16 ms timeout is what brings it
  back to the call that tells it.
* `PicturesInOrder`, `NewestPictureSent`: a new chain's thread starts when the old one has ended, and a
  picture that was replaced before it was acquired leaves its rectangles to the next.
* `StreamFollowsDevice`: a channel of one place is enough for any number of notices, since the thread takes
  the token before it looks for the device.
* `NothingIsMissed`, `NeverTwoPacketsAhead`: what `FeedIsKept` and `NeverTwoSamplesAhead` say of video. Packets
  of the old stream may come after the new header; nothing keeps them apart.
* `OffersAreAnswered`: every step of the server may fail, and dropping the reply answers the browser.
* `FailureEndsSession`: with the exception `missed`, see section 4.
* `NoDeviceIsForgotten`, `TunnelsOpen`: a task works with what the device is when it runs, not with what the
  list said, and every change brings a list, so late tasks of old lists do no harm. `TunnelsOpen`
  adds that no error ends the tracking.

Both encoder runs start with one of their two modes (`FirstModes`): with width and height exchanged a
behaviour that starts with the other becomes one of these, since sizes enter only through equality, and
mixtures of two sizes stay as different from both as they were.

`CHECK_DEADLOCK FALSE` in all runs but the encoder's: with all commits, changes, messages or samples
used up and nobody connected, these systems do stop. The encoder runs are checked for deadlock.

The instances are small because the models have no data beyond what the properties distinguish:
modes enter only through equality, products and mixtures of their fields, clients are independent of
each other except through the ring, and sample numbers only through their order and residue. The
safety properties of section 6, which are all but the types of `WebrtcSession`, are proved for every
value of these bounds.

## 4. Findings

* `config_startup_race`: if the service creates the mapping, the driver may open it, commit a mode and
  signal before the service zeroes the flag (`main.rs:102`). The initial read finds nothing, the wait
  ends at once on the driver's event, and `.expect("Failed to read configuration")` panics.
* `rtsp_split`: a request that arrives in two pieces is never completed (`rtsp.rs:183`, `204`):
  `fill_buf` hands out what it has. The task then spins, and does not notice that the client left.

Met while modelling, part of the models, but without a run of their own (a property names the case as
its exception, or nothing in the repository promises otherwise):

* The constructor of the next `MonitorClient` clears the flag (`MonitorClient.cpp:70`) while the event of
  the previous one is pending: the `.unwrap()` at `main.rs:223` ends the control thread.
* When the query of the cursor fails, the comment says "just try again"
  (`IndirectMonitorContext.cpp:96`); the wait has reset the event, so that nothing happens until
  the cursor changes once more.
* OPTIONS advertises PAUSE and TEARDOWN (`rtsp.rs:264`); a connection that plays does not read
  (`rtsp.rs:137`).
* The comment at `webrtc/mod.rs:231` says "Connection has failed, close everything"; `notify_waiters` does not
  reach a control loop that sends, or whose select picks the cursor (`mod.rs:168`).
* An offer refused after the sender tasks were spawned (`mod.rs:239`) leaves them subscribed: the
  connection that could fail never starts.
* After the audio or the encoding thread ended, `changed()` fails at every poll and the biased select
  writes headers without end (`tcp_custom.rs:268`, `198`).
* A packet that the codec held back is sent with the timestamp of the command that brought it out
  (`monitor.rs:402`), not with that of its own frame. Nothing asks the codec to hold frames back, nor
  not to; `SamplesInOrder` says how far the two can be apart.
* A texture of another size is released by hand and again by `operator&` (`SwapChainProcessor.cpp:129`);
  one size per swap-chain keeps the code from getting there.
* `audio.rs:122` says "Target 20ms"; the packets are 10 ms.

## 5. Fairness

Weak fairness for a thread at a step it can take: the OS schedules threads. Strong fairness where a
thread waits for something others take and give back:

* the mutexes (`VdLock`, and in `EncoderPipeline` the threads that pass `SendFrameLock` and
  `LockBuffer`): waiters for the kernel's mutex are served in turn, and the frame task leaves
  `bgra_buffer` alone for the rest of its 16 ms, so nobody is overtaken for ever. Strong fairness is
  stated once per thread (`VdThread` in `ConfigChannel`); a thread has one step at a time, and all
  others of its steps stay enabled until taken. The frame task has weak fairness only, less than the
  code gives it: that is enough, since the driver sends a bounded number of frames and the encoding
  thread has at most two commands to work on while the frame task waits;
* `ConfigureSend`: the sender is woken when the encoding thread empties the channel, and the frame
  task offers its next command only 16 ms later;
* in `handle_video`, the samples branch against the 10 s interval: between two ticks the task polls
  the samples many times.

`CursorChannel`, `AudioPipeline`, `SwapChain`, `AdbTracker` and `RtspSession` need weak fairness of their
threads and tasks only: nobody waits there for something that others keep taking away. In the
cursor's clients the write is part of the task: `CursorReachesClient` speaks of clients that take
what they are sent. `WebrtcSession` adds strong fairness for `SendRequest`, since the waiting senders of a tokio
channel are queued, and takes it that ICE gathering ends. `AudioPipeline` takes it that the OS
delivers the notices of a change, `AdbTracker` that a server that listens answers. No failure (a wait that fails, a garbled list, a
failed query) is ever owed.
`rtsp_split` is a run of a task that is scheduled: it spins.

No fairness for anything the environment decides: mode switches, frames, ends of processes, codec
failures, clients connecting, reading or leaving, pictures, abandoned chains, ADB servers. A write of the custom protocol ends, because it has
a timeout; writes of the other protocols may wait for ever.

## 6. Proofs

Every theorem holds for all values of the constants that meet the named assumptions:

* `ModesAssumption`, `CursorsAssumption`: no mode of the driver and no cursor shape has a zero field; the modes `EncoderPipeline` starts with are among the modes;
* `MessagesAssumption`: a message has a method and says whether it has a body or is bad;
* `ClientsAssumption`: the kinds of connections are disjoint (in `VideoStream` it has the bounds too);
* `BoundsAssumption` of each module: bounds are naturals; rings, caches, packets, blocks, the roles
  of a device and the numbers of swap-chains and of ADB devices are not zero.

TLC evaluates them in every run. A proof is an initial lemma, a lemma per step or group of steps, and
a temporal step. Hardly any safety property is inductive: they say something of a moment at which
all is settled, or compare two ends of a path. The inductive invariants say what holds on the way.
TLC found each of them to hold on the instance of its run before it was proved. Those of the cursor,
RTSP, the swap chain, audio and ADB are theorems of their own.

**ConfigChannelProofs.** `TypeCorrect` includes who may hold the mutex when. `NoCommitIsLost` needs
to know what is true *inside* the racing read. Its invariant `Delivery` adds to the types: a client
that is not up has committed nothing (`NotUpNotCommitted`), words already stored by a call in
progress are in the block (`StoresLanded`), a completed commit stays in the block until the next
(`CommitStays`), and with the event unset, every word already loaded is the committed one
(`FreshRead`), so that a read that began after the last event returns the last mode.
`ConfigureCallsAreMade` proves the refinement of `ConfigureCalls` step by step from `Delivery`, which
settles the one step that is a `Call`, and `Mixed`, which says that every word of the block and of a
read is zero or the word of a mode; `CommitModes` is a `Switch`, the ends of the processes are steps of
their own, a `Configure` that comes too early is a `CallTorn`, and all else is a stutter.
`ReadsSucceedWhenDriverIsUp` rests on `Readable`: when the monitor was up first and as long as it
has not ended, the service never takes the path that zeroes the block, and an event or a passed read
implies the flag.

**EncoderPipelineProofs.** `TypeCorrect` has the two mutexes; its conjuncts are grouped by the thread
that changes them. `BufferIsStill` follows from the types and itself. `SamplesKeepOrder` uses `Stamps`:
no command, queued or being worked on, is ahead of `bgra_buffer`, and `bgra_buffer` is never ahead of
the driver's buffer; and on top of it `Ordered`: what the codec holds is in order, between the last
sample and `bgra_buffer` (`HeldInOrder`), the stamps are in order from the last sample over the
command being worked on to the queued one (`StampsInOrder`), and while packets come out the frame that went
in last is not older than the command (`LastHeld`). `CodecDataFirst` uses `Published`, which ties `parametersSent`, `sets`
and `codecData` to the session: the case that matters is that `OpenEncoder` keeps the old `sets`,
harmless only because the first packet of an encoder replaces them. With `Published`,
`SampleSourceKept` proves that `EncoderPipeline` implements `SampleSource`. `AnnouncedSize` uses `Sizes`:
outside of a call's stores the atomics equal the last configuration sent, wherever that is on its way.

**VideoStreamProofs.** `Kept` is the types with `Ring` (slot `i` holds the newest sample whose number
leaves remainder `i`, which rests on the lemmas about division at the head of the module) and
`Cursors` (what a client has been sent, is being sent and wants next are consecutive for a strict
client and increasing for the others). With it `FeedKept` proves the refinement: every step is a
`Make`, `Join`, `See`, `Leave` or a stutter. `ConfigureCatchesUp` adds `Sessions`: samples in the ring
are not from a session beyond the codec data, and at each place of the select what the client has
been configured with is at least what it last got.

**CursorChannelProofs.** `UpdatesAreOnTheirWay` follows an update from the driver's query to the
client. `Driver` says what the block holds at each step of the cursor thread: the words written so
far are those of the last query, and the shape in `m_CursorShapeId` is the one in the block until the
next is written. `Control` says what follows when no event waits: the watches hold what was sent
last, and of a position that is being read every word loaded so far is the new one. This is where
the reads without a common lock are made up for: a word stored after it was loaded is followed by an
event. `Client` says the same of the watches' notices. `PositionIsShown` and `ShapeIsShown` are the
three together at a moment when nothing is on its way; the second needs `RecentIsFirst`, that the
cache answers with an image of the same pixels whatever its size. `ImagesAreWhole` rests on `Whole`
and on the mutex (`TypeCorrect`); its condition, that no driver has ended yet, is where it is needed:
a driver that ends inside the mutex leaves a mixture in the block for the next to announce.

**RtspSessionProofs.** `ConnectionIsInStep` looks at `Line`, the buffer and the wire together, so that
how TCP cuts the messages drops out: a read only moves the border between the two. `WellFormed` says
that the line is whole messages in their order, but for one whose beginning has been consumed, and
`Front` that this one is what `handle_conn` is in (a frame, a body, or nothing). Hence the next byte is
never that of another message, which is `KeptApart` with `Answers`. `Samples` has three parts for `PlayFirst`: a
connection is set up and plays only after the answers that say so (`Permitted`), its receiver only
moves forward (`Reading`), and what was written stays so (`Written`).

**SwapChainProofs.** `NestingInvariant` says what each place of a callback knows (`Callbacks`), what
exists while the monitor comes and goes (`Context`), and that only the chain of the present processor
has a running thread, while one that waits for its processor, or has not been handed over, has none
and is not deleted (`Processors`). `LifetimesAreNested` follows at once. `SentInOrder`, a statement
about steps, adds `Pending`: the pictures of a later chain are newer, in one chain the held ones are
older than the waiting ones, and a running thread holds nothing older than the last picture sent.

**AudioPipelineProofs.** `NothingMissed` needs `Ordered` (sounds go from the buffer through queue and
packet to the client in their order; the last sound of a packet is the greatest) and `Covered`: after
the last sound a client was sent, all that was cut is skipped, in the buffer or in its queue, unless
its queue overran, which ends the connection before anything else is written. That the remainder is
less than a packet needs the cardinality of intervals. `HeaderAtMostOneLate` needs `Announced`, that a
client without a notice has the present header. The type of `header` is not obvious: that it stays
below its bound needs `Thread`, which counts the notices, the token and the openings that can still
lead to a header against those the device changes so far allow.

**AdbTrackerProofs.** `TrackingCatchesUp`: while a connection is read, the last list on it is the
present one; when no list is left, a task was started for every ready device without a tunnel, and it
has not asked yet, or the tunnel is there or was refused. A device that changes under its task brings
a new list, which is why tasks of old lists can be ignored.

Only model-checked:

* the liveness properties (`CommitReachesMonitor`, `NobodyWaitsForever`, `NewestFrameIsEncoded`,
  `SamplesArrive`, `CursorReachesClient`, `RequestsAnswered`, `CallbacksReturn`,
  `AbandonedChainsReturn`, `NewestPictureSent`, `StreamFollowsDevice`, `FailureEndsSession`,
  `OffersAreAnswered`, `TunnelsOpen`), because the prover handles neither fairness nor ENABLED;
* the violated statements of section 4;
* `TypeOK` of `WebrtcSession`, whose properties worth proving are liveness properties.

What a recursive definition computes would need an induction that is out of the prover's reach too.
`Recent` is therefore stated by positions in the cache and not as a filter, and `Last` of a
packet as its greatest sound.

## 7. Not covered

Not planned: EDID and mode list tables, framework glue, the device controller, the application registry
(a map under a lock), the codec and Win32 bindings, templates, metrics, the protocol schema
(generated and unused by the service) and the experiments. Pixels, colour conversion, pitch and
packet bytes are not represented.

Abstractions a reader should know of: `ConfigChannel` leaves out the control thread's cursor
branches and `CursorChannel` its configure branch, so the priority of its wait is not part of
`CommitReachesMonitor`; timeouts are a choice, not a clock;
one size per swap-chain; a connection of WebRTC is its state and not ICE; `EncoderPipeline` is the life
of one monitor and one service process.

## 8. Plan

1. The control thread's wait over three events: `CursorChannel` composed with `ConfigChannel`, to ask
   under which rates of cursor traffic a configuration still arrives.
2. The framing of the custom protocol (`write_packet` with a timeout) as a refinement of packets.
