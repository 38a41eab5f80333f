# A TLA+ model of the camera program

The program turns a HiSilicon HI3518E board into an RTSP camera. It is written
in C, runs as one process with five threads on one core, and keeps its state in
unguarded globals. This directory holds TLA+ modules that model it, TLC
configurations that check them on small instances, and proofs, checked by
TLAPS, that hold for every value of the constants. File names below are
relative to `src/src/`.

## 1. Inventory

### Threads

| Thread | Code | What it does |
|---|---|---|
| main | `main.c` `main`, `rtsp/rtspservice.c` `EventLoop` | reads the configuration, brings up the video pipeline; then, every two seconds, accepts one connection and serves every connection once |
| sender | `rtsp/rtsputils.c` `schedule_do` | takes a frame from the ring and sends it to every stream that plays |
| capture | `hidemo.c` `VENC_GetVencStreamProc` | takes frames from the encoder, publishes their parameter sets and puts them into the ring |
| night | `night.c` `night_thread_func` | reads the pin of the light sensor, pulses the pins of the infrared filter and sets the grey mode |
| ISP | `hidemo.c` `Test_ISP_Run` | one blocking call of the SDK |

No signal handler is registered, so `keepRunning` and `stop_schedule` never
change: the shutdown path (`IntHandl`, `stop_sdk`, `ringfree`) never runs. The
statement `ringreset;` in `rtspservice.c` is no call, so `ringreset` never runs
either, nor do `ringput`, `SendNalu711`, `get_u32` and
`read_sensor_from_proc_cmdline`. None of these is modelled.

### Components

| Component | State | Operations | Correct when |
|---|---|---|---|
| frame ring, `rtsp/ringfifo.c` | `ringfifo[]`, `iput`, `iget`, `n` | `HisiPutH264DataToBuffer`, `ringget` | it is a bounded FIFO that drops the newest frame; the counters never leave their range; nothing unfilled is sent |
| RTSP sessions, `rtsp/rtspservice.c` | connection list, `s32ConCnt`, `num_conn`, per connection `RTSP_session` and `RTP_session`s, `s_uPortPool`, `g_s32DoPlay` | accept, SETUP, PLAY, OPTIONS, TEARDOWN, disconnect | counts follow the list; every handle is deleted once; every slot has an owner; what is sent is what is in PLAY |
| RTSP framing, `rtsp/rtspservice.c` | `in_buffer`, `in_size`, `rtsp_cseq`, `out_buffer`, `out_size` | read, cut into requests, answer, write | each request is handled once, in order, with its own headers, and answered in order |
| send schedule, `rtsp/rtsputils.c` | `sched[]` | `schedule_add`, `schedule_start`, `schedule_remove`, the walk of `schedule_do` | no null or freed pointer is used; a started stream is served |
| RTP packets, `rtsp/rtputils.c` | sequence number, time stamp, position in the frame | `RtpSend`, `SendNalu264` | a client joins only the bytes of one frame, whole and in order |
| SDP and parameter sets, `rtsp/rtspservice.c` | `psp` | `UpdateSps`, `UpdatePps`, `GetSdpDescr` | DESCRIBE publishes whole parameter sets, although nothing locks them |
| start-up, `main.c`, `hidemo.c` | channel table `VencS`, the SDK's objects | `main`, `start_sdk` | a failure leaves a program that still serves |
| capture, `hidemo.c` | the stream and packs in hand | query, get, save, release | everything taken is given back |
| night and GPIO, `night.c`, `gpio.c` | `night_mode`; the mappings of `/dev/mem` | drive, rest, sense, grey; each access to `/dev/mem` | the grey mode agrees with the mode, whatever fails; a change that has begun is completed. That the mode follows the light the code does not achieve |
| configuration, `config/*.c` | `app_config`, `sensor_config` | `parse_app_config`, `parse_sensor_config` over `config.c` | each key is found in its own section; `CONFIG_OK` means complete; names mean the SDK's values |
| RTSP texts, TCP helpers | none of their own | header scanning, replies, system calls | - |
| sensor library, tools, traces | handles of `dlopen` | - | - |

### How they interact

    minihttp.ini -> parse_app_config -> app_config -> start_sdk, night thread
    encoder -> capture thread -> [ring] -> schedule_do -> RtpSend -> network
                    |                          ^
                    +-> [psp] -> DESCRIBE      |
    client <-> EventLoop / RTSP handlers -> [sched[], RTP sessions, handles]
    night thread -> gpio.c -> /dev/mem; grey mode of the encoder channel

The ring, `psp`, `sched[]` and the RTP sessions with their handles are shared
by two threads with no lock and no atomic access. Only the channel table is
guarded by a mutex. The build sets no optimisation level, and there is a single
core, so that every access is made in program order and reads memory anew; the
models of the threads rely on that.

### Hard behaviours

`PROJECT.json` lists every hazard at its line. The main ones: the race on `n`;
the slot that is read after it has been given back; the parameter sets
rewritten under DESCRIBE; the order of the stores in `schedule_add`;
`RtpDelete` freeing a handle in use; requests that are refused and still change
the state; counters decremented on several paths; requests cut and joined by
TCP, with bodies and lengths; sends that fail in the middle of a frame;
accesses to `/dev/mem` that fail halfway, reach no register and are never
unmapped; keys found in another section.

## 2. Modules

| Module | Models | Proofs |
|---|---|---|
| `FrameQueue` | abstract: a bounded FIFO queue that drops the newest; instanced by `RingFifo` | |
| `Ring` | the slots and counters of the ring; extended by the next two | |
| `RingFifo` | the ring, one call at a time | `Ring_proofs` |
| `RingThreads` | the ring, capture and sender threads, one memory access at a time | `Ring_proofs` |
| `StreamTable` | abstract: the table of streams, whose calls are one step each; instanced by the next two | |
| `RtspServer` | connections, sessions, schedule table and port pool, as the main thread drives them | `RtspServer_proofs` |
| `SendSchedule` | the schedule table between main thread and `schedule_do`, one memory access at a time | `SendSchedule_proofs` |
| `RtpSender` | cutting frames into packets over a network that loses them | `RtpSender_proofs` |
| `MsgScan` | `RTSP_full_msg_rcvd`: how long the message at the front of the buffer is | `RtspFraming_proofs` |
| `RtspFraming` | the byte stream of a connection cut into requests; extends `MsgScan` | `RtspFraming_proofs` |
| `ParamSets` | the strings of `psp` between capture thread and DESCRIBE, one character at a time | `ParamSets_proofs` |
| `Gpio` | `set_pin_linux` and `get_pin_linux`, one access to `/dev/mem` at a time | `Camera_proofs` |
| `Camera` | start-up, capture thread, night thread; extends `Gpio` | `Camera_proofs` |
| `ParamTable`, `AppParams`, `SensorParams` | what a parameter is, and the parameters of the two files, in order | |
| `SdkEnums` | the enumerations of the SDK that the sensor's file names | |
| `ConfigFile` | `config.c` and the run of a parser over a file | `ConfigFile_proofs` |
| `SensorConfig` | `ConfigFile` with the sensor's table against the SDK's enumerations | `ConfigFile_proofs` |

The `MC` modules instantiate these for TLC. Each module keeps the names of the
code for its variables and operators. An operator named `X_Something` that
stands before `X` is a faulty variant of `X`: a plausible bug, used to show
that a property would notice it. It is in no next-state relation.

### Ring

`Ring` has the slots, `iput`, `iget` and `n` of the code. `RingFifo` runs it
one call at a time; `ImplementsQueue` instances `FrameQueue` with the queue
read off the slots from `iget` on, `n` of them. `RingThreads` splits both operations at every access to shared memory:
the room test, the copy (two halves, enough to see a torn frame), size and
step, the load and the store of `n++`, and the same for `ringget`, which reads
the size of the slot twice. A frame being torn or sent twice is possible there,
as in the code; what holds nevertheless is stated as properties.

### RTSP server

A request is one action, since only the main thread writes this state. The
actions follow the replies: `SetupNoTransport` (400, 406), `SetupUnsupported`
(461), `SetupNoPort` (500), `SetupUnicast`, `SetupMulticast` (200);
`PlayRefused` (400, 454), `Play`; `Options`; `Teardown`; `Disconnect`. The code
returns success after most refusals, so that the state moves on; the model does
too. `AddClient` may have no memory for the connection (`AcceptNoMemory`: the
place is counted and never given back, `unallocated` says how many) or for the
session (`AcceptFaults`). `RtpCreate` may fail. Where the code dereferences a
null pointer or indexes `sched[-1]`, the variable `fault` records it and
nothing follows. Requests that change nothing are stutters.

Three properties hold only for clients that behave: the ghost `polite` becomes
FALSE at the first SETUP that is refused, not for a unicast stream or not the
first of its connection, and at the first PLAY that does not name its session.

`schedule_do` passes over a stream without a handle, so that a stream is sent
(`Streaming`) when its slot is valid, it is not paused and it has a handle. When
`RtpCreate` fails, SETUP and PLAY are answered with 200 all the same: the stream
is started and counted, and its client is sent nothing. `StreamsFollowPlay` names
these clients.

`PoliteUsesTable` instances `StreamTable` with the stream in each valid slot.
It ties each step of the table to the client that asked: while `polite` lasts, a
SETUP of `c` is the table's `Add` for a stream of `c`, a PLAY of `c` is its
`Start`, the end of `c` is its `Remove`, and no other step touches the table.

A request that names the id -1 is taken for one without a Session header.

### Send schedule

`SendSchedule` takes `schedule_add`, `RtpDelete` and `schedule_remove` apart
into their stores and interleaves them with the tests and the call in
`schedule_do`. Each session is the only one of its connection; what several
SETUPs on one connection do is `RtspServer`'s question. Two ghosts follow a pass
over the table: `due`, the streams that played when the frame was taken and were
not deleted since, and `served`, those it was sent to.

`RtspServer` makes each call of the table in one step. `ImplementsTable` is what
allows it: the stores of `SendSchedule` implement `StreamTable`, where SETUP,
PLAY and the end of a stream are one step each. It ties the steps as well:
`schedule_start` for a session is the `Start` of that session. The slot that is being linked
maps to the new session from the store of `valid` on, and a slot that is not
valid to none, whatever session it keeps.

### RTP packets

The bytes of a frame are numbers, so that a packet is a range, and a client's
view is what the ranges it received join to. `sendto` may fail or succeed with
the packet lost. The fixed header is modelled as it lies in memory: what a
client reads as the time stamp and as the SSRC is not what the code means.

### Framing

A cell of the buffer is a byte or a word that a line end never cuts;
Content-Length is two cells, so that it may be cut. There are five kinds of
request: plain, with a Session header, with a body, without CSeq, and a '$'
packet with its payload. `Read` delivers any number of cells, so that a request
may be cut anywhere between cells or come with others. `MsgScan` is the scan of
the code with its branches: line ends of either form, the empty line, a body's
length read past what has arrived, zeros after the message, a '$' packet whose
length is compared without its header. `strstr` is modelled as the code calls
it: over the whole buffer, beyond the request and beyond `in_size`. When a
request is cut the handler goes round on it without end, and the model shows
that it does; when more is removed than has come, `in_size` wraps, and the
model stops in the state `wild`.

### Parameter sets

A step of either thread is one character of `psp`: `sprintf` and
`base64_encode2` write, `strcat` reads. A character is the number of the key
frame that wrote it, so that a text shows which frames it mixes. A key frame
has the packs SPS, PPS and IDR, as the encoder delivers them.

### Camera and GPIO

Every access of `gpio.c` opens `/dev/mem` and maps it with the register's address
as the hint of where to map and with offset 0 (`gpio.c:38-45`, 60-67, 82-89). The
hint chooses only where in the process the mapping lies. What is read and
written is the start of physical memory, whatever register is meant, and `true`
is returned. So the direction, data and function registers are not in the
model, and neither is the light or the filter: nothing that the program does
depends on them or reaches them. What is in the model is the byte at address 0
(`set_u32` writes three more, which are never read). What is there is the
board's, and the model leaves it open: memory that keeps what is written, memory
that does not, or a byte that others write.

`Gpio` splits a call at each access: write the function of the pin, read the
directions of the port, write them back, write or read the data. Each access
may fail, which ends the call, and each one that does not adds a mapping that
is never undone; with `MaxMappings` of them every further access fails. `set_bit`
clears the whole byte (`!` for `~`), pin 0 of a port is taken for a missing one,
and a missing pin for a null pointer that ends the program: all three are in
the model.

`Camera` extends `Gpio`: the night thread's pulse is a sequence of calls, each
made of those accesses. The encoder may refuse `SetColor2Grey`, and nobody looks;
the ghost `refused` says whether it refused the latest call. The ghost `changes`
counts the changes of the mode. `start_sdk` is a sequence of stages, each of
which may fail; nothing is undone, and `main` serves on. The capture loop may
fail in each of its calls. `Wirings` are the three pins that the configuration
names.

### Configuration

A file is a sequence of lines (heads and keys with values), a position in the
text the number of its line. `ConfigFile` has the searches of `config.c`, with
the index `i + i` where `i + 1` is meant (what lies past the array is either
outcome), the missing value that is taken from the next line, the words that
stand for booleans, and the run over a table that stops at the first parameter
that cannot be read. The tables `AppParams` and `SensorParams` are the calls of
the two parsers in order, with their ranges, names and offsets. `SensorConfig`
compares the numbers that names become with `SdkEnums`, which is the SDK's
headers.

## 3. Runs

| Run | Checks | Instance and why it is enough | States |
|---|---|---|---|
| `ring_fifo` | `CountersAgree`, `ImplementsQueue` | 4 slots, 2 frames: fills, empties, wraps and drops; two frames tell orders apart | 787 |
| `ring_threads` | `CountInRange`, `SendsOnlyFilledSlots`, `RingDrains` | 3 slots, 7 frames: two turns of the ring and one more after two lost updates | 73,000 |
| `rtsp_core` | `ConnCount`, `HandlesOwnedOnce`, `SlotHasOwner`, `StreamsFollowPlay`, `DoPlayNeverOvercounts`, `PoliteUsesTable` | 3 sockets, limit 2, two SETUPs per connection, 4 RTP sessions, all transports, right, wrong and missing ids: the limit is passed, the pool and the table run out | 1.25 million |
| `rtsp_ports` | `PoolFullWhenOffline`, violated | 2 clients are enough | until the violation |
| `rtsp_tail` | `RemovalKeepsServing`, violated | 2 clients are enough | until the violation |
| `send_schedule` | `CallsSetAction`, `NullOnlyWhileLinking`, `PassServesEachOnce`, `ImplementsTable`, `StartedIsServed` | 3 slots, 4 sessions: a slot is used, freed and used again while those before and behind it play | 152,000 |
| `send_freed` | `SendsOnlyOpenHandles`, violated | the same | until the violation |
| `rtp_sender` | `JoinedIsFrame`, `MarkerEndsFrame` | packets of 2 bytes, frames of 0 to 7, 3 frames, 4 sequence numbers and up to nine packets: every boundary, a wrap, and a burst of loss as long as the range | 40,000 |
| `rtsp_framing` | `HandledInOrder`, `OwnHeaders`, `RepliesInOrder`, `WildOnlyOnCut`, `EveryRequestHandled` | 3 requests of every combination of the five kinds, 5 to 15 cells each, a buffer of 17, room for 2 replies: cut, joined, stale tails, leftover lengths, dropped replies | 70,000 |
| `camera` | `GreyUnlessRefused`, `NightShowsTheByte`, `ChangesCostMappings`, `CaptureCleansUp`, `ChangeCompletes` | 3 pins on two ports, bytes of 2 bits, 4 wirings (sensor the first pin of its port, another, unknown; a filter pin that is pin 0, or unknown), all three kinds of memory, 21 mappings: a whole pulse (16), a reading that changes the mode (4), and an end in the middle of the next pulse; with accesses that fail, five changes of the mode | 465,000 |
| `param_sets` | `CopyEndsInArray`, `WholeTextsOncePublished`, `OneFrameBehind` | texts of 3 and 2 characters, a profile id of 1 to 3, 4 key frames: a DESCRIBE meets several updates of each text | 2.5 million |
| `config` | `OwnKeyWins`, `StrayOnlyFromSecondHalf`, `OkMeansComplete`, `NamesMeanSdkValues` | the whole `minihttp.ini` in three orders of sections (one past `MAX_SECTIONS`, one with a section twice) and the whole sensor file, with at most one line dropped, emptied or changed, and every name of every enumeration | 60,000 |

`ring_threads`, `rtsp_core`, `rtp_sender`, `rtsp_framing` and `camera` also check
`TypeOK`. The types of the ring, the send schedule and the parameter sets are
proved for every instance and not run again; what a type of `ConfigFile` would
say is part of `OkMeansComplete`. Each property of a
passing run is shown to be violated by one of the faulty variants. Symmetry is
used only over the sockets of `rtsp_core`, which has no liveness.

Deadlock is checked in `ring_fifo`, `ring_threads` and `param_sets`. It is off
where the instance runs out of clients, requests or frames, or where the
program stops (a fault in `RtspServer` and `RtpSender`, a crashed thread in
`SendSchedule`, the failed start or the null pointer in `Camera`, the end of a
parser in `ConfigFile`).

### What the passing runs say that the code does not

- `CountInRange`: `n++` and `n--` lose updates, so `n` drifts from the number of
  frames; still neither thread can drive it out of `0 .. NMAX`: the sender only ever
  stores a number below `NMAX`, so what the encoder thread loads after its room
  test leaves room for one more, and the other way round.
- `SendsOnlyFilledSlots`: the drift lets the sender pass the last frame; what
  keeps it from an unfilled buffer is that the size is stored after the copy
  and tested when the slot is handed over.
- `HandlesOwnedOnce`: whatever was refused, each socket of `RtpCreate` has a
  connection that will delete it, and is deleted once.
- `SlotHasOwner`, `StreamsFollowPlay`, `DoPlayNeverOvercounts`: the table and
  the play counter are right for as long as all clients are polite, but for a
  client whose `RtpCreate` failed: it is in PLAY and counted, and is sent
  nothing. One client that is not polite is enough to end that for the others.
- `PoliteUsesTable`: no request of one polite client ever starts or removes the
  stream of another, although each goes by a slot number that the other may
  have had before.
- `NullOnlyWhileLinking`: `schedule_do` can meet a null session in one window
  only, and only the first time a slot is used since the program started.
  `schedule_remove` leaves the old session in the slot, and that stale pointer
  is what keeps the window closed afterwards. The crash in the first window is
  in the model (`crashed`), and real.
- `CallsSetAction`: the missing action is never called because a new session is
  paused until PLAY.
- `PassServesEachOnce`: `schedule_do` reads the session of a slot three times,
  and the main thread may free the slot and use it again in between. Still no
  stream that plays is left out of a pass, and none gets a frame twice: a
  session is never in two slots, since no session is ever added again.
- `ImplementsTable`: stale sessions in freed slots never leak into the requests:
  `schedule_start`, which writes through the slot, always unpauses the stream of
  the client that asked. `schedule_do` has no such protection (`send_freed`).
- `JoinedIsFrame`: the sequence number is stepped before the send, so that a
  fragment whose send failed leaves a gap that the client sees.
- `OwnHeaders`: the search in the whole buffer finds the right Session header
  and CSeq when the request at the front has one. For a request that has none
  it may find that of another request, and PLAY and TEARDOWN then act on it;
  the property makes no claim there.
- `WildOnlyOnCut`: `in_size` can wrap below 0, but only when a read ended
  inside a request; while reads end where requests end, no length that the scan
  believes is more than has come.
- `CopyEndsInArray`: no lock, and yet a copy always meets a zero inside its
  array: the base64 texts never change their length, and the zero behind the
  longest possible profile id is never overwritten.
- `WholeTextsOncePublished`, `OneFrameBehind`: a reply may mix key frames, but
  never lacks a part once the first key frame was published, and never steps
  back by more than one frame.
- `GreyUnlessRefused`: `ircut_off` and `ircut_on` each end with the wrong grey
  mode. `set_night_mode` corrects it, and as long as the encoder takes that last
  call nothing that failed before it matters.
- `NightShowsTheByte`: the mode is not the light's. `get_pin` writes the byte at
  address 0 with the pin's bit cleared and reads the same byte back; over memory
  that keeps what is written the mode is therefore never night, and over memory
  that does not it is a constant of the board. The filter never moves.
- `ChangesCostMappings`: even where the byte changes by itself, each change of
  the mode costs four of the mappings that a process may have, and none is ever
  given back; after that the mode stays as it is. `ChangeCompletes`: the change
  in progress is completed all the same.
- `StrayOnlyFromSecondHalf`: the index `i + i` is harmless for the sections of
  the first half of the file; only those of the second half can take a missing
  key from a section that follows.

### Findings

The three violated runs state what a comment in the code says.

- `rtsp_ports`: `rtspservice.c:1766` and `1768` have all port pairs put back
  when no user is online. `g_s32DoPlay` is decremented for clients that never
  played, so it passes 0 and the pool is not refilled. After ten such clients
  every unicast SETUP is answered 500.
- `rtsp_tail`: `rtspservice.c:1789` has a connection removed and the next one
  served. When there is no next one, the trace at 1795 reads through a null
  pointer.
- `send_freed`: `rtputils.c:196` says that closing the socket and freeing the
  handle is enough to stop a stream. `schedule_do` may be using the handle. It
  may also come to use it much later: the freed slot keeps the old session, and
  the next `schedule_add` makes the slot valid (`rtsputils.c:338`) before it stores
  the new one, so that in between the old stream looks as if it still played.
  The stale session that keeps the window of `NullOnlyWhileLinking` closed is
  what opens this one.

Other departures, seen while reading and modelled as the code has them where
they bear on a property:

- `rtputils.c:42`: the 64-bit time stamp of `StRtpFixedHdr` is aligned to 8
  bytes, so that a client reads a time stamp of 0 and, as the SSRC, a number
  that changes with every frame.
- `ringfifo.c:161`: the offset is stepped past the pack before the SPS is read
  at it (171), so that what is published comes from an earlier frame's bytes.
- `rtspservice.c:1496`: OPTIONS in READY takes the session back to INIT; 1371
  and 1403: after TEARDOWN a connection goes on without a session.
- `config.c:41`: `sections[i + i]` for `sections[i + 1]`; `config.c:130`: the
  words `true` and `false` are taken for an int and skip its range.
- `sensor_config.c:51`: the byte orders of LVDS are counted from 1, by the SDK
  (`hi_mipi.h:189`) from 0; `parse_array` stores nothing.
- `sensor_config.c:92`: `VI_CLK_EDGE_DOUBLE` is accepted and becomes 2. The header
  has the name commented out (`hi_comm_vi.h:168`), and 2 is `VI_CLK_EDGE_BUTT`, the
  bound of the type.
- `gpio.c:44`, 66, 88: the offset into `/dev/mem` is 0, and the register's address
  only a hint; no call reaches a register. No access is ever unmapped (38).
- `gpio.c:252` and 253: GPIO1_1 and GPIO1_2 have the same `muxctl`, 0x080, where
  the description of the second says register 33, which is 0x084. It chooses
  nothing while the address is only a hint.
- `hidemo.c:123`: the result of `SetColor2Grey` is not looked at; the check is
  commented out (124-126).
- `gpio.c:143`: clearing a bit clears the whole byte; `gpio.c:197`: the test for
  an unknown pin looks at the number of the pin.
- `hidemo.c:432`: the result of loading the sensor's library is not looked at.

## 4. Fairness

- `RingThreads`: weak fairness of each thread. Both are endless loops that the
  kernel schedules, with no lock to wait for.
- `SendSchedule`: weak fairness of `schedule_do` and of a call the main thread
  has begun (`Continue`). Clients need not ask for anything. `TakeFrame` is part
  of it: the encoder keeps making frames.
- `RtspFraming`: weak fairness of the server once something was read; none of
  the client.
- `Camera`: weak fairness of the night thread, whose loop has no lock to wait for
  but the one around the channel table, which is never held for long. Its
  accesses may fail at any time and for ever. None of `main`, of the capture
  thread, which may end, and of what is at address 0.
- `RingFifo`, `RtspServer`, `RtpSender`, `ParamSets` and `ConfigFile` have
  safety properties only, and no fairness. What ends a parser is a file of
  finite length.

## 5. Proofs

Proofs live in modules of their own, one per component, and assume only what
the modules assume of their constants (`NMAX` positive, sets and bounds of the
right type); TLC evaluates these assumptions in the runs. The bounds that keep
TLC's instances finite (`MaxRtp`, `MaxFrames`, `MaxKeyFrames`, `MaxMappings`...)
are arbitrary numbers here.

`Ring_proofs` proves about `RingFifo`, whose specification is `FifoSpec`:
- `FifoTypeCorrect`, `CountersCorrect`. `CountersAgree` is inductive with `FifoTypeOK`:
  a put steps `iput` and `n` together and a get steps `iget` and takes from `n`,
  so `iput` stays `n` slots after `iget` on the ring.
- `RingImplementsQueue`. The refinement mapping reads the queue off the ring.
  The initial ring maps to the empty queue; a put appends, since it writes the
  slot after the last; a get drops the head; a put into a full ring maps to
  the dropped frame and a get from an empty one to a stutter.

and about `RingThreads`:
- `TypeCorrect`.
- `CountStaysInRange`. `n \in 0 .. NMAX` is not inductive: a store writes a
  register plus or minus one. The strengthening says what a loaded register
  can be while its thread is between its test and its store: the encoder's is
  below `NMAX`, the sender's above 0, and from the test to the load the counter
  itself has that property, since whatever the other thread stores has it too.
- `SenderReadsFilledSlots`. The strengthening: a slot whose size is not 0 has
  both halves filled, and neither half is ever emptied again.

`RtspServer_proofs` has every safety property of `rtsp_core`:
- `ConnectionsCounted`: both counts of `EventLoop` follow the list. The proof
  needs the type of the list and a lemma on the list with one node removed:
  its length, that its nodes stay distinct, and that only one socket went.
- `HandlesDeletedOnce`: every open handle is owned by exactly one served
  connection, and no handle is deleted twice. The property alone is not
  inductive. `HandleInv` adds that RTP sessions not yet allocated have no handle
  (so that a SETUP never adds one that another connection has), and that a
  connection which is gone, or whose session was freed by TEARDOWN, owns none
  (so that its end deletes nothing a second time).
- `TypeCorrect`: `RestInv` completes the types of `CountInv` and `HandleInv`.
  It needs that `schedule_add` and `RTP_get_port_pair` return an element of
  their table, which rests on the least element of a set of naturals.
- `SlotsAreOwned` and `StreamsArePlays`, from `StreamInv`: while `polite`
  holds, a connection has at most one RTP session, which is paused until PLAY
  and not after, and which names a slot that names it; and every slot in use is
  named. A new session is none of those that a slot still names, since those
  are owned by a connection (`HandleInv`).
- `PoliteServerUsesTable`, from `StreamInv`: the session that a SETUP adds is one
  of the client's own and in no slot; the one that its PLAY starts or its end
  removes is the client's own, is the one in the slot it names, and is in no
  other.
- `PlaysNotOvercounted`, from `StreamInv`: a polite PLAY calls `schedule_start`
  once and adds one slot to those that are started; a release removes at most one
  and counts down at least as many.

`SendSchedule_proofs`: `TypeCorrect`, `ActionIsSet`, `NullIsNarrow`. The
strengthening says that a slot with a session has its action unless the main
thread is linking it, and that a session not yet set up, or being linked, is
paused. And:
- `ScheduleImplementsTable`. `TableInv` says that slots and streams name each
  other, but for the slot that is being linked, which nobody names; so the
  session that `schedule_start` reads from the slot is the one it was called
  for, and the slot that `schedule_remove` frees is the one that holds it.
  `AddValid`, `Start` and `Remove` map to the three steps of `StreamTable`; the
  store of the session gives the slot what it holds already, and the slot
  number goes to a session that is paused, so that these map to stutters.
  Each of the three is for the session of the caller, and no other step
  touches the table.
  `TableStaysSound` brings an invariant of the abstract table down: no stream is
  in two slots, and only streams of the table are to be sent.
- `PassServes`. `OneSlotEach` says that no session is in two slots, valid or
  not; `AheadInv` that a stream which is due and has not got the frame has its
  slot before the walk; `BehindInv` that one that got it is in no slot the walk
  will come to, not even as a stale session.

`RtpSender_proofs`:
- `TypeCorrect`, `MarkerIsLast`. The strengthening: frames come in order, and a
  frame whose marker was received is no longer in hand.
- `JoinedFrameIsWhole`: what a client joins is one whole frame. It is stated for
  bursts of loss shorter than the range of sequence numbers (`ShortBursts`; a
  longer one looks like none to a client, and the run has such bursts). The
  ghost `made` counts packets without wrapping and each packet has its number
  in `nth`; four lemmas of arithmetic give that two packets whose `nth` differ
  by at most the range, and whose numbers follow each other, are neighbours.
  The strengthening (`JoinInv`) then says what neighbours have in common: the
  same frame unless the second starts one, and bytes that follow each other.

`RtspFraming_proofs` has every safety property of `rtsp_framing`, for every
size of the two buffers, every number of requests and every mix of kinds:
- The scan first, without states. `TurnsStep` unfolds its loop: the recursion is
  a function, and the position grows with every turn that goes on (`TurnMoves`),
  so that a well-founded measure gives the value at each state. `LineTurn` and
  `LastLine` say what a turn does to a line, and `ScanOfRequest` what the scan
  makes of a request of each kind at the front of any buffer: a whole one is
  found with its length; of a first part nothing is found, or more than was
  received, or, when only the last line end is missing, all that has come.
- The stream: where each request ends (`EndsAre`, `EndsGrow`) and that its cells
  lie there (`StreamCells`).
- `Framing`, the inductive invariant `Inv`. None of the properties is inductive.
  `Window` says that what is left of the buffer is what was read and has not
  been removed. What has been removed then ends where a request ends
  (`AtStart`), or one cell before (`AtEnd`: the scan took three line ends for
  the end of the header, and the fourth stays at the front for ever). Which
  request is next decides how often each was handled and what was answered; the
  replies written and those in `out_buffer` are taken together, until the
  handler is caught.
- `TypeCorrect`, `RequestsInOrder`, `HeadersAreOwn`, `RepliesAreInOrder` and
  `WrapsOnlyOnCut` follow from it. TLC finds `Inv` true in every state of the
  instance of `rtsp_framing`.

`ParamSets_proofs`: `TypeCorrect`, `CopiesEnd`, `WholeTexts`,
`ReplySpansTwoFrames`. `TextsInv` says, by where the encoder thread is, which
key frame each character of each text comes from: the latest one or the one
before. That the zero behind each text is never overwritten, that a text in use
is never shortened and that no copy is two frames behind follow from it.

`Camera_proofs`, for every table of pins, every wiring and every number of
mappings:
- `TypeCorrect`: a call that runs is the one that the night thread is at, and for
  a pin of the table (`NightType`, `GpioTypeOK`).
- `CaptureCleans`: the place of the capture thread says what it holds.
- `GreyIsMode`: the channel is created before the night thread is (`StartedInv`),
  so that the last call of a change is the last that touches the grey mode.
- `ModeIsTheByte`. `NightShowsTheByte` is inductive only with what a reading has
  done before its last access (`ByteInv`): over memory that keeps what is written
  the byte is zero then.
- `ChangesAreBounded`. `CostInv` counts the mappings of the reading in progress,
  by the access that comes next: they are paid before the change.

`ConfigFile_proofs`, for every file, every `MAX_SECTIONS` above 1 and every
table that meets `TablesAssumption` (a switch is read before its part and not
again; a field read twice is a name first and a number then, and its names are
none of the words of numbers), which TLC evaluates on the two real tables:
- The lemmas on the search. `LeastElement`: a set of naturals has a least
  element, by well-foundedness. `NextIndex`, `SectionsBound`: the head after a
  head has the next index, and no more than `MAX_SECTIONS` are remembered.
  `FoundBelow`: what `parse_param_value` finds is the first line with the key
  below the first head of the name, and not beyond the end that `section_pos`
  reports. `EndIsNext`: in the first half of the sections `i + i` is a section
  that exists, and the end is the next head; this needs two sections at least,
  since `2 * i < Cardinality(find_sections)` must leave room for the next one.
- `OwnKeyIsTaken`, `StrayIsFromSecondHalf`, from `KeyInv`: every field that has
  a value was found on its line by one of the two outcomes of the look past the
  array.
- `OkIsComplete`. `OkMeansComplete` speaks of the end alone; `PassedInv` says
  the same of the parameters passed so far. It is inductive only with
  `FreshInv` (a field of no passed parameter has its default, so that skipping
  a part leaves the default) and with the success of the reading as a name: a
  field that is then read as a number has found the same word, which is not one
  of `true` and `false`, so it is a numeral, and suits the names as well.

- `SensorTableAgrees`, `NamesAreSdkValues`. The lists of names are compared with
  the SDK's enumerations one by one: a list whose names follow each other in the
  enumeration from its offset on agrees with it at every place (`Follow`,
  `ListedAgrees`), and the table is the concatenation of such lists
  (`ConcatAgrees`). `StoredBy`, a part of `KeyInv`, says that what a field holds
  is what its parameter makes of the word on the line it was found on; for a
  word that is a name this is its place in the list. The only assumption is that
  the table under `"sensor"` is the one of `SensorParams`, which TLC evaluates.
  The lists differ from the SDK in two places, and both theorems say by how
  much: the two byte orders are one above the SDK's numbers (`ByteOrders`,
  `EndianAgrees`), and `VI_CLK_EDGE_DOUBLE` is taken for the bound of its type
  (`SdkName`). An obligation that could not be proved showed the second.

TLC checked the whole invariant on `config` before it was proved, and
those of `SendSchedule_proofs` on `send_schedule`.

Only model-checked: all liveness (`RingDrains`, `StartedIsServed`,
`EveryRequestHandled`, `ChangeCompletes`), which the prover does not reach.
Every safety property of a passing run is a theorem.

## 6. Not modelled

- 17,292 of the 23,884 lines of implementation are headers of the SDK,
  third-party declarations without behaviour. `SdkEnums` has the enumerations
  that the sensor's file names; nothing else of them has a state to model.
- The wording of requests and replies (`ParseUrl`, transport fields, `get_stat`):
  which request is meant is an input of `RtspServer`. DESCRIBE's text is modelled
  where it depends on shared state, in `ParamSets`.
- System calls of the TCP helpers: their outcomes are the choices of
  `RtspServer` and `RtspFraming`.
- `dlopen` and the symbols of the sensor's library, the ISP thread (one
  blocking call), traces, register dumps, the stack guard: without state of
  their own, or external.
- Lengths in the ring: whether a frame fits its slot is the encoder's promise.
- Which bytes base64 encodes, and the zero that `bwrite` writes past a reply
  that fits exactly: bytes are abstracted to characters and replies.
- What is at physical address 0 of the board is left open, but for an access that
  the hardware answers with an error: none ends the program. The registers of
  the GPIO ports, the light and the filter: no access reaches them.
- Regular expressions of `config.c` are abstracted to what they find, and taken to
  compile (`config.c:67`); the arrays
  of `sensor_config.c` are read and stored nowhere.

## 7. Plan

Done: every component that has state of its own, its runs, and the safety
proofs of all modules that the prover reaches. Left, in this order:

1. A composition of `RingThreads` and `SendSchedule`: a whole pass of
   `schedule_do` over one frame, with the ring moving on meanwhile.
2. `RtspFraming` with two connections, one of them caught on a cut request:
   that the other is not served is a property of `EventLoop`.
