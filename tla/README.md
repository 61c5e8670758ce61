# Domesday Duplicator: a TLA+ verification of its capture and update paths

The Domesday Duplicator samples a LaserDisc player's RF at 40 MSPS and streams it over USB 3 to
a PC. The repository holds four programs that have to agree: the gateware of the FPGA
(`src/fpga`), the firmware of the FX3 USB controller (`src/fx3`), the capture library and its
Qt application (`src/ddd-gui`), and the tools that build and install the first two. A capture
cannot be paused and a disc cannot be read twice in the same condition, so what the code has to
get right is concurrency and failure: nothing may be lost, repeated or mixed up between the ADC
and the file without being reported, and every run has to end.

Contents: [Inventory](#inventory), [Plan](#plan), [Modules](#modules), [Runs](#runs),
[Fairness](#fairness), [Proofs](#proofs), [Divergences](#divergences),
[Not modelled](#not-modelled).

## Inventory

The path of a sample, and who touches it:

    ADC -> dataGenerator -> halfBandDecimator -> fifo/buffer -> fx3StateMachine    (FPGA, one clock)
        -> GPIF -> DMA channel -> USB bulk endpoint                                (FX3)
        -> USB source -> DiskBufferRing -> processing thread -> sink -> file       (PC)
                                               |-> MonitorTap -> windows
    CaptureController (GUI thread) -> CapturePipeline (control thread)

| Component | State it keeps | Operations | Who it meets | Hard behaviour |
|---|---|---|---|---|
| Disk buffer ring, `capture/disk_buffer_ring.*` | an atomic state per slot, two counters and a high-water mark, an abort flag | wait for free / mark full; wait for full / mark free; dump; abort | transfer thread, processing thread, and the control thread that pads and tears down | three threads in compare-and-swaps on the same slots; a waiter nobody wakes |
| Capture pipeline, `capture/capture_pipeline.*` | stop and abort flags, finished flags, a latched result, the pending sink change | Start, RequestStop, Abort, the three threads, AttachSink, DetachSink | its source, its sink, the controller | who notices a failure first; a stop, a stall and a failure in the same pass; a swap between two buffers |
| Capture controller, `gui/capture_controller.*` | monitoring/capturing, the change it waits for, the path and metadata to report | StartMonitoring, StartCapture, StopCapture, Tick, FinishRun | the pipeline | asynchronous answers matched to requests by number; a run that ends under a capture |
| USB sources, `capture/libusb_source.*`, `winusb_source.*` | transfers in flight and where each is aimed, discarded count, failure | submit, completion, sweep, cancel, reap, telemetry poll | libusb and the kernel, the ring | completions that are already there when a transfer fails; memory the kernel may still write |
| Transfer layout, `capture/usb_device.*` | none | plan of transfers over slots | the sources | numeric edges |
| Monitor tap, `capture/monitor_tap.*`, `telemetry_tap` | a sequence lock over figures, three buffers and a handover word | Publish, Read | processing thread, GUI thread | lock-free, word by word |
| Sequence validator, `capture/sequence_validator.*` | state, counter, run length, block length | Process a buffer | processing thread | a stream met in the middle, cut anywhere |
| Sinks, metrics, sidecar | an open file, sums | Write, Finish | processing thread | failure at each call |
| FPGA queue, buffer, sender, `fpga/application/fifo.v, buffer.v, fx3StateMachine.v` | pointers, count, memory read register, bypass; packet flag, countdown, error hold | one clock | the GPIF machine of the FX3 | read-during-write; three counts of one packet; a consumer that stops |
| FPGA buffer monitor, `bufferMonitor.v` | counters, peaks, prescaler, shadow | one clock, latch | register reads | clear on read in the clock of an event |
| FX3 firmware, `fx3/firmware/src/domesday-duplicator.c` | capture flag, endpoint and GPIF state | setup callback, GPIO callback, main loop | host, FPGA | callbacks of the USB driver against the application thread |
| Update agent, `update-agent.c`, `update-protocol.c` | phase, error, lengths, digests, held-back page | BEGIN, DATA, FINISH, verify, RESET, RECONFIGURE | host, EEPROM, EPCS, boot ROM, `bootLoader.v` | two threads told apart by a phase; power lost at any write |
| Host updater and orchestrators, `capture/device_updater*`, `update_orchestrator.*`, `bringup_orchestrator.*`, `device_recovery.*` | step, outcome, the stop flag | an update, a repair or a bring-up over a device that restarts | the update agent, a user who stops and tries again | a stop the device is not told of, a lost answer, a device that comes back as another |
| Automatic capture, `player/auto_capture_sequence.*`, `gui/auto_capture_controller.*` | the stage, the watch on the disc, what has to be undone | the head of a run, the watch, the tail | the player session, the capture controller | any step refused, unanswered or cancelled; a stop that opens the tray |
| Player session, `player/player_session.*` | the link, the answer awaited | one command, one answer | the serial line | an answer that comes after its timeout |
| Control server, runner, stop client, `gui/capture_control_server.*`, `headless_capture_runner.*`, `capture_stop_client.*` | sockets, the stops being waited for, the exit code | listen, a stop, a timeout, an interrupt | the capture controller's signals | an answer that is of another file; exit while a failure is still being told |
| Boot loader, flash bridge, remote update block, `bootLoader.v`, `flashBridge.v`, `remoteUpdate.v` | the state of the decision, the bridge's lock and shift, a parameter being offered | one clock | the flash, the FX3 at the same window, the device's own block | who owns the flash pins; a handshake over two clocks |
| FPGA registers, `spiRegisters.v`, `fpga-registers.c` | shift registers, the lock of the link | a register access | firmware | the shift of an access against its latch |
| JTAG, boot-image tool, windows, analysis, formats, logging | | | | sequential I/O, layout, arithmetic |

What makes each of the modelled ones correct is stated under [Modules](#modules). `PROJECT.json`
lists every component with its files, and the hazards, each at the line where it bites.

## Plan

Order of work, the core first. Done:

1. `DiskBufferRing`, `RingHandoff` with its abstract specification `BoundedHandoff`, and the
   proofs `HandoffProofs`;
2. `CapturePipeline`, a whole run over that ring, and `PipelineProofs`;
3. `SinkChange`, recordings on a running stream, with the controller that asks for them, and
   `SinkProofs`;
4. `TransferLayout`, `TransferPlan`, `LibUsbSource`: the real source, and its proof `LibUsbProofs`;
5. `StatsPublisher`, `SnapshotPublisher` and their proofs: what leaves the pipeline sideways;
6. `SequenceValidator`: what the pipeline checks;
7. `CaptureFifo` with `BoundedQueue`, `CaptureBuffer`, `BufferMonitor` and their proofs: the FPGA;
8. `UpdateAgent` and its proofs: the firmware's updates, up to what starts afterwards;
9. `UpdateHost`, composed with `UpdateAgent`, and its proofs over those of the agent: the
   orchestrators of an update, a repair and a bring-up over a device that restarts under them;
10. `FpgaBoot` and its proof: the boot decision, the flash bridge and the remote update block, with
    the FX3 at the other port of the window;
11. `CaptureControl` and `ControlSocket`, a capture run from a script, and `AutoCapture`, a side of
    a disc captured by itself, with the proofs of the three, `ControlProofs`;
12. `RegisterLink`: the register bank of the FPGA against the bit-banged accesses of the firmware.

Next:

13. the WinUSB source, against the same obligations as `LibUsbSource`.

Modules that share nothing are checked in one run, one of them moving at a time (as `FpgaBlocks`
and `HostBlocks` do), so that the list of runs stays short.

A theorem still worth proving: `AccessIsWhole` of `RegisterLink`.

## Modules

Names follow the source: a variable `slots_filled` is `slots_filled_`, an action is the function
or the step of it that it is named for, and variables ending in `Pc` say where in its function a
thread is. Each module that models code gives every definition's lines under `map` in
`PROJECT.json`.

**The ring.** `DiskBufferRing` has the operations of `disk_buffer_ring.cpp` on one slot:
the waits, the compare-and-swaps, the store of `Abort`, the swap of the padding.
`RingHandoff` puts the threads around them, one atomic access a step: the transfer thread
(`top`, `wait`, `fill`, `cas`, `count`, `peak`), the processing thread (`top`, `wait`, `read`,
`free`, `count`), `Abort` slot by slot, and the control thread's padding slot by slot, pass after
pass. `data[i]` is the number of the buffer in slot `i`, `Stale` while the producer is writing it.
`BoundedHandoff` is what its user may rely on: buffers come out in order, at most `Capacity` in
flight, one borrowed at a time, closed by the producer and torn down by an abort. `RingHandoff`
implements it under the mapping in the module (`ImplementsHandoff`).

**A run.** `CapturePipeline` models `Start` to `Stopped` over a `SyntheticSource` with every
fault it can inject, the ring an operation at a time. The latch of the first failure is the
compare-exchange and the store after it, two steps. The control thread's loop reads the finished
flags, the abort flag, and the stop flag in the order the code does, tears down, pads, joins,
closes source and sink, and gives the verdict. The caller may stop, abort or start again at any
step, each once. `file` is the sequence of the buffers written. The ring's slot-at-a-time
teardown is one step here: `RingHandoff` covers the difference.

**Recording.** `SinkChange` models a stream that runs and recordings that are begun and ended on
it: `AttachSink` and `DetachSink` as their separate atomic steps (store, exchange, count), the
swap of `PerformPendingSinkChange` exchange by exchange between two buffers, the run's end, and
the controller's calls on its event loop with the tick that collects what was retired.
`impatient` is a history variable: whether a capture was ever started before the previous one was
reported.

**The USB source.** `TransferLayout` places transfers over the slots; `LibUsbSource` has
`Run`'s loop, the completion callback with its four outcomes, the failure sweep, discards, the
telemetry transfer, and a device that delivers, loses a block, fails a transfer, falls silent or
goes. Transfers complete in order, but are reaped later, and a cancelled one may have completed
already. Blocks carry their number modulo `Laps`, more than are ever in flight. `TransferPlan` is
`PlanTransfers` and its loop, an input at a time.

**The tap.** `StatsPublisher` takes the sequence lock a word at a time, with any number of readers;
`SnapshotPublisher` the three buffers with the handover word (index and fresh flag).

**The validator.** `SequenceValidator` has `Process` over whole buffers and a stream around it: any
phase, either gateware's block length or no markers, and a hole of any size anywhere. A buffer is
the sequence of its counters.

**The FPGA.** One step is one clock edge. `CaptureFifo` keeps all registers of `fifo.v`; the
memory's answer to a read of the address being written is anything (`Junk`), which the bypass has
to hide. `BoundedQueue` is what it implements (`IsAQueue`). `CaptureBuffer` has the packet flag,
the error flag and the sender of `fx3StateMachine.v` with the FX3's GPIF machine, over the *level*
of the queue; the machine may be stopped in the middle of a packet and started again as
`domDupStopApplication` and `domDupStartApplication` do. `BufferMonitor` has every counter, its
saturation and its latch; `owed` is a history variable: what has happened and has not been read.

**The update agent.** `UpdateAgent` has the USB callback (`Begin`, `Data` with its two refusals,
`Finish`, the pages it writes one at a time, erasing sectors as it enters them) and the
application thread (`PickUp`, `ReadBack`, `Compare`, `Commit`, `Reread`) on the same state, with
start and stop of a capture, reset and reconfiguration. Around it: media that refuse or silently
garble an access, power loss and reset at every step, the boot ROM (`FirmwareBoots`) and the
decision of `bootLoader.v` (`FpgaBoots`), and recovery through RAM. A page is the image it belongs
to, and a digest is an image: SHA-256 and the CRC are taken to tell images apart, which is what
they are for. The chunk number is the one bit whether it is the next one. `proved` collects what a
read-back found equal to the promise; `stray` records that a DATA or FINISH came while the
application thread had the medium.

**The host's side of an update.** `UpdateHost` extends `UpdateAgent`: each call of
`IDeviceUpdater` is one step, together with what the device's callback does in it, and the device
goes on by itself in between. `Start` is the gate (`update_gate.cpp`) and the choice of flow;
`Wake` is the recovery of a device out of its boot ROM; then status, BEGIN, chunks, FINISH and the
wait for completion for each component of the bundle in the order of the code, RECONFIGURE or
RESET, and the identity read back after the return. A bring-up first configures the gateware over
JTAG (`ConfigureFpga`) and is of a board whose jumper a person moves. A user may stop a run
between any two steps, and start another with the same bundle or a later one; an answer may be
lost, and power with it. `clean` is a history variable: nothing stood in the way of this run.

**A side of a disc.** `AutoCapture` has the sequence of `auto_capture_sequence.cpp` stage by stage
(the head, the watch, the tail in its two orders), the controller that posts each step and turns
answers into events, and the session with its timeout and reconnection. The player is external: it
turns through its programme, refuses, answers late or never, and has a person beside it. An
address is a small number; a run is of one of the shapes that `auto_capture_plan.cpp` can make.
`misread` is a history variable: an answer was read as that of another question.

**A capture run from a script.** `CaptureControl` has the headless runner with its timers, signals
and exit code, the server's stop, and any number of clients, over a controller whose swap of sinks
is one step (`SinkChange` has its parts). The `Finish` of the sink that is swapped out may fail:
the file is `broken` and counted like any other, and the stream, `failing` from then on, is brought
down by the control thread some time later. `premature` is a history variable: a tick reported a
file in between. Slots run inside the call that emits their signal, as direct connections do. `ControlSocket` is `Listen`: knock, listen, knock again, remove, listen, by
instances that start at once, any of which may be killed.

**The boot decision.** `FpgaBoot` is clocked like the other modules of the FPGA and has three of
its modules wired as `DomesdayDuplicatorFactory.v` wires them: `BootLoader`, state by state, with
the write it registers for the next clock; `Bridge`, whose shift takes `ShiftClocks` and whose
`chip` is the flash as it hears bytes; `RemoteUpdate`, with the block behind it on a quarter of
the clock. `Window` is the multiplexer. The FX3 writes to the window as it does in an erase, or
asks for a reconfiguration, at any clock it likes but with at least a shift between two writes. A
byte of the flash is its address, and a CRC is the sequence that was folded, so a byte that is
missing, repeated or out of order is told from one that is in its place. `Reconfigures` ends a
life of the FPGA and begins the next one, with whatever the flash holds by then. `UpdateAgent`
keeps the decision as a function of the flash (`FpgaBoots`); this is the machine that makes it.

**The register link.** `RegisterLink` has the two threads of `fpga-registers.c` with their lock,
pin by pin, and `spiRegisters.v` clock by clock: the synchronisers, the filter of the clock and the
select line, the shift registers, the address that moves on (but not from the port to the flash),
the LEDs, and the pulse that makes the instrument take a sample into its shadow. The firmware holds
its pins for at least `Phase` clocks. A line may ring for a clock, the FX3 may restart in any clock,
and the FPGA may be configured in any. `seen`, `samples`, `heard` and `ledMay` are history
variables: what an access met, and what the LEDs may show after all there were.

`MCCapturePipeline`, `MCLibUsbSource`, `HostBlocks` and `FpgaBlocks` are for TLC: option sets, and
modules that share nothing put in one run. In the last two a variable chosen at the start
(`exercised`, `clocked`) says which part moves; the others stand still in one initial state, so
nothing is lost by checking them together.

## Runs

All runs end within a few minutes on two cores. The violation runs look for a counterexample to
what a comment or header says, and find it.

| Run | What it asks | Bounds, and why they are enough |
|---|---|---|
| `pipeline` | the file is a clean prefix, closed last, and the verdict true (`RunIsSound`); the first failure stands; every run ends, and a stall that nothing else ended is reported (`RunsEnd`) | 2 slots, 4 buffers, 1 discarded, every fault alone at the first buffers, sink failures at write and at close, and the pairs of failures that race. Three threads and the caller interleave fully; more buffers repeat the loop |
| `sink_change` | ownership of sinks and true reports (`SinksAreSafe`), no open file dropped, attaches applied | 2 recordings, 2 runs, 2 buffers a file, a duration limit at 2: enough for a change to overtake another, and a run to end under each step |
| `libusb` | no write under a reader or after the end; slots follow on; a stop keeps whole slots (`BuffersAreSafe`) | 4 slots (the least the code uses) of two packets, each kind of layout, one fault |
| `libusb_liveness` | every run ends for which the code provides an end | the layout with two transfers to a slot and transfers in one slot at a time, one fault |
| `host_blocks`: the ring | one owner per slot, order, drain, a peak that covers the backlog, refinement of `BoundedHandoff`, release of everyone | 3 slots and 4 buffers: a slot is used again, the producer can be a full lap ahead, and padding and teardown meet the threads at every offset. The same invariant is proved for every size |
| ... the tap | no torn or stale read is accepted | 2 words, 1 reader, 3 publications, 5 snapshots: a writer that laps the reader. Proved for every size |
| ... validator and plan | sound streams pass and holes are found (`HolesAloneAreCaught`); the plan against its definition (`PlanIsSafe`) | a counter of 3 values, blocks of 4 and 5, buffers of 5 to 7, holes of up to 24 samples, more than a period of either gateware; all inputs up to 12 packets, 6 slots, target 5 |
| ... a side | what a run started is undone; no stop opens the tray; completed means whole; every run ends (`NobodyIsLeftWaiting`, which asks it of the ring's threads and the script's process as well) | a programme of 2 addresses between lead-in and lead-out, stall and stop after 2 readings, every set of controls, one mishap: each step of head, watch and tail meets each mishap |
| ... a script | a client is told the file it stopped; the exit code is true; the process exits; one instance listens | 2 clients, 2 files: a stop and a capture may overtake each other, a file may fail to finish, and its report may come before, with or after the end of the stream; 3 instances: two that race and one in the way |
| `fpga_blocks`: the stream | queue with the read-during-write hazard; packets whole; level; counts and peaks | depth 3 (not a power of two); packets of 8 in a queue of 16, the real one's proportion, with the error hold shorter than a packet as in the code; counters that saturate (and wrap) at 1, two near-full samples to a unit: a counter is at its limit, and past it, between two latches; the latch's own number modulo 1, for nothing here is about it. The counts are proved for every size |
| ... the boot decision | only a checked image is handed over to, with everything set and the pins free, and commands on the flash are whole (`FlashIsSafe`); every start comes to the right decision (`EveryStartIsDecided`) | a flash of 16 bytes under a word of 5 bits, boot blocks of 4 bytes that claim 0, 2, 9 and (wrapping) 26; a shift of 3 clocks, a block busy for one or two of its clocks, 2 reconfigurations asked for: the FX3's operation starts at any clock of the decision, and ends in any clock of the next one |
| ... the register link | every access gets what it named, and leaves nothing behind that it did not write (`AccessIsWhole`) | bytes of 4 bits; a write of the LEDs, a burst of two bytes to the port, and a read of the telemetry over two bytes of its shadow; 7 clocks a phase, two more than an edge takes through the filter, where the firmware holds its pins for 120; one fault, of a line or of either side |
| `update_agent` | threads apart by phase; only proved images start, COMPLETE is whole (`BootsWhatWasProved`); the first failure stays; FINISH ends | two images, images of 2 pages (the held-back one and one that is not), chunks of 1 or 2, three targets, two BEGINs, one fault or one intruding request, one restart: an update over a half-written one, and power lost at every write |
| `update_host` | the two designs never meet; what is reported is what is on the board, and a run nothing stood in the way of succeeds (`OutcomeIsTrue`); every run returns | the legacy design and two releases, bundles of one component and of all three, chunks of a page, one fault of the medium, and 3 in all of: runs after the first, lost answers, stops, power cycles |
| `sink_detach_lost` | violation of `StoppedMeansDetached` | one capture |
| `sink_restart` | violation of `ReportNamesItsFile` | two captures, one run |
| `libusb_stop` | violation of `StopNeverHangs` | no fault but silence |
| `update_stop` | violation of `StoppedKeepsItsFirmware` | one run and one stop |

What the properties say is in the comment above each. Those of `update_agent` are stated for a
host that does not send DATA or FINISH while the device verifies; what happens otherwise is under
[Divergences](#divergences), and `update_host` has a host that does, and asks what its user is
told. The report of `SinksAreSafe` and the reply in `AnswersAreTrue` are stated for a
user who waits for a file's report before the next capture; `sink_restart` shows why. Of a file that
its encoder could not finish, `AnswersAreTrue` promises a failing exit code only if it is reported
once the run is down, and `SuccessIsFinished` is what the code does not keep.

Deadlock is checked wherever a finished state is a state of its own (`Finished`, `Stopped`,
`SessionOver`, `RunOver`); it is off in `host_blocks`, whose publishers, scripts and runs stop at
their bounds, and in `update_host` and `update_stop`, where nobody has to start another run.

## Fairness

* Threads get to run: weak fairness on each thread's steps, for the operating system (and the
  RTOS of the FX3) schedules them and none of them waits on a lock another can keep.
* The watchdog's time runs out: strong fairness of its firing while the device is silent, because
  its test alternates with its sleep and so is not continuously enabled.
* libusb delivers completions: strong fairness of the callbacks, which are enabled each time the
  event loop is entered; a queued transfer is served while the device streams, is cancelled, or
  is gone.
* A call that the caller has entered runs to its end. Nobody has to call anything: stop, abort,
  attach, detach, updates, resets and faults are without fairness.
* The worker thread of an update and the device each go on (`Host`, `Device`), and a device that
  has acknowledged a RESET obeys it; the user, the jumper, losses and faults owe nothing.
* An event loop runs what is posted to it, and timers that are armed fire: weak fairness of the
  sequence's controller, its worker and its poll, of the tick, and of the runner. A disc that
  turns goes on turning. Clients, people and the end of a stream are without fairness.
* The FPGA's clock does not stop, neither the buffer's nor the boot logic's. `CatchesUp` is conditional on an FX3 whose buffers are ready
  (`Served`), which is a premise of the property and not of the specification.

## Proofs

Eight modules of theorems, checked for every value of the constants under the assumptions that the
modelled modules state: a ring has at least one slot, and the one transfers roll through four (the
least the code uses); the options of a source are a flag and sizes; a queue is deeper than one word
and `Junk` is no word; a packet is of at least five words (with fewer the handshake, which takes
that long, would let in more than a packet); the device has reconfigured before the FX3 could send
three bytes (`ReconfigClocks`: its block takes the request for 250 ns); an erased page and one of no
image are told apart; no image, no release and no instance has a name that stands for something
else, and no release is a legacy design; a programme of a disc has an address.

* `HandoffProofs` has the three ways of handing something to another thread. Of the ring,
  `RingInv` is inductive. `NoSharedSlot` is not by itself: it needs to know *where* the two threads
  are in the roll. `Layout` says it: the producer's next slot is `Lag` slots past the consumer's,
  where `Lag` counts the buffers in flight; exactly the `Lag` slots from the consumer's on may be
  full, and each holds the buffer of its turn (`Ahead`). `Windows` ties the threads' steps to the
  states of their slots; `Teardown` says that only an abort leaves an aborted slot and only the
  padding, after the producer has gone, a dumped one. From it follow `NeverShared`,
  `AlwaysInOrder`, `NeverOverflows`, `AlwaysDrained`, `CountersAlwaysTrack`, and `Refinement`:
  initial states and steps map to `BoundedHandoff`. `PeakAlwaysCovers` needs one thing more,
  `FreedIsBehind`: the slots the producer knows to be freed are counted late, never early, so the
  backlog it computes is at least the real one (`disk_buffer_ring.cpp:108-131`).
  Of the sequence lock, the number is twice the publications, plus one while writing; a word a
  reader copied stands as long as the number does. From it `ReadsAreSettled`. Of the three
  buffers, writer, reader and handover name different ones, and the numbers in them are ordered:
  the reader's is at most the published one, and less if it is fresh. From it `SnapshotsAreWhole`
  and `ReadsAreNewer`.
* `PipelineProofs`: `RunInv` is inductive, over the steps of the three threads and the caller.
  It says at which stages each thread can be while the others are where they are, that the ring
  is torn down as a whole and only then, which buffer of the stream every full slot holds, that at
  most one failure is between its compare-exchange and its store and that it is a failure this run
  had (`LatchInv`, `IsReal`), and that a run nobody tore down has its buffers either in the file or
  in the ring. `Territories` states once what no thread but one can change. From it `RunsAreSound`
  and `FirstFailuresStand`.
* `SinkProofs`: a sink is in one of four places, or in the worker's hands, which are full exactly
  between the two exchanges of a swap; a file is open as long as it is in a place from which it
  will be written or closed. What a report says is tied to the file it is of by the controller's
  state. From it `SinksAlwaysSafe` and, action by action, `OpenFilesAreKept`.
* `GatewareProofs`. Of the queue: pointers and count agree modulo the depth, and the head is at the
  port, either in the memory's register or in the bypass; hence `HeadAlwaysShown` and the refinement
  `FifoIsAQueue`. Of the buffer: the level, counted in half words so that a sample counts from the
  clock that brings its first half, is bounded in every state of the handshake and the packet by
  what may still come in before it falls (`Allowance`) and by how long packets were kept waiting;
  hence `PacketsAlwaysWhole`. Of the monitor: an account that a saturated counter has fallen behind
  stays ahead of it until the latch (`Ahead`), and the account and the monitor agree on which burst
  they are in; hence `CountsAlwaysTrue`. Of the boot loader: `LoaderTyped` ties the place of the
  decision to the counters it runs with, `Promised` to what it has read so far, `ParametersIn` says
  which parameters the remote update block holds when it is asked to reconfigure, and `LoaderOwns`
  and `Fx3Owns` that the side at the flash pins is the one whose turn it is. It takes `HandingOver`
  to make that inductive: once the decision is to hand over, the FX3 has the window, but the device
  reconfigures before it is through its unlock sequence. From it `FlashAlwaysSafe`.
* `UpdateProofs`: `AgentInv` follows a page from the chunk that brings it to the record that makes
  it count. The types hold of every host; the rest of one that waits for a verification to end
  (`~stray`). `Turns` says what the phase tells of either thread; `Received`, that what the callback
  passed is no longer blank and that the first page of an EEPROM image is kept; `Verified`, that
  a digest which is still some image's is that of every page read so far, and that the record is
  written only for a target whose every page was read as promised; `RecordsAreProved`, that the two
  records name images that were. From it `UpdatesAreSafe`, `OnlyTheProvedBoots` and
  `FailuresAreRemembered`. The attempt corrected the property: a design that is no boot loader
  (`OldDesign`), once in the factory's place, starts itself whatever the application region holds,
  so `OnlyProvedBoots` and `CompleteIsWhole` have to allow for it; the bounds of the run, where no
  such design is, had hidden that.
* `HostProofs` composes the host with the agent. Each request of the host is one the agent's
  invariant allows for, on a board that was never programmed too; `HostTyped` says which
  components are left at each step of a run. `BoardKept` is about the two memories together: as
  long as the EEPROM starts the legacy firmware the factory's place is as it was, and without the
  jumper the device runs what the two start. It rests on `FirmwareFirst`, which is why a bring-up
  writes the EEPROM first: a page of it is held back until the end, so that before the host turns
  to the gateware another one must have been written, and what is written is no legacy image.
  From it `InterconnectAlwaysSafe`, and `HostedUpdatesAreSafe` from the agent's part.
  `OutcomesAreTrue` needs more, because an agent's verdict may be of the verification of another
  run. Everything `UpdateProofs` shows holds of an agent whose history begins with this run (the
  module is instantiated once more with no request astray yet and any image proved before,
  `Anew`), so that a device that was started anew or that nothing has intruded on can be reasoned
  about as if it were new (`Calm`). `RunInv` carries a run over it: what is left is what the plan
  has not installed yet (`PlanKept`), what it is done with is whole while the next component is
  written (`Installing`), the device is at rest after the last one (`Settled`), and the identity
  that is read back is that of a device that has restarted, unless an answer was lost on the way
  (`Returning`). Of a device whose history is *not* known that identity is the proof itself: the
  boot ROM and the factory gateware start nothing that is not whole. The other half, that nothing defeats a run that nothing
  stands in the way of, has an invariant of its own, `CleanInv`: chunk by chunk, the pages sent are
  on the medium, the pages ahead in the sector are erased (`Erased`, without which flash that only
  clears bits would leave something else), the digest so far is the image's (`CleanSend`,
  `CleanAwait`), and the parts of the board the bundle does not carry start as they did
  (`RestKept`). The attempt corrected the model: a device counts as at rest (`Promising`) only if
  its USB callback is too, for a chunk left over from a run that was stopped could still be writing
  when the next one begins.
* `ControlProofs`. Of the socket: its name leads to the one instance that listens, and nobody who
  knocks twice takes it for abandoned, until one is killed (`SocketInv`); hence
  `AlwaysOneListens`. Of the answers: a stop reaches its file wherever the sink is by then, in the
  controller's hands, the pipeline's or closed, and a stream whose swap could not finish a file fails
  (`Stopping`); whoever waits for a report waits for
  that of the file it stopped (`Waiting`); and the runner's exit code is settled with its file
  (`HeadlessRun`). From them `AnswersAlwaysTrue`, for any number of clients and files.
  Of the automatic capture, `SeqInv` follows its sequence stage by stage: which stages the head and
  the tail can land on, and what they cannot pass over (`HeadLands`, `TailLands`), so that a capture
  which still runs is stopped before the sequence is past its stop, and a lock it took is released
  before it is finished, but where the link died. `Tray` says that between the answer "it turns" and
  the stop it leads to nothing has said otherwise; `Undone`, that the sequence knows of everything
  it has still to undo; `Whole`, that in a run nobody disturbed the file is open before the disc
  passes its first address, and then holds whatever has passed. From them `RunsAlwaysUndone`,
  `TrayAlwaysShut` and `CompletedAlwaysWhole`. The attempt corrected the model: a disc that turns in
  front of a player which has no stop command is not stopped before the run either, so `headObeyed`
  has to tell it from one that was; every player of the run's instance has the command, which had
  hidden that.
* `LibUsbProofs`. Blocks, and the slots they are for, are numbered from the start of the run: which
  transfer a block comes in (`Nth`), where its slot is in the ring (`InRing`) and which number the
  device gives it (`BlockNumber`) are all remainders of that number. `LibUsbInv` says that there are
  five such counters that fit the state: the transfers dealt with, ended and submitted, the slot the
  consumer is at, and the first transfer that did not complete. `Thread` ties them to where `Run`
  is, `Queue` to the transfers in flight and their order, `Consumed` says that nothing is in flight
  for a slot the consumer has not freed and which slots are full, `Content`, that up to the first
  failure what is there is the stream. A slot of several transfers is filled by its last one; where
  a transfer is a slot, `Barred` keeps the consumer from what follows a failed or a discarded one.
  `LayoutsFit` is what all this needs of `TransferLayout`: whole slots, of which one at least is left
  to the consumer. From it `BuffersAlwaysSafe`.

Out of the prover's reach: liveness, which rests on fairness, and ENABLED; what `TransferPlan` and
`SequenceValidator` compute recursively over data (`PlanIsSafe`, `HolesAloneAreCaught`), for want
of induction over data. Only model-checked otherwise, and not attempted: `AccessIsWhole` of
`RegisterLink`. Each bit of a word is at its place there by a count of clock edges and powers of
two; and since the filter of the lines outlasts a single sample, the theorem would have to say how
often a line may ring, which the model leaves to the bound on faults.

## Divergences

Where a comment, header or document says one thing and the code does another. Four have runs of
their own (`sink_detach_lost`, `sink_restart`, `libusb_stop`, `update_stop`); each other one that
is named is a formula at the end of its module, and TLC finds its counterexample when it is checked
in place of the properties of the module's configuration. The rest were met while reading.

Capture library and application:

* `StoppedMeansDetached` (`capture_pipeline.cpp:442`): the swap takes the pending sink and the
  pending detach in two exchanges. A `DetachSink` between them finds nothing to withdraw and has
  its flag consumed with the attach: the capture goes on after `StopCapture`
  (`capture_controller.h:181`).
* `ReportNamesItsFile` (`capture_controller.cpp:608`): a capture started before the tick has
  collected the previous one overwrites the path and the metadata under which that one is then
  reported, renamed and described (`capture_controller.h:208-210`).
* `StopNeverHangs` (`capture_pipeline.cpp:895`): a stop switches the watchdog off, and transfers
  have no timeout; a run asked to stop just after its device went silent waits for ever, which
  `capture_pipeline.cpp:886-889` says cannot happen any more.
* `CountCatchesUp` (`capture_pipeline.cpp:439`): a request is published before it is counted, so a
  swap in between applies it and stores a count one short, and whoever waits for the number it was
  given (`capture_pipeline.h:157-158`) waits until a later request.
* `EveryFileIsReported` (`capture_controller.cpp:928`): `FinishRun` clears the change being waited
  for, and reports only if a capture is still on: a run that ends between `StopCapture` and the
  tick leaves a finished file without report or sidecar.
* `ReportedFilesAreClosed` (`capture_controller.cpp:916`): a run that ends before its processing
  thread reaches a pending attach leaves the open sink there, reported as finished; the next
  `Start` stores a null pointer over it (`capture_pipeline.cpp:119`).
* `SidecarMeasuresFile` (`capture_controller.cpp:897`): the tick reads the statistics before it
  asks for the count, so a file whose last buffer falls in between is described by figures that
  lack it (`capture_pipeline.cpp:491-494`).
* `LimitStopsAtLimit` (`capture_controller.cpp:836`): until the first buffer after a swap,
  `samples_written` is that of the previous file, and a new capture can be stopped by it at once.
* `StalledMeansSilent` (`capture_pipeline.cpp:895`): the watchdog counts completed transfers, so a
  sink whose `Write` blocks for the timeout is reported as a device that stopped delivering
  (`transfer_result.h:72-74`).
* `DiscardedTailIsReported` (`capture_pipeline.cpp:951`): `Abort` latches nothing itself. After the
  source has returned, or when the synthetic source's stall loop sees the stop first, the run ends
  a success with buffers discarded (`transfer_result.h:80-82`).
* `SlotsAreWhole` (`libusb_source.cpp:402`): completions reaped after a failure can still hand over
  a slot whose earlier transfer failed (`libusb_source.cpp:95-99` says a slot is whole when its
  last transfer is complete), and it may be written before the failure is latched.
* `PeakWithinRing` (`disk_buffer_ring.cpp:114`): a slot is emptied before it is counted as freed,
  so the recorded depth can be one more than there are slots (`disk_buffer_ring.h:162-167`).
* `OnlyPeriodsUnseen`, `ShortfallIsHole`, `ZeroIsNoChange` (`sequence_validator.cpp:73, 173`): a
  hole before the first change of counter is not seen (`software-guide.md:72`); a hole that
  reaches past its block is reported up to the boundary only (`sequence_validator.h:96-98`); and a
  counter that changes on time to a wrong value is reported with a shortfall of zero, which
  `sequence_validator.h:100-101` reserves for one that does not change.

A capture run from a script, and a side captured by itself:

* The reply to a stop is that of the next `CaptureFinished` (`capture_control_server.cpp:392`), and
  the capture after the one that was stopped may be first: `--stop-capture` then prints a file that
  is still being written, or another than it stopped (`command-line.md:128`). Without `~hasty` and
  `~unreported` in front of it, `ReplyNamesWhatItStopped` has a counterexample.
* `SuccessIsFinished` (`capture_pipeline.cpp:474-476`, `capture_controller.cpp:588`): a `Finish` that
  fails in the swap latches a failure, but the swap is counted all the same, and a tick that comes
  before the control thread has brought the run down reports the file without looking at the
  result. The runner prints its path and exits with 0, "the file was finished" (`scripting.md:150`),
  for the failure that follows finds it done. A client of `--stop-capture` is told the path whenever
  the tick comes, for a `CaptureFinished` has no place for a failure (`scripting.md:186-188`).
* `FinishRun` zeroes `pending_sink_change_` (`capture_controller.cpp:928`): a capture stopped just
  before its stream fails is not reported. A headless run then exits with 4 and prints nothing
  (`scripting.md:173-176`: "Every way of stopping ends the same"), and a client waits for its
  deadline. With a finish wait of zero it would not exit at all.
* `scripting.md:154-155`: code 4 promises that "A file exists", but it is also the code of a start
  that was refused; code 5 is for a client that finds nothing to stop, but a refusal ("No capture
  is running") and a lost connection give 4. A file that was stopped before the stream took it up
  is reported with the success of an empty one.
* Two instances that start over an abandoned socket at once can both end up listening: one
  removes the name after the other has taken it (`capture_control_server.cpp:274`). `OneListens`
  is stated for as long as nobody was killed. On Windows two that knock at once both listen.
* `player_command.h:65-66`: a stop is "sent at most once and only to a transport this sequence
  actually started". A run of a whole side sends one in its head, to the disc it finds turning,
  and one in its tail.
* `auto_capture_sequence.cpp:327-329`: a disc that cannot be stopped before the run is "captured in
  full regardless". One that is in the middle of its side, with the question of its mode unanswered,
  the stop refused, or a player that has no stop command, is captured from there on, and the run
  can be reported as completed; hence the condition `headObeyed` in `CompletedIsWhole`.
* `auto_capture_sequence.cpp:378-383` turns a file that would not finalise into a failed run, but
  `StopCapture` of the controller does not wait for the file and always says it went well.
* A panel lock whose acknowledgement timed out is never released (`RunUndoesItself` excepts it),
  and a late answer that says the disc turns can send a stop to one that does not
  (`TrayStaysShut`). A disc held in its lead-in is watched for as long as it is held.

The host's side of an update:

* `StoppedKeepsItsFirmware` (`update_orchestrator.cpp:280-281, 454-455`): a stop is not told to the
  device. One that was receiving keeps an EEPROM half rewritten, and one that was verifying goes on
  to commit; the user is told that it still has the firmware it started with.
* `update-agent.c:358-361` says that a second BEGIN is "refused by stalling and nothing more", but
  the setup callback discards the answer of `updateAgentBegin` and acknowledges the request
  (`domesday-duplicator.c:916-924`). A host that was stopped and tries again is refused only at its
  first chunk, which also fails the update that was under way, so that it takes two tries.
* With three runs and a lost answer, the COMPLETE of a verification that belongs to a stopped run
  can be taken for the new one's while the firmware that runs is in memory only, because its
  identity was read before the restart: `SuccessIsWhole` is conditional on that.
* The deferred restart and `InstallFactoryGateware` of the updater have no caller.

Gateware and firmware:

* `RecoveryReleasesFlash` (`bootLoader.v:439-442`, "Locked on the recovery path too"): a bad boot
  block goes from `StateHeaderCheck` to `StateRecovery` past the relock. After a bad image the
  relock is issued in the clock in which `boot_active` falls, and the multiplexer
  (`DomesdayDuplicatorFactory.v:253`) drops it. Either way the bridge stays unlocked in recovery and
  `flash_drive` keeps the pins. The testbench wires the loader straight to the bridge, so it
  cannot see this. On the way to the handover there is a clock to spare, and `FlashIsSafe` holds.
* `ReadStaysInFlash` (`bootLoader.v:175-179`): the sum of address and length is of 32 bits and
  wraps, so a block that claims most of the address space is read for as long as the comment says it
  would not be; the decision still comes.
* `DomesdayDuplicatorFactory.v:249`: "there is no case where both want it", because the FX3 is still
  booting. After a RECONFIGURE it is running, and looks for the registers again in its main loop
  (`domesday-duplicator.c:453`). Its writes are dropped while the decision is made: an unlock is not
  read back (`epcs-flash.c:51`), and a request to reconfigure is reported as done. What `FlashIsSafe`
  shows is that the flash takes no harm from it. What the probe read may be the identity of an
  image that is about to be replaced.
* `spiRegisters.v:361-366`: a transfer cut short "by an FX3 reset, or by a board powering up
  mid-byte" leaves nothing behind. Nothing of the transfer's own state, and the next access is
  whole (`AccessIsWhole`). But an FPGA that is configured in the middle of a read finds itself
  selected, and takes the zeros that are sent for it as a write from address 0 on: one of the
  telemetry's length (24 bytes) reaches the LEDs at 0x11 and turns them off, one of the identity
  does not. And the data line is not filtered as the clock is: a reset in the three clocks after the
  last rising edge can have the byte written with its last bit as the released line has it. Both are
  what `disturbed` and the two patterns of `Restarts` stand for.
* `remoteUpdate.v:65-72` documents that a handover that fails starts again for ever; the model has
  no such failure, for there is none in what it checks of the flash.

* `ErrorIsSeen` (`buffer.v:94`): the error flag is held for 2000 clocks and a packet takes 8192, so
  a sample dropped early in a packet leaves no trace on the pin when the packet ends
  (`buffer.v:91-93`).
* `PeakCoversNow` (`bufferMonitor.v:278`): a reading takes the level of its clock and the peaks of
  the one before, so a rising level can be shown above its own peak
  (`fpga-register-interface.md:314`).
* `update-agent.h:46-50` says of the verifying phase that "every request the setup callback would
  honour is refused" in it. DATA and FINISH are refused, but a refusal calls `updateStateFail`
  (`update-agent.c:449`, `:576`), which writes FAILED over the phase the verification relies on.
  The application thread then writes WRITING or COMPLETE over FAILED, leaving the error set; and in
  between, because FAILED is not in progress, a new BEGIN, a capture or a reconfiguration is
  accepted while the medium is being read. Without the premise `~stray`, `UpdateIsSafe`,
  `BootsWhatWasProved`, `CompleteIsWhole` and `FailureIsRemembered` of `UpdateAgent` each have a
  counterexample. In the longest a second update begins under the first one's verification, and
  its held-back page, of an image nobody has read back, is what the first one's commit writes.
  Likewise a FINISH repeated after COMPLETE turns it into FAILED.

## Not modelled

* Time, except as the order of events: a timeout is an action that may come when what it waits for
  has not.
* Memory order weaker than sequential consistency. The code's atomics are sequentially consistent
  in the ring and the pipeline; the sequence lock's fences are taken to order its words.
* The kernel's and the vendor SDK's own behaviour beyond what the code relies on: the FX3's DMA
  channel, libusb's event loop, the boot ROM.
* USB bus resets and link power states, which can end a capture under the firmware.
* The EEPROM's acknowledge polling and retries: an access of `UpdateAgent` succeeds, is garbled or is
  refused. Of the sequences on the flash `FpgaBoot` has the erase, with one poll of its status.
* The probe of the register bank and what the firmware remembers of it; the test mode and decimation
  registers, which are written as the LEDs are. Noise on the data line, which the gateware does
  not filter. To `FpgaBoot`, an access of the link arrives whole.
* The watchdog of the remote update block and its tickle, and what its diagnostic reads bring back.
* A board of which only a part loses power; the pages that lead a user through a bring-up.
* Examining a disc, the remote control, and the encodings of player commands.
* The normal exit of an instance that holds the control socket.
* Formats, arithmetic on samples, windows, settings, logging, JTAG and the command-line tools:
  sequential code without a protocol.
* The components that the plan has yet to reach; `PROJECT.json` lists every one with its state.
