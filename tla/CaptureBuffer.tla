----------------------------- MODULE CaptureBuffer -----------------------------
(***************************************************************************)
(* The capture buffer of the FPGA and the two state machines that empty    *)
(* it: fpga/application/buffer.v, fx3StateMachine.v, and outside them the  *)
(* GPIF II machine of the FX3 (fx3/firmware/gpif). None of them waits for  *)
(* another in the middle of a packet: the packet has the same length on    *)
(* both sides of the pins because both count it, and there is always a     *)
(* word to take because data_available promised a whole packet.            *)
(*                                                                         *)
(* A step is a rising edge of the one clock they all run from. The words   *)
(* themselves are CaptureFifo's business; here the queue is a number.      *)
(***************************************************************************)
EXTENDS Integers

CONSTANTS
    PacketWords,        \* PacketWords, 8192: the packet every machine counts
    FifoDepth,          \* FifoDepth, 16384
    ErrorHoldCycles,    \* ErrorHoldCycles, 2000: a quarter of a packet
    Prompt              \* TRUE if the FX3 always has a DMA buffer ready

\* A packet has to give back more of the queue than the handshake before it
\* lets in: the overshoot, a little more than two words, at half a word a clock
ASSUME BufferAssumption ==
    /\ PacketWords \in Nat /\ PacketWords >= 5
    /\ FifoDepth = 2 * PacketWords
    /\ ErrorHoldCycles \in 0 .. PacketWords /\ Prompt \in BOOLEAN

\* How many clocks TH0_REQUEST and TH1_REQUEST hold read_data up
RequestCycles == 3

VARIABLES
    tick, decimate,                     \* when a sample is offered
    used_words,                         \* the FIFO
    data_available, packet_remaining,   \* what the pin promises
    buffer_error, error_hold,           \* the overflow pin
    sm_state, read_data_flag, word_counter,
    gpif, gpif_count,                   \* the FX3's machine
    pins,                               \* what it sees of the pins: a clock ago
    late,                               \* clocks a promised packet was kept waiting
    missed                              \* samples dropped since the last packet

cadence == <<tick, decimate>>
promise == <<data_available, packet_remaining>>
error_flag == <<buffer_error, error_hold>>
sender == <<sm_state, read_data_flag, word_counter>>
fx3 == <<gpif, gpif_count>>
history == <<late, missed>>
bufferVars == <<cadence, used_words, promise, error_flag, sender, fx3, pins, history>>

LateLimit == 2 * FifoDepth      \* where late stops counting

BufferInit ==
    /\ tick = 0 /\ decimate \in BOOLEAN
    /\ used_words = 0
    /\ data_available = FALSE /\ packet_remaining = 0
    /\ buffer_error = FALSE /\ error_hold = 0
    /\ sm_state = "WaitForRequest" /\ read_data_flag = FALSE /\ word_counter = 0
    /\ gpif = "Wait" /\ gpif_count = 0
    /\ pins = [available |-> FALSE, reading |-> FALSE]
    /\ late = 0 /\ missed = FALSE

is_reading == sm_state = "SendPacket"

\* Mutant: a sample on every clock
write_every_clock == TRUE

\* A sample every second clock; decimated, every other one of those, on the
\* clocks the filter's pipeline delivers it
write_enable == IF decimate THEN tick = 1 ELSE tick % 2 = 0

fifo_full == used_words = FifoDepth
overflow == write_enable /\ fifo_full

-----------------------------------------------------------------------------
\* The host sets the rate before a capture, and not during one
Cadence == tick' = (tick + 1) % 4 /\ UNCHANGED decimate

BufferFifo ==
    used_words' = used_words + (IF write_enable /\ ~ fifo_full THEN 1 ELSE 0)
                             - (IF is_reading /\ used_words > 0 THEN 1 ELSE 0)

\* Raised once a whole packet is queued, then held for the length of it
Promise ==
    IF ~ data_available
    THEN LET whole == used_words >= PacketWords IN
         data_available' = whole /\ packet_remaining' = IF whole THEN PacketWords ELSE 0
    ELSE LET left == packet_remaining - (IF is_reading THEN 1 ELSE 0) IN
         data_available' = (left > 0) /\ packet_remaining' = left

ErrorFlag ==
    IF overflow THEN buffer_error' = TRUE /\ error_hold' = 0
    ELSE IF buffer_error /\ error_hold < ErrorHoldCycles
         THEN buffer_error' = TRUE /\ error_hold' = error_hold + 1
         ELSE buffer_error' = FALSE /\ error_hold' = 0

read_data == gpif = "Request"

\* Mutant: the packet ends when the counter has counted all of it
SenderLong ==
    /\ read_data_flag' = read_data
    /\ word_counter' = IF is_reading THEN word_counter + 1 ELSE 0
    /\ sm_state' = IF is_reading
                   THEN IF word_counter = PacketWords THEN "WaitForRequest" ELSE "SendPacket"
                   ELSE IF read_data_flag /\ word_counter = 0 THEN "SendPacket" ELSE "WaitForRequest"

\* Every register takes its value from the ones before the edge
Sender ==
    /\ read_data_flag' = read_data
    /\ word_counter' = IF is_reading THEN word_counter + 1 ELSE 0
    /\ sm_state' = IF is_reading
                   THEN IF word_counter = PacketWords - 1 THEN "WaitForRequest" ELSE "SendPacket"
                   ELSE IF read_data_flag /\ word_counter = 0 THEN "SendPacket" ELSE "WaitForRequest"

Pins == pins' = [available |-> data_available, reading |-> is_reading]

-----------------------------------------------------------------------------
(***************************************************************************)
(* The GPIF machine. Its two threads take turns and differ only in the DMA *)
(* buffer they fill, so they are one machine here.                         *)
(***************************************************************************)
GpifWait ==
    /\ gpif = "Wait"
    /\ \E dma_ready \in IF Prompt THEN {TRUE} ELSE BOOLEAN :
           gpif' = IF dma_ready /\ pins.available THEN "Request" ELSE "Wait"
    /\ gpif_count' = 0

GpifRequest ==
    /\ gpif = "Request"
    /\ IF gpif_count = RequestCycles - 1
       THEN gpif' = "Read" /\ gpif_count' = 0
       ELSE gpif' = "Request" /\ gpif_count' = gpif_count + 1

GpifRead ==
    /\ gpif = "Read"
    /\ IF gpif_count = PacketWords - 1
       THEN gpif' = "Wait" /\ gpif_count' = 0
       ELSE gpif' = "Read" /\ gpif_count' = gpif_count + 1

\* domDupStopApplication: a bus reset, a suspend or a new configuration
\* disables the machine wherever it is. Nothing tells the FPGA.
GpifStop ==
    ~ Prompt /\ gpif # "Off" /\ gpif' = "Off" /\ gpif_count' = 0

\* domDupStartApplication: it takes longer than what was left of a packet
GpifStart ==
    /\ gpif = "Off" /\ gpif_count' = 0
    /\ \/ gpif' = "Off"
       \/ ~ is_reading /\ ~ read_data_flag /\ ~ pins.reading /\ gpif' = "Wait"

Gpif == GpifWait \/ GpifRequest \/ GpifRead \/ GpifStop \/ GpifStart

\* What happened, for the properties
History ==
    /\ late' = IF ~ data_available /\ used_words < PacketWords THEN 0
               ELSE IF gpif \in {"Wait", "Off"} /\ gpif' \in {"Wait", "Off"}
                       /\ pins.available /\ ~ is_reading /\ late < LateLimit
                    THEN late + 1 ELSE late
    /\ missed' = IF gpif = "Read" /\ gpif_count = PacketWords - 1 THEN overflow
                 ELSE missed \/ overflow

BufferNext ==
    /\ Cadence /\ BufferFifo /\ Promise /\ ErrorFlag /\ Sender /\ Pins /\ Gpif /\ History

BufferSpec == BufferInit /\ [][BufferNext]_bufferVars

-----------------------------------------------------------------------------
BufferTypeOK ==
    /\ tick \in 0 .. 3 /\ decimate \in BOOLEAN
    /\ used_words \in 0 .. FifoDepth
    /\ data_available \in BOOLEAN /\ packet_remaining \in 0 .. PacketWords
    /\ buffer_error \in BOOLEAN /\ error_hold \in 0 .. ErrorHoldCycles
    /\ sm_state \in {"WaitForRequest", "SendPacket"} /\ read_data_flag \in BOOLEAN
    /\ word_counter \in 0 .. PacketWords
    /\ gpif \in {"Wait", "Request", "Read", "Off"} /\ gpif_count \in 0 .. PacketWords
    /\ pins \in [available : BOOLEAN, reading : BOOLEAN]
    /\ late \in 0 .. LateLimit /\ missed \in BOOLEAN

(***************************************************************************)
(* "data_available states that a whole packet can be read without the FX3  *)
(* ever having to wait" (buffer.v:145-152): the rest of the packet is      *)
(* queued for as long as the flag is up, and the sender, which does not    *)
(* look at the flag, never reads outside of it.                            *)
(***************************************************************************)
PromiseIsKept ==
    /\ data_available => packet_remaining \in 1 .. used_words
    /\ is_reading => data_available /\ packet_remaining = PacketWords - word_counter

(***************************************************************************)
(* The FX3 and the FPGA count the same packet: the FX3 takes a word off    *)
(* the bus in exactly the clocks in which one was put there, though no     *)
(* signal marks a word or the end of a packet.                             *)
(***************************************************************************)
FramesAgree ==
    gpif # "Off" => (gpif = "Read" <=> pins.reading)

(***************************************************************************)
(* A sample is dropped only when packets have been kept waiting for as     *)
(* long as it takes to fill the half of the FIFO above a packet: the grace *)
(* of buffer.v:68-71. It is not had twice: what one stall used up counts   *)
(* until the queue has been back below a packet.                           *)
(***************************************************************************)
Overshoot == 2
GraceIsGiven ==
    overflow => late >= 2 * (FifoDepth - PacketWords - Overshoot)

(***************************************************************************)
(* "On a capture that is keeping up the peak is 8194 of 16384 words on     *)
(* every interval ... the overshoot is two words" (software-guide.md:94).  *)
(***************************************************************************)
PeakIsSteady == late = 0 => used_words <= PacketWords + Overshoot

(***************************************************************************)
(* What a packet rests on, and what the level of the queue may come to.    *)
(***************************************************************************)
PacketsAreWhole ==
    BufferTypeOK /\ PromiseIsKept /\ FramesAgree /\ GraceIsGiven /\ PeakIsSteady

(***************************************************************************)
(* Once the FX3's buffers are always ready the queue comes back below a    *)
(* packet, however full it was: it drains twice as fast as it fills.       *)
(***************************************************************************)
Served == gpif' # "Off" /\ (gpif = "Wait" /\ pins.available => gpif' = "Request")

CatchesUp == <>[][Served]_bufferVars => []<>(used_words < PacketWords)

-----------------------------------------------------------------------------
(* What a comment says and the code does not do: it has a counterexample,  *)
(* described in the README under "Divergences".                            *)

(***************************************************************************)
(* buffer.v:91-93: "the FX3 samples this pin per packet, so the flag has  *)
(* to outlast a packet's worth of indifference". At the end of a packet    *)
(* the pin shows whether a sample was dropped since the last one ended.    *)
(***************************************************************************)
ErrorIsSeen ==
    gpif = "Read" /\ gpif_count = PacketWords - 1 /\ missed => buffer_error
=============================================================================
