---------------------------- MODULE RegisterLink ----------------------------
(***************************************************************************)
(* The link by which the FX3 reaches the registers of the FPGA, which is   *)
(* bit-banged on one side (fx3/firmware/src/fpga-registers.c) and shifted  *)
(* into registers on the other (fpga/common/spiRegisters.v): two threads   *)
(* with a lock between them, and a slave that sees three pins through its  *)
(* synchronisers. One step is a clock of the FPGA, or a change of a pin    *)
(* any time in between. The FX3 may restart in the middle of an access,    *)
(* the FPGA may be configured in the middle of one, and a line may ring.   *)
(*                                                                         *)
(* A byte has ByteBits bits. Of the registers there are the identity at    *)
(* address 0, the LEDs, the port to the flash (BRIDGE_DATA), and the       *)
(* telemetry: its identity, and its telemetry_shadow behind it.            *)
(***************************************************************************)
EXTENDS Integers, Sequences

CONSTANTS
    ByteBits,           \* 8
    IdValue, Led, BridgeData, TelemetryId,  \* what address 0 reads, and addresses
    PortValue, TelemetryIdValue,
    Figures,            \* what the instrument may show
    Accesses,           \* of each thread: [read, address, data], the bytes behind the command
    Phase,              \* clocks for which the master holds its pins: 120 or more
    MaxFaults           \* bound: lines that ring, restarts of either side

Threads == {"application", "callback"}
ByteValues == 0 .. 2 ^ ByteBits - 1
RegisterAddresses == 0 .. 2 ^ (ByteBits - 1) - 1
ShadowAddresses == {TelemetryId + 1, TelemetryId + 2}

ASSUME LinkAssumption ==
    /\ ByteBits \in Nat \ {0, 1} /\ Phase \in Nat
    /\ {Led, BridgeData, TelemetryId} \cup ShadowAddresses \subseteq RegisterAddresses \ {0}
    /\ {IdValue, PortValue, TelemetryIdValue} \cup Figures \subseteq ByteValues
    /\ \A t \in Threads : \A a \in Accesses[t] : a.address \in RegisterAddresses /\ a.data \in Seq(ByteValues)

VARIABLES
    \* the master
    holder,                 \* of glFpgaLock
    at, access, bit,        \* each thread: its place, what it accesses, the bits it has sent
    received,               \* the bits it has read
    spi_clock, spi_mosi, spi_chip_select_n, held,   \* the pins, and for how long they stand
    \* the slave
    clock_line, select_line, spi_mosi_sync, spi_clock_level_previous,
    shift_in, shift_out, bit_count, command_received, read_transfer, address,
    miso_out, telemetry_latch_pulse, led_register,
    live, telemetry_shadow,           \* the instrument, and the sample a reading took of it
    \* history, since the access began: what was shown, the samples, the bytes of the port
    seen, samples, heard,
    ledMay,                 \* what the LEDs may be, by the accesses there were
    disturbed,              \* the FPGA was configured in the middle of it
    faults

linePins == <<spi_clock, spi_mosi, spi_chip_select_n>>
master == <<holder, at, access, bit, received>>
slave == <<clock_line, select_line, spi_mosi_sync, spi_clock_level_previous, shift_in, shift_out,
           bit_count, command_received, read_transfer, address, miso_out,
           telemetry_latch_pulse, led_register, telemetry_shadow>>
linkHistory == <<seen, samples, heard, ledMay, disturbed, faults>>
linkVars == <<master, linePins, held, slave, live, linkHistory>>

Nobody == "nobody"
NoAccess == [read |-> TRUE, address |-> 0, data |-> <<>>]

-----------------------------------------------------------------------------
Faults == faults < MaxFaults /\ faults' = faults + 1

-----------------------------------------------------------------------------
(* fpga-registers.c *)

\* The command, and the bytes behind it: those of a read are sent as zeros
CommandOf(a) == (IF a.read THEN 2 ^ (ByteBits - 1) ELSE 0) + a.address
Sent(a) == <<CommandOf(a)>> \o a.data
BitOf(byte, k) == (byte \div 2 ^ (ByteBits - 1 - k)) % 2
Outgoing(a, n) == BitOf(Sent(a)[n \div ByteBits + 1], n % ByteBits)

Ready == held = Phase
Moves(t, here, there) ==
    /\ at[t] = here /\ Ready /\ at' = [at EXCEPT ![t] = there]
    /\ held' = 0 /\ UNCHANGED <<slave, live, faults>>

\* Mutant: the threads do not wait for each other
TakesAtOnce(t) == holder' = t
TakesLock(t) == holder = Nobody /\ holder' = t

SelectFpga(t) ==
    /\ TakesLock(t) /\ Moves(t, "idle", "selected")
    /\ \E a \in Accesses[t] : access' = [access EXCEPT ![t] = a]
    /\ spi_chip_select_n' = 0 /\ UNCHANGED <<spi_clock, spi_mosi>>
    /\ bit' = [bit EXCEPT ![t] = 0] /\ received' = [received EXCEPT ![t] = <<>>]
    /\ seen' = {live} /\ samples' = 0 /\ heard' = <<>> /\ disturbed' = FALSE /\ UNCHANGED ledMay

FirstBit(t) ==
    /\ Moves(t, "selected", "low")
    /\ spi_mosi' = Outgoing(access[t], 0) /\ UNCHANGED <<spi_clock, spi_chip_select_n>>
    /\ UNCHANGED <<holder, access, bit, received, seen, samples, heard, ledMay, disturbed>>

\* The clock rises, and the bit on MISO is read
Raise(t) ==
    /\ Moves(t, "low", "high")
    /\ spi_clock' = 1 /\ UNCHANGED <<spi_mosi, spi_chip_select_n>>
    /\ received' = [received EXCEPT ![t] = Append(@, miso_out)]
    /\ UNCHANGED <<holder, access, bit, seen, samples, heard, ledMay, disturbed>>

\* It falls, and the next bit is put on MOSI
Lower(t) ==
    LET sent == bit[t] + 1
        last == sent = ByteBits * Len(Sent(access[t])) IN
    /\ Moves(t, "high", IF last THEN "sent" ELSE "low")
    /\ bit' = [bit EXCEPT ![t] = sent]
    /\ spi_clock' = 0 /\ UNCHANGED spi_chip_select_n
    /\ spi_mosi' = IF last THEN spi_mosi ELSE Outgoing(access[t], sent)
    /\ UNCHANGED <<holder, access, received, seen, samples, heard, ledMay, disturbed>>

WritesLeds(a) == ~a.read /\ a.address = Led

DeselectFpga(t) ==
    /\ Moves(t, "sent", "deselected")
    /\ spi_chip_select_n' = 1 /\ UNCHANGED <<spi_clock, spi_mosi>>
    /\ ledMay' = IF WritesLeds(access[t]) THEN {access[t].data[1]} ELSE ledMay
    /\ UNCHANGED <<holder, access, bit, received, seen, samples, heard, disturbed>>

ReleaseLock(t) ==
    /\ Moves(t, "deselected", "idle")
    /\ holder' = Nobody /\ access' = [access EXCEPT ![t] = NoAccess] /\ UNCHANGED linePins
    /\ bit' = [bit EXCEPT ![t] = 0] /\ received' = [received EXCEPT ![t] = <<>>]
    /\ ledMay' = (IF disturbed THEN ByteValues ELSE ledMay) /\ disturbed' = FALSE
    /\ seen' = {} /\ samples' = 0 /\ heard' = <<>>

Master == \E t \in Threads :
    SelectFpga(t) \/ FirstBit(t) \/ Raise(t) \/ Lower(t) \/ DeselectFpga(t) \/ ReleaseLock(t)

-----------------------------------------------------------------------------
(* spiRegisters.v *)

Idle(level) == [sync |-> <<level, level>>, sample |-> level, level |-> level]
\* Mutant: a synchronised sample is a level
Unfiltered(line, pin) ==
    [sync |-> <<pin, line.sync[1]>>, sample |-> line.sync[2], level |-> line.sync[2]]
\* A new level is accepted only once two consecutive synchronised samples agree
Filtered(line, pin) ==
    [sync |-> <<pin, line.sync[1]>>, sample |-> line.sync[2],
     level |-> IF line.sync[2] = line.sample THEN line.sync[2] ELSE line.level]

spi_clock_rising == clock_line.level = 1 /\ spi_clock_level_previous = 0
spi_clock_falling == clock_line.level = 0 /\ spi_clock_level_previous = 1

read_register(a) ==
    CASE a = 0 -> IdValue [] a = Led -> led_register [] a = BridgeData -> PortValue
      [] a = TelemetryId -> TelemetryIdValue [] a \in ShadowAddresses -> telemetry_shadow [] OTHER -> 0

address_next(a) == IF a = BridgeData THEN a ELSE (a + 1) % 2 ^ (ByteBits - 1)

\* The byte as it stands once the bit on spi_mosi is taken in
shift_in_next == (2 * shift_in + spi_mosi_sync[2]) % 2 ^ ByteBits

\* Between two accesses nothing of the last one is left
Deselected ==
    /\ shift_in' = 0 /\ shift_out' = 0 /\ bit_count' = 0 /\ command_received' = FALSE
    /\ miso_out' = 0 /\ telemetry_latch_pulse' = FALSE
    /\ UNCHANGED <<read_transfer, address, led_register, samples, heard>>

Shifts ==
    /\ shift_in' = shift_in_next % 2 ^ (ByteBits - 1)
    /\ bit_count' = (bit_count + 1) % ByteBits /\ UNCHANGED miso_out

CommandByte ==
    LET read == shift_in_next \div 2 ^ (ByteBits - 1) = 1
        at_address == shift_in_next % 2 ^ (ByteBits - 1)
        latch == read /\ at_address = TelemetryId IN
    /\ command_received' = TRUE /\ read_transfer' = read /\ address' = at_address
    /\ shift_out' = IF read THEN read_register(at_address) ELSE 0
    /\ telemetry_latch_pulse' = latch /\ samples' = (IF latch THEN samples + 1 ELSE samples)
    /\ UNCHANGED <<led_register, heard>>

DataByte ==
    /\ led_register' = IF ~read_transfer /\ address = Led THEN shift_in_next ELSE led_register
    /\ heard' = IF ~read_transfer /\ address = BridgeData THEN Append(heard, shift_in_next) ELSE heard
    /\ address' = address_next(address)
    /\ shift_out' = IF read_transfer THEN read_register(address_next(address)) ELSE 0
    /\ telemetry_latch_pulse' = FALSE
    /\ UNCHANGED <<command_received, read_transfer, samples>>

NoByte ==
    /\ telemetry_latch_pulse' = FALSE
    /\ UNCHANGED <<command_received, read_transfer, address, led_register, samples, heard>>

Transfer ==
    IF spi_clock_rising
    THEN /\ Shifts
         /\ IF bit_count < ByteBits - 1 THEN NoByte /\ UNCHANGED shift_out
            ELSE IF command_received THEN DataByte ELSE CommandByte
    ELSE /\ NoByte /\ UNCHANGED <<shift_in, bit_count>>
         /\ IF spi_clock_falling
            THEN /\ miso_out' = shift_out \div 2 ^ (ByteBits - 1)
                 /\ shift_out' = (2 * shift_out) % 2 ^ ByteBits
            ELSE UNCHANGED <<miso_out, shift_out>>

\* A clock of the FPGA, in which one of the two filtered lines may ring
LinkClock ==
    /\ \E rung \in {"none", "clock", "select"} :
       /\ IF rung = "none" THEN UNCHANGED faults ELSE Faults
       /\ clock_line' = Filtered(clock_line, IF rung = "clock" THEN 1 - spi_clock ELSE spi_clock)
       /\ select_line' = Filtered(select_line,
                            IF rung = "select" THEN 1 - spi_chip_select_n ELSE spi_chip_select_n)
    /\ spi_mosi_sync' = <<spi_mosi, spi_mosi_sync[1]>>
    /\ spi_clock_level_previous' = clock_line.level
    /\ IF select_line.level = 1 THEN Deselected ELSE Transfer
    /\ telemetry_shadow' = IF telemetry_latch_pulse THEN live ELSE telemetry_shadow
    /\ held' = IF Ready THEN held ELSE held + 1
    /\ UNCHANGED <<master, linePins, live, seen, ledMay, disturbed>>

\* The instrument goes on counting
Counts ==
    /\ live' \in Figures \ {live} /\ seen' = (IF holder = Nobody THEN seen ELSE seen \cup {live'})
    /\ UNCHANGED <<master, linePins, held, slave, samples, heard, ledMay, disturbed, faults>>

-----------------------------------------------------------------------------
\* The FX3 restarts: its pins go to rest, and its threads begin anew. A byte whose
\* last bit was being clocked may have arrived, and that bit as the line at rest has it,
\* since the clock is filtered for longer than the data
Restarts ==
    /\ Faults
    /\ holder' = Nobody /\ at' = [t \in Threads |-> "idle"]
    /\ access' = [t \in Threads |-> NoAccess] /\ bit' = [t \in Threads |-> 0]
    /\ received' = [t \in Threads |-> <<>>]
    /\ spi_clock' = 0 /\ spi_mosi' = 0 /\ spi_chip_select_n' = 1 /\ held' = 0
    /\ ledMay' = (IF disturbed THEN ByteValues ELSE ledMay) \cup
                 UNION {{access[t].data[1], 2 * (access[t].data[1] \div 2)} : t \in {t \in Threads :
                     WritesLeds(access[t]) /\ bit[t] >= 2 * ByteBits - 1}}
    /\ seen' = {} /\ samples' = 0 /\ heard' = <<>> /\ disturbed' = FALSE
    /\ UNCHANGED <<slave, live>>

\* What the FPGA begins with, once configured
AtReset ==
    /\ clock_line = Idle(0) /\ select_line = Idle(1) /\ spi_mosi_sync = <<0, 0>>
    /\ spi_clock_level_previous = 0
    /\ shift_in = 0 /\ shift_out = 0 /\ bit_count = 0 /\ command_received = FALSE
    /\ read_transfer = FALSE /\ address = 0 /\ miso_out = 0 /\ telemetry_latch_pulse = FALSE
    /\ led_register = 1
Configures ==
    /\ Faults
    /\ clock_line' = Idle(0) /\ select_line' = Idle(1) /\ spi_mosi_sync' = <<0, 0>>
    /\ spi_clock_level_previous' = 0
    /\ shift_in' = 0 /\ shift_out' = 0 /\ bit_count' = 0 /\ command_received' = FALSE
    /\ read_transfer' = FALSE /\ address' = 0 /\ miso_out' = 0 /\ telemetry_latch_pulse' = FALSE
    /\ led_register' = 1 /\ ledMay' = {1} /\ UNCHANGED telemetry_shadow
    /\ disturbed' = (holder # Nobody)
    /\ UNCHANGED <<master, linePins, held, live, seen, samples, heard>>

LinkInit ==
    /\ holder = Nobody /\ at = [t \in Threads |-> "idle"]
    /\ access = [t \in Threads |-> NoAccess] /\ bit = [t \in Threads |-> 0]
    /\ received = [t \in Threads |-> <<>>]
    /\ spi_clock = 0 /\ spi_mosi = 0 /\ spi_chip_select_n = 1 /\ held = Phase
    /\ AtReset /\ telemetry_shadow \in Figures /\ live = telemetry_shadow
    /\ seen = {} /\ samples = 0 /\ heard = <<>> /\ ledMay = {1} /\ disturbed = FALSE
    /\ faults = 0

LinkNext == Master \/ LinkClock \/ Counts \/ Restarts \/ Configures
LinkSpec == LinkInit /\ [][LinkNext]_linkVars

-----------------------------------------------------------------------------
(* Properties *)

\* The register that byte n behind the command is of: those of a burst to the port are all
\* of the port, and others go on from where the access began
RegisterOf(a, n) ==
    IF a.address <= BridgeData /\ a.address + n > BridgeData THEN BridgeData ELSE a.address + n
ByteRead(r) ==
    CASE r = 0 -> IdValue [] r = Led -> led_register [] r = BridgeData -> PortValue
      [] r = TelemetryId -> TelemetryIdValue [] r \in ShadowAddresses -> telemetry_shadow
      [] OTHER -> 0
BitRead(a, k) ==
    IF k < ByteBits THEN 0 ELSE BitOf(ByteRead(RegisterOf(a, k \div ByteBits - 1)), k % ByteBits)

\* Every access gets what it asked for, whatever the other thread does, a line rings, or an
\* earlier access was cut short by a restart of either side: the bits read are those of the
\* registers from the address on, whose telemetry is one sample, taken since the read began
\* and by no other access; the port heard the bytes written to it, in their order; and a
\* pattern of the LEDs is written by an access to them alone. Of an access in the middle of
\* which the FPGA was configured, nothing is said but that it ends with it
\* (fpga-registers.c:56-60, spiRegisters.v:361-366, 398-413)
AccessIsWhole ==
    /\ \A t \in Threads : at[t] # "idle" /\ ~disturbed =>
        LET a == access[t]
            ended == at[t] = "deselected" /\ Ready IN
        /\ a.read => \A k \in 1 .. Len(received[t]) : received[t][k] = BitRead(a, k - 1)
        /\ IF ~a.read /\ a.address = BridgeData
           THEN /\ Len(heard) <= Len(a.data) /\ heard = SubSeq(a.data, 1, Len(heard))
                /\ ended => heard = a.data
           ELSE heard = <<>>
        /\ IF a.read /\ a.address = TelemetryId
           THEN samples <= 1 /\ (ended => samples = 1 /\ telemetry_shadow \in seen)
           ELSE samples = 0
    /\ holder = Nobody /\ Ready => led_register \in ledMay
=============================================================================
