------------------------------ MODULE FpgaBoot ------------------------------
(***************************************************************************)
(* How the FPGA comes to run its application image: the boot decision of   *)
(* the factory image (fpga/factory/bootLoader.v), the bridge to the flash  *)
(* that it shares with the FX3 (fpga/common/flashBridge.v), and the        *)
(* handshake with the device's remote update block (remoteUpdate.v), wired *)
(* as DomesdayDuplicatorFactory.v wires them. One step is one clock edge.  *)
(*                                                                         *)
(* The FX3 does not know that a decision is being made: its firmware may   *)
(* be anywhere in an operation on the flash (epcs-flash.c). Flash, remote  *)
(* update block and configuration are external. A byte of the flash is its *)
(* address, an address goes out as one byte, a CRC is what was folded.     *)
(***************************************************************************)
EXTENDS Integers, Sequences

CONSTANTS
    FlashSize, WordModulus,         \* 8 MiB, and 2^32
    BootBlockAddress, ApplicationAddress,
    BootBlockBytes, HeaderCrcBytes, \* 24, of which the CRC covers 20
    Lengths,                        \* what a boot block may claim
    SettleClocks, ShiftClocks,      \* 200, and 64 clocks to the byte
    ReadClocks,                     \* the seven timed reads, together
    HoldClocks, ReconfigClocks,     \* 64, and the 250 ns the block asks for
    MaxTriggers                     \* reconfigurations that the FX3 asks for

\* The 250 ns are over before the FX3 has sent three bytes, as its key to the bridge needs
ASSUME BootAssumption ==
    /\ FlashSize \in Nat /\ WordModulus \in Nat /\ FlashSize <= WordModulus
    /\ BootBlockAddress \in 0 .. FlashSize - 1 /\ ApplicationAddress \in 0 .. FlashSize - 1
    /\ BootBlockBytes \in Nat /\ HeaderCrcBytes \in 1 .. BootBlockBytes - 1
    /\ Lengths \subseteq 0 .. WordModulus - 1
    /\ SettleClocks \in Nat /\ ShiftClocks \in Nat \ {0} /\ ReadClocks \in Nat
    /\ HoldClocks \in Nat /\ ReconfigClocks \in 1 .. HoldClocks
    /\ ReconfigClocks <= 3 * ShiftClocks /\ MaxTriggers \in Nat

VARIABLES
    flash,                          \* what the boot block and the image are worth
    image,                          \* which image the FPGA is running
    boot_state, settle_count, byte_index, boot_window, shift_started,
    header, image_valid,            \* bootLoader
    crc, crc_byte, crc_restart,     \* crc32, and the pulses that drive it
    unlock_progress, unlocked, chip_select_asserted,
    shift, received_byte,           \* flashBridge; shift.left > 0 is busy
    chip,                           \* the flash: bytes heard since it was selected, next address
    writing, write_pending, block_busy_sync, read_timer, armed,
    reconfigure_hold,               \* remoteUpdate
    block,                          \* the remote update block, at a quarter of the clock
    fx3_step, fx3_wait, triggers    \* the firmware

contents == <<flash, image>>
loader == <<boot_state, settle_count, byte_index, boot_window, shift_started, header,
            image_valid, crc, crc_byte, crc_restart>>
bridge == <<unlock_progress, unlocked, chip_select_asserted, shift, received_byte, chip>>
update == <<writing, write_pending, block_busy_sync, read_timer, armed, reconfigure_hold, block>>
firmware == <<fx3_step, fx3_wait, triggers>>
bootVars == <<contents, loader, bridge, update, firmware>>

Noise == -1     \* what a flash that is not selected answers

(***************************************************************************)
(* The register window                                                     *)
(***************************************************************************)

NoWrite == [to |-> "none"]
Unlock(byte) == [to |-> "unlock", data |-> byte]
Control(select) == [to |-> "control", select |-> select]
Data(byte, master, nth) == [to |-> "data", data |-> byte, by |-> master, nth |-> nth]
Trigger == [to |-> "reconfigure"]

UnlockSequence == <<68, 68, 85, 170>>
Relock == Unlock(0)
ReadCommand == 3

bridge_busy == shift.left > 0
boot_active == image = "factory" /\ boot_state \notin {"recovery", "handOver"}

\* The top level's multiplexer: the loader's writes until it has decided, then the FX3's
Window(written) == IF boot_active THEN boot_window ELSE written

(***************************************************************************)
(* bootLoader                                                              *)
(***************************************************************************)

\* Mutant: a busy line that has not risen yet is taken for the end of the shift
SeemsIdle == ~bridge_busy
bridge_idle == ~bridge_busy /\ ~shift_started

\* The registers of the state machine that every state writes
Goes(next, write, index) ==
    /\ boot_state' = next /\ boot_window' = write /\ byte_index' = index
    /\ shift_started' = (write.to = "data" \/ (shift_started /\ ~bridge_busy))

Folds == crc' = (IF crc_restart THEN <<>> ELSE crc) \o crc_byte
Quiet == crc_byte' = <<>> /\ crc_restart' = FALSE

Keeps == UNCHANGED <<settle_count, header, image_valid>>

Settle ==
    /\ boot_state = "settle" /\ Quiet
    /\ Goes(IF settle_count = SettleClocks THEN "unlock" ELSE "settle", NoWrite, 0)
    /\ settle_count' = IF settle_count = SettleClocks THEN settle_count ELSE settle_count + 1
    /\ UNCHANGED <<header, image_valid>>

Unlocks ==
    /\ boot_state = "unlock" /\ Quiet /\ Keeps
    /\ LET last == byte_index = Len(UnlockSequence) - 1 IN
       Goes(IF last THEN "selectHeader" ELSE "unlock", Unlock(UnlockSequence[byte_index + 1]),
            IF last THEN 0 ELSE byte_index + 1)

Select(here, next) ==
    /\ boot_state = here /\ Keeps
    /\ Goes(next, Control(TRUE), 0)
    /\ crc_restart' = TRUE /\ crc_byte' = <<>>

\* The read command and the address behind it
Command(here, address, next) ==
    /\ boot_state = here /\ bridge_idle /\ Quiet /\ Keeps
    /\ IF byte_index = 0
       THEN Goes(here, Data(ReadCommand, "loader", 1), 1)
       ELSE Goes(next, Data(address, "loader", 2), 0)

ReceiveOrDeselect(here, length, next) ==
    IF byte_index = length
    THEN Goes(next, Control(FALSE), byte_index)
    ELSE Goes(here, Data(Noise, "loader", byte_index + 3), byte_index + 1)

HeaderData ==
    /\ boot_state = "headerData" /\ bridge_idle
    /\ ReceiveOrDeselect("headerData", BootBlockBytes, "headerSettle")
    /\ crc_byte' = IF byte_index \in 1 .. HeaderCrcBytes THEN <<received_byte>> ELSE <<>>
    /\ header' = IF byte_index > 0 THEN Append(header, received_byte) ELSE header
    /\ crc_restart' = FALSE /\ UNCHANGED <<settle_count, image_valid>>

Bytes(from, length) == [k \in 1 .. length |-> (from + k - 1) % FlashSize]

\* The fields are the block's if each byte of it arrived in its place
header_valid ==
    /\ header = Bytes(BootBlockAddress, BootBlockBytes) /\ flash.block
    /\ crc = Bytes(BootBlockAddress, HeaderCrcBytes)
    /\ flash.length # 0
    /\ (ApplicationAddress + flash.length) % WordModulus <= FlashSize

HeaderCheck ==
    /\ boot_state = "headerCheck" /\ Quiet /\ Keeps
    /\ Goes(IF header_valid THEN "selectImage" ELSE "recovery", NoWrite, byte_index)

ImageData ==
    /\ boot_state = "imageData" /\ bridge_idle /\ Keeps
    /\ ReceiveOrDeselect("imageData", flash.length, "imageSettle")
    /\ crc_byte' = IF byte_index > 0 THEN <<received_byte>> ELSE <<>>
    /\ crc_restart' = FALSE

ImageCheck ==
    /\ boot_state = "imageCheck" /\ Quiet
    /\ Goes("relock", NoWrite, byte_index)
    /\ image_valid' = (flash.image /\ crc = Bytes(ApplicationAddress, flash.length))
    /\ UNCHANGED <<settle_count, header>>

\* Mutant: the loader hands over, or stays, with the bridge as it used it
RelocksNot ==
    /\ boot_state = "relock" /\ Quiet /\ Keeps
    /\ Goes(IF image_valid THEN "arm" ELSE "recovery", NoWrite, byte_index)
Relocks ==
    /\ boot_state = "relock" /\ Quiet /\ Keeps
    /\ Goes(IF image_valid THEN "arm" ELSE "recovery", Relock, byte_index)

Arms ==
    /\ boot_state = "arm" /\ armed /\ Quiet /\ Keeps
    /\ Goes("handOver", NoWrite, byte_index)

\* The clock in which the last byte is folded
Passes ==
    /\ boot_state \in {"headerSettle", "imageSettle"} /\ Quiet /\ Keeps
    /\ Goes(IF boot_state = "headerSettle" THEN "headerCheck" ELSE "imageCheck", NoWrite, byte_index)

\* For the bridge, for the update block, or in one of the two states that are not left
Waits ==
    /\ \/ /\ boot_state \in {"headerCommand", "headerData", "imageCommand", "imageData"}
          /\ ~bridge_idle
       \/ boot_state = "arm" /\ ~armed
       \/ boot_state \in {"recovery", "handOver"}
    /\ Goes(boot_state, NoWrite, byte_index) /\ Quiet /\ Keeps

BootLoader ==
    /\ Folds
    /\ \/ Settle \/ Unlocks \/ HeaderData \/ HeaderCheck \/ ImageData \/ ImageCheck
       \/ Select("selectHeader", "headerCommand") \/ Select("selectImage", "imageCommand")
       \/ Command("headerCommand", BootBlockAddress, "headerData")
       \/ Command("imageCommand", ApplicationAddress, "imageData")
       \/ Relocks \/ Arms \/ Passes \/ Waits

(***************************************************************************)
(* flashBridge and the flash                                               *)
(***************************************************************************)

Lock(write) ==
    IF write.to # "unlock" THEN UNCHANGED <<unlock_progress, unlocked>>
    ELSE LET matched == write.data = UnlockSequence[unlock_progress + 1] IN
         /\ unlock_progress' = IF matched THEN (unlock_progress + 1) % Len(UnlockSequence) ELSE 0
         /\ unlocked' = (matched /\ unlock_progress = Len(UnlockSequence) - 1)

ChipSelect(write) ==
    chip_select_asserted' =
        CASE write.to = "unlock" -> FALSE
          [] write.to = "control" /\ unlocked -> write.select
          [] OTHER -> chip_select_asserted

start_shift(write) == write.to = "data" /\ unlocked /\ chip_select_asserted /\ ~bridge_busy

\* The flash takes a command, an address, and then gives a byte for each it is sent
Unselected == [heard |-> 0, at |-> Noise]
Answers == chip_select_asserted /\ chip.heard >= 2
Hears ==
    [heard |-> chip.heard + 1,
     at |-> IF chip.heard = 1 THEN shift.data ELSE (chip.at + 1) % FlashSize]

Shift(write) ==
    /\ shift' = CASE start_shift(write) -> [left |-> ShiftClocks, data |-> write.data,
                                            by |-> write.by, nth |-> write.nth]
                  [] bridge_busy -> [shift EXCEPT !.left = @ - 1]
                  [] OTHER -> shift
    /\ received_byte' = IF shift.left = 1 THEN IF Answers THEN chip.at ELSE Noise
                        ELSE received_byte
    /\ chip' = IF ~chip_select_asserted THEN Unselected
               ELSE IF shift.left = 1 THEN Hears ELSE chip

Bridge(write) == Lock(write) /\ ChipSelect(write) /\ Shift(write)

(***************************************************************************)
(* remoteUpdate, and the block behind it                                   *)
(***************************************************************************)

Parameters == <<"watchdogValue", "watchdogEnable", "oscInt", "cdEarly", "bootAddress">>

block_busy == block_busy_sync[2]
block_idle == ~block_busy /\ ~write_pending

\* writing is the parameter of the StateWrite... it is in, and one more while it reads
Issue(parameter) == writing' = parameter /\ write_pending' = TRUE

Parameter ==
    \/ /\ writing = 0 /\ boot_state = "arm"
       /\ Issue(1) /\ UNCHANGED <<read_timer, armed>>
    \/ /\ writing \in 1 .. Len(Parameters) - 1 /\ block_idle
       /\ Issue(writing + 1) /\ UNCHANGED <<read_timer, armed>>
    \/ /\ writing = Len(Parameters) /\ block_idle
       /\ writing' = writing + 1 /\ read_timer' = ReadClocks /\ UNCHANGED <<write_pending, armed>>
    \/ /\ writing > Len(Parameters)
       /\ read_timer' = (IF read_timer > 0 THEN read_timer - 1 ELSE 0)
       /\ armed' = (armed \/ read_timer = 0) /\ UNCHANGED <<writing, write_pending>>
    \/ /\ IF writing = 0 THEN boot_state # "arm" ELSE writing <= Len(Parameters) /\ ~block_idle
       /\ write_pending' = (write_pending /\ ~block_busy) /\ UNCHANGED <<writing, read_timer, armed>>

reconfigure_now(write) == (image = "factory" /\ boot_state = "handOver") \/ write = Trigger

Requests(write) ==
    reconfigure_hold' = IF reconfigure_now(write) THEN HoldClocks
                        ELSE IF reconfigure_hold > 0 THEN reconfigure_hold - 1 ELSE 0

\* The block: on its own edge it takes a parameter that is offered, and is busy
\* for one or two of its clocks; block.asked is how long it has seen reconfig
BlockEdge == block.phase = 0
Block ==
    /\ block_busy_sync' = <<block.busy > 0, block_busy_sync[1]>>
    /\ \E clocks \in 1 .. 2 :
       LET takes == BlockEdge /\ write_pending /\ block.busy = 0 IN
       block' = [phase |-> (block.phase + 1) % 4,
                 busy |-> CASE takes -> clocks
                            [] BlockEdge /\ block.busy > 0 -> block.busy - 1
                            [] OTHER -> block.busy,
                 set |-> IF takes THEN block.set \cup {Parameters[writing]} ELSE block.set,
                 asked |-> IF reconfigure_hold = 0 THEN 0
                           ELSE IF block.asked < ReconfigClocks THEN block.asked + 1
                           ELSE block.asked]

RemoteUpdate(write) == Parameter /\ Requests(write) /\ Block

(***************************************************************************)
(* The firmware's operation on the flash (epcsFlashEraseSector with one    *)
(* poll of the status, which the others resemble), and its request to      *)
(* reconfigure (epcsFlashReconfigureFpga)                                  *)
(***************************************************************************)

Operation ==
    [k \in 1 .. 4 |-> Unlock(UnlockSequence[k])] \o
    <<Control(TRUE), Data(6, "fx3", 1), Control(FALSE),
      Control(TRUE), Data(216, "fx3", 1), Data(0, "fx3", 2), Control(FALSE),
      Control(TRUE), Data(5, "fx3", 1), Data(255, "fx3", 2), Control(FALSE),
      Control(FALSE), Relock>>

\* A register write takes longer to arrive than the bridge takes to shift a byte
Paused == fx3_wait' = ShiftClocks

Writes(write) ==
    /\ fx3_wait = 0 /\ write = Operation[fx3_step + 1]
    /\ fx3_step' = (fx3_step + 1) % Len(Operation) /\ Paused /\ UNCHANGED triggers
Triggers(write) ==
    /\ fx3_wait = 0 /\ fx3_step = 0 /\ triggers < MaxTriggers /\ write = Trigger
    /\ triggers' = triggers + 1 /\ Paused /\ UNCHANGED fx3_step
Silent(write) ==
    /\ write = NoWrite
    /\ fx3_wait' = (IF fx3_wait > 0 THEN fx3_wait - 1 ELSE 0) /\ UNCHANGED <<fx3_step, triggers>>

Firmware(write) == Writes(write) \/ Triggers(write) \/ Silent(write)

(***************************************************************************)
(* The device                                                              *)
(***************************************************************************)

Reconfigured == block.asked = ReconfigClocks

\* The bridge and the update logic come up in either image; only the factory image decides
Configured ==
    /\ boot_state = "settle" /\ settle_count = 0 /\ byte_index = 0 /\ boot_window = NoWrite
    /\ shift_started = FALSE /\ header = <<>> /\ image_valid = FALSE
    /\ crc = <<>> /\ crc_byte = <<>> /\ crc_restart = FALSE
    /\ unlock_progress = 0 /\ unlocked = FALSE /\ chip_select_asserted = FALSE
    /\ shift = [left |-> 0, data |-> Noise, by |-> "loader", nth |-> 0] /\ received_byte = 0
    /\ chip = Unselected
    /\ writing = 0 /\ write_pending = FALSE /\ block_busy_sync = <<FALSE, FALSE>>
    /\ read_timer = 0 /\ armed = FALSE /\ reconfigure_hold = 0
    /\ block = [phase |-> 0, busy |-> 0, set |-> {}, asked |-> 0]
Resets ==
    /\ boot_state' = "settle" /\ settle_count' = 0 /\ byte_index' = 0 /\ boot_window' = NoWrite
    /\ shift_started' = FALSE /\ header' = <<>> /\ image_valid' = FALSE
    /\ crc' = <<>> /\ crc_byte' = <<>> /\ crc_restart' = FALSE
    /\ unlock_progress' = 0 /\ unlocked' = FALSE /\ chip_select_asserted' = FALSE
    /\ shift' = [left |-> 0, data |-> Noise, by |-> "loader", nth |-> 0] /\ received_byte' = 0
    /\ chip' = Unselected
    /\ writing' = 0 /\ write_pending' = FALSE /\ block_busy_sync' = <<FALSE, FALSE>>
    /\ read_timer' = 0 /\ armed' = FALSE /\ reconfigure_hold' = 0
    /\ block' = [phase |-> 0, busy |-> 0, set |-> {}, asked |-> 0]

Contents == [block : BOOLEAN, length : Lengths, image : BOOLEAN]
Promising(c) == c.block \/ (c.length = 0 /\ ~c.image)   \* a blank block promises nothing

HandsOver == image = "factory" /\ boot_state = "handOver"
HasAll == block.set = {Parameters[k] : k \in DOMAIN Parameters}

\* The device loads the application if all it needs for that was set and the flash can be
\* read, and the factory image otherwise; an update may have come before a host's request
Reconfigures ==
    /\ Reconfigured /\ Resets
    /\ image' = IF HandsOver /\ HasAll /\ ~unlocked /\ flash.image THEN "application" ELSE "factory"
    /\ IF HandsOver THEN UNCHANGED flash ELSE \E c \in Contents : Promising(c) /\ flash' = c
    /\ UNCHANGED firmware

Clocks ==
    /\ ~Reconfigured
    /\ IF image = "factory" THEN BootLoader ELSE UNCHANGED loader
    /\ \E write \in {NoWrite, Trigger, Operation[fx3_step + 1]} :
          /\ Firmware(write)
          /\ Bridge(Window(write)) /\ RemoteUpdate(Window(write))
    /\ UNCHANGED contents

BootStart(loaded) ==
    /\ flash \in Contents /\ Promising(flash) /\ image = loaded
    /\ Configured
    /\ fx3_step = 0 /\ fx3_wait = 0 /\ triggers = 0

BootInit == BootStart("factory")
BootNext == Clocks \/ Reconfigures
BootSpec == BootInit /\ [][BootNext]_bootVars /\ WF_bootVars(BootNext)

(***************************************************************************)
(* Properties                                                              *)
(***************************************************************************)

\* The application image is asked for only when the boot block and the image
\* passed, the watchdog and the rest are behind it, and the flash's pins are
\* free (bootLoader.v, from StateImageCheck on): whatever the FX3 is doing.
HandOverIsSafe ==
    HandsOver => flash.block /\ flash.image /\ HasAll /\ ~unlocked

\* The flash never takes a byte out of the middle of one command for the
\* beginning of another, though neither master of the bridge knows of the
\* other and their turns change in the middle of the FX3's operation.
CommandsAreWhole ==
    bridge_busy /\ chip_select_asserted => shift.nth = chip.heard + 1

BootTypeOK ==
    /\ flash \in Contents /\ image \in {"factory", "application"}
    /\ {shift_started, image_valid, unlocked, chip_select_asserted, write_pending, armed} \subseteq BOOLEAN
    /\ settle_count \in 0 .. SettleClocks /\ unlock_progress \in 0 .. Len(UnlockSequence) - 1
    /\ Len(header) <= BootBlockBytes /\ Len(crc_byte) <= 1 /\ shift.left \in 0 .. ShiftClocks
    /\ writing \in 0 .. Len(Parameters) + 1 /\ block.phase \in 0 .. 3 /\ block.busy \in 0 .. 2
    /\ fx3_step \in 0 .. Len(Operation) - 1 /\ triggers \in 0 .. MaxTriggers

FlashIsSafe == BootTypeOK /\ HandOverIsSafe /\ CommandsAreWhole

\* Every start is decided: for the application image if the flash holds a good one,
\* and only otherwise for recovery.
GoodFlash ==
    flash.block /\ flash.image /\ flash.length \in 1 .. FlashSize - ApplicationAddress
EveryStartIsDecided ==
    image = "factory" /\ boot_state = "settle"
        ~> image = "application" \/ (boot_state = "recovery" /\ ~GoodFlash)

\* bootLoader.v:439-442, of the relock: "Locked on the recovery path too: a
\* gateware that is not deliberately talking to the flash should not be wired to it".
RecoveryReleasesFlash ==
    image = "factory" /\ boot_state = "recovery" /\ boot_window = NoWrite /\ fx3_step = 0
        => ~unlocked

\* bootLoader.v:175-179: a block that "claims an image running off the end of the
\* device" is refused; the sum is of 32 bits and can wrap.
ReadStaysInFlash ==
    boot_state = "imageData" => ApplicationAddress + flash.length <= FlashSize
=============================================================================
