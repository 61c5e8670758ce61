------------------------------ MODULE FpgaBlocks ------------------------------
(***************************************************************************)
(* The blocks of the FPGA, for TLC: the queue of the capture path          *)
(* (CaptureFifo), the buffer with the two machines that empty it           *)
(* (CaptureBuffer), the instrument beside it (BufferMonitor), what starts   *)
(* the application image (FpgaBoot), and the link to the registers         *)
(* (RegisterLink). Each takes the others as any behaviour their ports      *)
(* allow, so a behaviour of the run clocks one of them and holds the       *)
(* others in reset.                                                        *)
(***************************************************************************)
EXTENDS CaptureFifo, CaptureBuffer, BufferMonitor, FpgaBoot, RegisterLink

\* What the threads access: the update agent and the loop of the LEDs, and the host
RegisterAccesses == [
    application |-> { [read |-> FALSE, address |-> Led, data |-> <<9>>],
                      [read |-> FALSE, address |-> BridgeData, data |-> <<13, 6>>] },
    callback |-> { [read |-> TRUE, address |-> TelemetryId, data |-> <<0, 0, 0>>] } ]

VARIABLE clocked    \* which of the blocks

allVars == <<vars, bufferVars, monitorVars, bootVars, linkVars, clocked>>
drivenVars == <<bufferVars, bootVars>>

ClockFifo ==
    clocked = "fifo" /\ Next /\ UNCHANGED <<bufferVars, monitorVars, bootVars, linkVars, clocked>>
ClockBuffer ==
    clocked = "buffer" /\ BufferNext /\ UNCHANGED <<vars, monitorVars, bootVars, linkVars, clocked>>
ClockMonitor ==
    clocked = "monitor" /\ MonitorNext /\ UNCHANGED <<vars, bufferVars, bootVars, linkVars, clocked>>
ClockBoot ==
    clocked = "boot" /\ BootNext /\ UNCHANGED <<vars, bufferVars, monitorVars, linkVars, clocked>>
ClockLink ==
    clocked = "link" /\ LinkNext /\ UNCHANGED <<vars, bufferVars, monitorVars, bootVars, clocked>>

BlocksInit ==
    /\ clocked \in {"fifo", "buffer", "monitor", "boot", "link"}
    /\ Init /\ BufferInit /\ MonitorInit /\ LinkInit
    /\ clocked # "buffer" => decimate = FALSE
    /\ live = CHOOSE f \in Figures : TRUE
    /\ IF clocked = "boot" THEN BootInit ELSE BootStart("application") /\ ~flash.block

\* The clocks of the buffer and of the boot logic do not stop
BlocksSpec ==
    /\ BlocksInit
    /\ [][ClockFifo \/ ClockBuffer \/ ClockMonitor \/ ClockBoot \/ ClockLink]_allVars
    /\ WF_drivenVars(\/ clocked = "buffer" /\ BufferNext /\ UNCHANGED bootVars
                     \/ clocked = "boot" /\ BootNext /\ UNCHANGED bufferVars)
=============================================================================
