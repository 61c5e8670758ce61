----------------------------- MODULE BufferMonitor -----------------------------
(***************************************************************************)
(* fpga/application/bufferMonitor.v: the instrument beside the capture     *)
(* FIFO. It counts on every clock; a read of the telemetry block latches   *)
(* all of it into a shadow bank and clears the interval counters, on a     *)
(* clock that may itself hold an overflow, a peak or the end of a packet.  *)
(* A step is a clock edge. The FIFO beside it may do on any clock what a   *)
(* FIFO can.                                                               *)
(***************************************************************************)
EXTENDS Integers

CONSTANTS
    MonitoredDepth, MonitoredPacket, NearFullWords, \* FifoDepth, PacketWords
    CounterMaximum,     \* 16'hFFFF: where a counter saturates, or wraps
    Prescale,           \* 256: near-full samples to a unit
    LatchModulus        \* 256: where latch_counter wraps

ASSUME MonitorAssumption ==
    /\ MonitoredDepth \in Nat /\ NearFullWords \in 1 .. MonitoredDepth
    /\ MonitoredPacket \in 1 .. MonitoredDepth
    /\ CounterMaximum \in Nat \ {0} /\ Prescale \in Nat \ {0} /\ LatchModulus \in Nat \ {0}

VARIABLES
    monitored_words,         \* the FIFO's occupancy, which this module only reads
    peak_interval, peak_lifetime,
    overflow_events, dropped_words, packets_read, near_full_units,
    packet_word_count, near_full_prescale, latch_counter,
    overflow_active, overflow_sticky, saturated,
    shadow,             \* the shadow_ registers
    owed                \* what happened and has not been reported, and the
                        \* highest occupancy of the interval and of the run

peaks == <<peak_interval, peak_lifetime>>
counters == <<overflow_events, dropped_words, packets_read, near_full_units>>
phases == <<packet_word_count, near_full_prescale, latch_counter>>
flags == <<overflow_active, overflow_sticky, saturated>>
monitorVars == <<monitored_words, peaks, counters, phases, flags, shadow, owed>>

Greater(m, n) == IF m > n THEN m ELSE n
Lesser(m, n) == IF m < n THEN m ELSE n

NothingSampled ==
    [saturated |-> FALSE, sticky |-> FALSE, latch_count |-> 0, used_now |-> 0,
     peak_interval |-> 0, peak_lifetime |-> 0, overflow_events |-> 0,
     dropped_words |-> 0, packets_read |-> 0, near_full_units |-> 0]

NothingOwed ==
    [bursts |-> 0, drops |-> 0, words |-> 0, near |-> 0,
     highest |-> 0, ever |-> 0, dropping |-> FALSE]

MonitorInit ==
    /\ monitored_words = 0
    /\ peak_interval = 0 /\ peak_lifetime = 0
    /\ overflow_events = 0 /\ dropped_words = 0 /\ packets_read = 0 /\ near_full_units = 0
    /\ packet_word_count = 0 /\ near_full_prescale = 0 /\ latch_counter = 0
    /\ overflow_active = FALSE /\ overflow_sticky = FALSE /\ saturated = FALSE
    /\ shadow = NothingSampled /\ owed = NothingOwed

-----------------------------------------------------------------------------
Bit(condition) == IF condition THEN 1 ELSE 0

\* Mutant: the latch clears to zero
ClearedOnLatch(latch, counter, event) ==
    IF latch THEN 0 ELSE Lesser(counter + Bit(event), CounterMaximum)

\* Cleared by the latch to what this clock contributes
Saturating(latch, counter, event) ==
    IF latch THEN Bit(event) ELSE Lesser(counter + Bit(event), CounterMaximum)

Wrapping(latch, counter, event) ==
    IF latch THEN Bit(event) ELSE (counter + Bit(event)) % (CounterMaximum + 1)

Peaks(latch) ==
    /\ peak_interval' = IF latch THEN monitored_words ELSE Greater(monitored_words, peak_interval)
    /\ peak_lifetime' = Greater(monitored_words, peak_lifetime)

Saturation(latch, saturating) == saturated' = (~ latch /\ (saturated \/ saturating))

MonitorClock(write_enable, is_reading, latch) ==
    LET overflow == write_enable /\ monitored_words = MonitoredDepth
        \* A burst is counted once, when it starts
        overflow_event == overflow /\ ~ overflow_active
        packet_complete == is_reading /\ packet_word_count = MonitoredPacket - 1
        near_full_sample == write_enable /\ monitored_words >= NearFullWords
        near_full_tick == near_full_sample /\ near_full_prescale = Prescale - 1
        any_saturation ==
            \/ overflow_event /\ overflow_events = CounterMaximum
            \/ overflow /\ dropped_words = CounterMaximum
            \/ near_full_tick /\ near_full_units = CounterMaximum
    IN  /\ Peaks(latch)
        /\ overflow_events' = Saturating(latch, overflow_events, overflow_event)
        /\ dropped_words' = Saturating(latch, dropped_words, overflow)
        /\ packets_read' = Wrapping(latch, packets_read, packet_complete)
        /\ near_full_units' = Saturating(latch, near_full_units, near_full_tick)
        /\ packet_word_count' = (packet_word_count + Bit(is_reading)) % MonitoredPacket
        /\ near_full_prescale' = (near_full_prescale + Bit(near_full_sample)) % Prescale
        /\ latch_counter' = (latch_counter + Bit(latch)) % LatchModulus
        /\ overflow_active' = (overflow \/ (overflow_active /\ ~ write_enable))
        /\ overflow_sticky' = (overflow_sticky \/ overflow)
        /\ Saturation(latch, any_saturation)

\* The counters as they stood before the latch cleared them
Latch(latch) ==
    shadow' = IF ~ latch THEN shadow ELSE
        [saturated |-> saturated, sticky |-> overflow_sticky,
         latch_count |-> (latch_counter + 1) % LatchModulus, used_now |-> monitored_words,
         peak_interval |-> peak_interval, peak_lifetime |-> peak_lifetime,
         overflow_events |-> overflow_events, dropped_words |-> dropped_words,
         packets_read |-> packets_read, near_full_units |-> near_full_units]

MonitoredFifo(write_enable, is_reading) ==
    /\ is_reading => monitored_words > 0
    /\ monitored_words' = Lesser(monitored_words + Bit(write_enable), MonitoredDepth) - Bit(is_reading)

WordsModulus == MonitoredPacket * (CounterMaximum + 1)
OwedLimit == (CounterMaximum + 1) * Prescale      \* where the account stops counting

(***************************************************************************)
(* The account a reader of the block keeps, for the properties: what has   *)
(* happened, less what a reading has reported. A reading that says it is   *)
(* saturated settles the account whatever it reports.                      *)
(***************************************************************************)
Account(write_enable, is_reading, latch) ==
    LET dropped == write_enable /\ monitored_words = MonitoredDepth
        After(account, reported, settled, happened) ==
            IF ~ latch THEN Lesser(account + Bit(happened), OwedLimit)
            ELSE (IF saturated THEN settled ELSE account - reported) + Bit(happened)
    IN owed' =
        [bursts |-> After(owed.bursts, overflow_events, 0, dropped /\ ~ owed.dropping),
         drops |-> After(owed.drops, dropped_words, 0, dropped),
         words |-> (owed.words - (IF latch THEN MonitoredPacket * packets_read ELSE 0)
                       + Bit(is_reading)) % WordsModulus,
         near |-> After(owed.near, Prescale * near_full_units, near_full_prescale,
                        write_enable /\ monitored_words >= NearFullWords),
         highest |-> IF latch THEN monitored_words ELSE Greater(owed.highest, monitored_words),
         ever |-> Greater(owed.ever, monitored_words),
         dropping |-> IF write_enable THEN dropped ELSE owed.dropping]

Edge ==
    \E write_enable, is_reading, latch \in BOOLEAN :
        /\ MonitoredFifo(write_enable, is_reading)
        /\ MonitorClock(write_enable, is_reading, latch)
        /\ Latch(latch)
        /\ Account(write_enable, is_reading, latch)

\* A reset leaves what MonitorInit says, so it adds no behaviour of its own
MonitorNext == Edge

MonitorSpec == MonitorInit /\ [][MonitorNext]_monitorVars

-----------------------------------------------------------------------------
Counter == 0 .. CounterMaximum

MonitorTypeOK ==
    /\ monitored_words \in 0 .. MonitoredDepth
    /\ peak_interval \in 0 .. MonitoredDepth /\ peak_lifetime \in 0 .. MonitoredDepth
    /\ overflow_events \in Counter /\ dropped_words \in Counter
    /\ packets_read \in Counter /\ near_full_units \in Counter
    /\ packet_word_count \in 0 .. MonitoredPacket - 1
    /\ near_full_prescale \in 0 .. Prescale - 1
    /\ latch_counter \in 0 .. LatchModulus - 1
    /\ overflow_active \in BOOLEAN /\ overflow_sticky \in BOOLEAN /\ saturated \in BOOLEAN
    /\ shadow \in
        [saturated : BOOLEAN, sticky : BOOLEAN, latch_count : 0 .. LatchModulus - 1,
         used_now : 0 .. MonitoredDepth, peak_interval : 0 .. MonitoredDepth,
         peak_lifetime : 0 .. MonitoredDepth, overflow_events : Counter,
         dropped_words : Counter, packets_read : Counter, near_full_units : Counter]

(***************************************************************************)
(* "No event is lost to the clearing and none is counted in two intervals" *)
(* (bufferMonitor.v:176-177): what has happened is what the readings have  *)
(* said and what the counters will say, or the next reading says that it   *)
(* is saturated.                                                           *)
(***************************************************************************)
NothingIsLost ==
    ~ saturated => /\ owed.bursts = overflow_events
                   /\ owed.drops = dropped_words
                   /\ owed.near = Prescale * near_full_units + near_full_prescale

(***************************************************************************)
(* A reading says it is saturated only if a count really is short: the     *)
(* flag belongs to one interval and is not carried into the next.          *)
(***************************************************************************)
SaturationIsTrue ==
    saturated => \/ owed.bursts > overflow_events
                 \/ owed.drops > dropped_words
                 \/ owed.near > Prescale * near_full_units + near_full_prescale

(***************************************************************************)
(* "Counting words and dividing is exact" (bufferMonitor.v:126-128), for   *)
(* the latch leaves the position in the packet alone: up to the wrap that  *)
(* is meant, every packet is reported once.                                *)
(***************************************************************************)
PacketsAreExact ==
    owed.words = (MonitoredPacket * packets_read + packet_word_count) % WordsModulus

(***************************************************************************)
(* Every clock's occupancy belongs to one interval, the one it starts if   *)
(* it is a latching one: no excursion is missed and none is reported in an *)
(* interval it is not of. A burst has been full.                           *)
(***************************************************************************)
PeaksAreTrue ==
    /\ peak_interval = owed.highest /\ peak_lifetime = owed.ever
    /\ overflow_sticky => peak_lifetime = MonitoredDepth
    /\ shadow.dropped_words > 0 => shadow.peak_interval = MonitoredDepth

(***************************************************************************)
(* What the readings add up to.                                            *)
(***************************************************************************)
CountsAreTrue ==
    MonitorTypeOK /\ NothingIsLost /\ SaturationIsTrue /\ PacketsAreExact /\ PeaksAreTrue

-----------------------------------------------------------------------------
(* What the documents say and the code does not do: it has a               *)
(* counterexample, described in the README under "Divergences".            *)

(***************************************************************************)
(* "What comes back over the link is one coherent instant" and the         *)
(* highest occupancy "since reset" (software-guide.md:92,                  *)
(* fpga-register-interface.md:314): no reading shows an occupancy higher   *)
(* than the highest there has been.                                        *)
(***************************************************************************)
PeakCoversNow == shadow.used_now <= shadow.peak_lifetime
=============================================================================
