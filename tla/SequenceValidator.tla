--------------------------- MODULE SequenceValidator ---------------------------
(***************************************************************************)
(* SequenceValidator (ddd-gui/src/capture/sequence_validator.{h,cpp}): the *)
(* check that no sample of a capture is missing, from the counter the      *)
(* gateware puts in the top six bits of every sample. One action is one    *)
(* call of Process. A sample is its counter; the tally is left out.        *)
(*                                                                         *)
(* Around it, the stream it is fed: markers of either block length, or     *)
(* none, from any phase, with at most one hole of any size in it.          *)
(***************************************************************************)
EXTENDS Integers, SequencesExt

CONSTANTS
    kSequenceCounterValues,             \* 63 in the program; here small and odd
    kLegacySamplesPerSequenceCounter,   \* 65536; here small and even
    BufferSamples,                      \* the samples of a buffer, one per run
    MaxHole,                            \* bound: the size of the hole
    PacketSamples                       \* what USB loses at a time: 512 samples

\* Mutant: the block is even, as it was
EvenBlock == kLegacySamplesPerSequenceCounter

\* The gateware of this tree: one less than the legacy block, hence odd
kSamplesPerSequenceCounter == kLegacySamplesPerSequenceCounter - 1
kMaximumSamplesPerSequenceCounter == kLegacySamplesPerSequenceCounter

KnownLengths == {kSamplesPerSequenceCounter, kLegacySamplesPerSequenceCounter}

ASSUME ValidatorAssumption ==
    /\ kSequenceCounterValues \in Nat /\ kSequenceCounterValues > 2
    /\ kLegacySamplesPerSequenceCounter \in Nat /\ kLegacySamplesPerSequenceCounter > 1
    /\ \A n \in BufferSamples : n \in Nat /\ n > kMaximumSamplesPerSequenceCounter

VARIABLES
    state, counter_value, run_length, samples_per_counter,
    outcome,        \* what the last call returned, for a failure
    block,          \* the stream: samples to a counter value, 0 without markers
    position,       \* where in its period the stream is
    size,           \* the samples of each buffer of this run
    hole,           \* the samples lost, 0 if none yet
    locked,         \* the hole came after a change of counter
    since           \* samples delivered after the hole, as far as SinceMax

validatorVars == <<state, counter_value, run_length, samples_per_counter, outcome>>
streamVars == <<block, position, size, hole, locked, since>>
sequenceVars == <<validatorVars, streamVars>>

NoOutcome == [ok |-> TRUE, expected |-> 0, actual |-> 0, held |-> 0, remaining |-> 0]

ValidatorInit ==
    /\ state = "synchronising" /\ counter_value = 0
    /\ run_length = 0 /\ samples_per_counter = 0
    /\ outcome = NoOutcome
    /\ block \in KnownLengths \cup {0} /\ size \in BufferSamples
    /\ position \in {0} \cup 0 .. kSequenceCounterValues * block - 1
    /\ hole = 0 /\ locked = FALSE /\ since = 0

-----------------------------------------------------------------------------
(* Process *)

NextCounterValue(value) == (value + 1) % kSequenceCounterValues

\* run_limit: the longer of the two lengths until one has been measured
RunLimit(v) == IF v.samples = 0 THEN kMaximumSamplesPerSequenceCounter ELSE v.samples

RunComplete(v) ==
    IF v.samples = 0 THEN v.run \in KnownLengths ELSE v.run = v.samples

Failed(v, expected, counter, remaining) ==
    [v EXCEPT !.state = "failed",
              !.outcome = [ok |-> FALSE, expected |-> expected, actual |-> counter,
                           held |-> v.value, remaining |-> remaining]]

NextRun(v, counter) ==
    [v EXCEPT !.samples = IF @ = 0 THEN v.run ELSE @, !.value = counter, !.run = 1]

\* One turn of the loop; after a failure the loop has been left
CheckSample(v, counter) ==
    CASE v.state = "failed" -> v
      [] v.state # "failed" /\ counter = v.value ->
            IF v.run < RunLimit(v) THEN [v EXCEPT !.run = @ + 1]
            ELSE Failed(v, NextCounterValue(v.value), counter, 0)
      [] v.state # "failed" /\ counter = NextCounterValue(v.value) /\ RunComplete(v) ->
            NextRun(v, counter)
      [] OTHER -> Failed(v, v.value, counter, RunLimit(v) - v.run)

\* The samples looked through for the first change, from the second on
Searched(buffer) ==
    2 .. IF Len(buffer) < kMaximumSamplesPerSequenceCounter + 1
         THEN Len(buffer) ELSE kMaximumSamplesPerSequenceCounter + 1

Changes(buffer) == {i \in Searched(buffer) : buffer[i] # buffer[1]}

Synchronise(v, buffer) ==
    IF Changes(buffer) = {} THEN [v EXCEPT !.state = "disabled"]
    ELSE [v EXCEPT !.state = "running", !.value = buffer[Min(Changes(buffer))], !.run = 0]

ProcessBuffer(v, buffer) ==
    CASE v.state = "synchronising" /\ Changes(buffer) # {} ->
            FoldLeft(CheckSample, Synchronise(v, buffer),
                     SubSeq(buffer, Min(Changes(buffer)), Len(buffer)))
      [] v.state = "synchronising" /\ Changes(buffer) = {} -> Synchronise(v, buffer)
      [] v.state = "running" -> FoldLeft(CheckSample, v, buffer)
      [] OTHER -> v

-----------------------------------------------------------------------------
(* The stream *)

Period == kSequenceCounterValues * block
CounterAt(p) == IF block = 0 THEN 0 ELSE (p \div block) % kSequenceCounterValues
Advanced(n) == IF block = 0 THEN 0 ELSE (position + n) % Period

\* The next buffer, with gap samples lost after the first at of them
Buffer(at, gap) ==
    [i \in 1 .. size |-> CounterAt(position + (i - 1) + (IF i > at THEN gap ELSE 0))]

SinceMax == 2 * kMaximumSamplesPerSequenceCounter + 1

Process(buffer) ==
    LET v == ProcessBuffer([state |-> state, value |-> counter_value, run |-> run_length,
                            samples |-> samples_per_counter, outcome |-> outcome], buffer)
    IN  /\ state' = v.state /\ counter_value' = v.value /\ run_length' = v.run
        /\ samples_per_counter' = v.samples /\ outcome' = v.outcome

\* The capture is over once a call has failed
Whole ==
    /\ state # "failed"
    /\ Process(Buffer(size, 0))
    /\ position' = Advanced(size)
    /\ since' = IF hole = 0 THEN 0 ELSE Min({since + size, SinceMax})
    /\ UNCHANGED <<block, size, hole, locked>>

WithHole(at, gap) ==
    /\ state # "failed" /\ hole = 0 /\ block # 0
    /\ at > 0 \/ state # "synchronising"
    /\ Process(Buffer(at, gap))
    /\ position' = Advanced(size + gap)
    /\ hole' = gap
    /\ locked' = (state = "running" \/ \E i \in 1 .. at : Buffer(at, gap)[i] # Buffer(at, gap)[1])
    /\ since' = Min({size - at, SinceMax})
    /\ UNCHANGED <<block, size>>

ValidatorNext == Whole \/ (\E at \in 0 .. size - 1, gap \in 1 .. MaxHole : WithHole(at, gap))

ValidatorSpec == ValidatorInit /\ [][ValidatorNext]_sequenceVars

-----------------------------------------------------------------------------
ValidatorTypeOK ==
    /\ state \in {"synchronising", "running", "disabled", "failed"}
    /\ counter_value \in 0 .. kSequenceCounterValues - 1
    /\ run_length \in 0 .. kMaximumSamplesPerSequenceCounter
    /\ samples_per_counter \in KnownLengths \cup {0}
    /\ outcome.ok = (state # "failed")

(***************************************************************************)
(* A stream with nothing missing never fails, whichever gateware it is     *)
(* from, wherever in a block it starts, and however its blocks fall on     *)
(* the buffers ("the device does not know where our buffers end",          *)
(* sequence_validator.h:124).                                               *)
(***************************************************************************)
NoFalseAlarm == hole = 0 => state # "failed"

(***************************************************************************)
(* Validation is given up exactly for a stream without markers: a change   *)
(* of counter is found wherever in its block the stream starts.            *)
(***************************************************************************)
DisabledWithoutMarkers ==
    hole = 0 \/ locked => (state = "disabled" <=> block = 0 /\ state # "synchronising")

(***************************************************************************)
(* A hole, once the validator has locked, is found by the second boundary  *)
(* after it, even while the block length is still to be measured: the one  *)
(* it cannot see is a whole number of periods.                             *)
(***************************************************************************)
HoleIsCaught ==
    locked /\ hole % Period # 0 /\ since = SinceMax => state = "failed"

(***************************************************************************)
(* The reason the block is odd (docs software-guide.md:72): with this      *)
(* tree's gateware, a hole of whole packets is found unless it is as long  *)
(* as a packet's worth of periods.                                         *)
(***************************************************************************)
PacketHoleIsCaught ==
    /\ locked /\ block = kSamplesPerSequenceCounter
    /\ hole % PacketSamples = 0 /\ hole \in 1 .. PacketSamples * Period - 1
    /\ since = SinceMax
    => state = "failed"

(***************************************************************************)
(* The two together: a sound stream is let through, validated or not, and  *)
(* an unsound one is stopped.                                              *)
(***************************************************************************)
HolesAloneAreCaught ==
    /\ ValidatorTypeOK /\ NoFalseAlarm /\ DisabledWithoutMarkers
    /\ HoleIsCaught /\ PacketHoleIsCaught

-----------------------------------------------------------------------------
(* What the sources say of the validator and it does not do: each of these *)
(* has a counterexample, described in the README under "Divergences".      *)

(***************************************************************************)
(* "the one gap it cannot see is a gap of exactly a whole period" (docs    *)
(* software-guide.md:72). The samples before the first change are not      *)
(* checked, and a gap among them is not seen either.                       *)
(***************************************************************************)
OnlyPeriodsUnseen ==
    hole # 0 /\ hole % Period # 0 /\ since = SinceMax => state = "failed"

(***************************************************************************)
(* "The shortfall against a full counter period is exactly how many        *)
(* samples the stream is missing" (sequence_validator.h:96-98). A hole     *)
(* that reaches into the next block is reported up to the boundary only.   *)
(***************************************************************************)
ShortfallIsHole ==
    state = "failed" /\ locked /\ samples_per_counter = block /\ outcome.remaining > 0
        => outcome.remaining = hole

(***************************************************************************)
(* "Zero the other way round: the counter did not change when it should    *)
(* have" (sequence_validator.h:100). A counter that changes on time, to a   *)
(* value too far on, is reported with zero as well.                        *)
(***************************************************************************)
ZeroIsNoChange ==
    state = "failed" /\ locked /\ samples_per_counter = block /\ outcome.remaining = 0
        => outcome.actual = outcome.held
=============================================================================
