---------------------------- MODULE SampleWindow ----------------------------
(***************************************************************************)
(* RealtimeThroughputStreamAggregator (analytics-service/src/metrics): the *)
(* buffer of the last five minutes.  Samples carry the time they were      *)
(* taken, and arrive late and out of order.                                *)
(***************************************************************************)
EXTENDS Naturals, Sequences, SequencesExt

CONSTANTS
    WindowLength,       \* the five minutes, in ticks
    MaxSampleTime,      \* bound: the clock
    MaxSamples          \* bound: samples ingested

ASSUME SampleAssumption == WindowLength \in Nat

VARIABLES
    samples,            \* buffer: the timestamps, in the order of arrival
    sampleTime,         \* Date.now()
    ingested            \* history: all timestamps, and the cutoff of the last call

sampleVars == <<samples, sampleTime, ingested>>

SamplesInit ==
    /\ samples = <<>>
    /\ sampleTime = 0
    /\ ingested = <<>>

IsStale(timestamp) == timestamp + WindowLength < sampleTime

\* Variant with one plausible mistake: everything up to a stale sample goes.
DropToLastStale(buffer) ==
    LET stale == {i \in DOMAIN buffer : IsStale(buffer[i])}
    IN  SubSeq(buffer, 1 + Max(stale \cup {0}), Len(buffer))

\* The loop shifts stale samples from the front and stops at one that is not.
DropStale(buffer) ==
    LET fresh == {i \in DOMAIN buffer : ~IsStale(buffer[i])}
    IN  SubSeq(buffer, Min(fresh \cup {Len(buffer) + 1}), Len(buffer))

ingestSample(timestamp) ==
    /\ Len(ingested) < MaxSamples
    /\ samples' = DropStale(Append(samples, timestamp))
    /\ ingested' = Append(ingested, timestamp)
    /\ UNCHANGED sampleTime

SampleTick ==
    /\ sampleTime < MaxSampleTime
    /\ sampleTime' = sampleTime + 1
    /\ UNCHANGED <<samples, ingested>>

SamplesNext == SampleTick \/ \E timestamp \in 0 .. sampleTime : ingestSample(timestamp)

SamplesSpec == SamplesInit /\ [][SamplesNext]_sampleVars

----------------------------------------------------------------------------
\* The statistics are over a suffix of what arrived in which nothing is missing
\* that is younger than the window: late samples are kept behind fresher ones,
\* but never push these out.
FreshKept ==
    /\ IsSuffix(samples, ingested)
    /\ \A i \in DOMAIN ingested :
        ~IsStale(ingested[i]) => i > Len(ingested) - Len(samples)
=============================================================================
