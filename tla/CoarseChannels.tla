--------------------------- MODULE CoarseChannels --------------------------
(***************************************************************************)
(* CoarseChannel::populate_coarse_channels (coarse_channel/mod.rs): the    *)
(* loop over the receiver channels of the metafits that numbers them for   *)
(* the correlator, keeps those the time map passed in has at its first     *)
(* time, and sorts what it kept by sky frequency.                          *)
(***************************************************************************)
EXTENDS ChannelMap, SequencesExt

CONSTANTS
  ReceiverChans,   \* receiver channels, some over 128
  MaxChans         \* bound on the channels of an observation

ASSUME ReceiverAssumption == ReceiverChans \subseteq Nat /\ MaxChans \in Nat \ {0}

VARIABLES
  version,     \* mwa_version
  recs,        \* metafits_coarse_chan_vec
  gpuboxMap,   \* None, or the channels of the first time of the gpubox map
  voltageMap,  \* None, or the channels of the first time of the voltage map
  element,     \* the element the loop looks at, from 1
  firstOver,   \* first_chan_index_over_128, 0 for None
  coarse,      \* coarse_chans
  pc           \* "loop", or the result: "ok", "err"

selectVars == <<version, recs, gpuboxMap, voltageMap, element, firstOver, coarse, pc>>
inputs == <<version, recs, gpuboxMap, voltageMap>>

LegacyCorr  == {"CorrOldLegacy", "CorrLegacy"}
Legacy      == LegacyCorr \cup {"VCSLegacyRecombined"}
MwaVersions == Legacy \cup {"CorrMWAXv2", "VCSMWAXv2"}

RecLists == {s \in BoundedSeq(ReceiverChans, MaxChans) : s # <<>> /\ IsInjective(s)}

None == [given |-> FALSE, chans |-> {}]
Some(chans) == [given |-> TRUE, chans |-> chans]

InitSelect ==
  /\ version \in MwaVersions
  /\ recs \in RecLists
  /\ gpuboxMap \in {None} \cup {Some(C) : C \in SUBSET (1 .. Len(recs) \cup Range(recs))}
  /\ voltageMap \in {None} \cup {Some(C) : C \in SUBSET Range(recs)}
  /\ element = 1
  /\ firstOver = 0
  /\ coarse = <<>>
  /\ pc = "loop"

CoarseChannel(corr, rec, gpubox) == [corr |-> corr, rec |-> rec, gpubox |-> gpubox]

BothMaps ==
  /\ pc = "loop"
  /\ gpuboxMap.given /\ voltageMap.given
  /\ pc' = "err"
  /\ UNCHANGED <<inputs, element, firstOver, coarse>>

\* The channel is kept if the map given has it, under the number it goes by
\* there; without a map every channel is kept.
Keep(corr, rec, inGpubox, inMetafits) ==
  LET number == IF gpuboxMap.given THEN inGpubox
                ELSE IF voltageMap.given THEN rec ELSE inMetafits
      kept   == /\ gpuboxMap.given => number \in gpuboxMap.chans
                /\ voltageMap.given => number \in voltageMap.chans
  IN  coarse' = IF kept THEN Append(coarse, CoarseChannel(corr, rec, number)) ELSE coarse

Looping == pc = "loop" /\ ~(gpuboxMap.given /\ voltageMap.given) /\ element \in DOMAIN recs

\* Mutant: the reversal counts from the start of the list.
ReversedFromTheStart(first) == Len(recs) - element

Reversed(first) == Len(recs) - 1 - (element - first)

\* Legacy formats: from the first channel over 128 on, the order is reversed.
StepLegacy ==
  /\ Looping
  /\ version \in Legacy
  /\ firstOver' = IF recs[element] > 128 /\ firstOver = 0 THEN element ELSE firstOver
  /\ LET corr == IF recs[element] > 128 THEN Reversed(firstOver') ELSE element - 1
     IN  Keep(corr, recs[element], corr + 1, IF version \in LegacyCorr THEN corr + 1 ELSE recs[element])
  /\ element' = element + 1
  /\ UNCHANGED <<inputs, pc>>

StepMwax ==
  /\ Looping
  /\ version \notin Legacy
  /\ Keep(element - 1, recs[element], recs[element], recs[element])
  /\ element' = element + 1
  /\ UNCHANGED <<inputs, firstOver, pc>>

\* Mutant: the channels are sorted by number instead of frequency.
ByNumber(a, b) == a.gpubox < b.gpubox

BySky(a, b) == a.rec < b.rec

\* sort_by_key() by receiver channel, which no two of a list share.
Sort ==
  /\ pc = "loop"
  /\ ~(gpuboxMap.given /\ voltageMap.given)
  /\ element \notin DOMAIN recs
  /\ \E p \in Bijection(DOMAIN coarse, DOMAIN coarse) :
       /\ coarse' = [k \in DOMAIN coarse |-> coarse[p[k]]]
       /\ \A j, k \in DOMAIN coarse : j < k => BySky(coarse'[j], coarse'[k])
  /\ pc' = "ok"
  /\ UNCHANGED <<inputs, element, firstOver>>

NextSelect == BothMaps \/ StepLegacy \/ StepMwax \/ Sort

\* One thread runs the function: an enabled step is eventually taken.
SpecSelect == InitSelect /\ [][NextSelect]_selectVars /\ WF_selectVars(NextSelect)

-----------------------------------------------------------------------------
\* When the metafits lists its channels by frequency, each channel kept goes by
\* the number that the files of its format carry, so a file leads to its sky
\* frequency; a voltage file carries the receiver channel in every format.
NumberedAsTheFiles ==
  Ascending(recs) =>
    \A c \in Range(coarse) :
      LET ofLegacyFile == version \in Legacy /\ ~voltageMap.given
                          /\ (gpuboxMap.given \/ version \in LegacyCorr)
      IN  c.gpubox = GpuboxOf(ofLegacyFile, Range(recs), c.rec)

\* Channels by ascending sky frequency: those of the metafits that the map has,
\* none lost or repeated.
SelectsAsAsked ==
  /\ \A j, k \in DOMAIN coarse : j < k => coarse[j].rec < coarse[k].rec
  /\ voltageMap.given =>
       {c.rec : c \in Range(coarse)} = Range(recs) \cap voltageMap.chans
  /\ gpuboxMap.given /\ Ascending(recs) =>
       {c.gpubox : c \in Range(coarse)} =
         gpuboxMap.chans \cap {GpuboxOf(version \in Legacy, Range(recs), r) : r \in Range(recs)}
  /\ ~voltageMap.given /\ ~gpuboxMap.given => Len(coarse) = Len(recs)

\* The function refuses two maps, or returns the channels asked for.
SortedAndComplete ==
  <>(\/ pc = "err" /\ gpuboxMap.given /\ voltageMap.given
     \/ pc = "ok" /\ SelectsAsAsked)
=============================================================================
