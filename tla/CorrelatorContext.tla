-------------------------- MODULE CorrelatorContext ------------------------
(***************************************************************************)
(* CorrelatorContext (correlator_context/mod.rs) over its files: new_inner *)
(* opens every gpubox file three times, to index it, to examine it and to  *)
(* validate it, and each read opens one again.  Files are on a disk that   *)
(* others use: between any two of these steps one may disappear or grow.   *)
(* Steps that touch no file are one action up to the next that does.       *)
(***************************************************************************)
EXTENDS ChannelMap, TimestepGrid, SequencesExt

CONSTANTS
  Names,        \* file names
  Contents,     \* the file of each name
  Offers,       \* the lists of names a caller passes
  Times, NoTime,                \* unix times (ms) of HDUs, and none
  RecChans,     \* receiver channels of the metafits
  MetaFirst, MetaLast,          \* its first and last timestep
  GoodTime, IntTime,            \* good_time_unix_ms, corr_int_time_ms
  FineChans, Baselines,         \* its fine channels per coarse, its baselines
  MaxChanges    \* bound on the changes others make to the files

Versions == {"CorrOldLegacy", "CorrLegacy", "CorrMWAXv2"}

\* What the name and the headers of a file say; corrVer 0 stands for no key.
FileRecords ==
  [format : Versions \cup {"none"}, batch : Nat, chan : Nat, opens : BOOLEAN, corrVer : 0 .. 2,
   obsid : {"same", "other", "missing"}, axes : Nat \X Nat, hdus : Seq(Times \cup {NoTime})]

ASSUME FilesAssumption ==
  /\ Contents \in [Names -> FileRecords] /\ Offers \subseteq Seq(Names)
  /\ Times \subseteq Nat /\ NoTime \notin Times
ASSUME ChansAssumption    == RecChans \subseteq Nat /\ IsFiniteSet(RecChans)
ASSUME IntTimeAssumption  == IntTime \in Nat \ {0}
ASSUME ScheduleAssumption ==
  /\ MetaFirst \in Nat /\ MetaLast \in Nat /\ MetaFirst <= MetaLast
  /\ GoodTime \in Nat
ASSUME ShapeAssumption    == FineChans \in Nat /\ Baselines \in Nat

VARIABLES
  disk,         \* the files offered, as they are now
  changes,      \* the changes made to them, in order
  offered,      \* gpubox_filenames
  stage,        \* what new_inner does next, or "ready", "error", "panic"
  why,          \* the error returned
  at,           \* the file a loop over the files looks at
  mwaVersion,   \* what the file names say
  gpuboxes,     \* temp_gpuboxes: names sorted by (batch, channel)
  batched,      \* gpubox_batches, one after the other
  timeMap,      \* gpubox_time_map, <<time, channel>> -> <<batch, hdu>>
  timesteps,    \* their unix times, ascending
  common, good, \* what determine_common_obs_times_and_chans answered
  reply         \* the last answer to a reader

vars == <<disk, changes, offered, stage, why, at, mwaVersion, gpuboxes, batched,
          timeMap, timesteps, common, good, reply>>
others == <<disk, changes, offered>>

NoMap    == [k \in {} |-> <<0, 0>>]
NoCommon == [kind |-> "none", start |-> 0, end |-> 0, chans |-> {}]
NoReply  == [kind |-> "none"]

Init ==
  /\ offered \in Offers
  /\ disk = [n \in ToSet(offered) |-> Contents[n]] /\ changes = <<>>
  /\ stage = "batches" /\ why = "none" /\ at = 1
  /\ mwaVersion = "none"
  /\ gpuboxes = <<>> /\ batched = <<>>
  /\ timeMap = NoMap /\ timesteps = <<>>
  /\ common = NoCommon /\ good = NoCommon
  /\ reply = NoReply

-----------------------------------------------------------------------------
(* What the name and the headers of a file say. *)

\* The old legacy names have no batch number: "There's only one batch."
BatchOf(n) == IF disk[n].format = "CorrOldLegacy" THEN 0 ELSE disk[n].batch
ChanOf(n)  == disk[n].chan
InOrder(m, n) == BatchOf(m) < BatchOf(n) \/ (BatchOf(m) = BatchOf(n) /\ ChanOf(m) <= ChanOf(n))

\* An unstable sort leaves files of equal batch and channel in any order.
SortedLists(s) ==
  {[i \in DOMAIN s |-> s[p[i]]] : p \in
     {q \in Bijection(DOMAIN s, DOMAIN s) : \A i, j \in DOMAIN s : i < j => InOrder(s[q[i]], s[q[j]])}}

Index == INSTANCE TimeMapIndex WITH
  FileLists <- {}, files <- gpuboxes, outcome <- reply,
  Batches <- {Contents[n].batch : n \in Names}, Channels <- {Contents[n].chan : n \in Names}
Format == IF mwaVersion = "CorrMWAXv2" THEN "mwax" ELSE "legacy"
Indexed(s) == [i \in DOMAIN s |-> [disk[s[i]] EXCEPT !.batch = BatchOf(s[i])]]

\* validate_gpubox_metadata_mwa_version.
VersionFault(f) ==
  CASE mwaVersion = "CorrMWAXv2" /\ f.corrVer = 0 -> "MwaxCorrVerMissing"
    [] mwaVersion = "CorrMWAXv2" /\ f.corrVer = 1 -> "MwaxCorrVerMismatch"
    [] mwaVersion # "CorrMWAXv2" /\ f.corrVer # 0 -> "CorrVerMismatch"
    [] OTHER -> "none"

\* Mutant: a file without the key is accepted.
ObsidFaultIfPresent(f) == IF f.obsid = "other" THEN "ObsidMismatch" ELSE "none"

ObsidFault(f) ==
  CASE f.obsid = "missing" -> "MissingObsid"
    [] f.obsid = "other"   -> "ObsidMismatch"
    [] OTHER -> "none"

\* validate_hdu_axes: four polarisations, a real and an imaginary part each.
Size(axes) == axes[1] * axes[2]
MetafitsAxes ==
  IF mwaVersion = "CorrMWAXv2" THEN <<FineChans * 4 * 2, Baselines>>
                               ELSE <<Baselines * 4 * 2, FineChans>>

\* Mutant: what went wrong is noted, and the function does not return.
ErrorNoted(e) == why' = e /\ UNCHANGED stage

ErrorIn(e) == stage' = "error" /\ why' = e
Built == <<mwaVersion, gpuboxes, batched, timeMap, timesteps, common, good, reply>>

-----------------------------------------------------------------------------
(* new_inner *)

\* determine_gpubox_batches: the first name that is unrecognised or of another
\* format than the first is refused.
BadName(i) == disk[offered[i]].format = "none" \/ disk[offered[i]].format # disk[offered[1]].format

RefuseNames ==
  /\ stage = "batches"
  /\ \/ offered = <<>> /\ ErrorIn("NoGpuboxes")
     \/ \E i \in DOMAIN offered :
          /\ BadName(i) /\ \A j \in 1 .. i - 1 : ~BadName(j)
          /\ ErrorIn(IF disk[offered[i]].format = "none" THEN "Unrecognised" ELSE "Mixture")
  /\ UNCHANGED <<others, at, Built>>

DetermineBatches ==
  /\ stage = "batches"
  /\ offered # <<>> /\ \A i \in DOMAIN offered : ~BadName(i)
  /\ mwaVersion' = disk[offered[1]].format
  /\ gpuboxes' \in SortedLists(offered)
  /\ stage' = "index"
  /\ UNCHANGED <<others, why, at, batched, timeMap, timesteps, common, good, reply>>

\* create_time_map (see GpuboxTimeMap) and convert_temp_gpuboxes, whose own
\* sort of each batch may order files of one channel differently.
RefuseToIndex ==
  /\ stage = "index"
  /\ \E i \in DOMAIN gpuboxes :
       /\ Index!Fault(disk[gpuboxes[i]], Format) # "none"
       /\ \A j \in 1 .. i - 1 : Index!Fault(disk[gpuboxes[j]], Format) = "none"
       /\ ErrorIn(IF Index!Fault(disk[gpuboxes[i]], Format) = "version"
                  THEN "MwaxCorrVerMismatch" ELSE "Fits")
  /\ UNCHANGED <<others, at, Built>>

CreateTimeMap ==
  /\ stage = "index"
  /\ \A i \in DOMAIN gpuboxes : Index!Fault(disk[gpuboxes[i]], Format) = "none"
  /\ timeMap' = Index!TimeMapOf(Indexed(gpuboxes), Format, Len(gpuboxes))
  /\ batched' \in SortedLists(gpuboxes)
  /\ stage' = "examine"
  /\ UNCHANGED <<others, why, at, mwaVersion, gpuboxes, timesteps, common, good, reply>>

\* Mutant: the primary HDU is not counted among the HDUs.
ExamineFaultOffByOne(f) ==
  CASE ~f.opens -> "Fits"
    [] f.opens /\ Len(f.hdus) <= 1 -> "NoDataHDUsInGpuboxFile"
    [] OTHER -> IF VersionFault(f) # "none" THEN VersionFault(f) ELSE ObsidFault(f)

\* examine_gpubox_files: the loop over the files of the batches.  The checks
\* are in this order, the size of the first file standing for all.
ExamineFault(f) ==
  CASE ~f.opens -> "Fits"
    [] f.opens /\ f.hdus = <<>> -> "NoDataHDUsInGpuboxFile"
    [] f.opens /\ f.hdus # <<>> /\ Size(f.axes) # Size(disk[batched[1]].axes) -> "UnequalHduSizes"
    [] OTHER -> IF VersionFault(f) # "none" THEN VersionFault(f) ELSE ObsidFault(f)

ExamineFile ==
  /\ stage = "examine" /\ at \in DOMAIN batched
  /\ LET fault == ExamineFault(disk[batched[at]])
     IN  IF fault = "none" THEN at' = at + 1 /\ UNCHANGED <<stage, why>>
                           ELSE ErrorIn(fault) /\ UNCHANGED at
  /\ UNCHANGED <<others, Built>>

MapTimes == {k[1] : k \in DOMAIN timeMap}

MapChans == {k[2] : k \in DOMAIN timeMap}

\* populate_expected_coarse_channels (see CoarseChannels): the gpubox numbers
\* in the order of the receiver channels.
CoarseChans ==
  LET recs == Sorted(RecChans)
  IN  [i \in DOMAIN recs |-> GpuboxOf(mwaVersion # "CorrMWAXv2", RecChans, recs[i])]

\* populate_correlator_timesteps (see TimestepSuperset), then the provided
\* indices: an empty map or a channel the metafits lacks is an unwrap of None.
PopulateProvided ==
  /\ stage = "examine" /\ at \notin DOMAIN batched
  /\ IF MapTimes = {}
     THEN stage' = "panic" /\ UNCHANGED timesteps
     ELSE /\ timesteps' = Sorted(Superset(MapTimes, MetaFirst, MetaLast, IntTime))
          /\ stage' = IF MapChans \subseteq ToSet(CoarseChans) THEN "validate" ELSE "panic"
  /\ at' = 1
  /\ UNCHANGED <<others, why, mwaVersion, gpuboxes, batched, timeMap, common, good, reply>>

\* validate_first_hdu, in the order of the caller's list.
ValidateFile ==
  /\ stage = "validate" /\ at \in DOMAIN offered
  /\ LET f == disk[offered[at]]
     IN  IF ~f.opens THEN ErrorIn("Fits") /\ UNCHANGED at
         ELSE IF f.axes # MetafitsAxes THEN ErrorIn("NaxisMismatch") /\ UNCHANGED at
         ELSE at' = at + 1 /\ UNCHANGED <<stage, why>>
  /\ UNCHANGED <<others, Built>>

\* determine_common_obs_times_and_chans (see CommonTimes), with 0 for None.
ChansAt == [t \in MapTimes |-> {c \in MapChans : <<t, c>> \in DOMAIN timeMap}]
Stretch(from) == INSTANCE CommonRange WITH
  Channels <- {}, timeMap <- ChansAt, good <- from, answer <- common
CommonFrom(from) ==
  IF Stretch(from)!CommonTime = {} THEN {NoCommon}
  ELSE {[kind |-> "some", start |-> r[1], end |-> r[2] + IntTime, chans |-> MapChans] :
          r \in {p \in MapTimes \X MapTimes : Stretch(from)!IsCommonRange(p[1], p[2])}}

DetermineCommon ==
  /\ stage = "validate" /\ at \notin DOMAIN offered
  /\ common' \in CommonFrom(0)
  /\ good' \in CommonFrom(GoodTime)
  /\ stage' = "ready"
  /\ UNCHANGED <<others, why, at, mwaVersion, gpuboxes, batched, timeMap, timesteps, reply>>

Build ==
  \/ RefuseNames \/ DetermineBatches \/ RefuseToIndex \/ CreateTimeMap
  \/ ExamineFile \/ PopulateProvided \/ ValidateFile \/ DetermineCommon

-----------------------------------------------------------------------------
(* The fields of the context that index its vectors. *)

\* Mutants: the end is selected too, or the start is not.
SelectedToTheEnd(a) == {i \in DOMAIN timesteps : a.start <= timesteps[i] /\ timesteps[i] <= a.end}
SelectedPastTheStart(a) == {i \in DOMAIN timesteps : a.start < timesteps[i] /\ timesteps[i] < a.end}

Selected(a) == {i \in DOMAIN timesteps : a.start <= timesteps[i] /\ timesteps[i] < a.end}
ProvidedTimesteps == IndicesOf(timesteps, MapTimes)
ProvidedChans     == IndicesOf(CoarseChans, MapChans)
CommonTimesteps   == Selected(common)
CommonChans       == IndicesOf(CoarseChans, common.chans)
GoodTimesteps     == Selected(good)
GoodChans         == IndicesOf(CoarseChans, good.chans)

-----------------------------------------------------------------------------
(* Readers, and the others that use the disk. *)

Answer(kind, i, c, name, h) ==
  [kind |-> kind, timestep |-> i, chan |-> c, name |-> name, hdu |-> h]
NoName == ""

\* get_fits_filename_and_batch_and_hdu, then opening the file and its HDU.
\* Mutant: the first file of the channel, of any batch.
FilesOfAnyBatch(batch, c) == {i \in DOMAIN batched : ChanOf(batched[i]) = c}

Files(batch, c) == {i \in DOMAIN batched : BatchOf(batched[i]) = batch /\ ChanOf(batched[i]) = c}
Lookup(i, c) ==
  LET key   == <<timesteps[i], CoarseChans[c]>>
      found == Files(timeMap[key][1], key[2])
      name  == batched[Least(found)]
      hdu   == timeMap[key][2]
  IN  IF i \notin DOMAIN timesteps THEN Answer("InvalidTimeStepIndex", i, c, NoName, 0)
      ELSE IF c \notin DOMAIN CoarseChans THEN Answer("InvalidCoarseChanIndex", i, c, NoName, 0)
      ELSE IF key \notin DOMAIN timeMap \/ found = {}
           THEN Answer("NoDataForTimeStepCoarseChannel", i, c, NoName, 0)
      ELSE IF ~disk[name].opens \/ hdu \notin DOMAIN disk[name].hdus
           THEN Answer("Fits", i, c, name, hdu)
      ELSE Answer("data", i, c, name, hdu)

\* One past the end of either vector is asked for too.
Read ==
  /\ stage = "ready"
  /\ \E i \in 1 .. Len(timesteps) + 1, c \in 1 .. Len(CoarseChans) + 1 : reply' = Lookup(i, c)
  /\ UNCHANGED <<others, stage, why, at, mwaVersion, gpuboxes, batched, timeMap,
                 timesteps, common, good>>

\* A file is removed, or made unreadable.
Vanish ==
  /\ Len(changes) < MaxChanges
  /\ \E n \in ToSet(offered) :
       /\ disk[n].opens
       /\ disk' = [disk EXCEPT ![n].opens = FALSE]
       /\ changes' = Append(changes, [name |-> n, kind |-> "vanished"])
  /\ UNCHANGED <<offered, stage, why, at, Built>>

\* An HDU is written at the end of a file.
Grow ==
  /\ Len(changes) < MaxChanges
  /\ \E n \in ToSet(offered), t \in Times :
       /\ disk[n].opens
       /\ disk' = [disk EXCEPT ![n].hdus = Append(@, t)]
       /\ changes' = Append(changes, [name |-> n, kind |-> "grown"])
  /\ UNCHANGED <<offered, stage, why, at, Built>>

Next == Build \/ Read \/ Vanish \/ Grow

\* new_inner runs on the caller's thread and waits for nobody, whatever others
\* do to the files; a context may stay unread.
Spec == Init /\ [][Next]_vars /\ WF_vars(Build)

-----------------------------------------------------------------------------

HeadersDiffer ==
  \A i, j \in DOMAIN offered :
    i # j => <<BatchOf(offered[i]), ChanOf(offered[i])>> # <<BatchOf(offered[j]), ChanOf(offered[j])>>
Changed(n, kind) == \E i \in DOMAIN changes : changes[i] = [name |-> n, kind |-> kind]

SoundFile(n) ==
  LET f == disk[n]
  IN  /\ f.format = mwaVersion
      /\ f.axes = MetafitsAxes
      /\ f.corrVer = (IF f.format = "CorrMWAXv2" THEN 2 ELSE 0)
      /\ f.obsid = "same"
      /\ f.hdus # <<>>
      /\ \A h \in Index!DataHdus(f, Format) : f.hdus[h] # NoTime

\* A context is only made of files that are all of one format and of this
\* observation, with data of the shape the metafits gives and a time in every
\* data HDU, though the checks are spread over three passes over the files.
AcceptedFilesAreSound == stage = "ready" => \A n \in ToSet(offered) : SoundFile(n)

IsTrueOf(e, f) ==
  CASE e = "Fits" -> \/ ~f.opens \/ NoTime \in ToSet(f.hdus)
                     \/ f.format = "CorrMWAXv2" /\ f.corrVer = 0
    [] e = "Unrecognised" -> f.format = "none"
    [] e = "Mixture" -> \E n \in ToSet(offered) : disk[n].format # f.format
    [] e = "UnequalHduSizes" -> \E n \in ToSet(offered) : Size(disk[n].axes) # Size(f.axes)
    [] e = "NoDataHDUsInGpuboxFile" -> f.hdus = <<>>
    [] e = "NaxisMismatch" -> f.axes # MetafitsAxes
    [] e = "MwaxCorrVerMismatch" -> f.format = "CorrMWAXv2" /\ f.corrVer = 1
    [] e = "CorrVerMismatch" -> f.format # "CorrMWAXv2" /\ f.corrVer # 0
    [] e = "MissingObsid" -> f.obsid = "missing"
    [] e = "ObsidMismatch" -> f.obsid = "other"
    [] OTHER -> FALSE

KnownChans ==
  IF mwaVersion = "CorrMWAXv2" THEN RecChans ELSE 1 .. Cardinality(RecChans)

\* The error the constructor returns is true of one of the files, as it was or
\* as it is now; its unwraps panic only for a file of a channel the metafits
\* lacks, or if a file without data is given some during the call.
DecidesForAReason ==
  /\ stage = "error" =>
       \/ why = "NoGpuboxes" /\ offered = <<>>
       \/ \E n \in ToSet(offered) : IsTrueOf(why, Contents[n]) \/ IsTrueOf(why, disk[n])
  /\ stage = "panic" =>
       \/ \E n \in ToSet(offered) : ChanOf(n) \notin KnownChans
       \/ MapTimes = {} /\ \E n \in ToSet(offered) : Changed(n, "grown")

\* Every case of its loops has a step that leads to the end: whatever happens
\* to the files meanwhile, the constructor builds the context or gives it up.
Decides == <>(stage \in {"ready", "error", "panic"})

\* When the names tell the files apart, a read gives a data HDU of the channel
\* and time asked for, fails only if the file was removed, and finds no data
\* only if no file had them when it was indexed.
ReadServesRequested ==
  HeadersDiffer =>
    /\ reply.kind = "data" =>
         /\ ChanOf(reply.name) = CoarseChans[reply.chan]
         /\ reply.hdu \in Index!Holds(disk[reply.name], Format, timesteps[reply.timestep])
    /\ reply.kind = "Fits" => Changed(reply.name, "vanished")
    /\ reply.kind = "NoDataForTimeStepCoarseChannel" =>
         \A n \in ToSet(offered) :
           ChanOf(n) = CoarseChans[reply.chan] /\ ~Changed(n, "grown") =>
             Index!Holds(disk[n], Format, timesteps[reply.timestep]) = {}

HasData(i, c) == Lookup(i, c).kind \in {"data", "Fits"}

\* A timestep or channel is listed as provided exactly when a read of it finds
\* something to read, for some channel or some timestep.
ProvidedMeansReadable ==
  stage = "ready" =>
    /\ ProvidedTimesteps = {i \in DOMAIN timesteps : \E c \in DOMAIN CoarseChans : HasData(i, c)}
    /\ ProvidedChans = {c \in DOMAIN CoarseChans : \E i \in DOMAIN timesteps : HasData(i, c)}

OnOneGrid == \A t, u \in MapTimes : (t - u) % IntTime = 0
Readable(ts, cs) == \A i \in ts, c \in cs : HasData(i, c)

\* When the data are on one grid, every common timestep can be read for every
\* common channel, and those are all the channels there are.
CommonIsReadable ==
  stage = "ready" /\ OnOneGrid =>
    /\ Readable(CommonTimesteps, CommonChans) /\ Readable(GoodTimesteps, GoodChans)
    /\ CommonTimesteps # {} => CommonChans = ProvidedChans
    /\ GoodTimesteps # {} => GoodChans = ProvidedChans

\* What the context lists, as provided, as common or as common and good, is what
\* a read can serve.
ContextIsReadable == ProvidedMeansReadable /\ CommonIsReadable

NoGap == Stretch(0)!Contiguous(Stretch(0)!CommonTime)

\* When moreover no gap separates the timesteps with all the channels, the
\* common good timesteps are the common ones from the good time on.
GoodAreCommonAfterQuack ==
  stage = "ready" /\ OnOneGrid /\ common.kind = "some" /\ NoGap =>
    GoodTimesteps = {i \in CommonTimesteps : timesteps[i] >= GoodTime}

=============================================================================
