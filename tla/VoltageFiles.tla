---------------------------- MODULE VoltageFiles ----------------------------
(***************************************************************************)
(* VoltageContext::new_inner (voltage_context/mod.rs) over its files:      *)
(* examine_voltage_files (voltage_files/mod.rs) groups the names into gps  *)
(* batches and asks the file system for the size of each file, one at a    *)
(* time, while others may remove files or write to them; the rest works on *)
(* the names alone.  Times are gps seconds, sizes are in voltage blocks.   *)
(***************************************************************************)
EXTENDS ChannelMap, TimestepGrid, SequencesExt

CONSTANTS
  Names,         \* file names
  Contents,      \* the file of each name
  Offers,        \* the lists of names a caller passes
  NewSizes,      \* the sizes others may give a file
  RecChans,      \* receiver channels of the metafits
  SchedStart, SchedSeconds,     \* its schedule
  GoodTime,      \* the first gps second not before good_time_gps_ms
  Seconds,       \* the gps seconds in a file of each version
  CounterLimit,  \* a u8 holds less than this
  MaxChanges     \* bound on the changes others make to the files

Versions == {"VCSLegacyRecombined", "VCSMWAXv2"}

\* What the name of a file says, and what the disk says of it.
FileRecords ==
  [format : Versions \cup {"none"}, time : Nat, chan : Nat, obsid : {"same", "other"},
   size : Nat, present : BOOLEAN]

ASSUME FilesAssumption ==
  Contents \in [Names -> FileRecords] /\ Offers \subseteq Seq(Names) /\ NewSizes \subseteq Nat
ASSUME ChansAssumption    == RecChans \subseteq Nat /\ IsFiniteSet(RecChans)
ASSUME ScheduleAssumption == SchedStart \in Nat /\ SchedSeconds \in Nat \ {0} /\ GoodTime \in Nat
ASSUME SecondsAssumption  == \A v \in Versions : Seconds[v] \in Nat \ {0}
ASSUME CounterAssumption  == CounterLimit \in Nat \ {0}

VARIABLES
  disk,         \* the files offered, as they are now
  changes,      \* the changes made to them, in order
  offered,      \* voltage_filenames
  stage,        \* what new_inner does next, or "ready", "error", "panic"
  why,          \* the error returned
  mwaVersion,   \* what the file names say
  timeMap,      \* voltage_time_map: gps second -> the channels with a file
  fileOf,       \* gpstime_batches: <<gps second, channel>> -> the first such file
  unseen,       \* the files whose size has not been asked for
  batch,        \* the batch the loop over the files is in
  size,         \* voltage_file_size: nothing, or one size
  timesteps,    \* their gps seconds, ascending
  common, good  \* what determine_common_obs_times_and_chans answered

others == <<disk, changes, offered>>
built  == <<mwaVersion, timeMap, fileOf, timesteps, common, good>>
vars   == <<others, stage, why, built, unseen, batch, size>>

NoMap    == [k \in {} |-> {}]
NoCommon == [kind |-> "none", start |-> 0, end |-> 0, chans |-> {}]

Init ==
  /\ offered \in Offers
  /\ disk = [n \in ToSet(offered) |-> Contents[n]] /\ changes = <<>>
  /\ stage = "batches" /\ why = "none"
  /\ mwaVersion = "none"
  /\ timeMap = NoMap /\ fileOf = NoMap
  /\ unseen = {} /\ batch = 0 /\ size = {}
  /\ timesteps = <<>> /\ common = NoCommon /\ good = NoCommon

\* Mutant: what went wrong is noted, and the function does not return.
ErrorNoted(e) == why' = e /\ UNCHANGED stage

ErrorIn(e) == stage' = "error" /\ why' = e

-----------------------------------------------------------------------------
(* determine_voltage_file_gpstime_batches *)

FileAt(i) == disk[offered[i]]

NameFault(i) ==
  IF FileAt(i).format = "none" THEN "Unrecognised"
  ELSE IF FileAt(i).format # FileAt(1).format THEN "Mixture"
  ELSE IF FileAt(i).obsid # "same" THEN "MetafitsObsidMismatch"
  ELSE "none"

NamesAreSound == offered # <<>> /\ \A i \in DOMAIN offered : NameFault(i) = "none"

RefuseNames ==
  /\ stage = "batches"
  /\ \/ offered = <<>> /\ ErrorIn("NoVoltageFiles")
     \/ \E i \in DOMAIN offered :
          /\ NameFault(i) # "none" /\ \A j \in 1 .. i - 1 : NameFault(j) = "none"
          /\ ErrorIn(NameFault(i))
  /\ UNCHANGED <<others, built, unseen, batch, size>>

\* batches_and_files: the count of each gps time is a u8, which panics in a
\* debug build and wraps in a release build.
GpsTimes    == {FileAt(i).time : i \in DOMAIN offered}
FilesAt(t)  == {i \in DOMAIN offered : FileAt(i).time = t}
CountsAre8Bit == \A t \in GpsTimes : Cardinality(FilesAt(t)) < CounterLimit
NumFiles(t) == Cardinality(FilesAt(t)) % CounterLimit
Interval    == Seconds[FileAt(1).format]

\* Mutants: a file may start late, or the first one must not start late.
FollowsAtLeast(t) ==
  LET before == {u \in GpsTimes : u < t}
  IN  before # {} => Greatest(before) + Interval <= t
FollowsFromZero(t) == LET before == {u \in GpsTimes : u < t} IN Greatest(before \cup {0}) + Interval = t

\* Each time follows the one before it by the length of a file; 0 stands for
\* no time before.
Follows(t) ==
  LET before == {u \in GpsTimes : u < t}
  IN  before \ {0} # {} => Greatest(before) + Interval = t

\* Mutant: each time may have as many files as it likes.
TimeFaultOfGaps(t) == IF ~Follows(t) THEN "GpsTimeMissing" ELSE "none"

\* The loop over the times in ascending order.
TimeFault(t) ==
  IF ~Follows(t) THEN "GpsTimeMissing"
  ELSE IF NumFiles(t) # NumFiles(Least(GpsTimes)) THEN "UnevenChannelsForGpsTime"
  ELSE "none"

RefuseTimes ==
  /\ stage = "batches" /\ NamesAreSound
  /\ \E t \in GpsTimes :
       /\ TimeFault(t) # "none"
       /\ \A u \in GpsTimes : u < t => TimeFault(u) = "none"
       /\ ErrorIn(TimeFault(t))
  /\ UNCHANGED <<others, built, unseen, batch, size>>

CounterOverflows ==
  /\ stage = "batches" /\ NamesAreSound /\ ~CountsAre8Bit
  /\ stage' = "panic"
  /\ UNCHANGED <<others, why, built, unseen, batch, size>>

KeyOf(i) == <<FileAt(i).time, FileAt(i).chan>>

\* create_time_map and convert_temp_voltage_files.  Of several files of one
\* time and channel, the unstable sorts put any first; that one is served.
DetermineBatches ==
  /\ stage = "batches" /\ NamesAreSound /\ \A t \in GpsTimes : TimeFault(t) = "none"
  /\ mwaVersion' = FileAt(1).format
  /\ timeMap' = [t \in GpsTimes |-> {FileAt(i).chan : i \in FilesAt(t)}]
  /\ LET keys == {KeyOf(i) : i \in DOMAIN offered}
     IN  \E firsts \in kSubset(Cardinality(keys), DOMAIN offered) :
           /\ {KeyOf(i) : i \in firsts} = keys
           /\ fileOf' = [k \in keys |-> offered[CHOOSE i \in firsts : KeyOf(i) = k]]
  /\ unseen' = DOMAIN offered
  /\ stage' = "examine"
  /\ UNCHANGED <<others, why, batch, size, timesteps, common, good>>

-----------------------------------------------------------------------------
(* examine_voltage_files: the loop over the batches, a HashMap that yields *)
(* them in any order, and over the files of each by channel.               *)

Examines(i) ==
  /\ i \in unseen
  /\ \A j \in unseen : FileAt(j).time = batch => FileAt(i).time = batch
  /\ \A j \in unseen : FileAt(j).time = FileAt(i).time => FileAt(i).chan <= FileAt(j).chan

\* Mutant: only the first size is kept, and no other compared with it.
SizeUnequal(s) == FALSE

SizeDiffers(s) == size # {} /\ s \notin size

ExamineFile ==
  /\ stage = "examine"
  /\ \E i \in DOMAIN offered :
       /\ Examines(i)
       /\ batch' = FileAt(i).time
       /\ unseen' = unseen \ {i}
       /\ size' = IF size = {} /\ FileAt(i).present THEN {FileAt(i).size} ELSE size
       /\ IF ~FileAt(i).present THEN ErrorIn("VoltageFileError")
          ELSE IF SizeDiffers(FileAt(i).size) THEN ErrorIn("UnequalFileSizes")
          ELSE UNCHANGED <<stage, why>>
  /\ UNCHANGED <<others, built>>

-----------------------------------------------------------------------------
(* The rest of new_inner. *)

FileSeconds == Seconds[mwaVersion]

\* populate_expected_coarse_channels: voltage files carry the receiver channel
\* in every version (see CoarseChannels).
CoarseChans == Sorted(RecChans)

\* populate_timesteps.
Schedule == OnGrid(SchedStart, SchedStart, SchedStart + SchedSeconds - 1, FileSeconds)

MapTimes == DOMAIN timeMap
MapChans == UNION {timeMap[t] : t \in MapTimes}

\* determine_common_obs_times_and_chans: the same loop as for the correlator
\* (see CommonTimes), over gps times.
Stretch(d, from) == INSTANCE CommonRange WITH
  Channels <- {}, Times <- {}, IntTime <- d, good <- from, answer <- common
CommonRanges(d, from) ==
  IF Stretch(d, from)!CommonTime = {} THEN {NoCommon}
  ELSE {[kind |-> "some", start |-> r[1], end |-> r[2] + d, chans |-> MapChans] :
          r \in {p \in MapTimes \X MapTimes : Stretch(d, from)!IsCommonRange(p[1], p[2])}}
CommonFrom(from) == UNION {CommonRanges(Seconds[v], from) : v \in Versions \cap {mwaVersion}}

\* populate_voltage_timesteps (see TimestepSuperset), the provided indices, an
\* unwrap of None for a channel the metafits lacks, and the common times.
Populate ==
  /\ stage = "examine" /\ unseen = {}
  /\ timesteps' = Sorted(Superset(MapTimes, Least(Schedule), Greatest(Schedule), FileSeconds))
  /\ IF MapChans \subseteq ToSet(CoarseChans)
     THEN /\ common' \in CommonFrom(0)
          /\ good' \in CommonFrom(GoodTime)
          /\ stage' = "ready"
     ELSE stage' = "panic" /\ UNCHANGED <<common, good>>
  /\ UNCHANGED <<others, why, mwaVersion, timeMap, fileOf, unseen, batch, size>>

Build ==
  \/ RefuseNames \/ RefuseTimes \/ CounterOverflows \/ DetermineBatches
  \/ ExamineFile \/ Populate

-----------------------------------------------------------------------------
(* The others that use the disk. *)

Vanish ==
  /\ Len(changes) < MaxChanges
  /\ \E n \in ToSet(offered) :
       /\ disk[n].present
       /\ disk' = [disk EXCEPT ![n].present = FALSE]
       /\ changes' = Append(changes, [name |-> n, kind |-> "vanished"])
  /\ UNCHANGED <<offered, stage, why, built, unseen, batch, size>>

\* A file is written to, or cut off.
Resize ==
  /\ Len(changes) < MaxChanges
  /\ \E n \in ToSet(offered), s \in NewSizes :
       /\ disk[n].present /\ s # disk[n].size
       /\ disk' = [disk EXCEPT ![n].size = s]
       /\ changes' = Append(changes, [name |-> n, kind |-> IF s < disk[n].size THEN "cut" ELSE "grown"])
  /\ UNCHANGED <<offered, stage, why, built, unseen, batch, size>>

Next == Build \/ Vanish \/ Resize

\* new_inner runs on the caller's thread and waits for nobody, whatever others
\* do to the files.
Spec == Init /\ [][Next]_vars /\ WF_vars(Build)

-----------------------------------------------------------------------------
(* The fields of the context that index its vectors. *)

Selected(a) == {i \in DOMAIN timesteps : a.start <= timesteps[i] /\ timesteps[i] < a.end}
ProvidedTimesteps == IndicesOf(timesteps, MapTimes)
ProvidedChans     == IndicesOf(CoarseChans, MapChans)
CommonTimesteps   == Selected(common)
CommonChans       == IndicesOf(CoarseChans, common.chans)
GoodTimesteps     == Selected(good)
GoodChans         == IndicesOf(CoarseChans, good.chans)

-----------------------------------------------------------------------------

Untouched == {n \in ToSet(offered) : \A i \in DOMAIN changes : changes[i].name # n}

\* A context is only made of files of one version and of this observation,
\* and those nobody has touched are there and all of one size, in whatever
\* order the loop over the batches saw them.
AcceptedFilesAreSound ==
  stage = "ready" =>
    /\ \A n \in ToSet(offered) : disk[n].format = mwaVersion /\ disk[n].obsid = "same"
    /\ \A n \in Untouched : disk[n].present
    /\ \A m, n \in Untouched : disk[m].size = disk[n].size

\* The data begin at some timestep and fill every one up to their last; no two
\* timesteps are closer or further apart than the length of a file, which is
\* what read_second divides by to find the timestep of a second.
TimestepsAreUniform ==
  stage = "ready" /\ 0 \notin MapTimes =>
    /\ \A i \in DOMAIN timesteps : timesteps[i] = timesteps[1] + (i - 1) * Seconds[mwaVersion]
    /\ ProvidedTimesteps # {}
    /\ \A i \in Least(ProvidedTimesteps) .. Greatest(ProvidedTimesteps) : timesteps[i] \in MapTimes

NamesDiffer ==
  \A i, j \in DOMAIN offered :
    i # j => <<FileAt(i).time, FileAt(i).chan>> # <<FileAt(j).time, FileAt(j).chan>>
Complete == \A t \in MapTimes, c \in MapChans : <<t, c>> \in DOMAIN fileOf

\* When the names tell the files apart and their number fits the counter, all
\* that is provided is common, or nothing is: equal counts leave no timestep
\* complete unless all of them have the same channels.  The common good ones
\* are then those from the good time on, with the same channels.
CommonIsAllOrNothing ==
  stage = "ready" /\ 0 \notin MapTimes /\ NamesDiffer /\ CountsAre8Bit =>
    /\ Complete => CommonTimesteps = ProvidedTimesteps /\ CommonChans = ProvidedChans
    /\ ~Complete => CommonTimesteps = {} /\ CommonChans = {}
    /\ GoodTimesteps = {i \in CommonTimesteps : timesteps[i] >= GoodTime}
    /\ GoodTimesteps # {} => GoodChans = CommonChans

NextTime(t) == CHOOSE u \in GpsTimes : t < u /\ \A v \in GpsTimes : t < v => u <= v
IsTrueOf(e, f) ==
  CASE e = "Unrecognised" -> f.format = "none"
    [] e = "Mixture" -> \E n \in ToSet(offered) : disk[n].format # f.format
    [] e = "MetafitsObsidMismatch" -> f.obsid = "other"
    [] e = "GpsTimeMissing" ->
         f.time # Greatest(GpsTimes) /\ NextTime(f.time) # f.time + Seconds[f.format]
    [] e = "UnevenChannelsForGpsTime" ->
         \E t \in GpsTimes : Cardinality(FilesAt(t)) # Cardinality(FilesAt(f.time))
    [] e = "VoltageFileError" -> ~f.present
    [] e = "UnequalFileSizes" -> \/ \E n \in ToSet(offered) : disk[n].size # f.size
                                 \/ \E i \in DOMAIN changes : changes[i].kind # "vanished"
    [] OTHER -> FALSE

\* The error the constructor returns is true of one of the files, as it was or
\* as it is now, or they had two sizes while it ran; it panics only for a file of
\* a channel the metafits lacks, or if there are more files of one time than a u8
\* counts.
DecidesForAReason ==
  /\ stage = "error" =>
       \/ why = "NoVoltageFiles" /\ offered = <<>>
       \/ \E n \in ToSet(offered) : IsTrueOf(why, Contents[n]) \/ IsTrueOf(why, disk[n])
  /\ stage = "panic" =>
       \/ \E n \in ToSet(offered) : disk[n].chan \notin RecChans
       \/ ~CountsAre8Bit
=============================================================================
