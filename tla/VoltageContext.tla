--------------------------- MODULE VoltageContext ---------------------------
(***************************************************************************)
(* read_second and read_file (voltage_context/mod.rs) on the context that  *)
(* VoltageFiles builds.  A read goes from timestep to timestep; for each   *)
(* it opens the file and compares its size, and then reads blocks from it, *)
(* while others may remove or resize the files.                            *)
(***************************************************************************)
EXTENDS VoltageFiles

CONSTANTS
  BlocksPerTimestep,   \* num_voltage_blocks_per_timestep of each version
  Prefix,              \* header and delay block of each version, in blocks
  ReadOffers,          \* bound on the lists of files whose context is read
  MaxCount             \* bound on gps_second_count

ASSUME BlocksAssumption ==
  \A v \in Versions : /\ BlocksPerTimestep[v] \in Nat \ {0} /\ Prefix[v] \in Nat
                      /\ BlocksPerTimestep[v] % Seconds[v] = 0
ASSUME CountAssumption == MaxCount \in Nat
ASSUME ReadAssumption  == ReadOffers \subseteq Offers

VARIABLES
  call,     \* the method called and its arguments
  result,   \* "none", "running", "ok", "panic" or the error returned
  at,       \* timestep_index
  last,     \* timestep_index_end
  handle,   \* the file that is open: nothing, or its name
  buffer    \* what has been read: the file and offset of each block

read == <<call, result, at, last, handle, buffer>>

NoCall == [method |-> "none"]

InitRead ==
  /\ Init
  /\ call = NoCall /\ result = "none" /\ at = 1 /\ last = 0 /\ handle = {} /\ buffer = <<>>

Blocks          == BlocksPerTimestep[mwaVersion]
BlocksPerSecond == Blocks \div FileSeconds
ExpectedSize    == Prefix[mwaVersion] + Blocks
NumTimesteps    == Len(timesteps)
StartOfObs      == timesteps[1]
EndOfObs        == timesteps[NumTimesteps] + FileSeconds   \* gps_time_observation_max_ms

\* validate_gps_time_parameters.
SecondEnd(start, count) == start + count - 1

\* Mutant: the end is compared as if it were the end of the second.
SecondsFaultOneShort(start, count) ==
  IF start < StartOfObs \/ start > EndOfObs THEN "InvalidGpsSecondStart"
  ELSE IF start + count >= EndOfObs THEN "InvalidGpsSecondCount"
  ELSE "none"

SecondsFault(start, count) ==
  IF start < StartOfObs \/ start > EndOfObs THEN "InvalidGpsSecondStart"
  ELSE IF SecondEnd(start, count) > EndOfObs THEN "InvalidGpsSecondCount"
  ELSE "none"

\* Mutant: a timestep is taken for a second.
TimestepOfLegacy(s) == s - StartOfObs + 1

\* The timestep that a division by the length of a file gives for a second.
TimestepOf(s) == (s - StartOfObs) \div FileSeconds + 1

Refused(e) == result' = e /\ at' = 1 /\ last' = 0

Loop(first, end) == result' = "running" /\ at' = first /\ last' = end

\* A second before the observation is a subtraction below zero: it panics in a
\* debug build, and in a release build is an index past all timesteps.
LoopFrom(start, end, fits) ==
  \/ end < StartOfObs /\ Refused("panic")
  \/ ~fits /\ Refused("InvalidBufferSize")
  \/ fits /\ Loop(TimestepOf(start), IF end < StartOfObs THEN NumTimesteps + 1 ELSE TimestepOf(end))

CallReadSecond(start, count, c, fits) ==
  /\ call' = [method |-> "read_second", start |-> start, count |-> count, chan |-> c, fits |-> fits]
  /\ handle' = {} /\ buffer' = <<>>
  /\ IF c \notin DOMAIN CoarseChans THEN Refused("InvalidCoarseChanIndex")
     ELSE IF SecondsFault(start, count) # "none" THEN Refused(SecondsFault(start, count))
     ELSE LoopFrom(start, SecondEnd(start, count), fits)
  /\ UNCHANGED vars

\* The buffer of read_file is measured only after the file has been opened.
CallReadFile(i, c, fits) ==
  /\ call' = [method |-> "read_file", timestep |-> i, chan |-> c, fits |-> fits]
  /\ handle' = {} /\ buffer' = <<>>
  /\ IF i \notin DOMAIN timesteps THEN Refused("InvalidTimeStepIndex")
     ELSE IF c \notin DOMAIN CoarseChans THEN Refused("InvalidCoarseChanIndex")
     ELSE Loop(i, i)
  /\ UNCHANGED vars

\* What is served for the timestep the loop is at.
Key == <<timesteps[at], CoarseChans[call.chan]>>

OpenFault(f) ==
  IF ~f.present THEN "panic"
  ELSE IF f.size # ExpectedSize
       THEN IF call.method = "read_file" THEN "panic" ELSE "InvalidVoltageFileSize"
  ELSE IF ~call.fits THEN "InvalidBufferSize"
  ELSE "none"

Looping == result = "running" /\ handle = {} /\ at <= last

\* An index past the vector of timesteps panics.
OpenFile ==
  /\ Looping
  /\ IF at \notin DOMAIN timesteps THEN result' = "panic" /\ UNCHANGED handle
     ELSE IF Key \notin DOMAIN fileOf
          THEN result' = "NoDataForTimeStepCoarseChannel" /\ UNCHANGED handle
     ELSE LET fault == OpenFault(disk[fileOf[Key]])
          IN  IF fault # "none" THEN result' = fault /\ UNCHANGED handle
              ELSE handle' = {fileOf[Key]} /\ UNCHANGED result
  /\ UNCHANGED <<vars, call, at, last, buffer>>

\* The blocks of this file that the call asks for, in order.
SecondOfBlock(b) == timesteps[at] + b \div BlocksPerSecond

\* Mutants: the seconds go to the last exclusive, or to one after it.
AskedBefore(b) ==
  call.method = "read_second" =>
    call.start <= SecondOfBlock(b) /\ SecondOfBlock(b) < SecondEnd(call.start, call.count)
AskedOneMore(b) ==
  call.method = "read_second" =>
    call.start <= SecondOfBlock(b) /\ SecondOfBlock(b) <= call.start + call.count

Asked(b) ==
  call.method = "read_second" =>
    call.start <= SecondOfBlock(b) /\ SecondOfBlock(b) <= SecondEnd(call.start, call.count)
AskedBlocks == Sorted({b \in 0 .. Blocks - 1 : Asked(b)})

Offset(b) == Prefix[mwaVersion] + b

\* Every block must come whole (assert_eq), and the chunk it goes to must lie
\* within the buffer.
Capacity == IF call.method = "read_second" THEN call.count * BlocksPerSecond ELSE Blocks

ReadBlocks ==
  /\ result = "running" /\ \E n \in handle :
       LET blocks == [k \in DOMAIN AskedBlocks |-> [name |-> n, offset |-> Offset(AskedBlocks[k])]]
       IN  IF /\ \A k \in DOMAIN blocks : blocks[k].offset < disk[n].size
              /\ Len(buffer) + Len(blocks) <= Capacity
           THEN buffer' = buffer \o blocks /\ at' = at + 1 /\ UNCHANGED result
           ELSE result' = "panic" /\ UNCHANGED <<buffer, at>>
  /\ handle' = {}
  /\ UNCHANGED <<vars, call, last>>

Return ==
  /\ result = "running" /\ handle = {} /\ at > last
  /\ result' = "ok"
  /\ UNCHANGED <<vars, call, at, last, handle, buffer>>

Read == OpenFile \/ ReadBlocks \/ Return

\* The caller takes the result, and may call again.
Take ==
  /\ result \notin {"none", "running"}
  /\ call' = NoCall /\ result' = "none" /\ at' = 1 /\ last' = 0 /\ handle' = {} /\ buffer' = <<>>
  /\ UNCHANGED vars

\* A second before the observation and one after it are asked for too, and an
\* index past the end of either vector.
Call ==
  /\ stage = "ready" /\ result = "none" /\ offered \in ReadOffers
  /\ \E c \in 1 .. Len(CoarseChans) + 1, fits \in BOOLEAN :
    \/ \E start \in StartOfObs - 1 .. EndOfObs + 1, count \in 0 .. MaxCount :
         CallReadSecond(start, count, c, fits)
    \/ \E i \in 1 .. NumTimesteps + 1 : CallReadFile(i, c, fits)

NextRead ==
  \/ (Build \/ Vanish \/ Resize) /\ UNCHANGED read
  \/ Call \/ Read \/ Take

\* new_inner and each call run on the caller's thread and wait for nobody; the
\* caller need not call, nor anyone change a file.
SpecRead ==
  /\ InitRead /\ [][NextRead]_<<vars, read>>
  /\ WF_<<vars, read>>(Build /\ UNCHANGED read) /\ WF_<<vars, read>>(Read)

-----------------------------------------------------------------------------
(* A gps time of 0 stands for no time in the check that no time is missing *)
(* (see Follows); the properties are about lists of files without it, for  *)
(* which the timesteps are uniform.                                        *)

\* The block of a file at an offset, counted from the end of its delay block.
BlockAt(x) == x.offset - Prefix[mwaVersion]
IsAsked(x, k) ==
  /\ BlockAt(x) \in 0 .. Blocks - 1
  /\ disk[x.name].chan = CoarseChans[call.chan]
  /\ IF call.method = "read_second"
     THEN /\ disk[x.name].time + BlockAt(x) \div BlocksPerSecond
               = call.start + (k - 1) \div BlocksPerSecond
          /\ BlockAt(x) % BlocksPerSecond = (k - 1) % BlocksPerSecond
     ELSE disk[x.name].time = timesteps[call.timestep] /\ BlockAt(x) = k - 1

\* At any time, and also when a read fails half way, the k-th block of the
\* buffer is the k-th block of what was asked for: of that channel and of that
\* second, or of that timestep.  A read that succeeds has filled the buffer.
BufferIsAsAsked ==
  0 \notin MapTimes =>
    /\ \A k \in DOMAIN buffer : IsAsked(buffer[k], k)
    /\ result = "ok" =>
         Len(buffer) = IF call.method = "read_second" THEN call.count * BlocksPerSecond ELSE Blocks

AskedSeconds ==
  IF call.method = "read_second" THEN call.start .. call.start + call.count - 1
  ELSE timesteps[call.timestep] .. timesteps[call.timestep] + FileSeconds - 1
\* The second s lies in the timestep that begins at t.
Covers(t, s) == t <= s /\ s < t + FileSeconds
HasFile(s) ==
  \E n \in ToSet(offered) :
    disk[n].chan = CoarseChans[call.chan] /\ Covers(disk[n].time, s)

\* A read finds no data only if a second asked for has no file of the channel.
NoDataOnlyForGaps ==
  0 \notin MapTimes /\ result = "NoDataForTimeStepCoarseChannel" /\ AskedSeconds # {} =>
    \E s \in AskedSeconds : ~HasFile(s)

InCommon ==
  /\ call.chan \in CommonChans /\ AskedSeconds # {}
  /\ \A s \in AskedSeconds : \E i \in CommonTimesteps : Covers(timesteps[i], s)

\* On whole files that nobody touches, a read of any seconds within the common
\* timesteps and of a common channel succeeds.
CommonCanBeRead ==
  /\ result \notin {"none", "running", "InvalidTimeStepIndex", "InvalidCoarseChanIndex"}
  /\ call.fits /\ changes = <<>> /\ size = {ExpectedSize}
  /\ 0 \notin MapTimes /\ InCommon
  => result = "ok"

Changed(kinds) ==
  \E i \in DOMAIN changes :
    changes[i].kind \in kinds /\ disk[changes[i].name].chan = CoarseChans[call.chan]
AsksBeyond == call.method = "read_second" /\ EndOfObs \in AskedSeconds
AsksNothingAtStart == call.method = "read_second" /\ call.count = 0 /\ call.start = StartOfObs

\* A read panics only if a file of its channel has vanished or been cut off since the context
\* was made, if read_file meets a file of another size, for the second right
\* after the observation, or for no second at its start.
ReadPanicsOnly ==
  0 \notin MapTimes /\ result = "panic" =>
    \/ Changed({"vanished", "cut"})
    \/ call.method = "read_file" /\ (size # {ExpectedSize} \/ Changed({"grown"}))
    \/ AsksBeyond \/ AsksNothingAtStart

\* Whatever happens to the files meanwhile, the constructor builds the context
\* or gives it up, and every read returns, with data, an error or a panic.
CallsReturn ==
  /\ <>(stage \in {"ready", "error", "panic"})
  /\ result = "running" ~> result \notin {"none", "running"}

-----------------------------------------------------------------------------
(* What the documentation says, and the code does not do. *)

\* "A Result the end gps second if the gps time range is within the
\* VoltageContext's range or Error if not" (validate_gps_time_parameters): a
\* range that is let through lies within the timesteps.
SecondsAreWithinRange ==
  result = "running" /\ call.method = "read_second" =>
    \A s \in AskedSeconds : \E i \in DOMAIN timesteps : Covers(timesteps[i], s)
=============================================================================
