--------------------------- MODULE MetafitsContext ---------------------------
(***************************************************************************)
(* MetafitsContext::new (metafits_context/mod.rs): the keys and the table  *)
(* of inputs are read in a fixed order from the metafits file, each key    *)
(* through fits_read/mod.rs and each row through rfinput/mod.rs; antennas  *)
(* are paired from the inputs; the MWA version is the one asked for or     *)
(* that of the mode; then the file is opened AGAIN for the coarse          *)
(* channels, and fine channels and timesteps follow from them.  At the end *)
(* callers ask for the names of the voltage files that are expected.       *)
(*                                                                         *)
(* Times are in units of half a second from GPSTIME, frequencies in units  *)
(* of 5 kHz.  A step between the two opens may replace or remove the file. *)
(* Arithmetic is that of a build with overflow checks.                     *)
(***************************************************************************)
EXTENDS InputOrder, FiniteSets, Sequences

CONSTANTS
  Files,          \* what the metafits may hold when it is first opened
  Replacements,   \* ... and what may take its place
  GONE, NONE      \* model values: no file; no version, no reply

VARIABLES
  disk,        \* the metafits file now, or GONE
  asked,       \* mwa_version of the call, or NONE
  opened,      \* the file that new_internal opened
  reopened,    \* the file that populate_expected_coarse_channels opened
  pc,          \* where new is; "ok", "err" or "panic" when it is done
  at,          \* the step of Steps it is at
  why,         \* what it failed at
  inputs,      \* rf_inputs
  antennas,
  version,     \* mwa_version
  coarse,      \* metafits_coarse_chans
  fine,        \* metafits_fine_chan_freqs_hz
  timesteps,   \* metafits_timesteps, their gps times
  reply        \* what generate_expected_volt_filename last said

environment == <<disk, asked>>
context == <<inputs, antennas, version, coarse, fine, timesteps>>
vars == <<environment, opened, reopened, pc, at, why, context, reply>>

LegacyVersions == {"CorrOldLegacy", "CorrLegacy", "VCSLegacyRecombined"}
VcsVersions    == {"VCSLegacyRecombined", "VCSMWAXv2"}
Versions       == LegacyVersions \cup {"CorrMWAXv2", "VCSMWAXv2"}

\* What new_internal reads and computes, in its order.  "TILEDATA" is the table
\* of inputs; the steps in Computed read nothing.
Steps == <<
  "GPSTIME", "QUACKTIM", "GOODTIME", "BANDWDTH", "CHANNELS", "NINPUTS", "TILEDATA",
  "FREQCENT", "DATE-OBS", "MJD", "EXPOSURE", "DUT1", "unix start", "RA", "DEC", "RAPHASE",
  "DECPHASE", "AZIMUTH", "ALTITUDE", "SUN-ALT", "SUN-DIST", "MOONDIST", "JUP-DIST", "LST",
  "HA", "GRIDNAME", "GRIDNUM", "CREATOR", "PROJECT", "FILENAME", "MODE", "GEODEL",
  "CABLEDEL", "CALIBDEL", "INTTIME", "RECVRS", "RAWSCALE", "receivers", "DELAYS",
  "CALIBRAT", "CALIBSRC", "ATTEN_DB", "FINECHAN", "fine channels">>

Optional == {"DUT1", "RAPHASE", "DECPHASE", "SUN-ALT", "SUN-DIST", "MOONDIST", "JUP-DIST",
             "GRIDNAME", "GRIDNUM", "GEODEL", "CABLEDEL", "CALIBDEL", "RAWSCALE",
             "CALIBRAT", "CALIBSRC", "ATTEN_DB"}

\* Any string is a value of these ...
Text == {"HA", "GRIDNAME", "CREATOR", "PROJECT", "FILENAME", "RECVRS", "CALIBRAT", "CALIBSRC"}

\* ... and these are strings whose contents are unwrapped.
Unwrapped == {"CHANNELS", "DATE-OBS", "DELAYS"}

\* GOODTIME - QUACKTIM, the parsing of RECVRS, the division by FINECHAN.
Computed == {"unix start", "receivers", "fine channels"}

Keys == {Steps[i] : i \in DOMAIN Steps} \ {"TILEDATA"}

\* A row of the table, and what is wrong with it.
Rows == [input : Nat, ant : Nat, tile : Nat, pol : {"X", "Y"},
         fault : {"none", "cell", "pol", "length"}]

\* What a file says that decides anything.  A list of channels has at least one,
\* since it is a text that is split; a width of 0 is what is wrong with the step
\* that divides by it.
IsMetafits(file) ==
  /\ \A n \in {file.hdus, file.bandwidth, file.ninputs, file.exposure, file.inttime, file.finechan} :
       n \in Nat
  /\ DOMAIN file.faults \subseteq Keys
  /\ \A step \in DOMAIN file.faults : file.faults[step] \in {"absent", "malformed"}
  /\ file.chans \in Seq(Nat) /\ file.chans # <<>>
  /\ file.rows \in Seq(Rows)
  /\ file.finechan = 0 => "fine channels" \in DOMAIN file.faults

ASSUME FilesAssumption == \A file \in (Files \cup Replacements) \ {GONE} : IsMetafits(file)
ASSUME NoneAssumption  == NONE \notin Versions

Condition(file, step) == IF step \in DOMAIN file.faults THEN file.faults[step] ELSE "sound"

\* Mutant: an optional key has to be there.
FailsWithoutOptional(file, step) ==
  \/ Condition(file, step) = "absent"
  \/ Condition(file, step) = "malformed" /\ step \notin Text \cup Unwrapped \cup Computed

\* get_required_fits_key!, get_optional_fits_key! and the long string.
Fails(file, step) ==
  \/ Condition(file, step) = "absent" /\ step \notin Optional
  \/ Condition(file, step) = "malformed" /\ step \notin Text \cup Unwrapped \cup Computed

Panics(file, step) == Condition(file, step) = "malformed" /\ step \in Unwrapped \cup Computed

Init ==
  /\ disk \in Files
  /\ asked \in {NONE} \cup Versions
  /\ opened = GONE /\ reopened = GONE
  /\ pc = "open" /\ at = 1 /\ why = NONE
  /\ inputs = <<>> /\ antennas = <<>> /\ version = NONE
  /\ coarse = <<>> /\ fine = <<>> /\ timesteps = <<>>
  /\ reply = NONE

Stop(how, reason) ==
  /\ pc' = how
  /\ why' = reason
  /\ UNCHANGED <<environment, at, context, reply>>

\* The first two HDUs are opened at once.
CannotOpen == IF disk = GONE THEN TRUE ELSE disk.hdus < 2

RefuseToOpen ==
  /\ pc = "open" /\ CannotOpen
  /\ opened' = disk
  /\ Stop("err", "open")
  /\ UNCHANGED reopened

Open ==
  /\ pc = "open" /\ ~CannotOpen
  /\ opened' = disk
  /\ pc' = "read"
  /\ UNCHANGED <<environment, reopened, at, why, context, reply>>

-----------------------------------------------------------------------------
(* new_internal *)

Reading(steps) == pc = "read" /\ at \in DOMAIN Steps /\ Steps[at] \in steps

ReadKey ==
  /\ Reading(Keys)
  /\ ~Fails(opened, Steps[at]) /\ ~Panics(opened, Steps[at])
  /\ at' = at + 1
  /\ UNCHANGED <<environment, opened, reopened, pc, why, context, reply>>

RefuseKey ==
  /\ Reading(Keys)
  /\ \/ Fails(opened, Steps[at]) /\ Stop("err", Steps[at])
     \/ Panics(opened, Steps[at]) /\ Stop("panic", Steps[at])
  /\ UNCHANGED <<opened, reopened>>

SubfileOrder(ant, pol) == 2 * ant + (IF pol = "Y" THEN 1 ELSE 0)

Rfinput(row) ==
  [input |-> row.input, ant |-> row.ant, tile |-> row.tile, pol |-> row.pol,
   vcs |-> get_vcs_order(row.input), subfile |-> SubfileOrder(row.ant, row.pol),
   gains |-> Len(opened.chans)]

\* A row is read after as many inputs as there are; a cell or an array that
\* cannot be read and an unknown polarisation are errors, a length that is no
\* number panics.
Row == Len(inputs) + 1
RowIsRead == Reading({"TILEDATA"}) /\ Len(inputs) < opened.ninputs
RowFault == IF Row \in DOMAIN opened.rows THEN opened.rows[Row].fault ELSE "cell"

ReadRow ==
  /\ RowIsRead /\ RowFault = "none"
  /\ inputs' = Append(inputs, Rfinput(opened.rows[Row]))
  /\ UNCHANGED <<environment, opened, reopened, pc, at, why, antennas, version, coarse, fine,
                 timesteps, reply>>

RefuseRow ==
  /\ RowIsRead
  /\ \/ RowFault \in {"cell", "pol"} /\ Stop("err", "TILEDATA")
     \/ RowFault = "length" /\ Stop("panic", "TILEDATA")
  /\ UNCHANGED <<opened, reopened>>

\* sort_by_key() is stable.
SortedBy(s, Key(_)) ==
  LET Before(i, j) == Key(s[i]) < Key(s[j]) \/ (Key(s[i]) = Key(s[j]) /\ i < j)
  IN  [k \in DOMAIN s |->
         s[CHOOSE i \in DOMAIN s : Cardinality({j \in DOMAIN s : Before(j, i)}) = k - 1]]

\* Mutant: X and Y of an antenna stay in the order of the rows.
ByAntenna(s) == SortedBy(s, LAMBDA x : x.ant)

BySubfile(s) == SortedBy(s, LAMBDA x : x.subfile)
ByVcs(s)     == SortedBy(s, LAMBDA x : x.vcs)
ByRec(s)     == SortedBy(s, LAMBDA c : c.rec)

\* Every X with every Y of its tile, in the order of the Xs and then of the Ys.
populate_antennas(s) ==
  LET Pairs == {p \in (DOMAIN s) \X (DOMAIN s) :
                  s[p[1]].pol = "X" /\ s[p[2]].pol = "Y" /\ s[p[1]].tile = s[p[2]].tile}
      Before(p, q) == p[1] < q[1] \/ (p[1] = q[1] /\ p[2] < q[2])
      Nth(k) == CHOOSE p \in Pairs : Cardinality({q \in Pairs : Before(q, p)}) = k - 1
  IN  [k \in 1 .. Cardinality(Pairs) |->
         [ant |-> s[Nth(k)[1]].ant, x |-> s[Nth(k)[1]], y |-> s[Nth(k)[2]]]]

TableRead ==
  /\ Reading({"TILEDATA"}) /\ Len(inputs) = opened.ninputs
  /\ inputs' = BySubfile(inputs)
  /\ antennas' = populate_antennas(inputs')
  /\ at' = at + 1
  /\ UNCHANGED <<environment, opened, reopened, pc, why, version, coarse, fine, timesteps, reply>>

num_ants == opened.ninputs \div 2

-----------------------------------------------------------------------------
(* new_inner *)

VersionOf(mode) ==
  CASE mode = "HW_LFILES"                          -> "CorrLegacy"
    [] mode \in {"VOLTAGE_START", "VOLTAGE_BUFFER"} -> "VCSLegacyRecombined"
    [] mode = "MWAX_CORRELATOR"                    -> "CorrMWAXv2"
    [] mode \in {"MWAX_VCS", "MWAX_BUFFER"}         -> "VCSMWAXv2"
    [] OTHER                                       -> NONE

Chosen == IF asked # NONE THEN asked ELSE VersionOf(opened.mode)

AllRead == pc = "read" /\ at = Len(Steps) + 1

DetermineVersion ==
  /\ AllRead /\ Chosen # NONE
  /\ version' = Chosen
  /\ inputs' = IF Chosen = "VCSLegacyRecombined" THEN ByVcs(inputs) ELSE inputs
  /\ pc' = "coarse"
  /\ UNCHANGED <<environment, opened, reopened, at, why, antennas, coarse, fine, timesteps, reply>>

RefuseMode ==
  /\ AllRead /\ Chosen = NONE
  /\ Stop("err", "mode")
  /\ UNCHANGED <<opened, reopened>>

\* coarse_chan_width_hz, of the file first opened and of the one opened again.
Width(file) == opened.bandwidth \div Len(file.chans)

CoarseChannel(rec, width) ==
  [rec |-> rec, start |-> rec * width - width \div 2, width |-> width]

\* populate_coarse_channels() without a time map keeps every channel and sorts
\* them by receiver channel.
ExpectedCoarse(file) ==
  ByRec([k \in DOMAIN file.chans |-> CoarseChannel(file.chans[k], Width(file))])

\* Fine channels: width and number in a coarse channel.  10 kHz for legacy
\* voltages, none in MWAX ones.
FineWidth(v) == CASE v = "VCSLegacyRecombined" -> 2
                  [] v = "VCSMWAXv2"           -> Width(opened)
                  [] OTHER                     -> opened.finechan
NumFine(v) == IF v = "VCSMWAXv2" THEN 1 ELSE Width(opened) \div FineWidth(v)

\* Mutant: the offsets of the two coarser legacy modes are exchanged.
OffsetExchanged(v, num) ==
  IF v \notin LegacyVersions THEN 0 ELSE IF num = 32 THEN 1 ELSE IF num = 64 THEN 3 ELSE 0

\* Legacy fine channels are averages of 10 kHz channels.
Offset(v, num) ==
  IF v \notin LegacyVersions THEN 0 ELSE IF num = 64 THEN 1 ELSE IF num = 32 THEN 3 ELSE 0

\* The centre of fine channel k, from 0, of a coarse channel.
FineCentre(v, chan, k) ==
  LET odd == NumFine(v) % 2
  IN  chan.start + k * FineWidth(v) + (odd * FineWidth(v)) \div 2 + Offset(v, NumFine(v))

FineCentres(v, chans) ==
  [i \in 1 .. Len(chans) * NumFine(v) |->
     FineCentre(v, chans[(i - 1) \div NumFine(v) + 1], (i - 1) % NumFine(v))]

PopulatesCoarse == pc = "coarse"

\* The file is gone, or its channels are no longer there or no numbers; the
\* lower edge of channel 0 is below zero.
RefuseCoarse ==
  /\ PopulatesCoarse
  /\ reopened' = disk
  /\ \/ disk = GONE /\ Stop("err", "reopen")
     \/ disk # GONE /\ Fails(disk, "CHANNELS") /\ Stop("err", "CHANNELS")
     \/ disk # GONE /\ Panics(disk, "CHANNELS") /\ Stop("panic", "CHANNELS")
     \/ /\ disk # GONE /\ Condition(disk, "CHANNELS") = "sound"
        /\ \E k \in DOMAIN disk.chans : disk.chans[k] = 0
        /\ Stop("panic", "channel 0")
  /\ UNCHANGED opened

PopulateCoarse ==
  /\ PopulatesCoarse
  /\ disk # GONE /\ Condition(disk, "CHANNELS") = "sound"
  /\ \A k \in DOMAIN disk.chans : disk.chans[k] # 0
  /\ reopened' = disk
  /\ coarse' = ExpectedCoarse(disk)
  /\ fine' = FineCentres(version, coarse')
  /\ pc' = "timesteps"
  /\ UNCHANGED <<environment, opened, at, why, inputs, antennas, version, timesteps, reply>>

Second == 2

\* Mutant: MWAX voltages come in files of a second.
IntervalOfASecond(v) == IF v \in VcsVersions THEN Second ELSE opened.inttime

Interval(v) == CASE v = "VCSLegacyRecombined" -> Second
                 [] v = "VCSMWAXv2"           -> 8 * Second
                 [] OTHER                     -> opened.inttime

Duration == opened.exposure * Second

\* (start..start + duration).step_by(interval), which panics at 0.
PopulateTimesteps ==
  /\ pc = "timesteps" /\ Interval(version) # 0
  /\ LET count == (Duration + Interval(version) - 1) \div Interval(version)
     IN  timesteps' = [k \in 1 .. count |-> (k - 1) * Interval(version)]
  /\ pc' = "ok"
  /\ UNCHANGED <<environment, opened, reopened, at, why, inputs, antennas, version, coarse,
                 fine, reply>>

PanicAtTimesteps ==
  /\ pc = "timesteps" /\ Interval(version) = 0
  /\ Stop("panic", "INTTIME")
  /\ UNCHANGED <<opened, reopened>>

-----------------------------------------------------------------------------
(* generate_expected_volt_filename *)

\* num - 1 is reported with an index that is too large: with none it panics.
OutOfRange(num, what) ==
  IF num = 0 THEN [kind |-> "panic", what |-> what] ELSE [kind |-> "err", what |-> what]

\* A name holds the second and the channel.
ExpectedName(t, c) ==
  IF t >= Len(timesteps) THEN OutOfRange(Len(timesteps), "timestep")
  ELSE IF c >= Len(coarse) THEN OutOfRange(Len(coarse), "channel")
  ELSE IF version \notin VcsVersions THEN [kind |-> "err", what |-> "version"]
  ELSE [kind |-> "name", second |-> timesteps[t + 1] \div Second, rec |-> coarse[c + 1].rec]

GenerateExpectedVoltFilename ==
  /\ pc = "ok"
  /\ \E t \in 0 .. Len(timesteps), c \in 0 .. Len(coarse) : reply' = ExpectedName(t, c)
  /\ UNCHANGED <<environment, opened, reopened, pc, at, why, context>>

\* The file matters only when it is opened: a descriptor that is open keeps
\* what it was opened on.
Replace ==
  /\ pc = "coarse" /\ disk = opened
  /\ disk' \in Replacements \cup {GONE}
  /\ UNCHANGED <<asked, opened, reopened, pc, at, why, context, reply>>

NewInternal == RefuseToOpen \/ Open \/ ReadKey \/ RefuseKey \/ ReadRow \/ RefuseRow \/ TableRead
NewInner ==
  \/ DetermineVersion \/ RefuseMode \/ RefuseCoarse \/ PopulateCoarse
  \/ PopulateTimesteps \/ PanicAtTimesteps

Next == NewInternal \/ NewInner \/ GenerateExpectedVoltFilename \/ Replace

Spec == Init /\ [][Next]_vars

-----------------------------------------------------------------------------
(* Properties *)

\* The steps that end new_internal, and how.
Bad(file) == {i \in DOMAIN Steps :
                LET fault == Condition(file, Steps[i])
                IN  \/ fault = "absent" /\ Steps[i] \notin Optional
                    \/ fault = "malformed" /\ Steps[i] \notin Text}
TableIsRead(file) ==
  \A k \in 1 .. file.ninputs : k \in DOMAIN file.rows /\ file.rows[k].fault = "none"

\* new answers with the first thing that is wrong, in the order in which it
\* looks: an error or a panic names it and nothing before it is wrong, and a
\* context is only made of a file in which nothing is wrong.
DecidesForAReason ==
  LET table == 7
      wrong == Bad(opened) \cup (IF TableIsRead(opened) THEN {} ELSE {table})
  IN  /\ pc = "ok" => wrong = {} /\ version # NONE /\ reopened # GONE
      /\ pc \in {"err", "panic"} =>
           CASE why = "open"      -> opened = GONE \/ opened.hdus < 2
             [] why = "mode"      -> wrong = {} /\ asked = NONE
             [] why = "reopen"    -> wrong = {} /\ reopened = GONE
             [] why = "channel 0" -> wrong = {} /\ \E k \in DOMAIN reopened.chans : reopened.chans[k] = 0
             [] why = "INTTIME" /\ wrong = {} -> opened.inttime = 0 /\ pc = "panic"
             [] why = "CHANNELS" /\ wrong = {} -> "CHANNELS" \in DOMAIN reopened.faults
             [] OTHER -> \E i \in wrong : Steps[i] = why /\ \A j \in wrong : i <= j
      /\ pc = "panic" => why \in {"CHANNELS", "DATE-OBS", "DELAYS", "TILEDATA", "channel 0", "INTTIME"}
                                  \cup Computed

\* The rows describe tiles: one X and one Y each, of one antenna, numbered
\* without a gap.
IsArray(file) ==
  LET rows == 1 .. file.ninputs
      Pol(i, p) == file.rows[i].pol = p
      Same(i, j) == file.rows[i].tile = file.rows[j].tile
  IN  /\ rows \subseteq DOMAIN file.rows
      /\ \A i \in rows : Cardinality({j \in rows : Same(i, j) /\ Pol(j, "X")}) = 1
      /\ \A i \in rows : Cardinality({j \in rows : Same(i, j) /\ Pol(j, "Y")}) = 1
      /\ \A i, j \in rows : Same(i, j) <=> file.rows[i].ant = file.rows[j].ant
      /\ {file.rows[i].ant : i \in rows} = 0 .. file.ninputs \div 2 - 1

\* From a table of tiles in any order the antennas are 0, 1, ... with the X and
\* the Y of one tile, and both are still among the inputs when these have been
\* put into another order; MWAX and correlator inputs are X and Y in turn, and
\* input p of legacy voltages is the one the PFBs put out at p, if there are as
\* many as any number of PFBs have.  Each input has a gain for every coarse channel,
\* if the file has not been replaced.
InputsAndAntennasAgree ==
  pc = "ok" /\ IsArray(opened) =>
    /\ Len(antennas) = num_ants
    /\ \A k \in 1 .. num_ants :
         /\ antennas[k].ant = k - 1
         /\ antennas[k].x.tile = antennas[k].y.tile
         /\ antennas[k].x.pol = "X" /\ antennas[k].y.pol = "Y"
         /\ \E i, j \in DOMAIN inputs : inputs[i] = antennas[k].x /\ inputs[j] = antennas[k].y
         /\ version # "VCSLegacyRecombined" =>
              inputs[2 * k - 1] = antennas[k].x /\ inputs[2 * k] = antennas[k].y
    /\ version = "VCSLegacyRecombined" /\ opened.ninputs % (Lanes * PerLane) = 0
         /\ {opened.rows[i].input : i \in 1 .. opened.ninputs} = 0 .. opened.ninputs - 1 =>
         \A p \in 1 .. opened.ninputs : inputs[p].input = fine_pfb_reorder(p - 1)
    /\ reopened = opened => \A i \in DOMAIN inputs : inputs[i].gains = Len(coarse)

\* In a legacy format a fine channel is centred on the mean of the 10 kHz
\* channels it averages, of which a coarse channel has 128 (modes of 10, 20 and
\* 40 kHz); in an MWAX format the middle fine channel is centred on its coarse
\* channel, be their number even or odd.  All ascend by their width within a
\* coarse channel.
FineChannelsAreCentred ==
  pc = "ok" /\ reopened = opened =>
    LET num == NumFine(version)
        Centre(c, k) == fine[(c - 1) * num + k + 1]
        Mean10kHz(first, n) == (2 * first + 2 * (first + n - 1)) \div 2
    IN  /\ Len(fine) = Len(coarse) * num
        /\ \A c \in DOMAIN coarse :
             /\ \A k \in 1 .. num - 1 : Centre(c, k) - Centre(c, k - 1) = FineWidth(version)
             /\ version \in LegacyVersions /\ num \in {128, 64, 32} /\ coarse[c].width = 128 * 2 =>
                  \A k \in 0 .. num - 1 :
                    Centre(c, k) = coarse[c].start + Mean10kHz(k * (128 \div num), 128 \div num)
             /\ version \notin LegacyVersions /\ num # 0 /\ num * FineWidth(version) = coarse[c].width =>
                  Centre(c, num \div 2) = coarse[c].rec * coarse[c].width

\* The names of the expected voltage files: each second of the observation is in
\* exactly one file of each channel.  A request for a name only panics if the
\* observation has no duration.
ExpectedFilesCoverObservation ==
  /\ reply # NONE => (reply.kind = "panic" => opened.exposure = 0)
  /\ pc = "ok" /\ version \in VcsVersions =>
       LET length == IF version = "VCSMWAXv2" THEN 8 ELSE 1
           Names(c) == {ExpectedName(t, c) : t \in 0 .. Len(timesteps) - 1}
       IN  \A c \in 0 .. Len(coarse) - 1 :
             /\ Cardinality(Names(c)) = Len(timesteps)
             /\ \A s \in 0 .. opened.exposure - 1 :
                  Cardinality({n \in Names(c) : n.second <= s /\ s < n.second + length}) = 1
             /\ \A n \in Names(c) : n.second < opened.exposure
=============================================================================
