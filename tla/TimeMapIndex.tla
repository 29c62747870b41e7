--------------------------- MODULE TimeMapIndex ----------------------------
(***************************************************************************)
(* The index of HDUs that create_time_map (gpubox_files/mod.rs) promises,  *)
(* as a function of the files alone: for every unix time and gpubox number *)
(* the batch and HDU that hold it.  GpuboxTimeMap shows that the parallel  *)
(* scan of the files builds it, in whatever order the threads run.         *)
(***************************************************************************)
EXTENDS Integers, Sequences

CONSTANTS
  Times,      \* unix times (ms) an HDU can carry
  NoTime,     \* an HDU without its TIME or MILLITIM key
  FileLists,  \* the inputs: lists of files sorted by (batch, channel)
  Batches, Channels

\* A gpubox file: its name gives the batch and channel, its primary HDU the
\* correlator version (0: no key), hdus[i] is the time of HDU i.
Files == [batch : Batches, chan : Channels, opens : BOOLEAN, corrVer : 0 .. 2,
          hdus : Seq(Times \cup {NoTime})]

Versions == {"mwax", "legacy"}

VARIABLES files, mwaVersion, outcome

indexVars == <<files, mwaVersion, outcome>>

\* Mutant: the weights HDUs are indexed too.
StepSizeOne(v) == 1

\* MWAX alternates data and weights HDUs; the primary HDU is number 0.
StepSize(v)   == IF v = "mwax" THEN 2 ELSE 1
DataHdus(f, v) == {h \in DOMAIN f.hdus : v = "mwax" => h % 2 = 1}

\* Why a file cannot be opened or has not the version its name says.
OpenFault(f, v) ==
  CASE ~f.opens                          -> "fits"
    [] f.opens /\ v = "mwax" /\ f.corrVer = 0 -> "fits"
    [] f.opens /\ v = "mwax" /\ f.corrVer = 1 -> "version"
    [] OTHER                             -> "none"

Fault(f, v) ==
  IF OpenFault(f, v) # "none" THEN OpenFault(f, v)
  ELSE IF \E h \in DataHdus(f, v) : f.hdus[h] = NoTime THEN "fits" ELSE "none"

\* Within a file a later HDU with the same time replaces an earlier one.
Holds(f, v, t) == {h \in DataHdus(f, v) : f.hdus[h] = t}
LastHdu(f, v, t) == CHOOSE h \in Holds(f, v, t) : \A g \in Holds(f, v, t) : g <= h
TimesOf(f, v) == {f.hdus[h] : h \in DataHdus(f, v)}

\* Across files the first one, in (batch, channel) order, is kept.
Keys(fs, v, n) == UNION {{<<t, fs[i].chan>> : t \in TimesOf(fs[i], v)} : i \in 1 .. n}
HasKey(f, v, k) == f.chan = k[2] /\ k[1] \in TimesOf(f, v)
Owner(fs, v, n, k) ==
  CHOOSE i \in 1 .. n : HasKey(fs[i], v, k) /\ \A j \in 1 .. i - 1 : ~HasKey(fs[j], v, k)
Entry(fs, v, n, k) ==
  LET f == fs[Owner(fs, v, n, k)] IN <<f.batch, LastHdu(f, v, k[1])>>

\* gpubox_time_map of the first n files: <<time, channel>> -> <<batch, hdu>>.
TimeMapOf(fs, v, n) == [k \in Keys(fs, v, n) |-> Entry(fs, v, n, k)]

NoMap == [k \in {} |-> <<0, 0>>]
Outcome(kind, why, map) == [kind |-> kind, why |-> why, map |-> map]
Running == Outcome("running", "none", NoMap)

Init ==
  /\ files \in FileLists
  /\ mwaVersion \in Versions
  /\ outcome = Running

\* The error returned is the one of the first faulty file in the list.
Fail ==
  /\ outcome = Running
  /\ \E i \in DOMAIN files :
       /\ Fault(files[i], mwaVersion) # "none"
       /\ \A j \in 1 .. i - 1 : Fault(files[j], mwaVersion) = "none"
       /\ outcome' = Outcome("err", Fault(files[i], mwaVersion), NoMap)
  /\ UNCHANGED <<files, mwaVersion>>

Succeed ==
  /\ outcome = Running
  /\ \A i \in DOMAIN files : Fault(files[i], mwaVersion) = "none"
  /\ outcome' = Outcome("ok", "none", TimeMapOf(files, mwaVersion, Len(files)))
  /\ UNCHANGED <<files, mwaVersion>>

Next == Fail \/ Succeed

Spec == Init /\ [][Next]_indexVars
=============================================================================
