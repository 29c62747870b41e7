--------------------------- MODULE GpuboxTimeMap ---------------------------
(***************************************************************************)
(* create_time_map and map_unix_times_to_hdus (gpubox_files/mod.rs): the   *)
(* threads of the rayon pool open the gpubox files and note the time of    *)
(* every data HDU, each file by one thread, in any order; the caller then  *)
(* folds the per-file results into one map, in the order of the file list. *)
(***************************************************************************)
EXTENDS Integers, Sequences

CONSTANTS
  Times, NoTime, FileLists, Batches, Channels,   \* as in TimeMapIndex
  Workers                                        \* threads of the rayon pool

ASSUME WorkersAssumption == Workers # {}

VARIABLES
  files,       \* gpuboxes: sorted by determine_gpubox_batches
  mwaVersion,  \* which of the formats the file names have
  task,        \* per thread: the index of its file, 0 when idle
  hdu,         \* per thread: hdu_index of its loop
  found,       \* per thread: the map it is building, time -> hdu
  slot,        \* per file: its element of maps
  next,        \* the file the fold looks at next
  timeMap,     \* gpubox_time_map, <<time, channel>> -> <<batch, hdu>>
  pc           \* "scan", "fold", or the result: "ok", "err"

vars == <<files, mwaVersion, task, hdu, found, slot, next, timeMap, pc>>

\* What a file holds, and what its scan should give.
outcome ==
  [kind |-> IF pc \in {"ok", "err"} THEN pc ELSE "running",
   why  |-> IF pc = "err" THEN slot[next].why ELSE "none",
   map  |-> IF pc = "ok" THEN timeMap ELSE [k \in {} |-> <<0, 0>>]]

Index == INSTANCE TimeMapIndex

\* The file lists are lists of gpubox files.
ASSUME FileListsAssumption == FileLists \subseteq Seq(Index!Files)

NoHdus == [t \in {} |-> 0]
Slot(kind, why, map) == [kind |-> kind, why |-> why, map |-> map]
Todo == Slot("todo", "none", NoHdus)

Init ==
  /\ files \in FileLists
  /\ mwaVersion \in Index!Versions
  /\ task = [w \in Workers |-> 0]
  /\ hdu = [w \in Workers |-> 1]
  /\ found = [w \in Workers |-> NoHdus]
  /\ slot = [i \in DOMAIN files |-> Todo]
  /\ next = 1
  /\ timeMap = [k \in {} |-> <<0, 0>>]
  /\ pc = "scan"

\* A free thread takes a file nobody has taken.
Takes(w, i) ==
  /\ pc = "scan"
  /\ task[w] = 0
  /\ slot[i].kind = "todo"
  /\ \A v \in Workers : task[v] # i

\* The file cannot be opened, or an MWAX file has not CORR_VER 2.
Refuse(w, i) ==
  /\ Takes(w, i)
  /\ LET why == Index!OpenFault(files[i], mwaVersion)
     IN  /\ why # "none"
         /\ slot' = [slot EXCEPT ![i] = Slot("err", why, NoHdus)]
  /\ UNCHANGED <<files, mwaVersion, task, hdu, found, next, timeMap, pc>>

\* Mutant: the thread keeps the map of its last file.
OpenKeepingFound(w, i) ==
  /\ Takes(w, i)
  /\ Index!OpenFault(files[i], mwaVersion) = "none"
  /\ task' = [task EXCEPT ![w] = i]
  /\ hdu' = [hdu EXCEPT ![w] = 1]
  /\ UNCHANGED <<files, mwaVersion, found, slot, next, timeMap, pc>>

Open(w, i) ==
  /\ Takes(w, i)
  /\ Index!OpenFault(files[i], mwaVersion) = "none"
  /\ task' = [task EXCEPT ![w] = i]
  /\ hdu' = [hdu EXCEPT ![w] = 1]
  /\ found' = [found EXCEPT ![w] = NoHdus]
  /\ UNCHANGED <<files, mwaVersion, slot, next, timeMap, pc>>

\* map.insert: a time seen again is given the new HDU.
Insert(map, t, h) == [u \in DOMAIN map \cup {t} |-> IF u = t THEN h ELSE map[u]]

ScanHdu(w) ==
  /\ task[w] # 0
  /\ LET f == files[task[w]]
     IN  /\ hdu[w] \in DOMAIN f.hdus
         /\ f.hdus[hdu[w]] # NoTime
         /\ found' = [found EXCEPT ![w] = Insert(@, f.hdus[hdu[w]], hdu[w])]
  /\ hdu' = [hdu EXCEPT ![w] = @ + Index!StepSize(mwaVersion)]
  /\ UNCHANGED <<files, mwaVersion, task, slot, next, timeMap, pc>>

\* Mutant: the error of the thread is lost.
BadHduForgotten(w) ==
  /\ task[w] # 0
  /\ hdu[w] \in DOMAIN files[task[w]].hdus
  /\ files[task[w]].hdus[hdu[w]] = NoTime
  /\ task' = [task EXCEPT ![w] = 0]
  /\ UNCHANGED <<files, mwaVersion, hdu, found, slot, next, timeMap, pc>>

\* TIME or MILLITIM is missing: determine_hdu_time fails.
BadHdu(w) ==
  /\ task[w] # 0
  /\ hdu[w] \in DOMAIN files[task[w]].hdus
  /\ files[task[w]].hdus[hdu[w]] = NoTime
  /\ slot' = [slot EXCEPT ![task[w]] = Slot("err", "fits", NoHdus)]
  /\ task' = [task EXCEPT ![w] = 0]
  /\ UNCHANGED <<files, mwaVersion, hdu, found, next, timeMap, pc>>

Finish(w) ==
  /\ task[w] # 0
  /\ hdu[w] \notin DOMAIN files[task[w]].hdus
  /\ slot' = [slot EXCEPT ![task[w]] = Slot("ok", "none", found[w])]
  /\ task' = [task EXCEPT ![w] = 0]
  /\ UNCHANGED <<files, mwaVersion, hdu, found, next, timeMap, pc>>

\* collect returns when every file has its result, an error being one.
Collect ==
  /\ pc = "scan"
  /\ \A i \in DOMAIN files : slot[i].kind # "todo"
  /\ pc' = "fold"
  /\ UNCHANGED <<files, mwaVersion, task, hdu, found, slot, next, timeMap>>

\* or_insert: an entry that is already there stays.
OrInsert(map, f, scan) ==
  [k \in DOMAIN map \cup {<<t, f.chan>> : t \in DOMAIN scan} |->
     IF k \in DOMAIN map THEN map[k] ELSE <<f.batch, scan[k[1]]>>]

Fold ==
  /\ pc = "fold"
  /\ next \in DOMAIN files
  /\ slot[next].kind = "ok"
  /\ timeMap' = OrInsert(timeMap, files[next], slot[next].map)
  /\ next' = next + 1
  /\ UNCHANGED <<files, mwaVersion, task, hdu, found, slot, pc>>

\* Mutant: a file that could not be scanned is skipped.
FoldSkipsError ==
  /\ pc = "fold"
  /\ next \in DOMAIN files
  /\ slot[next].kind = "err"
  /\ next' = next + 1
  /\ UNCHANGED <<files, mwaVersion, task, hdu, found, slot, timeMap, pc>>

FoldError ==
  /\ pc = "fold"
  /\ next \in DOMAIN files
  /\ slot[next].kind = "err"
  /\ pc' = "err"
  /\ UNCHANGED <<files, mwaVersion, task, hdu, found, slot, next, timeMap>>

Return ==
  /\ pc = "fold"
  /\ next \notin DOMAIN files
  /\ pc' = "ok"
  /\ UNCHANGED <<files, mwaVersion, task, hdu, found, slot, next, timeMap>>

Scan(w) ==
  \/ \E i \in DOMAIN files : Refuse(w, i) \/ Open(w, i)
  \/ ScanHdu(w) \/ BadHdu(w) \/ Finish(w)

Next == (\E w \in Workers : Scan(w)) \/ Collect \/ Fold \/ FoldError \/ Return

\* Some thread that can run runs: the pool never idles with work to do.
Spec == Init /\ [][Next]_vars /\ WF_vars(Next)

-----------------------------------------------------------------------------
\* Threads have files of the list, and the maps have times of its HDUs.
TypeOK ==
  /\ files \in Seq(Index!Files)
  /\ mwaVersion \in Index!Versions
  /\ task \in [Workers -> {0} \cup DOMAIN files]
  /\ hdu \in [Workers -> Nat \ {0}]
  /\ DOMAIN found = Workers
  /\ \A w \in Workers : DOMAIN found[w] \subseteq Times
  /\ DOMAIN slot = DOMAIN files
  /\ \A i \in DOMAIN files : /\ slot[i].kind \in {"todo", "ok", "err"}
                            /\ DOMAIN slot[i].map \subseteq Times
  /\ next \in 1 .. Len(files) + 1
  /\ DOMAIN timeMap \subseteq Times \X Channels
  /\ pc \in {"scan", "fold", "ok", "err"}

\* A file is scanned once: no two threads have the same file, none has a file
\* whose result is in, and no result is missing when the fold starts.
EachFileScannedOnce ==
  /\ \A w, v \in Workers : task[w] = task[v] /\ task[w] # 0 => w = v
  /\ \A w \in Workers : task[w] # 0 => slot[task[w]].kind = "todo"
  /\ pc # "scan" => \A i \in DOMAIN files : slot[i].kind # "todo"

ScanMatchesFile(f, s) ==
  /\ s.kind = "err" => s.why = Index!Fault(f, mwaVersion) /\ s.why # "none"
  /\ s.kind = "ok" =>
       /\ Index!Fault(f, mwaVersion) = "none"
       /\ s.map = [t \in Index!TimesOf(f, mwaVersion) |-> Index!LastHdu(f, mwaVersion, t)]
       /\ \A t \in DOMAIN s.map : s.map[t] \in Index!Holds(f, mwaVersion, t)

\* Whatever thread scanned a file, and after whichever others, its result is
\* the one its own contents determine.
ScansAreIndependent == \A i \in DOMAIN files : ScanMatchesFile(files[i], slot[i])

\* An entry leads to a data HDU with the time it is filed under, in a file of
\* the batch and channel it names: not to weights, nor to another file's HDU.
EntriesLeadToTheirTime ==
  \A k \in DOMAIN timeMap : \E i \in DOMAIN files :
    /\ files[i].chan = k[2] /\ files[i].batch = timeMap[k][1]
    /\ timeMap[k][2] \in Index!Holds(files[i], mwaVersion, k[1])

\* The parallel scan and the fold amount to one evaluation of TimeMapIndex.
ImplementsIndex == Index!Spec

\* The function returns.
Returns == <>(pc \in {"ok", "err"})
=============================================================================
