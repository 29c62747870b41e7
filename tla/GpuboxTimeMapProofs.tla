------------------------ MODULE GpuboxTimeMapProofs ------------------------
(***************************************************************************)
(* Proofs about GpuboxTimeMap, for any number of threads and any lists of  *)
(* files: the parallel scan is independent of the schedule and implements  *)
(* TimeMapIndex.                                                           *)
(***************************************************************************)
EXTENDS GpuboxTimeMap, TLAPS

\* The last HDU with a time is the one that no other exceeds.
LEMMA LastHduIsUnique ==
  ASSUME NEW f \in Index!Files, NEW v, NEW t,
         NEW h \in Index!Holds(f, v, t),
         \A g \in Index!Holds(f, v, t) : g <= h
  PROVE  Index!LastHdu(f, v, t) = h
<1>1. Index!Holds(f, v, t) \subseteq Nat
  BY DEF Index!Holds, Index!DataHdus, Index!Files
<1>2. \A g \in Index!Holds(f, v, t) :
        (\A x \in Index!Holds(f, v, t) : x <= g) => g = h
  BY <1>1
<1>3. QED
  BY <1>2 DEF Index!LastHdu

\* The owner of a key is the only first file that has it.
LEMMA OwnerIsUnique ==
  ASSUME NEW fs, NEW v, NEW n \in Nat, NEW k, NEW i \in 1 .. n,
         Index!HasKey(fs[i], v, k),
         \A j \in 1 .. i - 1 : ~Index!HasKey(fs[j], v, k)
  PROVE  Index!Owner(fs, v, n, k) = i
<1> DEFINE P(j) == Index!HasKey(fs[j], v, k) /\ \A l \in 1 .. j - 1 : ~Index!HasKey(fs[l], v, k)
<1>1. \A j \in 1 .. n : P(j) => j = i
  <2> SUFFICES ASSUME NEW j \in 1 .. n, P(j), j # i PROVE FALSE
    OBVIOUS
  <2>1. CASE j < i
    <3>1. j \in 1 .. i - 1
      BY <2>1
    <3>2. QED
      BY <3>1
  <2>2. CASE i < j
    <3>1. i \in 1 .. j - 1
      BY <2>2
    <3>2. QED
      BY <3>1
  <2>3. QED
    BY <2>1, <2>2
<1>2. Index!Owner(fs, v, n, k) = CHOOSE j \in 1 .. n : P(j)
  BY DEF Index!Owner
<1>3. P(i)
  OBVIOUS
<1> HIDE DEF P
<1>4. QED
  BY <1>1, <1>2, <1>3

\* Every key of the first n files has a first owner.
OwnersExist(fs, v, n) ==
  \A k \in Index!Keys(fs, v, n) : \E i \in 1 .. n :
    Index!HasKey(fs[i], v, k) /\ \A j \in 1 .. i - 1 : ~Index!HasKey(fs[j], v, k)

\* What a complete scan of a file gives.
FullScan(f, v) == [t \in Index!TimesOf(f, v) |-> Index!LastHdu(f, v, t)]

\* Folding one more file into the index of the first n - 1 gives that of the
\* first n.
LEMMA FoldStep ==
  ASSUME NEW fs, NEW v, NEW n \in Nat \ {0}, OwnersExist(fs, v, n - 1)
  PROVE  /\ OwnersExist(fs, v, n)
         /\ OrInsert(Index!TimeMapOf(fs, v, n - 1), fs[n], FullScan(fs[n], v))
              = Index!TimeMapOf(fs, v, n)
<1> DEFINE new == {<<t, fs[n].chan>> : t \in Index!TimesOf(fs[n], v)}
<1>1. Index!Keys(fs, v, n) = Index!Keys(fs, v, n - 1) \cup new
  <2>1. 1 .. n = (1 .. n - 1) \cup {n}
    OBVIOUS
  <2>2. QED
    BY <2>1 DEF Index!Keys
<1>2. ASSUME NEW k \in Index!Keys(fs, v, n - 1)
      PROVE  \E i \in 1 .. n - 1 : /\ i \in 1 .. n
                                   /\ Index!HasKey(fs[i], v, k)
                                   /\ \A j \in 1 .. i - 1 : ~Index!HasKey(fs[j], v, k)
  BY <1>2 DEF OwnersExist
<1>3. ASSUME NEW k \in new, k \notin Index!Keys(fs, v, n - 1)
      PROVE  /\ n \in 1 .. n /\ Index!HasKey(fs[n], v, k)
             /\ \A j \in 1 .. n - 1 : ~Index!HasKey(fs[j], v, k)
  <2>1. Index!HasKey(fs[n], v, k) /\ k = <<k[1], k[2]>>
    BY <1>3 DEF Index!HasKey
  <2>2. ASSUME NEW j \in 1 .. n - 1, Index!HasKey(fs[j], v, k)
        PROVE  FALSE
    BY <1>3, <2>1, <2>2 DEF Index!HasKey, Index!Keys
  <2>3. QED
    BY <2>1, <2>2
<1>4. OwnersExist(fs, v, n)
  BY <1>1, <1>2, <1>3 DEF OwnersExist
<1>5. ASSUME NEW k \in Index!Keys(fs, v, n - 1)
      PROVE  Index!Entry(fs, v, n, k) = Index!Entry(fs, v, n - 1, k)
  <2>1. Index!Owner(fs, v, n, k) = Index!Owner(fs, v, n - 1, k)
    <3>1. PICK i \in 1 .. n - 1 : /\ i \in 1 .. n
                                  /\ Index!HasKey(fs[i], v, k)
                                  /\ \A j \in 1 .. i - 1 : ~Index!HasKey(fs[j], v, k)
      BY <1>2
    <3>2. Index!Owner(fs, v, n, k) = i
      BY <3>1, OwnerIsUnique
    <3>3. n - 1 \in Nat
      OBVIOUS
    <3>4. Index!Owner(fs, v, n - 1, k) = i
      BY <3>1, <3>3, OwnerIsUnique
    <3>5. QED
      BY <3>2, <3>4
  <2>2. QED
    BY <2>1 DEF Index!Entry
<1>6. ASSUME NEW k \in new, k \notin Index!Keys(fs, v, n - 1)
      PROVE  Index!Entry(fs, v, n, k) = <<fs[n].batch, FullScan(fs[n], v)[k[1]]>>
  <2>1. Index!Owner(fs, v, n, k) = n
    BY <1>3, <1>6, OwnerIsUnique
  <2>2. k[1] \in Index!TimesOf(fs[n], v)
    BY <1>6
  <2>3. QED
    BY <2>1, <2>2 DEF Index!Entry, FullScan
<1>7. OrInsert(Index!TimeMapOf(fs, v, n - 1), fs[n], FullScan(fs[n], v))
        = [k \in Index!Keys(fs, v, n) |->
             IF k \in Index!Keys(fs, v, n - 1) THEN Index!Entry(fs, v, n - 1, k)
             ELSE <<fs[n].batch, FullScan(fs[n], v)[k[1]]>>]
  BY <1>1 DEF OrInsert, Index!TimeMapOf, FullScan
<1>8. QED
  BY <1>1, <1>4, <1>5, <1>6, <1>7 DEF Index!TimeMapOf

-----------------------------------------------------------------------------
\* map is what map_unix_times_to_hdus has built when its loop is about to look
\* at HDU h: the last data HDU before h for every time seen.
ScannedTo(f, v, h, map) ==
  LET before == {g \in Index!DataHdus(f, v) : g < h}
  IN  /\ map \in [{f.hdus[g] : g \in before} -> before]
      /\ \A t \in DOMAIN map : /\ f.hdus[map[t]] = t
                              /\ \A g \in before : f.hdus[g] = t => g <= map[t]

ThreadInv(w) ==
  task[w] # 0 =>
    LET f == files[task[w]]
    IN  /\ Index!OpenFault(f, mwaVersion) = "none"
        /\ mwaVersion = "mwax" => hdu[w] % 2 = 1
        /\ \A g \in Index!DataHdus(f, mwaVersion) : g < hdu[w] => f.hdus[g] # NoTime
        /\ ScannedTo(f, mwaVersion, hdu[w], found[w])

FoldInv ==
  /\ pc = "scan" => next = 1
  /\ pc = "ok" => next \notin DOMAIN files
  /\ pc = "err" => next \in DOMAIN files /\ slot[next].kind = "err"
  /\ \A i \in 1 .. next - 1 : slot[i].kind = "ok"
  /\ timeMap = Index!TimeMapOf(files, mwaVersion, next - 1)
  /\ OwnersExist(files, mwaVersion, next - 1)

IInv ==
  /\ EachFileScannedOnce
  /\ ScansAreIndependent
  /\ \A w \in Workers : ThreadInv(w)
  /\ FoldInv

\* The scan of a whole file is the one TimeMapIndex defines.
LEMMA ScanComplete ==
  ASSUME NEW f \in Index!Files, NEW v, NEW h \in Nat, NEW map,
         ScannedTo(f, v, h, map), \A g \in DOMAIN f.hdus : g < h
  PROVE  /\ map = FullScan(f, v)
         /\ \A t \in DOMAIN map : map[t] \in Index!Holds(f, v, t)
<1>1. {g \in Index!DataHdus(f, v) : g < h} = Index!DataHdus(f, v)
  BY DEF Index!DataHdus
<1>2. map \in [Index!TimesOf(f, v) -> Index!DataHdus(f, v)]
  BY <1>1 DEF ScannedTo, Index!TimesOf
<1>3. ASSUME NEW t \in Index!TimesOf(f, v)
      PROVE  /\ map[t] = Index!LastHdu(f, v, t)
             /\ map[t] \in Index!Holds(f, v, t)
  <2>1. /\ map[t] \in Index!Holds(f, v, t)
        /\ \A g \in Index!Holds(f, v, t) : g <= map[t]
    BY <1>1, <1>2, <1>3 DEF ScannedTo, Index!Holds
  <2>2. QED
    BY <2>1, LastHduIsUnique
<1>4. QED
  BY <1>2, <1>3 DEF FullScan

\* One iteration of the loop keeps that: the next data HDU is one step on.
LEMMA ScanStep ==
  ASSUME NEW f \in Index!Files, NEW v \in Index!Versions, NEW h \in Nat \ {0}, NEW map,
         v = "mwax" => h % 2 = 1, h \in DOMAIN f.hdus, ScannedTo(f, v, h, map)
  PROVE  LET n == h + Index!StepSize(v)
         IN  /\ n \in Nat \ {0}
             /\ v = "mwax" => n % 2 = 1
             /\ \A g \in Index!DataHdus(f, v) : g < n <=> g < h \/ g = h
             /\ ScannedTo(f, v, n, Insert(map, f.hdus[h], h))
<1> DEFINE n == h + Index!StepSize(v)
           before == {g \in Index!DataHdus(f, v) : g < h}
           new == Insert(map, f.hdus[h], h)
<1>1. n \in Nat \ {0} /\ (v = "mwax" => n % 2 = 1)
  BY DEF Index!StepSize
<1>2. h \in Index!DataHdus(f, v)
  BY DEF Index!DataHdus
<1>3. \A g \in Index!DataHdus(f, v) : g \in Nat /\ (g < n <=> g < h \/ g = h)
  BY DEF Index!DataHdus, Index!StepSize, Index!Versions, Index!Files
<1>4. {g \in Index!DataHdus(f, v) : g < n} = before \cup {h}
  BY <1>2, <1>3
<1>5. /\ map \in [{f.hdus[g] : g \in before} -> before]
      /\ \A t \in DOMAIN map : /\ f.hdus[map[t]] = t
                              /\ \A g \in before : f.hdus[g] = t => g <= map[t]
  BY DEF ScannedTo
<1>6. new \in [{f.hdus[g] : g \in before \cup {h}} -> before \cup {h}]
  BY <1>5 DEF Insert
<1>7. ASSUME NEW t \in DOMAIN new
      PROVE  /\ f.hdus[new[t]] = t
             /\ \A g \in before \cup {h} : f.hdus[g] = t => g <= new[t]
  BY <1>3, <1>5, <1>7 DEF Insert
<1>8. ScannedTo(f, v, n, new)
  BY <1>4, <1>6, <1>7 DEF ScannedTo
<1>9. QED
  BY <1>1, <1>3, <1>8

-----------------------------------------------------------------------------
\* Facts about the files that every step uses.
LEMMA FileFacts ==
  ASSUME files \in Seq(Index!Files), NEW i \in DOMAIN files
  PROVE  /\ files[i] \in Index!Files
         /\ i \in Nat \ {0}
         /\ files[i].hdus \in Seq(Times \cup {NoTime})
         /\ files[i].chan \in Channels
         /\ DOMAIN files[i].hdus = 1 .. Len(files[i].hdus)
         /\ Len(files[i].hdus) \in Nat
<1>1. files[i] \in Index!Files /\ i \in Nat \ {0}
  OBVIOUS
<1>2. files[i].hdus \in Seq(Times \cup {NoTime}) /\ files[i].chan \in Channels
  BY <1>1 DEF Index!Files
<1>3. QED
  BY <1>1, <1>2

\* Type correctness of create_time_map.
THEOREM TypeCorrect == Spec => []TypeOK
<1>1. Init => TypeOK
  BY FileListsAssumption DEF Init, TypeOK, NoHdus, Todo, Slot
<1>2. TypeOK /\ [Next]_vars => TypeOK'
  <2> SUFFICES ASSUME TypeOK, [Next]_vars PROVE TypeOK'
    OBVIOUS
  <2> USE DEF TypeOK
  <2>1. ASSUME NEW w \in Workers, NEW i \in DOMAIN files, Refuse(w, i)
        PROVE  TypeOK'
    BY <2>1 DEF Refuse, Slot, NoHdus
  <2>2. ASSUME NEW w \in Workers, NEW i \in DOMAIN files, Open(w, i)
        PROVE  TypeOK'
    BY <2>2 DEF Open, NoHdus
  <2>3. ASSUME NEW w \in Workers, ScanHdu(w)
        PROVE  TypeOK'
    <3>1. task[w] \in DOMAIN files /\ files[task[w]].hdus \in Seq(Times \cup {NoTime})
      BY <2>3, FileFacts DEF ScanHdu
    <3>2. files[task[w]].hdus[hdu[w]] \in Times
      BY <2>3, <3>1 DEF ScanHdu
    <3>3. \A v \in Workers : DOMAIN found'[v] \subseteq Times
      BY <2>3, <3>2 DEF ScanHdu, Insert
    <3>4. hdu' \in [Workers -> Nat \ {0}]
      BY <2>3 DEF ScanHdu, Index!StepSize
    <3>5. QED
      BY <2>3, <3>3, <3>4 DEF ScanHdu
  <2>4. ASSUME NEW w \in Workers, BadHdu(w)
        PROVE  TypeOK'
    BY <2>4 DEF BadHdu, Slot, NoHdus
  <2>5. ASSUME NEW w \in Workers, Finish(w)
        PROVE  TypeOK'
    BY <2>5 DEF Finish, Slot
  <2>6. CASE Collect
    BY <2>6 DEF Collect
  <2>7. CASE FoldError
    BY <2>7 DEF FoldError
  <2>8. CASE Return
    BY <2>8 DEF Return
  <2>9. CASE UNCHANGED vars
    BY <2>9 DEF vars
  <2>10. CASE Fold
    <3>1. /\ DOMAIN slot[next].map \subseteq Times
          /\ files[next].chan \in Channels
      BY <2>10, FileFacts DEF Fold
    <3>2. DOMAIN timeMap' \subseteq Times \X Channels
      BY <2>10, <3>1 DEF Fold, OrInsert
    <3>3. next' \in 1 .. Len(files) + 1
      BY <2>10 DEF Fold
    <3>4. QED
      BY <2>10, <3>2, <3>3 DEF Fold
  <2>11. QED
    BY <2>1, <2>2, <2>3, <2>4, <2>5, <2>6, <2>7, <2>8, <2>9, <2>10 DEF Next, Scan
<1>3. QED
  BY <1>1, <1>2, PTL DEF Spec

\* The part of the invariant about the threads and the results of the scans
\* survives every step that leaves files, version and results alone.
LEMMA ScansUndisturbed ==
  ASSUME TypeOK, IInv, files' = files, mwaVersion' = mwaVersion, slot' = slot,
         task' = task, hdu' = hdu, found' = found
  PROVE  /\ ScansAreIndependent'
         /\ \A w \in Workers : ThreadInv(w)'
         /\ pc' = "scan" \/ (\A i \in DOMAIN files : slot[i].kind # "todo")
              => EachFileScannedOnce'
<1>1. ScansAreIndependent'
  BY DEF IInv, ScansAreIndependent, ScanMatchesFile
<1>2. \A w \in Workers : ThreadInv(w)'
  BY DEF IInv, ThreadInv
<1>3. pc' = "scan" \/ (\A i \in DOMAIN files : slot[i].kind # "todo")
        => EachFileScannedOnce'
  BY DEF IInv, EachFileScannedOnce
<1>4. QED
  BY <1>1, <1>2, <1>3

\* While the files are scanned the fold has not begun.
LEMMA FoldUndisturbed ==
  ASSUME FoldInv, pc = "scan", pc' = "scan", files' = files, mwaVersion' = mwaVersion,
         next' = next, timeMap' = timeMap
  PROVE  FoldInv'
<1>1. 1 .. next' - 1 = {}
  BY DEF FoldInv
<1>2. QED
  BY <1>1 DEF FoldInv

\* A step by which thread w disposes of its file i, with the result r, keeps
\* the invariant when r is what the file's contents determine.
LEMMA ResultIsIn ==
  ASSUME TypeOK, IInv, NEW w \in Workers, NEW i \in DOMAIN files, NEW r,
         pc = "scan", pc' = "scan", files' = files, mwaVersion' = mwaVersion,
         hdu' = hdu, found' = found, next' = next, timeMap' = timeMap,
         \/ task[w] = i /\ task' = [task EXCEPT ![w] = 0]
         \/ task' = task /\ \A v \in Workers : task[v] # i,
         slot' = [slot EXCEPT ![i] = r], ScanMatchesFile(files[i], r)
  PROVE  IInv'
<1>1. ASSUME NEW v \in Workers, task'[v] # 0
      PROVE  task'[v] = task[v] /\ task[v] # i /\ task[v] \in DOMAIN files
  BY <1>1 DEF TypeOK, IInv, EachFileScannedOnce
<1>2. \A j \in DOMAIN files : slot'[j] = IF j = i THEN r ELSE slot[j]
  BY DEF TypeOK
<1>3. EachFileScannedOnce'
  BY <1>1, <1>2 DEF IInv, EachFileScannedOnce
<1>4. ScansAreIndependent'
  <2>1. \A j \in DOMAIN files : ScanMatchesFile(files[j], slot[j])
    BY DEF IInv, ScansAreIndependent
  <2>2. \A j \in DOMAIN files : ScanMatchesFile(files[j], slot'[j])
    BY <1>2, <2>1
  <2>3. QED
    BY <2>2 DEF ScansAreIndependent, ScanMatchesFile
<1>5. \A v \in Workers : ThreadInv(v)'
  BY <1>1 DEF IInv, ThreadInv
<1>6. FoldInv'
  BY FoldUndisturbed DEF IInv
<1>7. QED
  BY <1>3, <1>4, <1>5, <1>6 DEF IInv

\* A thread that has a file is scanning it: the fold has not begun.
LEMMA BusyMeansScanning ==
  ASSUME TypeOK, IInv, NEW w \in Workers, task[w] # 0
  PROVE  pc = "scan" /\ task[w] \in DOMAIN files
BY DEF TypeOK, IInv, EachFileScannedOnce

\* The invariant holds in every reachable state, whatever the schedule.
THEOREM ScanInvariant == Spec => []IInv
<1>1. Init => IInv
  <2> SUFFICES ASSUME Init PROVE IInv
    OBVIOUS
  <2>1. files \in Seq(Index!Files) /\ next = 1 /\ 1 .. next - 1 = {}
    BY FileListsAssumption DEF Init
  <2>2. EachFileScannedOnce /\ ScansAreIndependent
    BY <2>1 DEF Init, EachFileScannedOnce, ScansAreIndependent, ScanMatchesFile, Todo, Slot
  <2>3. \A w \in Workers : ThreadInv(w)
    BY DEF Init, ThreadInv
  <2>4. FoldInv
    BY <2>1 DEF Init, FoldInv, OwnersExist, Index!TimeMapOf, Index!Keys
  <2>5. QED
    BY <2>2, <2>3, <2>4 DEF IInv
<1>2. TypeOK /\ IInv /\ [Next]_vars => IInv'
  <2> SUFFICES ASSUME TypeOK, IInv, [Next]_vars PROVE IInv'
    OBVIOUS
  <2>1. ASSUME NEW w \in Workers, NEW i \in DOMAIN files, Refuse(w, i)
        PROVE  IInv'
    <3> DEFINE r == Slot("err", Index!OpenFault(files[i], mwaVersion), NoHdus)
    <3>1. ScanMatchesFile(files[i], r)
      BY <2>1 DEF Refuse, ScanMatchesFile, Slot, Index!Fault
    <3>2. /\ pc = "scan" /\ \A v \in Workers : task[v] # i
          /\ slot' = [slot EXCEPT ![i] = r]
          /\ UNCHANGED <<files, mwaVersion, task, hdu, found, next, timeMap, pc>>
      BY <2>1 DEF Refuse, Takes
    <3> HIDE DEF r
    <3>3. QED
      BY <3>1, <3>2, ResultIsIn
  <2>2. ASSUME NEW w \in Workers, NEW i \in DOMAIN files, Open(w, i)
        PROVE  IInv'
    <3>1. /\ pc = "scan" /\ slot[i].kind = "todo" /\ \A v \in Workers : task[v] # i
          /\ \A v \in Workers : task'[v] = IF v = w THEN i ELSE task[v]
          /\ \A v \in Workers : hdu'[v] = IF v = w THEN 1 ELSE hdu[v]
          /\ \A v \in Workers : found'[v] = IF v = w THEN NoHdus ELSE found[v]
          /\ UNCHANGED <<files, mwaVersion, slot, next, timeMap, pc>>
      BY <2>2 DEF Open, Takes, TypeOK
    <3>2. EachFileScannedOnce'
      BY <3>1 DEF IInv, EachFileScannedOnce
    <3>3. ScansAreIndependent'
      BY <3>1 DEF IInv, ScansAreIndependent, ScanMatchesFile
    <3>4. \A v \in Workers : v # w => ThreadInv(v)'
      BY <3>1 DEF IInv, ThreadInv
    <3>5. ThreadInv(w)'
      <4>1. \A g \in Index!DataHdus(files[i], mwaVersion) : ~(g < 1)
        BY FileFacts DEF TypeOK, Index!DataHdus
      <4>2. ScannedTo(files[i], mwaVersion, 1, NoHdus)
        BY <4>1 DEF ScannedTo, NoHdus
      <4>3. Index!OpenFault(files[i], mwaVersion) = "none"
        BY <2>2 DEF Open
      <4>4. QED
        BY <3>1, <4>1, <4>2, <4>3 DEF ThreadInv
    <3>6. FoldInv'
      BY <3>1, FoldUndisturbed DEF IInv
    <3>7. QED
      BY <3>2, <3>3, <3>4, <3>5, <3>6 DEF IInv
  <2>3. ASSUME NEW w \in Workers, ScanHdu(w)
        PROVE  IInv'
    <3> DEFINE f == files[task[w]]
               h == hdu[w]
    <3>1. pc = "scan" /\ task[w] \in DOMAIN files /\ task[w] # 0
      BY <2>3, BusyMeansScanning DEF ScanHdu
    <3>2. /\ h \in DOMAIN f.hdus /\ f.hdus[h] # NoTime
          /\ \A v \in Workers : hdu'[v] = IF v = w THEN h + Index!StepSize(mwaVersion) ELSE hdu[v]
          /\ \A v \in Workers :
               found'[v] = IF v = w THEN Insert(found[w], f.hdus[h], h) ELSE found[v]
          /\ UNCHANGED <<files, mwaVersion, task, slot, next, timeMap, pc>>
      BY <2>3 DEF ScanHdu, TypeOK
    <3>3. EachFileScannedOnce' /\ ScansAreIndependent'
      BY <3>2 DEF IInv, EachFileScannedOnce, ScansAreIndependent, ScanMatchesFile
    <3>4. \A v \in Workers : v # w => ThreadInv(v)'
      BY <3>2 DEF IInv, ThreadInv
    <3>5. ThreadInv(w)'
      <4>1. /\ f \in Index!Files /\ mwaVersion \in Index!Versions /\ h \in Nat \ {0}
            /\ Index!OpenFault(f, mwaVersion) = "none"
            /\ mwaVersion = "mwax" => h % 2 = 1
            /\ \A g \in Index!DataHdus(f, mwaVersion) : g < h => f.hdus[g] # NoTime
            /\ ScannedTo(f, mwaVersion, h, found[w])
        BY <3>1, FileFacts DEF TypeOK, IInv, ThreadInv
      <4> DEFINE n == h + Index!StepSize(mwaVersion)
      <4>2. /\ mwaVersion = "mwax" => n % 2 = 1
            /\ \A g \in Index!DataHdus(f, mwaVersion) : g < n <=> g < h \/ g = h
            /\ ScannedTo(f, mwaVersion, n, Insert(found[w], f.hdus[h], h))
        BY <3>2, <4>1, ScanStep
      <4>3. \A g \in Index!DataHdus(f, mwaVersion) : g < n => f.hdus[g] # NoTime
        BY <3>2, <4>1, <4>2
      <4>4. QED
        BY <3>2, <4>1, <4>2, <4>3 DEF ThreadInv
    <3>6. FoldInv'
      BY <3>1, <3>2, FoldUndisturbed DEF IInv
    <3>7. QED
      BY <3>3, <3>4, <3>5, <3>6 DEF IInv
  <2>4. ASSUME NEW w \in Workers, BadHdu(w)
        PROVE  IInv'
    <3> DEFINE i == task[w]
               r == Slot("err", "fits", NoHdus)
    <3>1. pc = "scan" /\ i \in DOMAIN files /\ task[w] # 0
      BY <2>4, BusyMeansScanning DEF BadHdu
    <3>2. /\ hdu[w] \in DOMAIN files[i].hdus /\ files[i].hdus[hdu[w]] = NoTime
          /\ slot' = [slot EXCEPT ![i] = r]
          /\ task' = [task EXCEPT ![w] = 0]
          /\ UNCHANGED <<files, mwaVersion, hdu, found, next, timeMap, pc>>
      BY <2>4 DEF BadHdu
    <3>3. hdu[w] \in Index!DataHdus(files[i], mwaVersion)
      BY <3>1, <3>2 DEF IInv, ThreadInv, Index!DataHdus
    <3>4. Index!Fault(files[i], mwaVersion) = "fits"
      BY <3>1, <3>2, <3>3 DEF IInv, ThreadInv, Index!Fault
    <3>5. ScanMatchesFile(files[i], r)
      BY <3>4 DEF ScanMatchesFile, Slot
    <3> HIDE DEF i, r
    <3>6. task[w] = i
      BY DEF i
    <3>7. QED
      BY <3>1, <3>2, <3>5, <3>6, ResultIsIn
  <2>5. ASSUME NEW w \in Workers, Finish(w)
        PROVE  IInv'
    <3> DEFINE i == task[w]
               r == Slot("ok", "none", found[w])
    <3>1. pc = "scan" /\ i \in DOMAIN files /\ task[w] # 0
      BY <2>5, BusyMeansScanning DEF Finish
    <3>2. /\ hdu[w] \notin DOMAIN files[i].hdus
          /\ slot' = [slot EXCEPT ![i] = r]
          /\ task' = [task EXCEPT ![w] = 0]
          /\ UNCHANGED <<files, mwaVersion, hdu, found, next, timeMap, pc>>
      BY <2>5 DEF Finish
    <3>3. /\ files[i] \in Index!Files /\ hdu[w] \in Nat
          /\ \A g \in DOMAIN files[i].hdus : g < hdu[w]
      BY <3>1, <3>2, FileFacts DEF TypeOK
    <3>4. /\ ScannedTo(files[i], mwaVersion, hdu[w], found[w])
          /\ Index!OpenFault(files[i], mwaVersion) = "none"
          /\ \A g \in Index!DataHdus(files[i], mwaVersion) :
               g < hdu[w] => files[i].hdus[g] # NoTime
      BY <3>1 DEF IInv, ThreadInv
    <3>5. /\ found[w] = FullScan(files[i], mwaVersion)
          /\ \A t \in DOMAIN found[w] : found[w][t] \in Index!Holds(files[i], mwaVersion, t)
      BY <3>3, <3>4, ScanComplete
    <3>6. Index!Fault(files[i], mwaVersion) = "none"
      BY <3>3, <3>4 DEF Index!Fault, Index!DataHdus
    <3>7. ScanMatchesFile(files[i], r)
      BY <3>5, <3>6 DEF ScanMatchesFile, Slot, FullScan
    <3> HIDE DEF i, r
    <3>8. task[w] = i
      BY DEF i
    <3>9. QED
      BY <3>1, <3>2, <3>7, <3>8, ResultIsIn
  <2>6. CASE Collect
    <3>1. FoldInv'
      BY <2>6 DEF Collect, IInv, FoldInv
    <3>2. QED
      BY <2>6, <3>1, ScansUndisturbed DEF Collect, IInv
  <2>7. CASE Fold
    <3>1. /\ pc = "fold" /\ next \in DOMAIN files /\ slot[next].kind = "ok"
          /\ timeMap' = OrInsert(timeMap, files[next], slot[next].map)
          /\ next' = next + 1
          /\ UNCHANGED <<files, mwaVersion, task, hdu, found, slot, pc>>
      BY <2>7 DEF Fold
    <3>2. /\ next \in Nat \ {0} /\ next' - 1 = next
          /\ 1 .. next' - 1 = (1 .. next - 1) \cup {next}
      BY <3>1 DEF TypeOK
    <3>3. slot[next].map = FullScan(files[next], mwaVersion)
      BY <3>1 DEF IInv, ScansAreIndependent, ScanMatchesFile, FullScan
    <3>4. /\ OwnersExist(files, mwaVersion, next)
          /\ timeMap' = Index!TimeMapOf(files, mwaVersion, next)
      BY <3>1, <3>2, <3>3, FoldStep DEF IInv, FoldInv
    <3>5. FoldInv'
      BY <3>1, <3>2, <3>4 DEF IInv, FoldInv
    <3>6. QED
      BY <3>1, <3>5, ScansUndisturbed DEF IInv, EachFileScannedOnce
  <2>8. CASE FoldError
    <3>1. FoldInv'
      BY <2>8 DEF FoldError, IInv, FoldInv
    <3>2. QED
      BY <2>8, <3>1, ScansUndisturbed DEF FoldError, IInv, EachFileScannedOnce
  <2>9. CASE Return
    <3>1. FoldInv'
      BY <2>9 DEF Return, IInv, FoldInv
    <3>2. QED
      BY <2>9, <3>1, ScansUndisturbed DEF Return, IInv, EachFileScannedOnce
  <2>10. CASE UNCHANGED vars
    <3>1. FoldInv'
      BY <2>10 DEF vars, IInv, FoldInv
    <3>2. EachFileScannedOnce'
      BY <2>10 DEF vars, IInv, EachFileScannedOnce
    <3>3. QED
      BY <2>10, <3>1, <3>2, ScansUndisturbed DEF vars, IInv
  <2>11. QED
    BY <2>1, <2>2, <2>3, <2>4, <2>5, <2>6, <2>7, <2>8, <2>9, <2>10 DEF Next, Scan
<1>3. QED
  BY <1>1, <1>2, TypeCorrect, PTL DEF Spec

\* No file is scanned by two threads, and none is left out of the fold.
THEOREM FilesScannedOnce == Spec => []EachFileScannedOnce
<1>1. IInv => EachFileScannedOnce
  BY DEF IInv
<1>2. QED
  BY <1>1, ScanInvariant, PTL

\* The result for a file does not depend on the schedule.
THEOREM ScheduleIndependent == Spec => []ScansAreIndependent
<1>1. IInv => ScansAreIndependent
  BY DEF IInv
<1>2. QED
  BY <1>1, ScanInvariant, PTL

\* The files already folded had no fault, and the last HDU with a time has it.
LEMMA FoldedFilesAreSound ==
  ASSUME TypeOK, IInv, NEW j \in 1 .. next - 1
  PROVE  /\ j \in DOMAIN files
         /\ Index!Fault(files[j], mwaVersion) = "none"
         /\ \A t \in Index!TimesOf(files[j], mwaVersion) :
              Index!LastHdu(files[j], mwaVersion, t) \in Index!Holds(files[j], mwaVersion, t)
<1>1. j \in DOMAIN files
  <2>1. files \in Seq(Index!Files) /\ next \in 1 .. Len(files) + 1
    BY DEF TypeOK
  <2>2. QED
    BY <2>1
<1>2. slot[j].kind = "ok" /\ ScanMatchesFile(files[j], slot[j])
  BY <1>1 DEF IInv, FoldInv, ScansAreIndependent
<1>3. QED
  BY <1>1, <1>2 DEF ScanMatchesFile

\* Every entry of gpubox_time_map leads to an HDU of the time and channel it is
\* filed under.
THEOREM EntriesAreRight == Spec => []EntriesLeadToTheirTime
<1>1. TypeOK /\ IInv => EntriesLeadToTheirTime
  <2> SUFFICES ASSUME TypeOK, IInv, NEW k \in DOMAIN timeMap
               PROVE  \E i \in DOMAIN files :
                        /\ files[i].chan = k[2] /\ files[i].batch = timeMap[k][1]
                        /\ timeMap[k][2] \in Index!Holds(files[i], mwaVersion, k[1])
    BY DEF EntriesLeadToTheirTime
  <2> DEFINE n == next - 1
  <2>1. n \in Nat /\ 1 .. n \subseteq DOMAIN files
    BY DEF TypeOK
  <2>2. k \in Index!Keys(files, mwaVersion, n)
    BY DEF IInv, FoldInv, Index!TimeMapOf
  <2>3. PICK i \in 1 .. n : /\ Index!HasKey(files[i], mwaVersion, k)
                            /\ \A j \in 1 .. i - 1 : ~Index!HasKey(files[j], mwaVersion, k)
    BY <2>2 DEF IInv, FoldInv, OwnersExist
  <2>4. Index!Owner(files, mwaVersion, n, k) = i
    BY <2>1, <2>3, OwnerIsUnique
  <2>5. timeMap[k] = <<files[i].batch, Index!LastHdu(files[i], mwaVersion, k[1])>>
    BY <2>2, <2>4 DEF IInv, FoldInv, Index!TimeMapOf, Index!Entry
  <2>6. Index!LastHdu(files[i], mwaVersion, k[1]) \in Index!Holds(files[i], mwaVersion, k[1])
    BY <2>3, FoldedFilesAreSound DEF Index!HasKey
  <2>7. QED
    BY <2>1, <2>3, <2>5, <2>6 DEF Index!HasKey
<1>2. QED
  BY <1>1, TypeCorrect, ScanInvariant, PTL

\* The parallel scan and the ordered fold implement TimeMapIndex: one index,
\* a function of the files, or the error of the first faulty file.
THEOREM ScanImplementsIndex == Spec => ImplementsIndex
<1>1. Init => Index!Init
  BY DEF Init, Index!Init, outcome, Index!Running, Index!Outcome, Index!NoMap
<1>2. TypeOK /\ IInv /\ [Next]_vars => [Index!Next]_Index!indexVars
  <2> SUFFICES ASSUME TypeOK, IInv, [Next]_vars
               PROVE  [Index!Next]_Index!indexVars
    OBVIOUS
  <2>1. CASE (\E w \in Workers : Scan(w)) \/ Collect \/ Fold
    <3>1. /\ files' = files /\ mwaVersion' = mwaVersion
          /\ pc \notin {"ok", "err"} /\ pc' \notin {"ok", "err"}
      BY <2>1, BusyMeansScanning
         DEF Scan, Refuse, Takes, Open, ScanHdu, BadHdu, Finish, Collect, Fold
    <3>2. outcome' = outcome
      BY <3>1 DEF outcome
    <3>3. QED
      BY <3>1, <3>2 DEF Index!indexVars
  <2>2. CASE FoldError
    <3>1. /\ pc = "fold" /\ pc' = "err" /\ next \in DOMAIN files /\ slot[next].kind = "err"
          /\ UNCHANGED <<files, mwaVersion, slot, next>>
      BY <2>2 DEF FoldError
    <3>2. /\ slot[next].why = Index!Fault(files[next], mwaVersion)
          /\ \A j \in 1 .. next - 1 : Index!Fault(files[j], mwaVersion) = "none"
      <4>1. ScanMatchesFile(files[next], slot[next])
        BY <3>1 DEF IInv, ScansAreIndependent
      <4>2. QED
        BY <3>1, <4>1, FoldedFilesAreSound DEF ScanMatchesFile
    <3>3. Index!Fault(files[next], mwaVersion) # "none"
      BY <3>1 DEF IInv, ScansAreIndependent, ScanMatchesFile
    <3>4. /\ outcome = Index!Running
          /\ outcome' = Index!Outcome("err", Index!Fault(files[next], mwaVersion), Index!NoMap)
      BY <3>1, <3>2 DEF outcome, Index!Running, Index!Outcome, Index!NoMap
    <3>5. Index!Fail
      BY <3>1, <3>2, <3>3, <3>4 DEF Index!Fail
    <3>6. QED
      BY <3>5 DEF Index!Next
  <2>3. CASE Return
    <3>1. /\ pc = "fold" /\ pc' = "ok" /\ next = Len(files) + 1
          /\ UNCHANGED <<files, mwaVersion, timeMap>>
      <4>1. next \notin DOMAIN files /\ next \in 1 .. Len(files) + 1 /\ files \in Seq(Index!Files)
        BY <2>3 DEF Return, TypeOK
      <4>2. next = Len(files) + 1
        BY <4>1
      <4>3. QED
        BY <2>3, <4>2 DEF Return
    <3>2. \A j \in DOMAIN files : Index!Fault(files[j], mwaVersion) = "none"
      <4>1. DOMAIN files = 1 .. next - 1
        <5>1. files \in Seq(Index!Files)
          BY DEF TypeOK
        <5>2. QED
          BY <3>1, <5>1
      <4>2. QED
        BY <4>1, FoldedFilesAreSound
    <3>3. next - 1 = Len(files)
      BY <3>1 DEF TypeOK
    <3>4. timeMap = Index!TimeMapOf(files, mwaVersion, Len(files))
      BY <3>3 DEF IInv, FoldInv
    <3>5. /\ outcome = Index!Running
          /\ outcome' = Index!Outcome("ok", "none", timeMap)
      BY <3>1 DEF outcome, Index!Running, Index!Outcome, Index!NoMap
    <3>6. Index!Succeed
      BY <3>1, <3>2, <3>4, <3>5 DEF Index!Succeed
    <3>7. QED
      BY <3>6 DEF Index!Next
  <2>4. CASE UNCHANGED vars
    BY <2>4 DEF vars, outcome, Index!indexVars
  <2>5. QED
    BY <2>1, <2>2, <2>3, <2>4 DEF Next
<1>3. QED
  BY <1>1, <1>2, TypeCorrect, ScanInvariant, PTL DEF Spec, ImplementsIndex, Index!Spec
=============================================================================
