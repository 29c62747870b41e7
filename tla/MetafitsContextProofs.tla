----------------------- MODULE MetafitsContextProofs -----------------------
(***************************************************************************)
(* Proofs about MetafitsContext, for every file, every table of inputs and *)
(* every replacement of the file, and about the two orders of inputs that  *)
(* it shares with convert/mod.rs; and, in the last part, about             *)
(* LegacyConversion, which takes its order of the inputs from here.        *)
(***************************************************************************)
EXTENDS MetafitsContext, LegacyConversion, FiniteSetTheorems, TLAPS

-----------------------------------------------------------------------------
(* The two orders of inputs. *)

\* Quotient and rest of a number given by them.
LEMMA Division ==
  ASSUME NEW d \in Nat \ {0}, NEW q \in Nat, NEW r \in 0 .. d - 1
  PROVE  (q * d + r) \div d = q /\ (q * d + r) % d = r
OBVIOUS

\* A number is given by its quotient and rest.
LEMMA DivMod ==
  ASSUME NEW d \in Nat \ {0}, NEW n \in Nat
  PROVE  /\ n \div d \in Nat /\ n % d \in 0 .. d - 1
         /\ n = (n \div d) * d + (n % d)
OBVIOUS

\* A number with no rest is so many times the other.
LEMMA WholeNumber ==
  ASSUME NEW d \in Nat \ {0}, NEW n \in Nat, n % d = 0
  PROVE  \E q \in Nat : n = q * d
<1>1. n \div d \in Nat /\ n % d \in 0 .. d - 1 /\ n = (n \div d) * d + (n % d)
  BY DivMod
<1>2. n = (n \div d) * d
  BY <1>1
<1>3. QED
  BY <1>1, <1>2

\* A place in a table of a columns and b rows.
LEMMA InTable ==
  ASSUME NEW a \in Nat \ {0}, NEW b \in Nat \ {0}, NEW i \in 0 .. a - 1, NEW j \in 0 .. b - 1
  PROVE  j * a + i \in 0 .. a * b - 1
<1>1. j * a <= (b - 1) * a
  OBVIOUS
<1>2. QED
  BY <1>1

\* The column of a place in that table.
LEMMA OfTable ==
  ASSUME NEW a \in Nat \ {0}, NEW b \in Nat \ {0}, NEW n \in 0 .. a * b - 1
  PROVE  n \div a \in 0 .. b - 1
<1>1. n \div a \in Nat /\ n % a \in 0 .. a - 1 /\ n = (n \div a) * a + (n % a)
  BY DivMod
<1>2. SUFFICES ASSUME n \div a >= b PROVE FALSE
  BY <1>1
<1>3. (n \div a) * a >= b * a
  BY <1>1, <1>2
<1>4. QED
  BY <1>1, <1>3

\* The place of x when the table of c rows of r that it lies in is transposed.
Transpose(x, r, c) == x - (x % (r * c)) + ((x % (r * c)) \div r) + ((x % (r * c)) % r) * c

\* Two transpositions, one after the other.
LEMMA Transposed ==
  ASSUME NEW a \in Nat \ {0}, NEW b \in Nat \ {0}, NEW n \in Nat
  PROVE  Transpose(n, a, b) \in Nat /\ Transpose(Transpose(n, a, b), b, a) = n
<1> DEFINE N == a * b
           low == n % N
           g == n \div N
           i == low % a
           j == low \div a
           m == i * b + j
<1>1. N \in Nat \ {0} /\ b * a = N
  OBVIOUS
<1>2. g \in Nat /\ low \in 0 .. N - 1 /\ n = g * N + low
  BY <1>1, DivMod
<1>3. i \in 0 .. a - 1 /\ j \in 0 .. b - 1 /\ low = j * a + i
  <2> HIDE DEF low
  <2>1. low \in 0 .. a * b - 1 /\ low \in Nat
    BY <1>1, <1>2
  <2>2. low \div a \in 0 .. b - 1
    BY <2>1, OfTable
  <2>3. low % a \in 0 .. a - 1 /\ low = (low \div a) * a + (low % a)
    BY <2>1, DivMod
  <2>4. QED
    BY <2>2, <2>3
<1>4. m \in 0 .. N - 1
  <2> HIDE DEF i, j
  <2>1. i * b + j \in 0 .. b * a - 1
    BY <1>3, InTable
  <2>2. QED
    BY <1>1, <2>1
<1>5. Transpose(n, a, b) = g * N + m
  <2> HIDE DEF g, i, j
  <2>1. n - (n % N) = g * N
    BY <1>1, <1>2
  <2>2. Transpose(n, a, b) = n - (n % N) + j + i * b
    BY DEF i, j, Transpose
  <2>3. QED
    BY <1>1, <1>2, <1>3, <2>1, <2>2
<1> DEFINE p == g * N + m
<1>6. p \in Nat /\ p % N = m
  <2> HIDE DEF N, g, m
  <2>1. g * N \in Nat
    BY <1>1, <1>2
  <2>2. p \in Nat
    BY <1>1, <1>4, <2>1
  <2>3. (g * N + m) % N = m
    BY <1>1, <1>2, <1>4, Division
  <2>4. QED
    BY <2>2, <2>3
<1>7. m \div b = i /\ m % b = j
  <2> HIDE DEF i, j
  <2>1. QED
    BY <1>3, Division
<1>8. Transpose(p, b, a) = p - m + i + j * a
  <2>1. p % (b * a) = m
    BY <1>1, <1>6
  <2> HIDE DEF p, m, i, j
  <2>2. QED
    BY <2>1, <1>7 DEF Transpose
<1>9. Transpose(p, b, a) = n
  <2> HIDE DEF N, low, i, j, g, m
  <2>1. g * N \in Nat /\ m \in Int
    BY <1>1, <1>2, <1>4
  <2>2. p - m = g * N
    BY <2>1
  <2>3. j * a \in Int /\ i \in Int /\ i + j * a = low
    BY <1>3
  <2> HIDE DEF p
  <2>4. p \in Int
    BY <1>6
  <2>5. p - m + i + j * a = (p - m) + low
    BY <2>1, <2>3, <2>4
  <2>6. QED
    BY <1>2, <1>8, <2>2, <2>5
<1>10. QED
  BY <1>5, <1>6, <1>9

\* The input that convert/mod.rs finds at a place is the input that
\* rfinput/mod.rs puts there, and the other way round: what InputsAndAntennasAgree
\* and the reads of LegacyConversion rely on, whatever the size of the table.
THEOREM OrdersAreInverse ==
  ASSUME NEW n \in Nat
  PROVE  /\ fine_pfb_reorder(n) \in Nat /\ get_vcs_order(n) \in Nat
         /\ get_vcs_order(fine_pfb_reorder(n)) = n
         /\ fine_pfb_reorder(get_vcs_order(n)) = n
<1>1. Lanes \in Nat \ {0} /\ PerLane \in Nat \ {0} /\ Lanes * PerLane = PerLane * Lanes
  BY LanesAssumption
<1>2. ASSUME NEW x \in Nat PROVE get_vcs_order(x) = Transpose(x, PerLane, Lanes)
  BY <1>1, <1>2 DEF get_vcs_order, Transpose
<1>3. ASSUME NEW x \in Nat PROVE fine_pfb_reorder(x) = Transpose(x, Lanes, PerLane)
  <2> DEFINE low == x % (Lanes * PerLane)
             column == (low % Lanes) * PerLane
  <2>1. Lanes * PerLane \in Nat \ {0}
    BY <1>1
  <2>2. low \in Nat
    BY <2>1, DivMod
  <2>3. low \div Lanes \in Nat /\ low % Lanes \in Nat
    BY <1>1, <2>2, DivMod
  <2>4. column \in Nat
    BY <1>1, <2>3
  <2>5. fine_pfb_reorder(x) = x - low + column + (low \div Lanes)
    BY DEF fine_pfb_reorder
  <2>6. Transpose(x, Lanes, PerLane) = x - low + (low \div Lanes) + column
    BY DEF Transpose
  <2> HIDE DEF low, column
  <2>7. QED
    BY <2>2, <2>3, <2>4, <2>5, <2>6
<1>4. Transpose(n, Lanes, PerLane) \in Nat /\ Transpose(Transpose(n, Lanes, PerLane), PerLane, Lanes) = n
  BY <1>1, Transposed
<1>5. Transpose(n, PerLane, Lanes) \in Nat /\ Transpose(Transpose(n, PerLane, Lanes), Lanes, PerLane) = n
  BY <1>1, Transposed
<1>6. QED
  BY <1>2, <1>3, <1>4, <1>5

-----------------------------------------------------------------------------
(* The steps. *)

Special == {"open", "mode", "reopen", "channel 0"}

LEMMA StepNames ==
  /\ DOMAIN Steps = 1 .. 44 /\ Len(Steps) = 44
  /\ Steps[7] = "TILEDATA"
  /\ \A i \in 1 .. 44 : Steps[i] = "TILEDATA" => i = 7
  /\ \A i \in 1 .. 44 : Steps[i] \notin Special
BY DEF Steps, Special

\* A step can be wrong with the key or the table.
LEMMA KeyFaults ==
  ASSUME NEW file, IsMetafits(file), NEW i \in 1 .. 44
  PROVE  /\ i \in Bad(file) <=> Fails(file, Steps[i]) \/ Panics(file, Steps[i])
         /\ i \in Bad(file) => Steps[i] # "TILEDATA"
         /\ Panics(file, Steps[i]) => Steps[i] \in {"CHANNELS", "DATE-OBS", "DELAYS"} \cup Computed
<1>1. (Unwrapped \cup Computed) \cap Text = {}
  BY DEF Unwrapped, Computed, Text
<1>2. Condition(file, Steps[i]) \in {"absent", "malformed"} => Steps[i] \in Keys
  BY DEF Condition, IsMetafits
<1>3. i \in Bad(file) <=> Fails(file, Steps[i]) \/ Panics(file, Steps[i])
  BY <1>1, StepNames DEF Bad, Fails, Panics
<1>4. QED
  BY <1>2, <1>3, StepNames DEF Bad, Keys, Panics, Unwrapped

-----------------------------------------------------------------------------
(* The reading of the first file and the table. *)

Metafits == (Files \cup Replacements) \ {GONE}

Stages == {"open", "read", "coarse", "timesteps", "ok", "err", "panic"}

FilesInv ==
  /\ disk \in Metafits \cup {GONE} /\ asked \in {NONE} \cup Versions /\ pc \in Stages
  /\ pc \in {"read", "coarse", "timesteps", "ok"} => opened \in Metafits
  /\ pc \in {"timesteps", "ok"} => reopened \in Metafits

\* The inputs in the order of the rows, and what is wrong with a file.
Table(file) == [k \in 1 .. file.ninputs |-> Rfinput(file.rows[k])]
Wrong(file) == Bad(file) \cup (IF TableIsRead(file) THEN {} ELSE {7})

\* What the loop over the keys has behind it is sound, and the rows it has read
\* are those of the file.
RowsRead(n) ==
  /\ inputs = [k \in 1 .. n |-> Rfinput(opened.rows[k])]
  /\ \A k \in 1 .. n : k \in DOMAIN opened.rows /\ opened.rows[k].fault = "none"
KeysInv ==
  /\ pc = "open" => at = 1 /\ inputs = <<>>
  /\ pc = "read" =>
       /\ at \in 1 .. 45
       /\ \A i \in Bad(opened) : at <= i
       /\ at < 7 => inputs = <<>>
       /\ at = 7 => \E n \in 0 .. opened.ninputs : RowsRead(n)
       /\ at > 7 => /\ TableIsRead(opened)
                    /\ inputs = BySubfile(Table(opened)) /\ antennas = populate_antennas(inputs)

\* What new_inner works with.
ReadInv ==
  pc \in {"coarse", "timesteps", "ok"} =>
    /\ Wrong(opened) = {} /\ version \in Versions
    /\ antennas = populate_antennas(BySubfile(Table(opened)))
    /\ inputs = (IF version = "VCSLegacyRecombined" THEN ByVcs(BySubfile(Table(opened)))
                 ELSE BySubfile(Table(opened)))

CoarseInv ==
  pc \in {"timesteps", "ok"} =>
    coarse = ExpectedCoarse(reopened) /\ fine = FineCentres(version, coarse)

TimestepsInv ==
  pc = "ok" =>
    /\ Interval(version) # 0
    /\ timesteps = [k \in 1 .. (Duration + Interval(version) - 1) \div Interval(version) |->
                      (k - 1) * Interval(version)]

ReplyInv ==
  reply # NONE => pc = "ok" /\ (reply.kind = "panic" => Len(timesteps) = 0 \/ Len(coarse) = 0)



LEMMA VersionsAreKnown ==
  /\ Chosen \in Versions \cup {NONE} \/ asked \notin Versions \cup {NONE}
  /\ \A mode : VersionOf(mode) \in Versions \cup {NONE}
<1>1. \A mode : VersionOf(mode) \in Versions \cup {NONE}
  BY DEF VersionOf, Versions, LegacyVersions
<1>2. QED
  BY <1>1 DEF Chosen

LEMMA FilesNext == FilesInv /\ [Next]_vars => FilesInv'
<1>1. SUFFICES ASSUME FilesInv, [Next]_vars PROVE FilesInv'
  OBVIOUS
<1>2. CASE RefuseToOpen \/ Open
  BY <1>1, <1>2 DEF FilesInv, RefuseToOpen, Open, CannotOpen, Stop, environment, Stages
<1>3. CASE ReadKey \/ RefuseKey \/ ReadRow \/ RefuseRow \/ TableRead
  BY <1>1, <1>3 DEF FilesInv, ReadKey, RefuseKey, ReadRow, RefuseRow, TableRead, Reading, RowIsRead,
                    Stop, environment, Stages
<1>4. CASE DetermineVersion \/ RefuseMode
  BY <1>1, <1>4 DEF FilesInv, DetermineVersion, RefuseMode, AllRead, Stop, environment, Stages
<1>5. CASE RefuseCoarse \/ PopulateCoarse
  BY <1>1, <1>5 DEF FilesInv, RefuseCoarse, PopulateCoarse, PopulatesCoarse, Stop, environment, Stages
<1>6. CASE PopulateTimesteps \/ PanicAtTimesteps
  BY <1>1, <1>6 DEF FilesInv, PopulateTimesteps, PanicAtTimesteps, Stop, environment, Stages
<1>7. CASE GenerateExpectedVoltFilename
  BY <1>1, <1>7 DEF FilesInv, GenerateExpectedVoltFilename, environment
<1>8. CASE Replace
  BY <1>1, <1>8 DEF FilesInv, Replace, Metafits
<1>9. CASE UNCHANGED vars
  BY <1>1, <1>9 DEF FilesInv, vars, environment
<1>10. QED
  BY <1>1, <1>2, <1>3, <1>4, <1>5, <1>6, <1>7, <1>8, <1>9 DEF Next, NewInternal, NewInner

\* What a file is, and what is read from the one that was opened.
LEMMA FilesAreMetafits == \A file \in Metafits : IsMetafits(file)
BY FilesAssumption DEF Metafits

LEMMA SameTable ==
  ASSUME opened' = opened
  PROVE  /\ \A row : Rfinput(row)' = Rfinput(row)
         /\ Table(opened)' = Table(opened)
<1>1. \A row : Rfinput(row)' = Rfinput(row)
  BY DEF Rfinput
<1>2. QED
  BY <1>1 DEF Table

LEMMA RowsStay ==
  ASSUME opened' = opened, inputs' = inputs, NEW n, RowsRead(n)
  PROVE  RowsRead(n)'
BY SameTable DEF RowsRead

\* The step that is read is sound, and so are those before it.
LEMMA SoundSoFar ==
  ASSUME KeysInv, FilesInv, pc = "read", at \in 1 .. 44, at \notin Bad(opened)
  PROVE  \A i \in Bad(opened) : at + 1 <= i
<1>1. \A i \in Bad(opened) : i \in 1 .. 44 /\ at <= i
  BY StepNames DEF KeysInv, Bad
<1>2. QED
  BY <1>1

LEMMA KeysNext == FilesInv /\ KeysInv /\ [Next]_vars => KeysInv'
<1>1. SUFFICES ASSUME FilesInv, KeysInv, [Next]_vars, pc' \in {"open", "read"} PROVE KeysInv'
  BY DEF KeysInv
<1>2. CASE Open
  <2>1. pc' = "read" /\ at' = 1 /\ inputs' = <<>>
    BY <1>1, <1>2 DEF Open, context, KeysInv
  <2>2. \A i \in Bad(opened') : 1 <= i
    BY StepNames DEF Bad
  <2>3. QED
    BY <2>1, <2>2 DEF KeysInv
<1>3. ASSUME pc = "read" PROVE opened \in Metafits /\ IsMetafits(opened) /\ opened.ninputs \in Nat
  BY <1>1, <1>3, FilesAreMetafits DEF FilesInv, IsMetafits
<1>4. CASE ReadKey
  <2>1. /\ pc = "read" /\ pc' = "read" /\ at \in 1 .. 44 /\ at' = at + 1 /\ Steps[at] \in Keys
        /\ opened' = opened /\ inputs' = inputs /\ antennas' = antennas
        /\ ~Fails(opened, Steps[at]) /\ ~Panics(opened, Steps[at])
    BY <1>4, StepNames DEF ReadKey, Reading, context
  <2>2. at # 7
    BY <2>1, StepNames DEF Keys
  <2>3. \A i \in Bad(opened) : at + 1 <= i
    BY <1>1, <1>3, <2>1, KeyFaults, SoundSoFar
  <2>4. at + 1 = 7 => RowsRead(0)'
    BY <1>1, <2>1 DEF KeysInv, RowsRead
  <2>5. Table(opened)' = Table(opened)
    BY <2>1, SameTable
  <2>6. at + 1 > 7 => /\ TableIsRead(opened)
                      /\ inputs = BySubfile(Table(opened)) /\ antennas = populate_antennas(inputs)
    BY <1>1, <2>1, <2>2 DEF KeysInv
  <2>7. at' < 7 => inputs' = <<>>
    BY <1>1, <2>1 DEF KeysInv
  <2>8. at' \in 1 .. 45 /\ \A i \in Bad(opened') : at' <= i
    BY <2>1, <2>3
  <2>9. at' = 7 => \E n \in 0 .. opened'.ninputs : RowsRead(n)'
    BY <1>3, <2>1, <2>4
  <2>10. at' > 7 => /\ TableIsRead(opened')
                    /\ inputs' = BySubfile(Table(opened)') /\ antennas' = populate_antennas(inputs')
    BY <2>1, <2>5, <2>6
  <2>11. QED
    BY <2>1, <2>7, <2>8, <2>9, <2>10 DEF KeysInv
<1>5. CASE ReadRow
  <2>1. /\ pc = "read" /\ pc' = "read" /\ at = 7 /\ at' = 7 /\ opened' = opened
        /\ Len(inputs) < opened.ninputs /\ RowFault = "none"
        /\ inputs' = Append(inputs, Rfinput(opened.rows[Row]))
    BY <1>5, StepNames DEF ReadRow, RowIsRead, Reading
  <2>2. PICK n \in 0 .. opened.ninputs : RowsRead(n)
    BY <1>1, <2>1 DEF KeysInv
  <2>3. n \in Nat /\ Len(inputs) = n /\ Row = n + 1 /\ n + 1 <= opened.ninputs
    BY <1>3, <2>1, <2>2 DEF RowsRead, Row
  <2>4. inputs' = [k \in 1 .. n + 1 |-> Rfinput(opened.rows[k])]
    BY <2>1, <2>2, <2>3 DEF RowsRead
  <2>5. n + 1 \in DOMAIN opened.rows /\ opened.rows[n + 1].fault = "none"
    BY <2>1, <2>3 DEF RowFault
  <2>6. RowsRead(n + 1)'
    <3>1. \A k \in 1 .. n + 1 : k \in DOMAIN opened.rows /\ opened.rows[k].fault = "none"
      BY <2>2, <2>3, <2>5 DEF RowsRead
    <3>2. inputs' = [k \in 1 .. n + 1 |-> Rfinput(opened.rows[k])']
      BY <2>1, <2>4, SameTable
    <3>3. QED
      BY <2>1, <3>1, <3>2 DEF RowsRead
  <2>7. QED
    BY <1>1, <2>1, <2>3, <2>6 DEF KeysInv
<1>6. CASE TableRead
  <2>0. /\ Reading({"TILEDATA"}) /\ at' = at + 1 /\ UNCHANGED <<opened, pc>>
        /\ Len(inputs) = opened.ninputs /\ inputs' = BySubfile(inputs)
        /\ antennas' = populate_antennas(inputs')
    BY <1>6, Zenon DEF TableRead
  <2>1. /\ pc = "read" /\ pc' = "read" /\ at = 7 /\ at' = 8 /\ opened' = opened
        /\ Len(inputs) = opened.ninputs /\ inputs' = BySubfile(inputs)
        /\ antennas' = populate_antennas(inputs')
    <3>1. pc = "read" /\ at = 7
      BY <2>0, StepNames DEF Reading
    <3>2. at' = 8
      BY <2>0, <3>1
    <3>3. QED
      BY <2>0, <3>1, <3>2
  <2>2. PICK n \in 0 .. opened.ninputs : RowsRead(n)
    BY <1>1, <2>1 DEF KeysInv
  <2>3. n = opened.ninputs
    BY <1>3, <2>1, <2>2 DEF RowsRead
  <2>4. inputs = Table(opened) /\ TableIsRead(opened)
    BY <2>2, <2>3 DEF RowsRead, Table, TableIsRead
  <2>5. 7 \notin Bad(opened)
    <3>1. IsMetafits(opened) /\ 7 \in 1 .. 44
      BY <1>3, <2>1
    <3>2. 7 \in Bad(opened) => Steps[7] # "TILEDATA"
      BY <3>1, KeyFaults
    <3>3. QED
      BY <3>2, StepNames
  <2>6. \A i \in Bad(opened) : 8 <= i
    <3>1. at \in 1 .. 44 /\ at \notin Bad(opened) /\ at + 1 = 8
      BY <2>1, <2>5
    <3>2. \A i \in Bad(opened) : at + 1 <= i
      BY <1>1, <2>1, <3>1, SoundSoFar
    <3>3. QED
      BY <3>1, <3>2
  <2>7. Table(opened)' = Table(opened)
    BY <2>1, SameTable
  <2>8. QED
    BY <2>1, <2>4, <2>6, <2>7 DEF KeysInv
<1>7. ASSUME UNCHANGED <<opened, pc, at, inputs, antennas>> PROVE KeysInv'
  <2>1. Table(opened)' = Table(opened)
    BY <1>7, SameTable
  <2>2. pc = "read" /\ at = 7 => \E n \in 0 .. opened'.ninputs : RowsRead(n)'
    BY <1>1, <1>7, RowsStay DEF KeysInv
  <2>3. QED
    BY <1>1, <1>7, <2>1, <2>2 DEF KeysInv
<1>8. CASE Replace \/ UNCHANGED vars
  BY <1>7, <1>8 DEF Replace, vars, context
<1>9. QED
  BY <1>1, <1>2, <1>4, <1>5, <1>6, <1>8 DEF Next, NewInternal, NewInner, RefuseToOpen, RefuseKey, RefuseRow,
     DetermineVersion, RefuseMode, RefuseCoarse, PopulateCoarse, PopulateTimesteps, PanicAtTimesteps,
     GenerateExpectedVoltFilename, Stop

LEMMA ReadNext == FilesInv /\ KeysInv /\ ReadInv /\ [Next]_vars => ReadInv'
<1>1. SUFFICES ASSUME FilesInv, KeysInv, ReadInv, [Next]_vars, pc' \in {"coarse", "timesteps", "ok"}
               PROVE  ReadInv'
  BY DEF ReadInv
<1>2. CASE DetermineVersion
  <2>1. /\ pc = "read" /\ at = 45 /\ opened' = opened /\ Chosen # NONE /\ version' = Chosen
        /\ inputs' = IF Chosen = "VCSLegacyRecombined" THEN ByVcs(inputs) ELSE inputs
        /\ antennas' = antennas
    BY <1>2, StepNames DEF DetermineVersion, AllRead
  <2>2. asked \in Versions \cup {NONE}
    BY <1>1 DEF FilesInv
  <2>3. version' \in Versions
    BY <2>1, <2>2, VersionsAreKnown
  <2>4. Wrong(opened) = {}
    <3>1. \A i \in Bad(opened) : i \in 1 .. 44 /\ 45 <= i
      BY <1>1, <2>1, StepNames DEF KeysInv, Bad
    <3>2. Bad(opened) = {}
      BY <3>1
    <3>3. QED
      BY <1>1, <2>1, <3>2 DEF KeysInv, Wrong
  <2>5. inputs = BySubfile(Table(opened)) /\ antennas = populate_antennas(inputs)
    BY <1>1, <2>1 DEF KeysInv
  <2>6. Table(opened)' = Table(opened) /\ Wrong(opened') = {}
    BY <2>1, <2>4, SameTable
  <2>7. QED
    BY <2>1, <2>3, <2>5, <2>6, Zenon DEF ReadInv
<1>3. ASSUME UNCHANGED <<opened, inputs, antennas, version>>, pc \in {"coarse", "timesteps", "ok"}
      PROVE  ReadInv'
  <2>1. Table(opened)' = Table(opened) /\ Wrong(opened') = Wrong(opened)
    BY <1>3, SameTable
  <2>2. QED
    BY <1>1, <1>3, <2>1 DEF ReadInv
<1>4. CASE PopulateCoarse \/ PopulateTimesteps \/ GenerateExpectedVoltFilename \/ Replace
  BY <1>3, <1>4 DEF PopulateCoarse, PopulatesCoarse, PopulateTimesteps, GenerateExpectedVoltFilename,
                    Replace, context
<1>5. CASE UNCHANGED vars
  BY <1>1, <1>3, <1>5 DEF vars, context
<1>6. QED
  BY <1>1, <1>2, <1>4, <1>5 DEF Next, NewInternal, NewInner, Open, ReadKey, ReadRow, TableRead, Reading,
     RowIsRead, RefuseToOpen, RefuseKey, RefuseRow, RefuseMode, RefuseCoarse, PanicAtTimesteps, Stop

\* What is computed of a file depends on no other variable than the file opened.
LEMMA SameCoarse ==
  ASSUME opened' = opened
  PROVE  /\ \A file : ExpectedCoarse(file)' = ExpectedCoarse(file)
         /\ \A v, chans : FineCentres(v, chans)' = FineCentres(v, chans)
         /\ \A v : Interval(v)' = Interval(v)
         /\ Duration' = Duration
<1>1. \A file : Width(file)' = Width(file)
  BY DEF Width
<1>2. \A file : ExpectedCoarse(file)' = ExpectedCoarse(file)
  BY <1>1 DEF ExpectedCoarse
<1>3. \A v : FineWidth(v)' = FineWidth(v)
  BY <1>1 DEF FineWidth
<1>4. \A v : NumFine(v)' = NumFine(v)
  BY <1>1, <1>3 DEF NumFine
<1>5. \A v, chan, k : FineCentre(v, chan, k)' = FineCentre(v, chan, k)
  BY <1>3, <1>4 DEF FineCentre
<1>6. \A v, chans : FineCentres(v, chans)' = FineCentres(v, chans)
  BY <1>4, <1>5 DEF FineCentres
<1>7. QED
  BY <1>2, <1>6 DEF Interval, Duration

LEMMA CoarseNext == CoarseInv /\ [Next]_vars => CoarseInv'
<1>1. SUFFICES ASSUME CoarseInv, [Next]_vars, pc' \in {"timesteps", "ok"} PROVE CoarseInv'
  BY DEF CoarseInv
<1>2. CASE PopulateCoarse
  <2>1. /\ opened' = opened /\ version' = version /\ reopened' = disk
        /\ coarse' = ExpectedCoarse(disk) /\ fine' = FineCentres(version, coarse')
    BY <1>2 DEF PopulateCoarse
  <2>2. PICK file, chans : file = disk /\ chans = coarse'
    OBVIOUS
  <2>3. reopened' = file /\ coarse' = ExpectedCoarse(file)' /\ fine' = FineCentres(version, chans)'
    <3>1. ExpectedCoarse(file)' = ExpectedCoarse(file)
      BY <2>1, SameCoarse
    <3>2. PICK v : v = version
      OBVIOUS
    <3>3. FineCentres(v, chans)' = FineCentres(v, chans)
      BY <2>1, SameCoarse
    <3>4. QED
      BY <2>1, <2>2, <3>1, <3>2, <3>3
  <2>4. QED
    BY <2>2, <2>3 DEF CoarseInv
<1>3. ASSUME UNCHANGED <<opened, reopened, version, coarse, fine>>, pc \in {"timesteps", "ok"}
      PROVE  CoarseInv'
  <2>1. PICK file, v, chans : file = reopened /\ v = version /\ chans = coarse
    OBVIOUS
  <2>2. ExpectedCoarse(file)' = ExpectedCoarse(file) /\ FineCentres(v, chans)' = FineCentres(v, chans)
    BY <1>3, SameCoarse
  <2>3. coarse = ExpectedCoarse(file) /\ fine = FineCentres(v, chans)
    BY <1>1, <1>3, <2>1 DEF CoarseInv
  <2>4. reopened' = file /\ version' = v /\ coarse' = chans
    BY <1>3, <2>1
  <2>5. QED
    BY <1>3, <2>1, <2>2, <2>3, <2>4 DEF CoarseInv
<1>4. CASE PopulateTimesteps \/ GenerateExpectedVoltFilename
  BY <1>3, <1>4 DEF PopulateTimesteps, GenerateExpectedVoltFilename, context
<1>5. CASE UNCHANGED vars
  BY <1>1, <1>3, <1>5 DEF vars, context
<1>6. QED
  BY <1>1, <1>2, <1>4, <1>5 DEF Next, NewInternal, NewInner, Open, ReadKey, ReadRow, TableRead, Reading,
     RowIsRead, RefuseToOpen, RefuseKey, RefuseRow, RefuseMode, RefuseCoarse, PanicAtTimesteps, Stop,
     DetermineVersion, Replace

LEMMA TimestepsNext == TimestepsInv /\ [Next]_vars => TimestepsInv'
<1>1. SUFFICES ASSUME TimestepsInv, [Next]_vars, pc' = "ok" PROVE TimestepsInv'
  BY DEF TimestepsInv
<1>2. CASE PopulateTimesteps
  <2> DEFINE count == (Duration + Interval(version) - 1) \div Interval(version)
  <2>1. PICK v, d, s : v = version /\ d = Duration /\ s = Interval(version)
    OBVIOUS
  <2>2. /\ s # 0 /\ opened' = opened /\ version' = v
        /\ timesteps' = [k \in 1 .. (d + s - 1) \div s |-> (k - 1) * s]
    BY <1>2, <2>1 DEF PopulateTimesteps
  <2>3. Interval(version)' = s /\ Duration' = d
    <3>1. Interval(v)' = Interval(v) /\ Duration' = Duration
      BY <2>2, SameCoarse
    <3>2. QED
      BY <2>1, <2>2, <3>1
  <2>4. QED
    BY <2>2, <2>3 DEF TimestepsInv
<1>3. ASSUME UNCHANGED <<opened, version, timesteps>>, pc = "ok" PROVE TimestepsInv'
  <2>1. PICK v, d, s : v = version /\ d = Duration /\ s = Interval(version)
    OBVIOUS
  <2>2. Interval(v)' = Interval(v) /\ Duration' = Duration
    BY <1>3, SameCoarse
  <2>3. Interval(version)' = s /\ Duration' = d
    BY <1>3, <2>1, <2>2
  <2>4. s # 0 /\ timesteps = [k \in 1 .. (d + s - 1) \div s |-> (k - 1) * s]
    BY <1>1, <1>3, <2>1 DEF TimestepsInv
  <2>5. QED
    BY <1>3, <2>3, <2>4 DEF TimestepsInv
<1>4. CASE GenerateExpectedVoltFilename
  BY <1>3, <1>4 DEF GenerateExpectedVoltFilename, context
<1>5. CASE UNCHANGED vars
  BY <1>1, <1>3, <1>5 DEF vars, context
<1>6. QED
  BY <1>1, <1>2, <1>4, <1>5 DEF Next, NewInternal, NewInner, Open, ReadKey, ReadRow, TableRead, Reading,
     RowIsRead, RefuseToOpen, RefuseKey, RefuseRow, RefuseMode, RefuseCoarse, PanicAtTimesteps, Stop,
     DetermineVersion, Replace, PopulateCoarse

LEMMA ReplyNext == ReplyInv /\ [Next]_vars => ReplyInv'
<1>1. SUFFICES ASSUME ReplyInv, [Next]_vars, reply' # NONE PROVE ReplyInv'
  BY DEF ReplyInv
<1>2. CASE GenerateExpectedVoltFilename
  <2>1. PICK t, c : reply' = ExpectedName(t, c)
    BY <1>2 DEF GenerateExpectedVoltFilename
  <2>2. pc' = "ok" /\ UNCHANGED <<timesteps, coarse>>
    BY <1>2 DEF GenerateExpectedVoltFilename, context
  <2>3. reply'.kind = "panic" => Len(timesteps) = 0 \/ Len(coarse) = 0
    BY <2>1 DEF ExpectedName, OutOfRange
  <2>4. QED
    BY <2>2, <2>3 DEF ReplyInv
<1>3. CASE UNCHANGED <<reply, pc, timesteps, coarse>>
  BY <1>1, <1>3 DEF ReplyInv
<1>4. CASE pc # "ok" /\ reply' = reply
  BY <1>1, <1>4 DEF ReplyInv
<1>5. QED
  BY <1>1, <1>2, <1>3, <1>4 DEF Next, NewInternal, NewInner, Open, ReadKey, ReadRow, TableRead, Reading,
     RowIsRead, RefuseToOpen, RefuseKey, RefuseRow, RefuseMode, RefuseCoarse, PanicAtTimesteps, Stop,
     DetermineVersion, Replace, PopulateCoarse, PopulatesCoarse, PopulateTimesteps, AllRead, vars, context

-----------------------------------------------------------------------------
(* The reason for which new fails. *)

\* A step that is wrong, and nothing before it is.
IsFirst(step) == \E i \in Wrong(opened) : Steps[i] = step /\ \A j \in Wrong(opened) : i <= j

PanicsOf == {"CHANNELS", "DATE-OBS", "DELAYS", "TILEDATA", "channel 0", "INTTIME"} \cup Computed

\* What DecidesForAReason says of a failure, reason by reason.
Explained ==
  \/ why = "open" /\ pc = "err" /\ (opened = GONE \/ opened.hdus < 2)
  \/ why = "mode" /\ pc = "err" /\ Wrong(opened) = {} /\ asked = NONE
  \/ why = "reopen" /\ pc = "err" /\ Wrong(opened) = {} /\ reopened = GONE
  \/ /\ why = "channel 0" /\ Wrong(opened) = {}
     /\ \E k \in DOMAIN reopened.chans : reopened.chans[k] = 0
  \/ why = "INTTIME" /\ Wrong(opened) = {} /\ opened.inttime = 0 /\ pc = "panic"
  \/ why = "CHANNELS" /\ Wrong(opened) = {} /\ "CHANNELS" \in DOMAIN reopened.faults
  \/ why \notin Special /\ IsFirst(why) /\ (pc = "panic" => why \in PanicsOf)

ReasonInv == pc \in {"err", "panic"} => Explained

LEMMA ExplainedSuffices ==
  ASSUME pc \in {"err", "panic"}, Explained
  PROVE  DecidesForAReason
<1>1. IsFirst(why) => Wrong(opened) # {}
  BY DEF IsFirst
<1>2. Wrong(opened) = Bad(opened) \cup (IF TableIsRead(opened) THEN {} ELSE {7})
  BY DEF Wrong
<1>3. pc = "panic" => why \in PanicsOf
  BY DEF Explained, PanicsOf
<1>4. CASE why = "open" \/ why = "mode" \/ why = "reopen" \/ why = "channel 0"
  BY <1>2, <1>3, <1>4 DEF Explained, Special, DecidesForAReason, PanicsOf
<1>5. CASE why \notin Special
  BY <1>1, <1>2, <1>3, <1>5 DEF Explained, Special, DecidesForAReason, PanicsOf, IsFirst
<1>6. QED
  BY <1>4, <1>5 DEF Special

LEMMA ExplainedStays ==
  ASSUME UNCHANGED <<asked, opened, reopened, pc, why>>
  PROVE  ReasonInv => ReasonInv'
<1>1. Wrong(opened)' = Wrong(opened)
  OBVIOUS
<1>2. \A step : IsFirst(step)' <=> IsFirst(step)
  BY <1>1 DEF IsFirst
<1>3. Explained => Explained'
  BY <1>1, <1>2 DEF Explained
<1>4. QED
  BY <1>3 DEF ReasonInv

\* A key or the table at which new stops is the first thing that is wrong.
LEMMA FirstIsHere ==
  ASSUME FilesInv, KeysInv, pc = "read", at \in 1 .. 44, at \in Wrong(opened), opened' = opened,
         why' = Steps[at], pc' \in {"err", "panic"}, pc' = "panic" => why' \in PanicsOf
  PROVE  Explained'
<1>1. IsMetafits(opened)
  BY FilesAreMetafits DEF FilesInv
<1>2. ASSUME NEW j \in Wrong(opened) PROVE at <= j
  <2>1. CASE j \in Bad(opened)
    BY <2>1 DEF KeysInv
  <2>2. CASE ~TableIsRead(opened) /\ j = 7
    <3>1. ~(at > 7)
      BY <2>2 DEF KeysInv
    <3>2. QED
      BY <2>2, <3>1
  <2>3. QED
    BY <1>2, <2>1, <2>2 DEF Wrong
<1>3. why' \notin Special
  BY StepNames
<1>4. IsFirst(why)'
  <2>1. PICK i : i = at
    OBVIOUS
  <2>2. i \in Wrong(opened) /\ \A j \in Wrong(opened) : i <= j
    BY <1>2, <2>1
  <2>3. Wrong(opened)' = Wrong(opened)
    OBVIOUS
  <2>4. Steps[i] = why'
    BY <2>1
  <2>5. QED
    BY <2>2, <2>3, <2>4 DEF IsFirst
<1>5. QED
  BY <1>3, <1>4 DEF Explained

LEMMA ReasonNext ==
  FilesInv /\ KeysInv /\ ReadInv /\ ReasonInv /\ [Next]_vars => ReasonInv'
<1>1. SUFFICES ASSUME FilesInv, KeysInv, ReadInv, ReasonInv, [Next]_vars, pc' \in {"err", "panic"}
               PROVE  Explained'
  BY DEF ReasonInv
<1>2. CASE RefuseToOpen
  BY <1>2 DEF RefuseToOpen, CannotOpen, Stop, Explained
<1>3. CASE RefuseKey
  <2>1. /\ pc = "read" /\ at \in 1 .. 44 /\ why' = Steps[at] /\ opened' = opened
        /\ \/ Fails(opened, Steps[at]) /\ pc' = "err"
           \/ Panics(opened, Steps[at]) /\ pc' = "panic"
    BY <1>3, StepNames DEF RefuseKey, Reading, Stop
  <2>2. IsMetafits(opened)
    BY <1>1, <2>1, FilesAreMetafits DEF FilesInv
  <2>3. at \in Wrong(opened)
    BY <2>1, <2>2, KeyFaults DEF Wrong
  <2>4. pc' = "panic" => why' \in PanicsOf
    BY <2>1, <2>2, KeyFaults DEF PanicsOf
  <2>5. QED
    BY <1>1, <2>1, <2>3, <2>4, FirstIsHere
<1>4. CASE RefuseRow
  <2>1. /\ pc = "read" /\ at = 7 /\ why' = "TILEDATA" /\ opened' = opened
        /\ Len(inputs) < opened.ninputs /\ RowFault \in {"cell", "pol", "length"}
    BY <1>4, StepNames DEF RefuseRow, RowIsRead, Reading, Stop
  <2>2. PICK n \in 0 .. opened.ninputs : RowsRead(n)
    BY <1>1, <2>1 DEF KeysInv
  <2>3. opened.ninputs \in Nat
    BY <1>1, <2>1, FilesAreMetafits DEF FilesInv, IsMetafits
  <2>4. Row \in 1 .. opened.ninputs
    BY <2>1, <2>2, <2>3 DEF RowsRead, Row
  <2>5. ~(Row \in DOMAIN opened.rows /\ opened.rows[Row].fault = "none")
    BY <2>1 DEF RowFault
  <2>6. ~TableIsRead(opened)
    BY <2>4, <2>5 DEF TableIsRead
  <2>7. at \in Wrong(opened)
    BY <2>1, <2>6 DEF Wrong
  <2>8. at \in 1 .. 44 /\ why' = Steps[at] /\ why' \in PanicsOf
    BY <2>1, StepNames DEF PanicsOf
  <2>9. QED
    BY <1>1, <2>1, <2>7, <2>8, FirstIsHere
<1>5. CASE RefuseMode
  <2>1. pc = "read" /\ at = 45 /\ why' = "mode" /\ pc' = "err" /\ Chosen = NONE
        /\ opened' = opened /\ asked' = asked
    BY <1>5, StepNames DEF RefuseMode, AllRead, Stop, environment
  <2>2. asked = NONE
    BY <2>1 DEF Chosen
  <2>3. \A i \in Bad(opened) : i \in 1 .. 44 /\ 45 <= i
    BY <1>1, <2>1, StepNames DEF KeysInv, Bad
  <2>4. Bad(opened) = {}
    BY <2>3
  <2>5. Wrong(opened) = {}
    BY <1>1, <2>1, <2>4 DEF KeysInv, Wrong
  <2>6. QED
    BY <2>1, <2>2, <2>5 DEF Explained
<1>6. CASE RefuseCoarse
  <2>1. pc = "coarse" /\ reopened' = disk /\ opened' = opened
    BY <1>6 DEF RefuseCoarse, PopulatesCoarse
  <2>2. Wrong(opened)' = {}
    BY <1>1, <2>1 DEF ReadInv
  <2>3. \/ disk = GONE /\ why' = "reopen" /\ pc' = "err"
        \/ why' = "CHANNELS" /\ (Fails(disk, "CHANNELS") \/ Panics(disk, "CHANNELS"))
        \/ why' = "channel 0" /\ \E k \in DOMAIN disk.chans : disk.chans[k] = 0
    BY <1>6 DEF RefuseCoarse, Stop
  <2>4. Fails(disk, "CHANNELS") \/ Panics(disk, "CHANNELS") => "CHANNELS" \in DOMAIN disk.faults
    BY DEF Fails, Panics, Condition
  <2>5. QED
    BY <2>1, <2>2, <2>3, <2>4 DEF Explained
<1>7. CASE PanicAtTimesteps
  <2>1. /\ pc = "timesteps" /\ Interval(version) = 0 /\ why' = "INTTIME" /\ pc' = "panic"
        /\ opened' = opened
    BY <1>7 DEF PanicAtTimesteps, Stop
  <2>2. opened.inttime = 0
    BY <2>1 DEF Interval, Second
  <2>3. Wrong(opened)' = {}
    BY <1>1, <2>1 DEF ReadInv
  <2>4. QED
    BY <2>1, <2>2, <2>3 DEF Explained
<1>8. CASE UNCHANGED vars
  BY <1>1, <1>8, ExplainedStays DEF vars, environment, ReasonInv
<1>9. QED
  BY <1>1, <1>2, <1>3, <1>4, <1>5, <1>6, <1>7, <1>8 DEF Next, NewInternal, NewInner, Open, ReadKey,
     ReadRow, TableRead, Reading, RowIsRead, DetermineVersion, PopulateCoarse, PopulateTimesteps,
     GenerateExpectedVoltFilename, Replace, AllRead

-----------------------------------------------------------------------------
(* The inductive invariant, and the first theorem. *)

IInv == FilesInv /\ KeysInv /\ ReadInv /\ CoarseInv /\ TimestepsInv /\ ReplyInv /\ ReasonInv

LEMMA IInvInit == Init => IInv
<1>1. SUFFICES ASSUME Init PROVE IInv
  OBVIOUS
<1>2. disk \in Metafits \cup {GONE}
  BY <1>1 DEF Init, Metafits
<1>3. QED
  BY <1>1, <1>2 DEF Init, IInv, FilesInv, KeysInv, ReadInv, CoarseInv, TimestepsInv, ReplyInv,
     ReasonInv, Stages

LEMMA IInvariant == Spec => []IInv
<1>1. IInv /\ [Next]_vars => IInv'
  BY FilesNext, KeysNext, ReadNext, CoarseNext, TimestepsNext, ReplyNext, ReasonNext DEF IInv
<1>2. QED
  BY <1>1, IInvInit, PTL DEF Spec

\* MetafitsContext::new answers with the first thing that is wrong with its file,
\* in the order in which it looks, and for nothing else: whatever is wrong with the
\* keys and rows, whatever the version asked for, and whatever takes the place of
\* the file before it is opened again.
THEOREM RefusalsNameTheFirstFault == Spec => []DecidesForAReason
<1>1. IInv => DecidesForAReason
  <2>1. SUFFICES ASSUME IInv PROVE DecidesForAReason
    OBVIOUS
  <2>2. CASE pc \in {"err", "panic"}
    BY <2>1, <2>2, ExplainedSuffices DEF IInv, ReasonInv
  <2>3. CASE pc = "ok"
    <3>1. reopened \in Metafits /\ Wrong(opened) = {} /\ version \in Versions
      BY <2>1, <2>3 DEF IInv, FilesInv, ReadInv
    <3>2. QED
      BY <2>3, <3>1, NoneAssumption DEF DecidesForAReason, Wrong, Metafits
  <2>4. CASE pc \notin {"ok", "err", "panic"}
    BY <2>4 DEF DecidesForAReason
  <2>5. QED
    BY <2>2, <2>3, <2>4
<1>2. QED
  BY <1>1, IInvariant, PTL

-----------------------------------------------------------------------------
(* The sorts. *)

\* An order of the members of a set, as a set of pairs, and the number of
\* members before one.
StrictOrder(S, R) ==
  /\ \A x \in S : <<x, x>> \notin R
  /\ \A x, y, z \in S : <<x, y>> \in R /\ <<y, z>> \in R => <<x, z>> \in R
  /\ \A x, y \in S : <<x, y>> \in R \/ x = y \/ <<y, x>> \in R
Rank(S, R, x) == Cardinality({y \in S : <<y, x>> \in R})

LEMMA NumbersBelow ==
  ASSUME NEW n \in Nat
  PROVE  IsFiniteSet(0 .. n - 1) /\ Cardinality(0 .. n - 1) = n
<1>1. 0 > n - 1 => n = 0
  OBVIOUS
<1>2. QED
  BY <1>1, FS_Interval

\* A set of one has the one.
LEMMA OnlyOne ==
  ASSUME NEW S, IsFiniteSet(S), Cardinality(S) = 1
  PROVE  \E x : S = {x}
BY FS_Singleton

LEMMA NumbersFromOne ==
  ASSUME NEW n \in Nat
  PROVE  IsFiniteSet(1 .. n) /\ Cardinality(1 .. n) = n
<1>1. (1 > n => n = 0) /\ n \in Int /\ 1 \in Int /\ n - 1 + 1 = n
  OBVIOUS
<1>2. /\ IsFiniteSet(1 .. n)
      /\ Cardinality(1 .. n) = IF 1 > n THEN 0 ELSE n - 1 + 1
  BY <1>1, FS_Interval
<1>3. (IF 1 > n THEN 0 ELSE n - 1 + 1) = n
  BY <1>1
<1>4. QED
  BY <1>2, <1>3

\* Each number below that of the members is the rank of one of them.
LEMMA RanksAreTaken ==
  ASSUME NEW S, IsFiniteSet(S), NEW R, StrictOrder(S, R)
  PROVE  /\ Cardinality(S) \in Nat
         /\ \A x \in S : Rank(S, R, x) \in 0 .. Cardinality(S) - 1
         /\ \A x, y \in S : Rank(S, R, x) = Rank(S, R, y) => x = y
         /\ \A k \in 0 .. Cardinality(S) - 1 : \E x \in S : Rank(S, R, x) = k
<1> DEFINE n == Cardinality(S)
           Before(x) == {y \in S : <<y, x>> \in R}
           r == [x \in S |-> Cardinality(Before(x))]
<1>1. n \in Nat
  BY FS_CardinalityType
<1>2. ASSUME NEW x \in S PROVE IsFiniteSet(Before(x)) /\ r[x] \in 0 .. n - 1
  <2>1. Before(x) \in SUBSET S /\ x \in S \ Before(x)
    BY DEF StrictOrder
  <2> HIDE DEF Before
  <2>2. IsFiniteSet(Before(x)) /\ Cardinality(Before(x)) \in Nat /\ Cardinality(Before(x)) <= n
    BY <2>1, FS_Subset, FS_CardinalityType
  <2>3. Cardinality(Before(x)) # n
    BY <2>1, FS_Subset
  <2>4. QED
    BY <1>1, <2>2, <2>3
<1>3. ASSUME NEW x \in S, NEW z \in S, <<x, z>> \in R PROVE r[x] # r[z]
  <2>1. Before(x) \in SUBSET Before(z)
    BY <1>3 DEF StrictOrder
  <2>2. x \in Before(z) /\ x \notin Before(x)
    BY <1>3 DEF StrictOrder
  <2>3. IsFiniteSet(Before(z))
    BY <1>2
  <2> HIDE DEF Before
  <2>4. Cardinality(Before(z)) # Cardinality(Before(x))
    BY <2>1, <2>2, <2>3, FS_Subset
  <2>5. QED
    BY <2>4
<1> HIDE DEF n, Before
<1>4. r \in Injection(S, 0 .. n - 1)
  <2>1. r \in [S -> 0 .. n - 1]
    BY <1>2
  <2>2. \A x, z \in S : r[x] = r[z] => x = z
    <3> HIDE DEF r
    <3>1. QED
      BY <1>3 DEF StrictOrder
  <2>3. QED
    BY <2>1, <2>2 DEF Injection, IsInjective
<1>5. IsFiniteSet(0 .. n - 1) /\ Cardinality(0 .. n - 1) = n
  BY <1>1, NumbersBelow
<1>6. r \in Surjection(S, 0 .. n - 1)
  BY <1>4, <1>5, FS_Injection DEF n
<1>7. \A x \in S : r[x] = Rank(S, R, x)
  BY DEF Rank, Before
<1>8. \A x, y \in S : r[x] = r[y] => x = y
  BY <1>4 DEF Injection, IsInjective
<1>9. \A k \in 0 .. n - 1 : \E x \in S : r[x] = k
  BY <1>6 DEF Surjection
<1> HIDE DEF r
<1>10. QED
  BY <1>1, <1>2, <1>7, <1>8, <1>9 DEF n

\* A numbering of the members from 0 that follows the order gives their ranks.
LEMMA NumbersAreRanks ==
  ASSUME NEW S, NEW R, NEW n \in Nat, NEW f \in Bijection(S, 0 .. n - 1), NEW x \in S,
         \A y, z \in S : <<y, z>> \in R <=> f[y] < f[z]
  PROVE  Rank(S, R, x) = f[x]
<1> DEFINE Before == {y \in S : <<y, x>> \in R}
           g == [y \in Before |-> f[y]]
<1>1. f \in [S -> 0 .. n - 1] /\ f[x] \in Nat /\ f[x] < n
  BY DEF Bijection, Injection
<1>2. g \in Bijection(Before, 0 .. f[x] - 1)
  <2>1. g \in [Before -> 0 .. f[x] - 1]
    BY <1>1
  <2>2. \A y, z \in Before : g[y] = g[z] => y = z
    BY DEF Bijection, Injection, IsInjective
  <2>3. ASSUME NEW k \in 0 .. f[x] - 1 PROVE \E y \in Before : g[y] = k
    <3>1. k \in 0 .. n - 1
      BY <1>1
    <3>2. PICK y \in S : f[y] = k
      BY <3>1 DEF Bijection, Surjection
    <3>3. y \in Before
      BY <1>1, <3>2
    <3>4. QED
      BY <3>2, <3>3
  <2>4. QED
    BY <2>1, <2>2, <2>3 DEF Bijection, Injection, IsInjective, Surjection
<1>3. IsFiniteSet(0 .. f[x] - 1) /\ Cardinality(0 .. f[x] - 1) = f[x]
  BY <1>1, NumbersBelow
<1>4. g \in Injection(Before, 0 .. f[x] - 1) /\ g \in Surjection(Before, 0 .. f[x] - 1)
  BY <1>2 DEF Bijection
<1> HIDE DEF Before, g
<1>5. Cardinality(Before) = Cardinality(0 .. f[x] - 1)
  BY <1>3, <1>4, FS_Injection
<1>6. Cardinality(Before) = f[x]
  BY <1>3, <1>5
<1>7. QED
  BY <1>6 DEF Rank, Before

\* Places by ascending keys, and of equal keys by ascending place.
ByKeys(n, f) == {p \in (1 .. n) \X (1 .. n) : f[p[1]] < f[p[2]] \/ (f[p[1]] = f[p[2]] /\ p[1] < p[2])}

\* p is the order into which a stable sort by these keys puts n places.
Sorts(p, n, f) ==
  /\ p \in [1 .. n -> 1 .. n]
  /\ \A k \in 1 .. n : Rank(1 .. n, ByKeys(n, f), p[k]) = k - 1
  /\ \A i \in 1 .. n : \E k \in 1 .. n : p[k] = i

\* Choosing the place of each rank makes that order.
LEMMA ChoosingSorts ==
  ASSUME NEW n \in Nat, NEW f \in [1 .. n -> Int], NEW p, p = [k \in 1 .. n |-> p[k]],
         \A k \in 1 .. n :
           (\E i \in 1 .. n : Rank(1 .. n, ByKeys(n, f), i) = k - 1) =>
             p[k] \in 1 .. n /\ Rank(1 .. n, ByKeys(n, f), p[k]) = k - 1
  PROVE  Sorts(p, n, f)
<1> DEFINE R == ByKeys(n, f)
<1>1. \A i, j \in 1 .. n : <<i, j>> \in R <=> f[i] < f[j] \/ (f[i] = f[j] /\ i < j)
  BY DEF ByKeys
<1> HIDE DEF R
<1>2. StrictOrder(1 .. n, R)
  <2>1. \A i \in 1 .. n : f[i] \in Int /\ i \in Int
    OBVIOUS
  <2>2. \A i \in 1 .. n : <<i, i>> \notin R
    BY <1>1, <2>1
  <2>3. ASSUME NEW i \in 1 .. n, NEW j \in 1 .. n
        PROVE  <<i, j>> \in R \/ i = j \/ <<j, i>> \in R
    <3>1. \/ f[i] < f[j] \/ (f[i] = f[j] /\ i < j) \/ i = j
          \/ f[j] < f[i] \/ (f[j] = f[i] /\ j < i)
      BY <2>1
    <3>2. QED
      BY <1>1, <3>1
  <2>4. ASSUME NEW i \in 1 .. n, NEW j \in 1 .. n, NEW k \in 1 .. n, <<i, j>> \in R, <<j, k>> \in R
        PROVE  <<i, k>> \in R
    <3>1. /\ f[i] < f[j] \/ (f[i] = f[j] /\ i < j)
          /\ f[j] < f[k] \/ (f[j] = f[k] /\ j < k)
      BY <1>1, <2>4
    <3>2. f[i] < f[k] \/ (f[i] = f[k] /\ i < k)
      BY <2>1, <3>1
    <3>3. QED
      BY <1>1, <3>2
  <2>5. QED
    BY <2>2, <2>3, <2>4 DEF StrictOrder
<1>3. IsFiniteSet(1 .. n) /\ Cardinality(1 .. n) = n
  BY NumbersFromOne
<1>4. /\ \A i \in 1 .. n : Rank(1 .. n, R, i) \in 0 .. n - 1
      /\ \A i, j \in 1 .. n : Rank(1 .. n, R, i) = Rank(1 .. n, R, j) => i = j
      /\ \A k \in 0 .. n - 1 : \E i \in 1 .. n : Rank(1 .. n, R, i) = k
  <2> DEFINE S == 1 .. n
  <2>1. IsFiniteSet(S) /\ Cardinality(S) = n /\ StrictOrder(S, R)
    BY <1>2, <1>3
  <2> HIDE DEF S
  <2>2. /\ \A i \in S : Rank(S, R, i) \in 0 .. n - 1
        /\ \A i, j \in S : Rank(S, R, i) = Rank(S, R, j) => i = j
        /\ \A k \in 0 .. n - 1 : \E i \in S : Rank(S, R, i) = k
    BY <2>1, RanksAreTaken
  <2>3. QED
    BY <2>2 DEF S
<1>5. ASSUME NEW k \in 1 .. n PROVE p[k] \in 1 .. n /\ Rank(1 .. n, R, p[k]) = k - 1
  <2>1. k - 1 \in 0 .. n - 1
    OBVIOUS
  <2>2. \E i \in 1 .. n : Rank(1 .. n, R, i) = k - 1
    BY <1>4, <2>1
  <2>3. QED
    BY <2>2 DEF R
<1>6. ASSUME NEW i \in 1 .. n PROVE \E k \in 1 .. n : p[k] = i
  <2>1. PICK k \in 1 .. n : Rank(1 .. n, R, i) = k - 1
    <3>1. Rank(1 .. n, R, i) \in 0 .. n - 1
      BY <1>4
    <3>2. Rank(1 .. n, R, i) + 1 \in 1 .. n /\ Rank(1 .. n, R, i) = (Rank(1 .. n, R, i) + 1) - 1
      BY <3>1
    <3>3. QED
      BY <3>2
  <2>2. p[k] = i
    BY <1>4, <1>5, <2>1
  <2>3. QED
    BY <2>2
<1>7. p \in [1 .. n -> 1 .. n]
  BY <1>5
<1>8. QED
  BY <1>5, <1>6, <1>7 DEF Sorts, R

\* A list whose places are taken from these ...
Permuted(n, s, p) == [k \in 1 .. n |-> s[p[k]]]

\* ... and the keys of one.
Subfiles(n, s) == [i \in 1 .. n |-> s[i].subfile]
Vcs(n, s)      == [i \in 1 .. n |-> s[i].vcs]
RecsOf(n, s)   == [i \in 1 .. n |-> s[i].rec]

\* What the three sorts of the code make of a list.
LEMMA SortedIs ==
  ASSUME NEW n \in Nat, NEW s, DOMAIN s = 1 .. n
  PROVE  /\ (\A i \in 1 .. n : s[i].subfile \in Int) =>
              \E p : Sorts(p, n, Subfiles(n, s)) /\ BySubfile(s) = Permuted(n, s, p)
         /\ (\A i \in 1 .. n : s[i].vcs \in Int) =>
              \E p : Sorts(p, n, Vcs(n, s)) /\ ByVcs(s) = Permuted(n, s, p)
         /\ (\A i \in 1 .. n : s[i].rec \in Int) =>
              \E p : Sorts(p, n, RecsOf(n, s)) /\ ByRec(s) = Permuted(n, s, p)
<1>1. ASSUME \A i \in 1 .. n : s[i].subfile \in Int
      PROVE  \E p : Sorts(p, n, Subfiles(n, s)) /\ BySubfile(s) = Permuted(n, s, p)
  <2> DEFINE f == [i \in 1 .. n |-> s[i].subfile]
             D(i) == Cardinality({j \in 1 .. n : s[j].subfile < s[i].subfile
                                                   \/ (s[j].subfile = s[i].subfile /\ j < i)})
             p == [k \in 1 .. n |-> CHOOSE i \in 1 .. n : D(i) = k - 1]
  <2>1. f \in [1 .. n -> Int]
    BY <1>1
  <2>2. ASSUME NEW i \in 1 .. n PROVE Rank(1 .. n, ByKeys(n, f), i) = D(i)
    <3>1. {j \in 1 .. n : <<j, i>> \in ByKeys(n, f)}
            = {j \in 1 .. n : s[j].subfile < s[i].subfile \/ (s[j].subfile = s[i].subfile /\ j < i)}
      BY DEF ByKeys
    <3>2. QED
      BY <3>1 DEF Rank
  <2>3. BySubfile(s) = [k \in 1 .. n |-> s[p[k]]]
    BY DEF BySubfile, SortedBy
  <2> HIDE DEF D, f
  <2>4. ASSUME NEW k \in 1 .. n, NEW i \in 1 .. n, Rank(1 .. n, ByKeys(n, f), i) = k - 1
        PROVE  p[k] \in 1 .. n /\ Rank(1 .. n, ByKeys(n, f), p[k]) = k - 1
    <3>1. D(i) = k - 1
      BY <2>2, <2>4
    <3>2. p[k] \in 1 .. n /\ D(p[k]) = k - 1
      BY <3>1
    <3>3. QED
      BY <2>2, <3>2
  <2>5. p = [k \in 1 .. n |-> p[k]]
    OBVIOUS
  <2> HIDE DEF p
  <2>6. Sorts(p, n, f)
    BY <2>1, <2>4, <2>5, ChoosingSorts
  <2>7. QED
    BY <2>3, <2>6 DEF f, Permuted, Subfiles
<1>2. ASSUME \A i \in 1 .. n : s[i].vcs \in Int
      PROVE  \E p : Sorts(p, n, Vcs(n, s)) /\ ByVcs(s) = Permuted(n, s, p)
  <2> DEFINE f == [i \in 1 .. n |-> s[i].vcs]
             D(i) == Cardinality({j \in 1 .. n : s[j].vcs < s[i].vcs
                                                   \/ (s[j].vcs = s[i].vcs /\ j < i)})
             p == [k \in 1 .. n |-> CHOOSE i \in 1 .. n : D(i) = k - 1]
  <2>1. f \in [1 .. n -> Int]
    BY <1>2
  <2>2. ASSUME NEW i \in 1 .. n PROVE Rank(1 .. n, ByKeys(n, f), i) = D(i)
    <3>1. {j \in 1 .. n : <<j, i>> \in ByKeys(n, f)}
            = {j \in 1 .. n : s[j].vcs < s[i].vcs \/ (s[j].vcs = s[i].vcs /\ j < i)}
      BY DEF ByKeys
    <3>2. QED
      BY <3>1 DEF Rank
  <2>3. ByVcs(s) = [k \in 1 .. n |-> s[p[k]]]
    BY DEF ByVcs, SortedBy
  <2> HIDE DEF D, f
  <2>4. ASSUME NEW k \in 1 .. n, NEW i \in 1 .. n, Rank(1 .. n, ByKeys(n, f), i) = k - 1
        PROVE  p[k] \in 1 .. n /\ Rank(1 .. n, ByKeys(n, f), p[k]) = k - 1
    <3>1. D(i) = k - 1
      BY <2>2, <2>4
    <3>2. p[k] \in 1 .. n /\ D(p[k]) = k - 1
      BY <3>1
    <3>3. QED
      BY <2>2, <3>2
  <2>5. p = [k \in 1 .. n |-> p[k]]
    OBVIOUS
  <2> HIDE DEF p
  <2>6. Sorts(p, n, f)
    BY <2>1, <2>4, <2>5, ChoosingSorts
  <2>7. QED
    BY <2>3, <2>6 DEF f, Permuted, Vcs
<1>3. ASSUME \A i \in 1 .. n : s[i].rec \in Int
      PROVE  \E p : Sorts(p, n, RecsOf(n, s)) /\ ByRec(s) = Permuted(n, s, p)
  <2> DEFINE f == [i \in 1 .. n |-> s[i].rec]
             D(i) == Cardinality({j \in 1 .. n : s[j].rec < s[i].rec
                                                   \/ (s[j].rec = s[i].rec /\ j < i)})
             p == [k \in 1 .. n |-> CHOOSE i \in 1 .. n : D(i) = k - 1]
  <2>1. f \in [1 .. n -> Int]
    BY <1>3
  <2>2. ASSUME NEW i \in 1 .. n PROVE Rank(1 .. n, ByKeys(n, f), i) = D(i)
    <3>1. {j \in 1 .. n : <<j, i>> \in ByKeys(n, f)}
            = {j \in 1 .. n : s[j].rec < s[i].rec \/ (s[j].rec = s[i].rec /\ j < i)}
      BY DEF ByKeys
    <3>2. QED
      BY <3>1 DEF Rank
  <2>3. ByRec(s) = [k \in 1 .. n |-> s[p[k]]]
    BY DEF ByRec, SortedBy
  <2> HIDE DEF D, f
  <2>4. ASSUME NEW k \in 1 .. n, NEW i \in 1 .. n, Rank(1 .. n, ByKeys(n, f), i) = k - 1
        PROVE  p[k] \in 1 .. n /\ Rank(1 .. n, ByKeys(n, f), p[k]) = k - 1
    <3>1. D(i) = k - 1
      BY <2>2, <2>4
    <3>2. p[k] \in 1 .. n /\ D(p[k]) = k - 1
      BY <3>1
    <3>3. QED
      BY <2>2, <3>2
  <2>5. p = [k \in 1 .. n |-> p[k]]
    OBVIOUS
  <2> HIDE DEF p
  <2>6. Sorts(p, n, f)
    BY <2>1, <2>4, <2>5, ChoosingSorts
  <2>7. QED
    BY <2>3, <2>6 DEF f, Permuted, RecsOf
<1>4. QED
  BY <1>1, <1>2, <1>3

-----------------------------------------------------------------------------
(* Fine channels. *)

LEMMA NonEmptySeq ==
  ASSUME NEW S, NEW s \in Seq(S), s # <<>>
  PROVE  Len(s) \in Nat \ {0} /\ DOMAIN s = 1 .. Len(s) /\ \A k \in 1 .. Len(s) : s[k] \in S
OBVIOUS

\* What a context says of its coarse channels, and that it has a fine channel width.
LEMMA Channels ==
  ASSUME IInv, pc = "ok"
  PROVE  /\ opened.finechan \in Nat \ {0} /\ Width(reopened) \in Nat
         /\ DOMAIN coarse = 1 .. Len(reopened.chans) /\ Len(reopened.chans) \in Nat \ {0}
         /\ Len(coarse) = Len(reopened.chans)
         /\ \A c \in DOMAIN coarse :
              \E rec \in Nat : coarse[c] = CoarseChannel(rec, Width(reopened))
<1>1. IsMetafits(opened) /\ IsMetafits(reopened)
  BY FilesAreMetafits DEF IInv, FilesInv
<1>2. opened.finechan \in Nat \ {0}
  <2>1. ASSUME opened.finechan = 0 PROVE FALSE
    <3>1. /\ "fine channels" \in DOMAIN opened.faults
          /\ opened.faults["fine channels"] \in {"absent", "malformed"}
      BY <1>1, <2>1 DEF IsMetafits
    <3>2. 44 \in DOMAIN Steps /\ Steps[44] = "fine channels"
      BY DEF Steps
    <3>3. Steps[44] \notin Optional /\ Steps[44] \notin Text
      BY <3>2 DEF Optional, Text
    <3>4. 44 \in Bad(opened)
      BY <3>1, <3>2, <3>3 DEF Bad, Condition
    <3>5. QED
      BY <3>4 DEF IInv, ReadInv, Wrong
  <2>2. QED
    BY <1>1, <2>1 DEF IsMetafits
<1> DEFINE n == Len(reopened.chans)
           list == [k \in DOMAIN reopened.chans |-> CoarseChannel(reopened.chans[k], Width(reopened))]
<1>3. n \in Nat \ {0} /\ DOMAIN reopened.chans = 1 .. n /\ \A k \in 1 .. n : reopened.chans[k] \in Nat
  <2>1. reopened.chans \in Seq(Nat) /\ reopened.chans # <<>>
    BY <1>1 DEF IsMetafits
  <2>2. QED
    BY <2>1, NonEmptySeq
<1>4. Width(reopened) \in Nat
  <2>1. opened.bandwidth \in Nat
    BY <1>1 DEF IsMetafits
  <2>2. n \in Nat \ {0}
    BY <1>3
  <2> HIDE DEF n
  <2>3. opened.bandwidth \div n \in Nat
    BY <2>1, <2>2
  <2>4. QED
    BY <2>3 DEF Width, n
<1>5. coarse = ByRec(list)
  BY DEF IInv, CoarseInv, ExpectedCoarse
<1>6. DOMAIN list = 1 .. n /\ \A k \in 1 .. n : list[k] = CoarseChannel(reopened.chans[k], Width(reopened))
  BY <1>3
<1> HIDE DEF list, n
<1>7. ASSUME NEW k \in 1 .. n PROVE list[k].rec \in Int
  <2>1. reopened.chans[k] \in Nat
    BY <1>3
  <2>2. list[k].rec = reopened.chans[k]
    BY <1>6 DEF CoarseChannel
  <2>3. QED
    BY <2>1, <2>2
<1>8. PICK p : Sorts(p, n, RecsOf(n, list)) /\ coarse = Permuted(n, list, p)
  <2>1. n \in Nat /\ DOMAIN list = 1 .. n /\ \A i \in 1 .. n : list[i].rec \in Int
    BY <1>3, <1>6, <1>7
  <2>2. \E p : Sorts(p, n, RecsOf(n, list)) /\ ByRec(list) = Permuted(n, list, p)
    BY <2>1, SortedIs
  <2>3. QED
    BY <1>5, <2>2
<1>9. \A k \in 1 .. n : p[k] \in 1 .. n
  BY <1>8 DEF Sorts
<1>10. \A c \in 1 .. n : \E rec \in Nat : coarse[c] = CoarseChannel(rec, Width(reopened))
  BY <1>3, <1>6, <1>8, <1>9 DEF Permuted
<1>11. DOMAIN coarse = 1 .. n /\ Len(coarse) = n
  BY <1>3, <1>8 DEF Permuted
<1>12. QED
  BY <1>2, <1>3, <1>4, <1>10, <1>11 DEF n

\* Width and number of fine channels.
LEMMA FineNumbers ==
  ASSUME NEW v \in Versions, opened.finechan \in Nat \ {0}, Width(opened) \in Nat
  PROVE  FineWidth(v) \in Nat /\ NumFine(v) \in Nat /\ Offset(v, NumFine(v)) \in Nat
<1>1. FineWidth(v) \in Nat /\ (v # "VCSMWAXv2" => FineWidth(v) # 0)
  BY DEF FineWidth
<1>2. NumFine(v) \in Nat
  <2>1. CASE v = "VCSMWAXv2"
    BY <2>1 DEF NumFine
  <2>2. CASE v # "VCSMWAXv2"
    BY <1>1, <2>2 DEF NumFine
  <2>3. QED
    BY <2>1, <2>2
<1>3. QED
  BY <1>1, <1>2 DEF Offset

\* Where the centre of fine channel k of coarse channel c is kept.
LEMMA CentreIsKept ==
  ASSUME IInv, pc = "ok", reopened = opened,
         NEW c \in DOMAIN coarse, NEW k \in 0 .. NumFine(version) - 1
  PROVE  fine[(c - 1) * NumFine(version) + k + 1] = FineCentre(version, coarse[c], k)
<1> DEFINE num == NumFine(version)
           n == Len(coarse)
<1>1. n \in Nat \ {0} /\ c \in 1 .. n /\ c - 1 \in 0 .. n - 1
  BY Channels
<1>2. num \in Nat \ {0} /\ k \in 0 .. num - 1 /\ k \in Nat
  BY Channels, FineNumbers DEF IInv, ReadInv
<1>3. fine = [i \in 1 .. n * num |-> FineCentre(version, coarse[(i - 1) \div num + 1], (i - 1) % num)]
  BY DEF IInv, CoarseInv, FineCentres
<1> HIDE DEF num, n
<1> DEFINE i == (c - 1) * num + k + 1
<1>4. (c - 1) * num + k \in 0 .. num * n - 1
  BY <1>1, <1>2, InTable
<1>5. i \in 1 .. n * num
  <2>1. num * n = n * num /\ num * n \in Nat
    BY <1>1, <1>2
  <2>2. QED
    BY <1>4, <2>1
<1>6. i - 1 = (c - 1) * num + k
  BY <1>1, <1>2
<1>7. (i - 1) \div num = c - 1 /\ (i - 1) % num = k
  <2>1. c - 1 \in Nat
    BY <1>1
  <2>2. ((c - 1) * num + k) \div num = c - 1 /\ ((c - 1) * num + k) % num = k
    BY <1>2, <2>1, Division
  <2>3. QED
    BY <1>6, <2>2
<1>8. (i - 1) \div num + 1 = c
  BY <1>1, <1>7
<1> HIDE DEF i
<1>9. fine[i] = FineCentre(version, coarse[c], k)
  BY <1>3, <1>5, <1>7, <1>8
<1>10. QED
  BY <1>9 DEF i, num

\* Quotients of the legacy modes.
LEMMA LegacyWidths ==
  ASSUME NEW f \in Nat \ {0}, 256 \div f \in {128, 64, 32}
  PROVE  f = 2 * (128 \div (256 \div f))
<1> DEFINE q == 256 \div f
<1>1. q \in Nat /\ 256 % f \in 0 .. f - 1 /\ 256 = q * f + (256 % f)
  BY DivMod
<1> HIDE DEF q
<1>2. CASE q = 128
  BY <1>1, <1>2 DEF q
<1>3. CASE q = 64
  BY <1>1, <1>3 DEF q
<1>4. CASE q = 32
  BY <1>1, <1>4 DEF q
<1>5. QED
  BY <1>2, <1>3, <1>4 DEF q

\* Half of a width that num fine channels make up.
LEMMA HalfWidth ==
  ASSUME NEW num \in Nat, NEW w \in Nat
  PROVE  (num * w) \div 2 = (num \div 2) * w + ((num % 2) * w) \div 2
<1>1. PICK h \in Nat, r \in 0 .. 1 : num = 2 * h + r /\ num \div 2 = h /\ num % 2 = r
  OBVIOUS
<1>2. num * w = 2 * (h * w) + r * w /\ h * w \in Nat /\ r * w \in Nat
  BY <1>1
<1>3. (2 * (h * w) + r * w) \div 2 = h * w + (r * w) \div 2
  BY <1>2
<1>4. QED
  BY <1>1, <1>2, <1>3

\* If the file has not been replaced, a fine channel of a legacy context is
\* centred on the mean of the 10 kHz channels it averages and the middle one of an
\* MWAX context on its coarse channel (FineChanFreqs of misc and the offsets of
\* populate_fine_channels), for every bandwidth, list of channels and fine
\* channel width.
THEOREM FineChannelsCentred == Spec => []FineChannelsAreCentred
<1>1. IInv => FineChannelsAreCentred
  <2> SUFFICES ASSUME IInv, pc = "ok", reopened = opened PROVE FineChannelsAreCentred
    BY DEF FineChannelsAreCentred
  <2> DEFINE num == NumFine(version)
             w == FineWidth(version)
             W == Width(opened)
             Centre(c, k) == fine[(c - 1) * num + k + 1]
             Mean10kHz(first, n) == (2 * first + 2 * (first + n - 1)) \div 2
  <2>1. version \in Versions
    BY DEF IInv, ReadInv
  <2>2. num \in Nat /\ w \in Nat /\ Offset(version, num) \in Nat /\ W \in Nat
    BY <2>1, Channels, FineNumbers
  <2>3. Len(fine) = Len(coarse) * num
    <3>1. fine = FineCentres(version, coarse) /\ Len(coarse) \in Nat
      BY Channels DEF IInv, CoarseInv
    <3>2. Len(coarse) * num \in Nat
      BY <2>2, <3>1
    <3> HIDE DEF num
    <3>3. DOMAIN fine = 1 .. Len(coarse) * num
      BY <3>1 DEF FineCentres, num
    <3>4. QED
      BY <3>1, <3>2 DEF FineCentres, num
  <2>4. ASSUME NEW c \in DOMAIN coarse
        PROVE  /\ \A k \in 1 .. num - 1 : Centre(c, k) - Centre(c, k - 1) = w
               /\ version \in LegacyVersions /\ num \in {128, 64, 32} /\ coarse[c].width = 128 * 2 =>
                    \A k \in 0 .. num - 1 :
                      Centre(c, k) = coarse[c].start + Mean10kHz(k * (128 \div num), 128 \div num)
               /\ version \notin LegacyVersions /\ num # 0 /\ num * w = coarse[c].width =>
                    Centre(c, num \div 2) = coarse[c].rec * coarse[c].width
    <3>1. PICK rec \in Nat : coarse[c] = CoarseChannel(rec, W)
      BY Channels
    <3> DEFINE start == rec * W - W \div 2
               half == ((num % 2) * w) \div 2
               offset == Offset(version, num)
    <3>2. /\ coarse[c].rec = rec /\ coarse[c].width = W /\ coarse[c].start = start
          /\ start \in Int /\ half \in Nat /\ offset \in Nat
      BY <2>2, <3>1 DEF CoarseChannel
    <3>3. ASSUME NEW k \in 0 .. num - 1
          PROVE  Centre(c, k) = start + k * w + half + offset
      BY <3>2, <3>3, CentreIsKept DEF FineCentre
    <3> HIDE DEF start, half, offset, num, w, W
    <3>4. ASSUME NEW k \in 1 .. num - 1 PROVE Centre(c, k) - Centre(c, k - 1) = w
      <4>1. k \in 0 .. num - 1 /\ k - 1 \in 0 .. num - 1
        BY <2>2
      <4>2. Centre(c, k) = start + k * w + half + offset
        BY <3>3, <4>1
      <4>3. Centre(c, k - 1) = start + (k - 1) * w + half + offset
        BY <3>3, <4>1
      <4> HIDE DEF Centre
      <4>4. k * w = (k - 1) * w + w /\ (k - 1) * w \in Nat /\ k * w \in Nat
        BY <2>2
      <4>5. QED
        BY <2>2, <3>2, <4>2, <4>3, <4>4
    <3>5. ASSUME version \in LegacyVersions, num \in {128, 64, 32}, W = 256, NEW k \in 0 .. num - 1
          PROVE  Centre(c, k) = start + Mean10kHz(k * (128 \div num), 128 \div num)
      <4> DEFINE q == 128 \div num
      <4>1. num = W \div w /\ w # 0 /\ version # "VCSMWAXv2"
        BY <3>5, Channels DEF num, w, W, NumFine, FineWidth, LegacyVersions
      <4>2. w = 2 * q
        BY <2>2, <3>5, <4>1, LegacyWidths
      <4>3. half = 0
        BY <2>2, <3>5 DEF half
      <4>4. offset = q - 1 /\ q \in {1, 2, 4}
        BY <3>5 DEF offset, Offset
      <4>5. Mean10kHz(k * q, q) = k * w + (q - 1)
        <5>1. k * q \in Nat /\ k * w = 2 * (k * q) /\ q \in Nat
          BY <4>2, <4>4
        <5> HIDE DEF q
        <5>2. QED
          BY <5>1
      <4>6. k * w \in Nat
        BY <2>2
      <4>7. Centre(c, k) = start + k * w + half + offset
        BY <3>3
      <4> HIDE DEF Centre, Mean10kHz
      <4>8. Centre(c, k) = start + Mean10kHz(k * q, q)
        BY <3>2, <4>3, <4>4, <4>5, <4>6, <4>7
      <4>9. QED
        BY <4>8 DEF q
    <3>6. ASSUME version \notin LegacyVersions, num # 0, num * w = W
          PROVE  Centre(c, num \div 2) = rec * W
      <4>1. num \div 2 \in 0 .. num - 1
        BY <2>2, <3>6
      <4>2. Centre(c, num \div 2) = start + (num \div 2) * w + half + offset
        BY <3>3, <4>1
      <4>3. offset = 0
        BY <3>6 DEF offset, Offset
      <4>4. W \div 2 = (num \div 2) * w + half
        BY <2>2, <3>6, HalfWidth DEF half
      <4>5. rec * W \in Nat /\ (num \div 2) * w \in Nat
        BY <2>2, <4>1
      <4> HIDE DEF Centre
      <4>6. QED
        BY <3>2, <4>2, <4>3, <4>4, <4>5 DEF start
    <3>7. QED
      BY <3>2, <3>4, <3>5, <3>6
  <2>5. QED
    BY <2>3, <2>4 DEF FineChannelsAreCentred
<1>2. QED
  BY <1>1, IInvariant, PTL

-----------------------------------------------------------------------------
(* Expected files. *)

\* As many members as numbers that name them.
LEMMA AsManyNames ==
  ASSUME NEW n \in Nat, NEW T, NEW f \in Surjection(0 .. n - 1, T),
         \A t, u \in 0 .. n - 1 : f[t] = f[u] => t = u
  PROVE  Cardinality(T) = n
<1> DEFINE S == 0 .. n - 1
<1>1. IsFiniteSet(S) /\ Cardinality(S) = n
  BY NumbersBelow
<1>2. f \in Surjection(S, T) /\ f \in Injection(S, T)
  BY DEF Surjection, Injection, IsInjective
<1> HIDE DEF S
<1>3. QED
  BY <1>1, <1>2, FS_Surjection

\* The last of a number of files begins within the observation, and each second
\* of it is in one of them.
FilesCover(l, e, count) ==
  /\ \A t \in 0 .. count - 1 : t * l < e
  /\ \A s \in 0 .. e - 1 :
       /\ s \div l \in 0 .. count - 1
       /\ \A t \in 0 .. count - 1 : t * l <= s /\ s < t * l + l <=> t = s \div l

\* So it is for the least number of files that are as long as the observation.
LEMMA FilesOfSeconds ==
  ASSUME NEW l \in {1, 8}, NEW e \in Nat
  PROVE  FilesCover(l, e, (2 * e + 2 * l - 1) \div (2 * l))
<1>1. CASE l = 1
  BY <1>1 DEF FilesCover
<1>2. CASE l = 8
  BY <1>2 DEF FilesCover
<1>3. QED
  BY <1>1, <1>2

\* A name is made of as many timesteps as it takes to cover the duration.
LEMMA Timesteps ==
  ASSUME IInv, pc = "ok"
  PROVE  /\ opened.exposure \in Nat /\ Interval(version) \in Nat \ {0}
         /\ LET count == (Duration + Interval(version) - 1) \div Interval(version)
            IN  /\ count \in Nat /\ Len(timesteps) = count
                /\ count = 0 => opened.exposure = 0
                /\ \A k \in 1 .. count : timesteps[k] = (k - 1) * Interval(version)
<1> DEFINE i == Interval(version)
           count == (Duration + i - 1) \div i
<1>1. IsMetafits(opened) /\ version \in Versions
  BY FilesAreMetafits DEF IInv, FilesInv, ReadInv
<1>2. opened.exposure \in Nat /\ opened.inttime \in Nat
  BY <1>1 DEF IsMetafits
<1>3. i \in Nat \ {0}
  BY <1>2 DEF IInv, TimestepsInv, Interval, Second
<1>4. Duration \in Nat /\ Duration = 2 * opened.exposure
  BY <1>2 DEF Duration, Second
<1>5. timesteps = [k \in 1 .. count |-> (k - 1) * i]
  BY DEF IInv, TimestepsInv
<1> HIDE DEF i
<1>6. count \in Nat
  BY <1>3, <1>4
<1>7. ASSUME count = 0 PROVE opened.exposure = 0
  <2> DEFINE m == Duration + i - 1
  <2>1. m \in Nat /\ m \div i = 0
    BY <1>3, <1>4, <1>7
  <2> HIDE DEF m
  <2>2. m % i \in 0 .. i - 1 /\ m = (m \div i) * i + (m % i)
    BY <1>3, <2>1, DivMod
  <2>3. m = m % i
    <3>1. (m \div i) * i = 0
      BY <1>3, <2>1
    <3>2. m % i \in Nat
      BY <1>3, <2>2
    <3> DEFINE q == (m \div i) * i
               r == m % i
    <3>3. q = 0 /\ r \in Nat /\ m = q + r
      BY <2>2, <3>1, <3>2
    <3> HIDE DEF q, r
    <3>4. m = r
      BY <3>3
    <3>5. QED
      BY <3>4 DEF r
  <2>4. Duration = 0
    <3>1. PICK r \in 0 .. i - 1 : m = r
      BY <2>2, <2>3
    <3>2. Duration + i - 1 = r
      BY <3>1 DEF m
    <3>3. QED
      BY <1>3, <1>4, <3>1, <3>2
  <2>5. QED
    BY <1>2, <1>4, <2>4
<1> HIDE DEF count
<1>8. Len(timesteps) = count
  BY <1>5, <1>6
<1>9. \A k \in 1 .. count : timesteps[k] = (k - 1) * i
  BY <1>5
<1>10. QED
  BY <1>2, <1>3, <1>6, <1>7, <1>8, <1>9 DEF i, count

\* Each second of an observation is in exactly one of the voltage files that
\* generate_expected_volt_filename names for a channel, no file begins after its
\* end, and a request for a name only panics where there is no observation.
THEOREM ExpectedFilesCover == Spec => []ExpectedFilesCoverObservation
<1>1. IInv => ExpectedFilesCoverObservation
  <2> SUFFICES ASSUME IInv PROVE ExpectedFilesCoverObservation
    OBVIOUS
  <2>1. ASSUME reply # NONE, reply.kind = "panic" PROVE opened.exposure = 0
    <3>1. pc = "ok" /\ (Len(timesteps) = 0 \/ Len(coarse) = 0)
      BY <2>1 DEF IInv, ReplyInv
    <3>2. QED
      BY <3>1, Channels, Timesteps
  <2> DEFINE length == IF version = "VCSMWAXv2" THEN 8 ELSE 1
             count == Len(timesteps)
             Names(c) == {ExpectedName(t, c) : t \in 0 .. count - 1}
  <2>2. ASSUME pc = "ok", version \in VcsVersions, NEW c \in 0 .. Len(coarse) - 1
        PROVE  /\ Cardinality(Names(c)) = count
               /\ \A s \in 0 .. opened.exposure - 1 :
                    Cardinality({n \in Names(c) : n.second <= s /\ s < n.second + length}) = 1
               /\ \A n \in Names(c) : n.second < opened.exposure
    <3> DEFINE e == opened.exposure
               f == [t \in 0 .. count - 1 |-> ExpectedName(t, c)]
    <3>1. length \in {1, 8} /\ Interval(version) = 2 * length /\ e \in Nat /\ Duration = 2 * e
      BY <2>2, Timesteps DEF VcsVersions, Interval, Duration, Second
    <3>2. /\ count = (2 * e + 2 * length - 1) \div (2 * length) /\ count \in Nat
          /\ \A k \in 1 .. count : timesteps[k] = (k - 1) * (2 * length)
      BY <2>2, <3>1, Timesteps
    <3> HIDE DEF length, e, count
    <3>3. ASSUME NEW t \in 0 .. count - 1
          PROVE  /\ ExpectedName(t, c) = [kind |-> "name", second |-> t * length, rec |-> coarse[c + 1].rec]
                 /\ ExpectedName(t, c).second = t * length
      <4>1. Len(coarse) \in Nat /\ ~(t >= count) /\ ~(c >= Len(coarse))
        BY <2>2, <3>2, Channels
      <4>2. timesteps[t + 1] = t * (2 * length)
        <5>1. t + 1 \in 1 .. count /\ (t + 1) - 1 = t
          BY <3>2
        <5>2. QED
          BY <3>2, <5>1
      <4>3. timesteps[t + 1] \div Second = t * length
        BY <3>1, <4>2 DEF Second
      <4>4. QED
        BY <2>2, <4>1, <4>3 DEF ExpectedName, count
    <3>4. \A t, u \in 0 .. count - 1 : f[t] = f[u] => t = u
      <4>1. SUFFICES ASSUME NEW t \in 0 .. count - 1, NEW u \in 0 .. count - 1, f[t] = f[u] PROVE t = u
        OBVIOUS
      <4>2. t * length = u * length
        BY <3>3, <4>1
      <4>3. QED
        BY <3>1, <4>2
    <3>5. Cardinality(Names(c)) = count
      <4>1. f \in Surjection(0 .. count - 1, Names(c))
        BY DEF Surjection
      <4> HIDE DEF f, Names
      <4>2. QED
        BY <3>2, <3>4, <4>1, AsManyNames
    <3>6. /\ \A t \in 0 .. count - 1 : t * length < e
          /\ \A s \in 0 .. e - 1 :
               /\ s \div length \in 0 .. count - 1
               /\ \A t \in 0 .. count - 1 :
                    t * length <= s /\ s < t * length + length <=> t = s \div length
      <4>1. FilesCover(length, e, count)
        BY <3>1, <3>2, FilesOfSeconds
      <4>2. QED
        BY <4>1 DEF FilesCover
    <3>7. ASSUME NEW s \in 0 .. e - 1
          PROVE  Cardinality({n \in Names(c) : n.second <= s /\ s < n.second + length}) = 1
      <4> DEFINE u == s \div length
      <4>1. /\ u \in 0 .. count - 1
            /\ \A t \in 0 .. count - 1 : t * length <= s /\ s < t * length + length <=> t = u
        BY <3>6
      <4> HIDE DEF u
      <4>2. \A t \in 0 .. count - 1 : ExpectedName(t, c).second = t * length
        BY <3>3
      <4>3. \A t \in 0 .. count - 1 :
              ExpectedName(t, c).second <= s /\ s < ExpectedName(t, c).second + length <=> t = u
        BY <4>1, <4>2
      <4>4. {n \in Names(c) : n.second <= s /\ s < n.second + length} = {ExpectedName(u, c)}
        BY <4>1, <4>3
      <4>5. QED
        BY <4>4, FS_Singleton
    <3>8. \A n \in Names(c) : n.second < e
      BY <3>3, <3>6
    <3>9. QED
      BY <3>5, <3>7, <3>8 DEF e
  <2>3. QED
    BY <2>1, <2>2 DEF ExpectedFilesCoverObservation
<1>2. QED
  BY <1>1, IInvariant, PTL

-----------------------------------------------------------------------------
(* Inputs and antennas. *)

\* A sort by keys that number the places from 0 puts each where its key says.
LEMMA KeysAreTaken ==
  ASSUME NEW n \in Nat, NEW f \in Bijection(1 .. n, 0 .. n - 1), NEW p, Sorts(p, n, f)
  PROVE  \A k \in 1 .. n : p[k] \in 1 .. n /\ f[p[k]] = k - 1
<1> DEFINE R == ByKeys(n, f)
<1>1. f \in [1 .. n -> 0 .. n - 1] /\ \A i, j \in 1 .. n : f[i] = f[j] => i = j
  BY DEF Bijection, Injection, IsInjective
<1>2. \A i, j \in 1 .. n : <<i, j>> \in R <=> f[i] < f[j]
  <2>1. ASSUME NEW i \in 1 .. n, NEW j \in 1 .. n PROVE <<i, j>> \in R <=> f[i] < f[j]
    <3>1. <<i, j>> \in R <=> f[i] < f[j] \/ (f[i] = f[j] /\ i < j)
      BY DEF ByKeys
    <3>2. f[i] = f[j] => ~(i < j)
      BY <1>1
    <3> HIDE DEF R
    <3>3. QED
      BY <3>1, <3>2
  <2>2. QED
    BY <2>1
<1>3. \A k \in 1 .. n : p[k] \in 1 .. n /\ Rank(1 .. n, R, p[k]) = k - 1
  BY DEF Sorts
<1> HIDE DEF R
<1>4. \A i \in 1 .. n : Rank(1 .. n, R, i) = f[i]
  <2> DEFINE S == 1 .. n
  <2>1. f \in Bijection(S, 0 .. n - 1) /\ \A i, j \in S : <<i, j>> \in R <=> f[i] < f[j]
    BY <1>2
  <2> HIDE DEF S
  <2>2. \A i \in S : Rank(S, R, i) = f[i]
    BY <2>1, NumbersAreRanks
  <2>3. QED
    BY <2>2 DEF S
<1>5. QED
  BY <1>3, <1>4

\* The subfile numbers of the rows.
Numbers(file) ==
  [i \in 1 .. file.ninputs |-> SubfileOrder(file.rows[i].ant, file.rows[i].pol)]

\* Numbers of an X and of a Y tell antennas and polarisations apart.
LEMMA NumbersTell ==
  ASSUME NEW a \in Nat, NEW b \in Nat, NEW p \in {"X", "Y"}, NEW q \in {"X", "Y"}
  PROVE  /\ SubfileOrder(a, p) \in Nat
         /\ SubfileOrder(a, p) = SubfileOrder(b, q) => a = b /\ p = q
         /\ SubfileOrder(a, "X") = 2 * a /\ SubfileOrder(a, "Y") = 2 * a + 1
BY DEF SubfileOrder

LEMMA NumbersDiffer ==
  ASSUME NEW a \in Nat, NEW b \in Nat, NEW p \in {"X", "Y"}, NEW q \in {"X", "Y"},
         SubfileOrder(a, p) = SubfileOrder(b, q)
  PROVE  a = b /\ p = q
BY NumbersTell

\* An even number is that of an X, an odd one that of a Y.
LEMMA Parity ==
  ASSUME NEW a \in Nat, NEW b \in Nat, NEW p \in {"X", "Y"}
  PROVE  /\ SubfileOrder(a, p) = 2 * b => a = b /\ p = "X"
         /\ SubfileOrder(a, p) = 2 * b + 1 => a = b /\ p = "Y"
BY DEF SubfileOrder

\* The rows of an array number its inputs without a gap, two to an antenna.
LEMMA ArrayIsNumbered ==
  ASSUME NEW file, IsArray(file), file.ninputs \in Nat,
         \A i \in 1 .. file.ninputs : file.rows[i] \in Rows
  PROVE  LET N == file.ninputs
             A == file.ninputs \div 2
         IN  /\ N = 2 * A /\ A \in Nat
             /\ Numbers(file) \in Bijection(1 .. N, 0 .. N - 1)
<1> DEFINE N == file.ninputs
           A == file.ninputs \div 2
           row(i) == file.rows[i]
           f == Numbers(file)
<1>1. N \in Nat /\ A \in Nat
  OBVIOUS
<1>2. \A i \in 1 .. N : row(i).ant \in Nat /\ row(i).pol \in {"X", "Y"}
  BY DEF Rows
<1>3. \A i \in 1 .. N : row(i).ant \in 0 .. A - 1
  BY DEF IsArray
<1>4. ASSUME NEW i \in 1 .. N
      PROVE  /\ \E x \in 1 .. N : row(x).tile = row(i).tile /\ row(x).pol = "X"
             /\ \E y \in 1 .. N : row(y).tile = row(i).tile /\ row(y).pol = "Y"
             /\ \A j, k \in 1 .. N :
                  /\ row(j).tile = row(i).tile /\ row(k).tile = row(i).tile
                  /\ row(j).pol = row(k).pol
                  => j = k
  <2> DEFINE Of(p) == {j \in 1 .. N : row(i).tile = row(j).tile /\ row(j).pol = p}
  <2>1. Cardinality(Of("X")) = 1 /\ Cardinality(Of("Y")) = 1
    BY DEF IsArray
  <2> HIDE DEF N, row
  <2>2. IsFiniteSet(1 .. N)
    BY <1>1, NumbersFromOne
  <2>3. Of("X") \in SUBSET (1 .. N) /\ Of("Y") \in SUBSET (1 .. N)
    OBVIOUS
  <2>4. IsFiniteSet(Of("X")) /\ IsFiniteSet(Of("Y"))
    BY <2>2, <2>3, FS_Subset
  <2> HIDE DEF Of
  <2>5. PICK x, y : Of("X") = {x} /\ Of("Y") = {y}
    <3>1. \E x : Of("X") = {x}
      BY <2>1, <2>4, OnlyOne
    <3>2. \E y : Of("Y") = {y}
      BY <2>1, <2>4, OnlyOne
    <3>3. QED
      BY <3>1, <3>2
  <2>6. /\ \A j \in 1 .. N : row(i).tile = row(j).tile /\ row(j).pol = "X" <=> j = x
        /\ \A j \in 1 .. N : row(i).tile = row(j).tile /\ row(j).pol = "Y" <=> j = y
        /\ x \in 1 .. N /\ y \in 1 .. N
    BY <2>5 DEF Of
  <2>7. \A j \in 1 .. N : row(j).pol = "X" \/ row(j).pol = "Y"
    BY <1>2
  <2>8. QED
    BY <2>6, <2>7
<1>5. \A i, j \in 1 .. N : row(i).tile = row(j).tile <=> row(i).ant = row(j).ant
  BY DEF IsArray
<1>6. \A i \in 1 .. N : f[i] = SubfileOrder(row(i).ant, row(i).pol)
  BY DEF Numbers
<1>7. ASSUME NEW i \in 1 .. N, NEW j \in 1 .. N, f[i] = f[j] PROVE i = j
  <2>1. row(i).ant = row(j).ant /\ row(i).pol = row(j).pol
    <3>1. /\ row(i).ant \in Nat /\ row(i).pol \in {"X", "Y"}
          /\ row(j).ant \in Nat /\ row(j).pol \in {"X", "Y"}
      BY <1>2
    <3>2. SubfileOrder(row(i).ant, row(i).pol) = SubfileOrder(row(j).ant, row(j).pol)
      BY <1>6, <1>7
    <3> HIDE DEF row
    <3>3. QED
      BY <3>1, <3>2, NumbersDiffer
  <2>2. QED
    BY <1>4, <1>5, <2>1
<1>8. \A i \in 1 .. N : f[i] \in 0 .. 2 * A - 1
  <2>1. TAKE i \in 1 .. N
  <2>2. f[i] \in {2 * row(i).ant, 2 * row(i).ant + 1}
    <3>1. row(i).ant \in Nat /\ row(i).pol \in {"X", "Y"}
      BY <1>2
    <3>2. f[i] = SubfileOrder(row(i).ant, row(i).pol)
      BY <1>6
    <3> HIDE DEF f, row
    <3>3. SubfileOrder(row(i).ant, row(i).pol) \in {2 * row(i).ant, 2 * row(i).ant + 1}
      BY <3>1 DEF SubfileOrder
    <3>4. QED
      BY <3>2, <3>3
  <2> HIDE DEF A, f, N, row
  <2>3. QED
    BY <1>1, <1>3, <2>2
<1>9. ASSUME NEW m \in 0 .. 2 * A - 1 PROVE \E i \in 1 .. N : f[i] = m
  <2>1. m \div 2 \in 0 .. A - 1 /\ (m = 2 * (m \div 2) \/ m = 2 * (m \div 2) + 1)
    <3> HIDE DEF A
    <3>1. QED
      BY <1>1
  <2>2. PICK i \in 1 .. N : row(i).ant = m \div 2
    <3>1. {row(i).ant : i \in 1 .. N} = 0 .. A - 1
      BY DEF IsArray
    <3> HIDE DEF A, N, row
    <3>2. QED
      BY <2>1, <3>1
  <2>3. /\ \E x \in 1 .. N : row(x).tile = row(i).tile /\ row(x).pol = "X"
        /\ \E y \in 1 .. N : row(y).tile = row(i).tile /\ row(y).pol = "Y"
    BY <1>4
  <2> HIDE DEF row, f, N, A
  <2>4. PICK x \in 1 .. N : row(x).tile = row(i).tile /\ row(x).pol = "X"
    BY <2>3
  <2>5. PICK y \in 1 .. N : row(y).tile = row(i).tile /\ row(y).pol = "Y"
    BY <2>3
  <2>6. row(x).ant = m \div 2 /\ row(y).ant = m \div 2
    BY <1>5, <2>2, <2>4, <2>5
  <2>7. f[x] = 2 * (m \div 2) /\ f[y] = 2 * (m \div 2) + 1
    <3>1. m \div 2 \in Nat
      BY <2>1
    <3>2. f[x] = SubfileOrder(m \div 2, "X") /\ f[y] = SubfileOrder(m \div 2, "Y")
      BY <1>6, <2>4, <2>5, <2>6
    <3>3. QED
      BY <3>1, <3>2, NumbersTell
  <2>8. QED
    BY <2>1, <2>7
<1>10. f \in Bijection(1 .. N, 0 .. 2 * A - 1)
  <2>1. f \in [1 .. N -> 0 .. 2 * A - 1]
    BY <1>8 DEF Numbers
  <2>2. QED
    BY <1>7, <1>9, <2>1 DEF Bijection, Injection, Surjection, IsInjective
<1>11. N = 2 * A
  <2>1. IsFiniteSet(1 .. N) /\ Cardinality(1 .. N) = N
    BY <1>1, NumbersFromOne
  <2>2. 2 * A \in Nat
    BY <1>1
  <2>3. IsFiniteSet(0 .. 2 * A - 1) /\ Cardinality(0 .. 2 * A - 1) = 2 * A
    BY <2>2, NumbersBelow
  <2> DEFINE S == 1 .. N
             T == 0 .. 2 * A - 1
  <2>4. f \in Surjection(S, T) /\ f \in Injection(S, T)
    BY <1>10 DEF Bijection
  <2>5. Cardinality(S) = N /\ Cardinality(T) = 2 * A /\ IsFiniteSet(S)
    BY <2>1, <2>3
  <2> HIDE DEF S, T, f
  <2>6. Cardinality(T) = Cardinality(S)
    BY <2>4, <2>5, FS_Surjection
  <2>7. QED
    BY <2>5, <2>6
<1>12. QED
  BY <1>1, <1>10, <1>11

\* Inputs that are X and Y of antennas 0, 1, ... in turn.
InTurn(s, n) ==
  \A k \in 1 .. n :
    /\ s[2 * k - 1].ant = k - 1 /\ s[2 * k - 1].pol = "X"
    /\ s[2 * k].ant = k - 1 /\ s[2 * k].pol = "Y"

\* The antennas that are made of them.
LEMMA AntennasInTurn ==
  ASSUME NEW n \in Nat, NEW s, DOMAIN s = 1 .. 2 * n, InTurn(s, n),
         \A i, j \in 1 .. 2 * n : s[i].tile = s[j].tile <=> s[i].ant = s[j].ant
  PROVE  populate_antennas(s)
           = [k \in 1 .. n |-> [ant |-> k - 1, x |-> s[2 * k - 1], y |-> s[2 * k]]]
<1> DEFINE Pairs == {p \in (DOMAIN s) \X (DOMAIN s) :
                       s[p[1]].pol = "X" /\ s[p[2]].pol = "Y" /\ s[p[1]].tile = s[p[2]].tile}
           Before(p, q) == p[1] < q[1] \/ (p[1] = q[1] /\ p[2] < q[2])
           D(p) == Cardinality({q \in Pairs : Before(q, p)})
           Nth(k) == CHOOSE p \in Pairs : D(p) = k - 1
           Pair(k) == <<2 * k - 1, 2 * k>>
<1>1. \A i \in 1 .. 2 * n : \E k \in 1 .. n : i = 2 * k - 1 \/ i = 2 * k
  <2>1. TAKE i \in 1 .. 2 * n
  <2>2. (i + 1) \div 2 \in 1 .. n /\ (i = 2 * ((i + 1) \div 2) - 1 \/ i = 2 * ((i + 1) \div 2))
    OBVIOUS
  <2>3. QED
    BY <2>2
<1>2. \A k \in 1 .. n : Pair(k) \in Pairs
  <2>1. TAKE k \in 1 .. n
  <2>2. 2 * k - 1 \in 1 .. 2 * n /\ 2 * k \in 1 .. 2 * n
    OBVIOUS
  <2>3. QED
    BY <2>2 DEF InTurn
<1>3. ASSUME NEW p \in Pairs PROVE \E k \in 1 .. n : p = Pair(k)
  <2>1. p = <<p[1], p[2]>> /\ p[1] \in 1 .. 2 * n /\ p[2] \in 1 .. 2 * n
    OBVIOUS
  <2>2. s[p[1]].pol = "X" /\ s[p[2]].pol = "Y" /\ s[p[1]].ant = s[p[2]].ant
    BY <2>1
  <2>3. PICK k \in 1 .. n : p[1] = 2 * k - 1 \/ p[1] = 2 * k
    BY <1>1, <2>1
  <2>4. PICK l \in 1 .. n : p[2] = 2 * l - 1 \/ p[2] = 2 * l
    BY <1>1, <2>1
  <2>5. p[1] = 2 * k - 1 /\ p[2] = 2 * l
    BY <2>2, <2>3, <2>4 DEF InTurn
  <2>6. s[p[1]].ant = k - 1 /\ s[p[2]].ant = l - 1
    BY <2>5 DEF InTurn
  <2>7. k = l
    BY <2>2, <2>6
  <2>8. QED
    BY <2>1, <2>5, <2>7
<1> HIDE DEF Pairs
<1> DEFINE f == [p \in Pairs |-> (p[1] - 1) \div 2]
           R == {r \in Pairs \X Pairs : Before(r[1], r[2])}
<1>4. \A k \in 1 .. n : f[Pair(k)] = k - 1
  <2>1. TAKE k \in 1 .. n
  <2>2. Pair(k)[1] = 2 * k - 1 /\ (2 * k - 1 - 1) \div 2 = k - 1
    OBVIOUS
  <2>3. QED
    BY <1>2, <2>2
<1>5. f \in Bijection(Pairs, 0 .. n - 1)
  <2> HIDE DEF f
  <2>1. \A p \in Pairs : f[p] \in 0 .. n - 1
    <3>1. TAKE p \in Pairs
    <3>2. PICK k \in 1 .. n : p = Pair(k)
      BY <1>3
    <3>3. f[p] = k - 1
      BY <1>4, <3>2
    <3>4. QED
      BY <3>3
  <2>2. \A p, q \in Pairs : f[p] = f[q] => p = q
    <3>1. TAKE p \in Pairs, q \in Pairs
    <3>2. PICK k \in 1 .. n, l \in 1 .. n : p = Pair(k) /\ q = Pair(l)
      BY <1>3
    <3>3. f[p] = k - 1 /\ f[q] = l - 1
      BY <1>4, <3>2
    <3>4. QED
      BY <3>2, <3>3
  <2>3. \A m \in 0 .. n - 1 : \E p \in Pairs : f[p] = m
    <3>1. TAKE m \in 0 .. n - 1
    <3>2. m + 1 \in 1 .. n /\ (m + 1) - 1 = m
      OBVIOUS
    <3>3. QED
      BY <1>2, <1>4, <3>2
  <2>4. f \in [Pairs -> 0 .. n - 1]
    BY <2>1 DEF f
  <2>5. QED
    BY <2>2, <2>3, <2>4 DEF Bijection, Injection, Surjection, IsInjective
<1>6. \A p, q \in Pairs : <<p, q>> \in R <=> f[p] < f[q]
  <2>1. TAKE p \in Pairs, q \in Pairs
  <2>2. PICK k \in 1 .. n : p = Pair(k)
    BY <1>3
  <2>3. PICK l \in 1 .. n : q = Pair(l)
    BY <1>3
  <2>4. f[p] = k - 1 /\ f[q] = l - 1
    BY <1>4, <2>2, <2>3
  <2>5. Before(p, q) <=> k < l
    BY <2>2, <2>3
  <2>6. <<p, q>> \in R <=> Before(p, q)
    OBVIOUS
  <2>7. QED
    BY <2>4, <2>5, <2>6
<1>7. Cardinality(Pairs) = n
  <2>1. IsFiniteSet(0 .. n - 1) /\ Cardinality(0 .. n - 1) = n
    BY NumbersBelow
  <2>2. f \in Injection(Pairs, 0 .. n - 1) /\ f \in Surjection(Pairs, 0 .. n - 1)
    BY <1>5 DEF Bijection
  <2> HIDE DEF f
  <2>3. QED
    BY <2>1, <2>2, FS_Injection
<1>8. \A p \in Pairs : D(p) = f[p]
  <2>1. TAKE p \in Pairs
  <2>2. {q \in Pairs : <<q, p>> \in R} = {q \in Pairs : Before(q, p)}
    OBVIOUS
  <2>3. D(p) = Rank(Pairs, R, p)
    BY <2>2 DEF Rank
  <2> HIDE DEF f, R, D
  <2>4. QED
    BY <1>5, <1>6, <2>3, NumbersAreRanks
<1>9. ASSUME NEW k \in 1 .. n PROVE Nth(k) = Pair(k)
  <2> HIDE DEF D
  <2>1. Pair(k) \in Pairs /\ D(Pair(k)) = k - 1
    BY <1>2, <1>4, <1>8
  <2>2. Nth(k) \in Pairs /\ D(Nth(k)) = k - 1
    BY <2>1
  <2>3. QED
    BY <1>5, <1>8, <2>1, <2>2 DEF Bijection, Injection, IsInjective
<1>10. populate_antennas(s)
         = [k \in 1 .. Cardinality(Pairs) |->
              [ant |-> s[Nth(k)[1]].ant, x |-> s[Nth(k)[1]], y |-> s[Nth(k)[2]]]]
  BY DEF populate_antennas, Pairs
<1> HIDE DEF Nth
<1>11. ASSUME NEW k \in 1 .. n
       PROVE  [ant |-> s[Nth(k)[1]].ant, x |-> s[Nth(k)[1]], y |-> s[Nth(k)[2]]]
                = [ant |-> k - 1, x |-> s[2 * k - 1], y |-> s[2 * k]]
  <2>1. Nth(k)[1] = 2 * k - 1 /\ Nth(k)[2] = 2 * k
    BY <1>9
  <2>2. s[2 * k - 1].ant = k - 1
    BY DEF InTurn
  <2>3. QED
    BY <2>1, <2>2
<1>12. QED
  BY <1>7, <1>10, <1>11

\* The inputs of a table of tiles, once sorted by subfile number.
LEMMA SortedTable ==
  ASSUME IsMetafits(opened), TableIsRead(opened), IsArray(opened)
  PROVE  LET N == opened.ninputs
             A == opened.ninputs \div 2
             s == BySubfile(Table(opened))
         IN  /\ N = 2 * A /\ A \in Nat /\ N \in Nat
             /\ DOMAIN s = 1 .. N /\ InTurn(s, A)
             /\ \A i, j \in 1 .. N : s[i].tile = s[j].tile <=> s[i].ant = s[j].ant
             /\ \A i \in 1 .. N :
                  /\ s[i].input \in Nat /\ s[i].vcs = get_vcs_order(s[i].input)
                  /\ s[i].gains = Len(opened.chans)
             /\ {s[i].input : i \in 1 .. N} = {opened.rows[i].input : i \in 1 .. N}
<1> DEFINE N == opened.ninputs
           A == opened.ninputs \div 2
           t == Table(opened)
           s == BySubfile(t)
           f == Numbers(opened)
<1>1. N \in Nat
  BY DEF IsMetafits
<1>2. \A i \in 1 .. N : opened.rows[i] \in Rows
  <2>1. opened.rows \in Seq(Rows) /\ \A i \in 1 .. N : i \in DOMAIN opened.rows
    BY DEF TableIsRead, IsMetafits
  <2>2. \A i \in DOMAIN opened.rows : opened.rows[i] \in Rows
    BY <2>1
  <2>3. QED
    BY <2>1, <2>2
<1>3. N = 2 * A /\ A \in Nat /\ f \in Bijection(1 .. N, 0 .. N - 1)
  BY <1>1, <1>2, ArrayIsNumbered
<1>4. DOMAIN t = 1 .. N /\ \A i \in 1 .. N : t[i] = Rfinput(opened.rows[i])
  BY DEF Table
<1>5. \A i \in 1 .. N :
        /\ t[i].input = opened.rows[i].input /\ t[i].ant = opened.rows[i].ant
        /\ t[i].tile = opened.rows[i].tile /\ t[i].pol = opened.rows[i].pol
        /\ t[i].vcs = get_vcs_order(t[i].input) /\ t[i].gains = Len(opened.chans)
        /\ t[i].subfile = SubfileOrder(t[i].ant, t[i].pol)
  <2> HIDE DEF t, N
  <2>1. TAKE i \in 1 .. N
  <2>2. t[i] = Rfinput(opened.rows[i])
    BY <1>4
  <2>3. /\ t[i].input = opened.rows[i].input /\ t[i].ant = opened.rows[i].ant
        /\ t[i].tile = opened.rows[i].tile /\ t[i].pol = opened.rows[i].pol
        /\ t[i].gains = Len(opened.chans)
        /\ t[i].vcs = get_vcs_order(opened.rows[i].input)
        /\ t[i].subfile = SubfileOrder(opened.rows[i].ant, opened.rows[i].pol)
    BY <2>2 DEF Rfinput
  <2>4. QED
    BY <2>3
<1>6. \A i \in 1 .. N : t[i].input \in Nat /\ t[i].ant \in Nat /\ t[i].pol \in {"X", "Y"}
  BY <1>2, <1>5 DEF Rows
<1>7. Subfiles(N, t) = f
  BY <1>5 DEF Subfiles, Numbers
<1>8. \A i, j \in 1 .. N : t[i].tile = t[j].tile <=> t[i].ant = t[j].ant
  BY <1>5 DEF IsArray
<1> HIDE DEF N, A, t, f
<1>9. \A i \in 1 .. N : t[i].subfile \in Int
  <2>1. TAKE i \in 1 .. N
  <2>2. t[i].subfile = SubfileOrder(t[i].ant, t[i].pol) /\ t[i].ant \in Nat /\ t[i].pol \in {"X", "Y"}
    BY <1>5, <1>6
  <2>3. SubfileOrder(t[i].ant, t[i].pol) \in Nat
    BY <2>2, NumbersTell
  <2>4. QED
    BY <2>2, <2>3
<1>10. PICK p : Sorts(p, N, f) /\ s = Permuted(N, t, p)
  BY <1>1, <1>4, <1>7, <1>9, SortedIs
<1>11. \A k \in 1 .. N : p[k] \in 1 .. N /\ f[p[k]] = k - 1
  BY <1>1, <1>3, <1>10, KeysAreTaken
<1>12. \A i \in 1 .. N : \E k \in 1 .. N : p[k] = i
  BY <1>10 DEF Sorts
<1> HIDE DEF s
<1>13. DOMAIN s = 1 .. N /\ \A k \in 1 .. N : s[k] = t[p[k]]
  BY <1>10 DEF Permuted
<1>14. \A k \in 1 .. N : SubfileOrder(s[k].ant, s[k].pol) = k - 1
  <2>1. \A i \in 1 .. N : f[i] = t[i].subfile
    BY <1>7 DEF Subfiles
  <2>2. QED
    BY <1>5, <1>11, <1>13, <2>1
<1>15. \A k \in 1 .. N : s[k].ant \in Nat /\ s[k].pol \in {"X", "Y"}
  BY <1>6, <1>11, <1>13
<1>16. InTurn(s, A)
  <2>1. ASSUME NEW k \in 1 .. A
        PROVE  /\ s[2 * k - 1].ant = k - 1 /\ s[2 * k - 1].pol = "X"
               /\ s[2 * k].ant = k - 1 /\ s[2 * k].pol = "Y"
    <3>1. 2 * k - 1 \in 1 .. N /\ 2 * k \in 1 .. N
      BY <1>3
    <3>2. /\ SubfileOrder(s[2 * k - 1].ant, s[2 * k - 1].pol) = 2 * (k - 1)
          /\ SubfileOrder(s[2 * k].ant, s[2 * k].pol) = 2 * (k - 1) + 1
      BY <1>14, <3>1
    <3>3. /\ s[2 * k - 1].ant \in Nat /\ s[2 * k - 1].pol \in {"X", "Y"}
          /\ s[2 * k].ant \in Nat /\ s[2 * k].pol \in {"X", "Y"}
      BY <1>15, <3>1
    <3>4. k - 1 \in Nat
      OBVIOUS
    <3>5. s[2 * k - 1].ant = k - 1 /\ s[2 * k - 1].pol = "X"
      BY <3>2, <3>3, <3>4, Parity
    <3>6. s[2 * k].ant = k - 1 /\ s[2 * k].pol = "Y"
      BY <3>2, <3>3, <3>4, Parity
    <3>7. QED
      BY <3>5, <3>6
  <2>2. QED
    BY <2>1 DEF InTurn
<1>17. \A i, j \in 1 .. N : s[i].tile = s[j].tile <=> s[i].ant = s[j].ant
  <2>1. TAKE i, j \in 1 .. N
  <2>2. /\ s[i] = t[p[i]] /\ p[i] \in 1 .. N
        /\ s[j] = t[p[j]] /\ p[j] \in 1 .. N
    BY <1>11, <1>13
  <2>3. t[p[i]].tile = t[p[j]].tile <=> t[p[i]].ant = t[p[j]].ant
    BY <1>8, <2>2
  <2>4. QED
    BY <2>2, <2>3
<1>18. \A i \in 1 .. N :
         /\ s[i].input \in Nat /\ s[i].vcs = get_vcs_order(s[i].input)
         /\ s[i].gains = Len(opened.chans)
  <2>1. TAKE i \in 1 .. N
  <2>2. s[i] = t[p[i]] /\ p[i] \in 1 .. N
    BY <1>11, <1>13
  <2>3. t[p[i]].input \in Nat /\ t[p[i]].vcs = get_vcs_order(t[p[i]].input)
        /\ t[p[i]].gains = Len(opened.chans)
    BY <1>5, <1>6, <2>2
  <2>4. QED
    BY <2>2, <2>3
<1>19. {s[i].input : i \in 1 .. N} = {opened.rows[i].input : i \in 1 .. N}
  <2>1. \A k \in 1 .. N : s[k].input = opened.rows[p[k]].input
    BY <1>5, <1>11, <1>13
  <2>2. QED
    BY <1>11, <1>12, <2>1
<1>20. QED
  BY <1>1, <1>3, <1>13, <1>16, <1>17, <1>18, <1>19 DEF N, A, s, t

\* The two orders keep within the inputs of any number of PFBs.
LEMMA OrdersStay ==
  ASSUME NEW groups \in Nat, NEW i \in 0 .. groups * (Lanes * PerLane) - 1
  PROVE  /\ get_vcs_order(i) \in 0 .. groups * (Lanes * PerLane) - 1
         /\ fine_pfb_reorder(i) \in 0 .. groups * (Lanes * PerLane) - 1
<1> DEFINE N == Lanes * PerLane
           all == 0 .. groups * (Lanes * PerLane) - 1
           low == i % N
           g == i \div N
<1>1. /\ Lanes \in Nat \ {0} /\ PerLane \in Nat \ {0} /\ groups \in Nat \ {0}
      /\ N \in Nat \ {0} /\ N = PerLane * Lanes
  <2>1. Lanes \in Nat \ {0} /\ PerLane \in Nat \ {0}
    BY LanesAssumption
  <2>2. N \in Nat \ {0} /\ N = PerLane * Lanes
    BY <2>1
  <2>3. groups # 0
    <3> HIDE DEF N
    <3>1. CASE groups = 0
      <4>1. groups * (Lanes * PerLane) = 0
        BY <2>1, <3>1
      <4>2. QED
        BY <4>1
    <3>2. QED
      BY <3>1
  <2>4. QED
    BY <2>1, <2>2, <2>3
<1>2. all = 0 .. N * groups - 1 /\ i \in all
  <2>1. groups * (Lanes * PerLane) = N * groups
    BY <1>1
  <2>2. QED
    BY <2>1
<1> HIDE DEF all
<1>3. g \in 0 .. groups - 1 /\ low \in 0 .. N - 1 /\ i = g * N + low /\ i \in Nat
  <2> HIDE DEF N
  <2>1. i \in Nat
    BY <1>2
  <2>2. g \in 0 .. groups - 1
    BY <1>1, <1>2, OfTable
  <2>3. QED
    BY <1>1, <2>1, <2>2, DivMod
<1>4. ASSUME NEW a \in Nat \ {0}, NEW b \in Nat \ {0}, a * b = N
      PROVE  (low % a) * b + (low \div a) \in 0 .. N - 1
  <2>1. low \in 0 .. a * b - 1 /\ low \in Nat
    BY <1>3, <1>4
  <2> HIDE DEF low, N
  <2>2. low \div a \in 0 .. b - 1 /\ low % a \in 0 .. a - 1
    BY <1>4, <2>1, OfTable, DivMod
  <2>3. (low % a) * b + (low \div a) \in 0 .. b * a - 1
    BY <1>4, <2>2, InTable
  <2>4. b * a = N
    BY <1>4
  <2>5. QED
    BY <2>3, <2>4
<1>5. ASSUME NEW m \in 0 .. N - 1
      PROVE  i - low + m \in all
  <2> HIDE DEF N, g, low
  <2>1. g * N + m \in 0 .. N * groups - 1
    BY <1>1, <1>3, InTable
  <2>2. i - low + m = g * N + m
    <3>1. g * N \in Int
      BY <1>1, <1>3
    <3>2. QED
      BY <1>1, <1>3, <3>1
  <2>3. QED
    BY <1>2, <2>1, <2>2
<1>6. fine_pfb_reorder(i) \in all
  <2> DEFINE m == (low % Lanes) * PerLane + (low \div Lanes)
  <2>1. m \in 0 .. N - 1
    BY <1>1, <1>4
  <2>2. low \in Nat /\ (low % Lanes) * PerLane \in Int /\ low \div Lanes \in Int
    <3>1. low \in Nat
      BY <1>3
    <3> HIDE DEF low
    <3>2. low % Lanes \in Nat /\ low \div Lanes \in Nat
      BY <1>1, <3>1, DivMod
    <3>3. QED
      BY <1>1, <3>1, <3>2
  <2>3. fine_pfb_reorder(i) = i - low + m
    <3>1. fine_pfb_reorder(i) = i - low + (low % Lanes) * PerLane + (low \div Lanes)
      BY DEF fine_pfb_reorder
    <3> HIDE DEF low
    <3>2. QED
      BY <1>3, <2>2, <3>1
  <2> HIDE DEF m
  <2>4. QED
    BY <1>5, <2>1, <2>3
<1>7. get_vcs_order(i) \in all
  <2> DEFINE m == (low % PerLane) * Lanes + (low \div PerLane)
  <2>1. m \in 0 .. N - 1
    BY <1>1, <1>4
  <2>2. low \in Nat /\ (low % PerLane) * Lanes \in Int /\ low \div PerLane \in Int
    <3>1. low \in Nat
      BY <1>3
    <3> HIDE DEF low
    <3>2. low % PerLane \in Nat /\ low \div PerLane \in Nat
      BY <1>1, <3>1, DivMod
    <3>3. QED
      BY <1>1, <3>1, <3>2
  <2>3. get_vcs_order(i) = i - low + m
    <3>1. get_vcs_order(i) = i - low + (low \div PerLane) + (low % PerLane) * Lanes
      BY DEF get_vcs_order
    <3> HIDE DEF low
    <3>2. QED
      BY <1>3, <2>2, <3>1
  <2> HIDE DEF m
  <2>4. QED
    BY <1>5, <2>1, <2>3
<1>8. QED
  BY <1>6, <1>7 DEF all

\* Inputs that are all those of a number of PFBs.
AreAllInputs(n, s) == {s[i].input : i \in 1 .. n} = 0 .. n - 1 /\ n % (Lanes * PerLane) = 0

\* The same inputs in the order of the PFB: each is kept, and if they are all the
\* inputs of some PFBs each is where these put it out.
LEMMA InputsByVcs ==
  ASSUME NEW n \in Nat, NEW s, DOMAIN s = 1 .. n,
         \A i \in 1 .. n : s[i].input \in Nat /\ s[i].vcs = get_vcs_order(s[i].input)
  PROVE  LET b == ByVcs(s)
         IN  /\ DOMAIN b = 1 .. n
             /\ \A i \in 1 .. n : \E k \in 1 .. n : b[k] = s[i]
             /\ \A k \in 1 .. n : \E i \in 1 .. n : b[k] = s[i]
             /\ AreAllInputs(n, s) => \A k \in 1 .. n : b[k].input = fine_pfb_reorder(k - 1)
<1> DEFINE b == ByVcs(s)
<1>1. \A i \in 1 .. n : s[i].vcs \in Int
  <2>1. TAKE i \in 1 .. n
  <2>2. get_vcs_order(s[i].input) \in Nat
    BY OrdersAreInverse
  <2>3. QED
    BY <2>2
<1>2. PICK p : Sorts(p, n, Vcs(n, s)) /\ b = Permuted(n, s, p)
  BY <1>1, SortedIs
<1> HIDE DEF b
<1>3. DOMAIN b = 1 .. n /\ \A k \in 1 .. n : p[k] \in 1 .. n /\ b[k] = s[p[k]]
  BY <1>2 DEF Permuted, Sorts
<1>4. \A i \in 1 .. n : \E k \in 1 .. n : b[k] = s[i]
  <2>1. TAKE i \in 1 .. n
  <2>2. PICK k \in 1 .. n : p[k] = i
    BY <1>2 DEF Sorts
  <2>3. b[k] = s[i]
    BY <1>3, <2>2
  <2>4. QED
    BY <2>3
<1>5. ASSUME AreAllInputs(n, s)
      PROVE  \A k \in 1 .. n : b[k].input = fine_pfb_reorder(k - 1)
  <2> DEFINE f == Vcs(n, s)
             g == [i \in 1 .. n |-> s[i].input]
  <2>1. {s[i].input : i \in 1 .. n} = 0 .. n - 1 /\ n % (Lanes * PerLane) = 0
    BY <1>5 DEF AreAllInputs
  <2>2. g \in Surjection(1 .. n, 0 .. n - 1)
    <3>1. g \in [1 .. n -> 0 .. n - 1]
      BY <2>1
    <3>2. \A m \in 0 .. n - 1 : \E i \in 1 .. n : g[i] = m
      BY <2>1
    <3>3. QED
      BY <3>1, <3>2 DEF Surjection
  <2>3. \A i, j \in 1 .. n : s[i].input = s[j].input => i = j
    <3> DEFINE S == 1 .. n
               T == 0 .. n - 1
    <3>1. IsFiniteSet(S) /\ Cardinality(S) = n /\ Cardinality(T) = n /\ g \in Surjection(S, T)
      BY <2>2, NumbersFromOne, NumbersBelow
    <3> HIDE DEF S, T, g
    <3>2. g \in Injection(S, T)
      BY <3>1, FS_Surjection
    <3>3. QED
      BY <3>2 DEF Injection, IsInjective, g, S
  <2>4. \A i \in 1 .. n : s[i].input \in 0 .. n - 1
    BY <2>1
  <2>5. \A m \in 0 .. n - 1 : get_vcs_order(m) \in 0 .. n - 1 /\ fine_pfb_reorder(m) \in 0 .. n - 1
    <3>1. Lanes * PerLane \in Nat \ {0}
      BY LanesAssumption
    <3>2. PICK groups \in Nat : n = groups * (Lanes * PerLane)
      BY <2>1, <3>1, WholeNumber
    <3>3. ASSUME NEW m \in 0 .. n - 1
          PROVE  get_vcs_order(m) \in 0 .. n - 1 /\ fine_pfb_reorder(m) \in 0 .. n - 1
      <4>1. groups \in Nat /\ m \in 0 .. groups * (Lanes * PerLane) - 1
        BY <3>2
      <4>2. QED
        BY <3>2, <4>1, OrdersStay
    <3>4. QED
      BY <3>3
  <2>6. f \in Bijection(1 .. n, 0 .. n - 1)
    <3>1. f \in [1 .. n -> 0 .. n - 1]
      BY <2>4, <2>5 DEF Vcs
    <3>2. \A i, j \in 1 .. n : f[i] = f[j] => i = j
      <4>1. \A i \in 1 .. n : f[i] = get_vcs_order(s[i].input) /\ fine_pfb_reorder(f[i]) = s[i].input
        BY OrdersAreInverse DEF Vcs
      <4>2. QED
        BY <2>3, <4>1
    <3>3. \A m \in 0 .. n - 1 : \E i \in 1 .. n : f[i] = m
      <4>1. TAKE m \in 0 .. n - 1
      <4>2. fine_pfb_reorder(m) \in 0 .. n - 1
        BY <2>5
      <4>3. PICK i \in 1 .. n : g[i] = fine_pfb_reorder(m)
        BY <2>2, <4>2 DEF Surjection
      <4>4. f[i] = get_vcs_order(fine_pfb_reorder(m))
        BY <4>3 DEF Vcs
      <4>5. m \in Nat
        BY <4>1
      <4>6. QED
        BY <4>4, <4>5, OrdersAreInverse
    <3> HIDE DEF f
    <3>4. QED
      BY <3>1, <3>2, <3>3 DEF Bijection, Injection, Surjection, IsInjective
  <2>7. \A k \in 1 .. n : p[k] \in 1 .. n /\ f[p[k]] = k - 1
    BY <1>2, <2>6, KeysAreTaken
  <2>8. ASSUME NEW k \in 1 .. n PROVE b[k].input = fine_pfb_reorder(k - 1)
    <3>1. b[k] = s[p[k]] /\ p[k] \in 1 .. n /\ get_vcs_order(s[p[k]].input) = k - 1
      BY <1>3, <2>7 DEF Vcs
    <3>2. QED
      BY <3>1, OrdersAreInverse
  <2>9. QED
    BY <2>8
<1>6. \A k \in 1 .. n : \E i \in 1 .. n : b[k] = s[i]
  BY <1>3
<1>7. QED
  BY <1>3, <1>4, <1>5, <1>6 DEF b

\* Whatever the order of the rows of a table of tiles, whatever the version and
\* however many antennas: the antennas that populate_antennas makes are 0, 1, ...
\* with the X and the Y of one tile, both of them are kept by the second sort of
\* new_inner, and the inputs end in the order that the version's data has, for
\* legacy voltages those of any number of PFBs.
THEOREM InputsAndAntennas == Spec => []InputsAndAntennasAgree
<1>1. IInv => InputsAndAntennasAgree
  <2> SUFFICES ASSUME IInv, pc = "ok", IsArray(opened) PROVE InputsAndAntennasAgree
    BY DEF InputsAndAntennasAgree
  <2> DEFINE N == opened.ninputs
             A == opened.ninputs \div 2
             s == BySubfile(Table(opened))
  <2>1. IsMetafits(opened) /\ TableIsRead(opened)
    <3>1. Wrong(opened) = {}
      BY DEF IInv, ReadInv
    <3>2. QED
      BY <3>1, FilesAreMetafits DEF IInv, FilesInv, Wrong
  <2>2. /\ N = 2 * A /\ A \in Nat /\ N \in Nat
        /\ DOMAIN s = 1 .. N /\ InTurn(s, A)
        /\ \A i, j \in 1 .. N : s[i].tile = s[j].tile <=> s[i].ant = s[j].ant
        /\ \A i \in 1 .. N :
             /\ s[i].input \in Nat /\ s[i].vcs = get_vcs_order(s[i].input)
             /\ s[i].gains = Len(opened.chans)
        /\ {s[i].input : i \in 1 .. N} = {opened.rows[i].input : i \in 1 .. N}
    BY <2>1, SortedTable
  <2>3. /\ antennas = populate_antennas(s)
        /\ version = "VCSLegacyRecombined" => inputs = ByVcs(s)
        /\ version # "VCSLegacyRecombined" => inputs = s
    BY DEF IInv, ReadInv
  <2>4. num_ants = A
    BY DEF num_ants
  <2> HIDE DEF N, A, s
  <2>5. antennas = [k \in 1 .. A |-> [ant |-> k - 1, x |-> s[2 * k - 1], y |-> s[2 * k]]]
    BY <2>2, <2>3, AntennasInTurn
  <2>6. Len(antennas) = A
    BY <2>2, <2>5
  <2>7. /\ DOMAIN inputs = 1 .. N
        /\ \A i \in 1 .. N : \E k \in 1 .. N : inputs[k] = s[i]
        /\ \A k \in 1 .. N : \E i \in 1 .. N : inputs[k] = s[i]
        /\ version = "VCSLegacyRecombined" /\ AreAllInputs(N, s) =>
             \A k \in 1 .. N : inputs[k].input = fine_pfb_reorder(k - 1)
    <3>1. CASE version = "VCSLegacyRecombined"
      <4>1. /\ N \in Nat /\ DOMAIN s = 1 .. N
            /\ \A i \in 1 .. N : s[i].input \in Nat /\ s[i].vcs = get_vcs_order(s[i].input)
        BY <2>2
      <4>2. /\ DOMAIN ByVcs(s) = 1 .. N
            /\ \A i \in 1 .. N : \E k \in 1 .. N : ByVcs(s)[k] = s[i]
            /\ \A k \in 1 .. N : \E i \in 1 .. N : ByVcs(s)[k] = s[i]
            /\ AreAllInputs(N, s) => \A k \in 1 .. N : ByVcs(s)[k].input = fine_pfb_reorder(k - 1)
        BY <4>1, InputsByVcs
      <4>3. QED
        BY <2>3, <3>1, <4>2
    <3>2. CASE version # "VCSLegacyRecombined"
      BY <2>2, <2>3, <3>2
    <3>3. QED
      BY <3>1, <3>2
  <2>8. ASSUME NEW k \in 1 .. A
        PROVE  /\ antennas[k].ant = k - 1
               /\ antennas[k].x.tile = antennas[k].y.tile
               /\ antennas[k].x.pol = "X" /\ antennas[k].y.pol = "Y"
               /\ \E i, j \in DOMAIN inputs : inputs[i] = antennas[k].x /\ inputs[j] = antennas[k].y
               /\ version # "VCSLegacyRecombined" =>
                    inputs[2 * k - 1] = antennas[k].x /\ inputs[2 * k] = antennas[k].y
    <3>1. 2 * k - 1 \in 1 .. N /\ 2 * k \in 1 .. N
      BY <2>2
    <3>2. antennas[k].ant = k - 1 /\ antennas[k].x = s[2 * k - 1] /\ antennas[k].y = s[2 * k]
      BY <2>5
    <3>3. /\ s[2 * k - 1].ant = k - 1 /\ s[2 * k - 1].pol = "X"
          /\ s[2 * k].ant = k - 1 /\ s[2 * k].pol = "Y"
      BY <2>2 DEF InTurn
    <3>4. s[2 * k - 1].tile = s[2 * k].tile
      BY <2>2, <3>1, <3>3
    <3>5. PICK i \in 1 .. N : inputs[i] = s[2 * k - 1]
      BY <2>7, <3>1
    <3>6. PICK j \in 1 .. N : inputs[j] = s[2 * k]
      BY <2>7, <3>1
    <3>7. /\ i \in DOMAIN inputs /\ j \in DOMAIN inputs
          /\ inputs[i] = antennas[k].x /\ inputs[j] = antennas[k].y
      BY <2>7, <3>2, <3>5, <3>6
    <3>8. QED
      BY <2>3, <3>2, <3>3, <3>4, <3>7
  <2>9. ASSUME version = "VCSLegacyRecombined", N % (Lanes * PerLane) = 0,
               {opened.rows[i].input : i \in 1 .. N} = 0 .. N - 1
        PROVE  \A p \in 1 .. N : inputs[p].input = fine_pfb_reorder(p - 1)
    <3>1. AreAllInputs(N, s)
      BY <2>2, <2>9 DEF AreAllInputs
    <3>2. \A k \in 1 .. N : inputs[k].input = fine_pfb_reorder(k - 1)
      BY <2>7, <2>9, <3>1
    <3>3. QED
      BY <2>9, <3>2
  <2>10. ASSUME reopened = opened PROVE \A i \in DOMAIN inputs : inputs[i].gains = Len(coarse)
    <3>1. Len(coarse) = Len(opened.chans)
      BY <2>10, Channels
    <3>2. TAKE k \in DOMAIN inputs
    <3>3. PICK i \in 1 .. N : inputs[k] = s[i]
      BY <2>7
    <3>4. QED
      BY <2>2, <3>1, <3>3
  <2>11. QED
    BY <2>4, <2>6, <2>8, <2>9, <2>10 DEF InputsAndAntennasAgree, N
<1>2. QED
  BY <1>1, IInvariant, PTL

-----------------------------------------------------------------------------
(* The conversion of the visibilities of a legacy correlator, which takes    *)
(* the order of the inputs from the metafits: LegacyConversion, for every    *)
(* number of groups and of fine channels and every order of the inputs.      *)

AllOrders == {order \in [Inputs -> Inputs] : \A i \in Inputs : \E j \in Inputs : order[j] = i}

\* The triangle below k.
Triangle(k) == (k * (k + 1)) \div 2

LEMMA Triangles ==
  ASSUME NEW k \in Nat
  PROVE  Triangle(k) \in Nat /\ 2 * Triangle(k) = k * k + k /\ Triangle(k + 1) = Triangle(k) + k + 1
<1>1. ASSUME NEW j \in Nat
      PROVE  Triangle(j) \in Nat /\ 2 * Triangle(j) = j * j + j
  <2>1. PICK q \in Nat : j = 2 * q \/ j = 2 * q + 1
    <3>1. j \div 2 \in Nat /\ (j = 2 * (j \div 2) \/ j = 2 * (j \div 2) + 1)
      OBVIOUS
    <3>2. QED
      BY <3>1
  <2>2. PICK x \in Nat : j * (j + 1) = 2 * x
    <3>1. CASE j = 2 * q
      <4>1. j * (j + 1) = 2 * (q * (j + 1)) /\ q * (j + 1) \in Nat
        BY <2>1, <3>1
      <4>2. QED
        BY <4>1
    <3>2. CASE j = 2 * q + 1
      <4>1. j * (j + 1) = 2 * (j * (q + 1)) /\ j * (q + 1) \in Nat
        BY <2>1, <3>2
      <4>2. QED
        BY <4>1
    <3>3. QED
      BY <2>1, <3>1, <3>2
  <2>3. (2 * x) \div 2 = x
    BY <2>2
  <2>4. Triangle(j) = x
    BY <2>2, <2>3 DEF Triangle
  <2>5. j * (j + 1) = j * j + j
    OBVIOUS
  <2>6. QED
    BY <2>2, <2>4, <2>5
<1>2. (k + 1) * (k + 1) + (k + 1) = k * k + k + 2 * (k + 1)
  OBVIOUS
<1>3. k + 1 \in Nat /\ k * k + k \in Nat
  OBVIOUS
<1>4. /\ Triangle(k) \in Nat /\ 2 * Triangle(k) = k * k + k
      /\ Triangle(k + 1) \in Nat /\ 2 * Triangle(k + 1) = (k + 1) * (k + 1) + (k + 1)
  BY <1>1, <1>3
<1>5. QED
  BY <1>2, <1>3, <1>4

\* A column ends before a later one starts.
LEMMA ColumnsGrow ==
  ASSUME NEW a \in Nat, NEW b \in Nat, a < b
  PROVE  Triangle(a) + a + 1 <= Triangle(b)
<1>1. /\ Triangle(a) \in Nat /\ Triangle(b) \in Nat
      /\ 2 * Triangle(a) = a * a + a /\ 2 * Triangle(b) = b * b + b
  BY Triangles
<1>2. (b - a - 1) * (a + b + 2) \in Nat
  <2>1. b - a - 1 \in Nat /\ a + b + 2 \in Nat
    OBVIOUS
  <2>2. QED
    BY <2>1
<1>3. b * b + b - (a * a + a) - 2 * (a + 1) = (b - a - 1) * (a + b + 2)
  OBVIOUS
<1>4. a * a + a \in Nat /\ b * b + b \in Nat
  OBVIOUS
<1>5. QED
  BY <1>1, <1>2, <1>3, <1>4

\* A row of N ends before a later one starts.
LEMMA RowsGrow ==
  ASSUME NEW N \in Nat, NEW a \in 0 .. N, NEW b \in 0 .. N, a < b
  PROVE  a * N - Triangle(a) + N <= b * N - Triangle(b) + b
<1>1. /\ a \in Nat /\ b \in Nat /\ Triangle(a) \in Nat /\ Triangle(b) \in Nat
      /\ 2 * Triangle(a) = a * a + a /\ 2 * Triangle(b) = b * b + b
  BY Triangles
<1>2. (b - a - 1) * (2 * N - a - b) \in Nat
  <2>1. b - a - 1 \in Nat /\ 2 * N - a - b \in Nat
    OBVIOUS
  <2>2. QED
    BY <2>1
<1>3. 2 * (b * N) - (b * b + b) + 2 * b - (2 * (a * N) - (a * a + a) + 2 * N)
        = (b - a - 1) * (2 * N - a - b)
  OBVIOUS
<1>4. a * N \in Int /\ b * N \in Int /\ a * a + a \in Int /\ b * b + b \in Int
  BY <1>1
<1>5. QED
  BY <1>1, <1>2, <1>3, <1>4

LEMMA RowsFollow ==
  ASSUME NEW N \in Nat, NEW a \in 0 .. N - 1
  PROVE  (a + 1) * N - Triangle(a + 1) + (a + 1) = a * N - Triangle(a) + N
<1>1. a \in Nat /\ Triangle(a) \in Nat /\ Triangle(a + 1) = Triangle(a) + a + 1
  BY Triangles
<1>2. (a + 1) * N = a * N + N /\ a * N \in Int
  OBVIOUS
<1>3. QED
  BY <1>1, <1>2

-----------------------------------------------------------------------------
\* The numbers of the triangle.

Half == NumTiles

LEMMA Halves ==
  /\ NumInputs = 2 * Half /\ Half \in Nat \ {0} /\ Inputs = 0 .. 2 * Half - 1
  /\ NumBaselines = Triangle(Half) /\ Triangle(Half) \in Nat \ {0}
  /\ Tiles = 0 .. Half - 1 /\ Pols = 4
  /\ HduStride = 4 * Triangle(Half)
<1>1. NumInputs \in Nat \ {0} /\ NumInputs % 2 = 0
  <2>1. Groups \in Nat \ {0} /\ Lanes \in Nat \ {0} /\ PerLane \in Nat \ {0}
    BY LanesAssumption, SizesAssumption
  <2>2. Groups * Lanes * PerLane \in Nat \ {0}
    BY <2>1
  <2>3. QED
    BY <2>2, SizesAssumption DEF NumInputs
<1>2. Half = NumInputs \div 2
  BY DEF Half, NumTiles
<1>3. NumInputs = 2 * Half /\ Half \in Nat \ {0}
  BY <1>1, <1>2
<1>4. Triangle(Half) \in Nat \ {0}
  <2>1. 2 * Triangle(Half) = Half * Half + Half /\ Triangle(Half) \in Nat
    BY <1>3, Triangles
  <2>2. Half * Half + Half > 0
    BY <1>3
  <2>3. QED
    BY <2>1, <2>2
<1>5. NumBaselines = Triangle(Half)
  BY DEF NumBaselines, Triangle, Half
<1>6. HduStride = 4 * Triangle(Half)
  BY <1>4, <1>5 DEF HduStride, Pols
<1>7. QED
  BY <1>3, <1>4, <1>5, <1>6 DEF Inputs, Tiles, Pols, Half

LEMMA ColumnNumbers ==
  ASSUME NEW a \in Nat, NEW b \in Nat, NEW c \in Nat, NEW d \in Nat, a <= b, c <= d,
         Triangle(b) + a = Triangle(d) + c
  PROVE  a = c /\ b = d
<1>1. Triangle(b) \in Nat /\ Triangle(d) \in Nat
  BY Triangles
<1>2. ~(b < d)
  <2>1. b < d => Triangle(b) + b + 1 <= Triangle(d)
    BY ColumnsGrow
  <2>2. QED
    BY <1>1, <2>1
<1>3. ~(d < b)
  <2>1. d < b => Triangle(d) + d + 1 <= Triangle(b)
    BY ColumnsGrow
  <2>2. QED
    BY <1>1, <2>1
<1>4. b = d
  BY <1>2, <1>3
<1>5. QED
  BY <1>1, <1>4

\* The number of a pair of places in the HDU: that of their square of 2 x 2, and
\* the place in it.
Number(i, j) == 4 * (Triangle(j \div 2) + (i \div 2)) + (i % 2) + 2 * (j % 2)

LEMMA Parts ==
  ASSUME NEW i \in Nat, NEW j \in Nat, i <= j
  PROVE  /\ i \div 2 \in Nat /\ i % 2 \in 0 .. 1 /\ i = 2 * (i \div 2) + (i % 2)
         /\ j \div 2 \in Nat /\ j % 2 \in 0 .. 1 /\ j = 2 * (j \div 2) + (j % 2)
         /\ i \div 2 <= j \div 2
OBVIOUS

\* Half of a number below an even one is below its half.
LEMMA HalfFits ==
  ASSUME NEW n \in Nat, NEW h \in Nat, n < 2 * h
  PROVE  n \div 2 \in 0 .. h - 1
<1>1. n \div 2 \in Nat /\ n % 2 \in 0 .. 1 /\ n = 2 * (n \div 2) + (n % 2)
  BY Parts
<1>2. QED
  BY <1>1

\* Even numbers go up by two.
LEMMA EvenSteps ==
  ASSUME NEW c \in Nat, NEW d \in Nat, c % 2 = 0, d % 2 = 0
  PROVE  /\ c < d => c + 2 <= d
         /\ \A n \in Nat : n % 2 = 0 /\ n <= c => n = c \/ n + 2 <= c
OBVIOUS

LEMMA NumberParts ==
  ASSUME NEW i \in Nat, NEW j \in Nat, i <= j
  PROVE  /\ Number(i, j) \in Nat
         /\ Number(i, j) \div 4 = Triangle(j \div 2) + (i \div 2)
         /\ Number(i, j) % 2 = i % 2 /\ (Number(i, j) % 4) \div 2 = j % 2
<1> DEFINE s == Triangle(j \div 2) + (i \div 2)
           p == i % 2
           q == j % 2
<1>1. s \in Nat /\ p \in 0 .. 1 /\ q \in 0 .. 1
  <2>1. i \div 2 \in Nat /\ i % 2 \in 0 .. 1 /\ j \div 2 \in Nat /\ j % 2 \in 0 .. 1
    BY Parts
  <2>2. Triangle(j \div 2) \in Nat
    BY <2>1, Triangles
  <2>3. QED
    BY <2>1, <2>2
<1>2. Number(i, j) = 4 * s + p + 2 * q
  BY DEF Number
<1> HIDE DEF s, p, q
<1>3. ASSUME NEW x \in Nat, x = 4 * s + p + 2 * q
      PROVE  x \div 4 = s /\ x % 2 = p /\ (x % 4) \div 2 = q
  BY <1>1, <1>3
<1>4. 4 * s + p + 2 * q \in Nat
  BY <1>1
<1>5. QED
  BY <1>2, <1>3, <1>4 DEF s, p, q

LEMMA NumbersTellApart ==
  ASSUME NEW i \in Nat, NEW j \in Nat, NEW k \in Nat, NEW l \in Nat, i <= j, k <= l,
         Number(i, j) = Number(k, l)
  PROVE  i = k /\ j = l
<1>1. /\ Triangle(j \div 2) + (i \div 2) = Triangle(l \div 2) + (k \div 2)
      /\ i % 2 = k % 2 /\ j % 2 = l % 2
  <2>1. /\ Number(i, j) \div 4 = Triangle(j \div 2) + (i \div 2)
        /\ Number(i, j) % 2 = i % 2 /\ (Number(i, j) % 4) \div 2 = j % 2
    BY NumberParts
  <2>2. /\ Number(k, l) \div 4 = Triangle(l \div 2) + (k \div 2)
        /\ Number(k, l) % 2 = k % 2 /\ (Number(k, l) % 4) \div 2 = l % 2
    BY NumberParts
  <2>3. QED
    BY <2>1, <2>2, Zenon
<1>2. /\ i \div 2 \in Nat /\ i = 2 * (i \div 2) + (i % 2)
      /\ j \div 2 \in Nat /\ j = 2 * (j \div 2) + (j % 2) /\ i \div 2 <= j \div 2
  BY Parts
<1>3. /\ k \div 2 \in Nat /\ k = 2 * (k \div 2) + (k % 2)
      /\ l \div 2 \in Nat /\ l = 2 * (l \div 2) + (l % 2) /\ k \div 2 <= l \div 2
  BY Parts
<1>4. i \div 2 = k \div 2 /\ j \div 2 = l \div 2
  BY <1>1, <1>2, <1>3, ColumnNumbers
<1>5. QED
  BY <1>1, <1>2, <1>3, <1>4

LEMMA NumbersFit ==
  ASSUME NEW H \in Nat, NEW i \in Nat, NEW j \in Nat, i <= j, j < 2 * H
  PROVE  Number(i, j) < 4 * Triangle(H)
<1>1. /\ i \div 2 \in Nat /\ i % 2 \in 0 .. 1
      /\ j \div 2 \in Nat /\ j % 2 \in 0 .. 1 /\ i \div 2 <= j \div 2
      /\ j = 2 * (j \div 2) + (j % 2)
  BY Parts
<1>2. j \div 2 < H
  BY <1>1
<1>3. /\ Triangle(j \div 2) + (j \div 2) + 1 <= Triangle(H)
      /\ Triangle(j \div 2) \in Nat /\ Triangle(H) \in Nat
  BY <1>1, <1>2, ColumnsGrow, Triangles
<1>4. QED
  BY <1>1, <1>3 DEF Number

\* The wanted triangle, row by row.
LEMMA RowNumbers ==
  ASSUME NEW a \in 0 .. Half, NEW b \in a .. Half - 1
  PROVE  /\ ByRows(a, b) = a * Half - Triangle(a) + b
         /\ ByRows(a, b) \in 0 .. Triangle(Half) - 1
         /\ \A c \in 0 .. Half - 1 : \A d \in c .. Half - 1 :
              ByRows(a, b) = ByRows(c, d) => a = c /\ b = d
<1>1. Half \in Nat \ {0}
  BY Halves
<1>2. ASSUME NEW c \in 0 .. Half, NEW d \in Nat
      PROVE  ByRows(c, d) = c * Half - Triangle(c) + d /\ ByRows(c, d) \in Int
  <2>1. ByRows(c, d) = c * Half - Triangle(c) + d
    BY DEF ByRows, Triangle, Half
  <2>2. c * Half \in Int /\ Triangle(c) \in Nat
    BY <1>1, Triangles
  <2>3. QED
    BY <2>1, <2>2
<1>3. ASSUME NEW c \in 0 .. Half, NEW d \in c .. Half - 1, NEW e \in c + 1 .. Half, NEW f \in e .. Half
      PROVE  ByRows(c, d) < ByRows(e, f)
  <2>1. c * Half - Triangle(c) + Half <= e * Half - Triangle(e) + e
    BY <1>1, RowsGrow
  <2>2. c * Half \in Int /\ e * Half \in Int /\ Triangle(c) \in Nat /\ Triangle(e) \in Nat
    BY <1>1, Triangles
  <2>3. /\ ByRows(c, d) = c * Half - Triangle(c) + d
        /\ ByRows(e, f) = e * Half - Triangle(e) + f
    BY <1>1, <1>2
  <2>4. QED
    BY <1>1, <2>1, <2>2, <2>3
<1>4. ByRows(Half, Half) = Triangle(Half)
  <2>1. 2 * Triangle(Half) = Half * Half + Half /\ Triangle(Half) \in Nat /\ Half * Half \in Int
    BY <1>1, Triangles
  <2>2. ByRows(Half, Half) = Half * Half - Triangle(Half) + Half
    BY <1>1, <1>2
  <2>3. QED
    BY <1>1, <2>1, <2>2
<1>5. a < Half /\ Half \in a + 1 .. Half
  BY <1>1
<1>6. ByRows(a, b) < Triangle(Half)
  BY <1>1, <1>3, <1>4, <1>5
<1>7. ByRows(a, b) >= 0
  <2>1. a = 0 => ByRows(a, b) = b
    <3>1. Triangle(0) = 0
      BY DEF Triangle
    <3>2. QED
      BY <1>1, <1>2, <3>1
  <2>2. a > 0 => ByRows(0, 0) < ByRows(a, b)
    BY <1>1, <1>3
  <2>3. ByRows(0, 0) = 0
    <3>1. Triangle(0) = 0
      BY DEF Triangle
    <3>2. QED
      BY <1>1, <1>2, <3>1
  <2>4. ByRows(a, b) \in Int
    BY <1>1, <1>2
  <2>5. QED
    BY <2>1, <2>2, <2>3, <2>4
<1>8. ASSUME NEW c \in 0 .. Half - 1, NEW d \in c .. Half - 1, ByRows(a, b) = ByRows(c, d)
      PROVE  a = c /\ b = d
  <2>1. ~(a < c) /\ ~(c < a)
    BY <1>1, <1>2, <1>3, <1>8
  <2>2. a = c
    BY <1>1, <2>1
  <2>3. /\ ByRows(a, b) = a * Half - Triangle(a) + b
        /\ ByRows(c, d) = c * Half - Triangle(c) + d
        /\ a * Half \in Int /\ Triangle(a) \in Nat
    BY <1>1, <1>2, Triangles
  <2>4. QED
    BY <1>1, <1>8, <2>2, <2>3
<1>9. ByRows(a, b) = a * Half - Triangle(a) + b /\ ByRows(a, b) \in Int
  BY <1>1, <1>2
<1>10. Triangle(Half) \in Nat
  BY <1>1, Triangles
<1>11. QED
  BY <1>6, <1>7, <1>8, <1>9, <1>10

-----------------------------------------------------------------------------
\* Where the PFB puts the inputs.

LEMMA StaysInGroup ==
  ASSUME NEW i \in Inputs
  PROVE  fine_pfb_reorder(i) \in Inputs /\ get_vcs_order(i) \in Inputs
<1>1. Lanes \in Nat \ {0} /\ PerLane \in Nat \ {0} /\ Groups \in Nat
  BY LanesAssumption, SizesAssumption
<1>2. Inputs = 0 .. Groups * (Lanes * PerLane) - 1
  <2>1. Groups * Lanes * PerLane = Groups * (Lanes * PerLane)
    BY <1>1
  <2>2. QED
    BY <2>1 DEF Inputs, NumInputs
<1>3. QED
  BY <1>1, <1>2, OrdersStay

\* The place at which the PFB puts an input out, the inputs being ordered by m.
Place(m, x) == CHOOSE i \in Inputs : m[fine_pfb_reorder(i)] = x

LEMMA PlacesAreInputs ==
  ASSUME NEW m \in AllOrders
  PROVE  /\ \A i \in Inputs : /\ m[fine_pfb_reorder(i)] \in Inputs
                              /\ Place(m, m[fine_pfb_reorder(i)]) = i
         /\ \A x \in Inputs : /\ Place(m, x) \in Inputs
                              /\ m[fine_pfb_reorder(Place(m, x))] = x
<1> DEFINE r(i) == fine_pfb_reorder(i)
<1>1. m \in [Inputs -> Inputs] /\ \A i \in Inputs : \E j \in Inputs : m[j] = i
  BY DEF AllOrders
<1>2. \A j, k \in Inputs : m[j] = m[k] => j = k
  <2>1. IsFiniteSet(Inputs)
    <3>1. NumInputs \in Nat /\ Inputs = 0 .. NumInputs - 1
      BY Halves DEF Inputs, NumInputs
    <3>2. 0 \in Int /\ NumInputs - 1 \in Int
      BY <3>1
    <3>3. QED
      BY <3>1, <3>2, FS_Interval
  <2>2. m \in Surjection(Inputs, Inputs)
    BY <1>1 DEF Surjection
  <2>3. m \in Injection(Inputs, Inputs)
    BY <2>1, <2>2, FS_Surjection
  <2>4. QED
    BY <2>3 DEF Injection, IsInjective
<1>3. ASSUME NEW i \in Inputs
      PROVE  /\ i \in Nat /\ r(i) \in Inputs /\ get_vcs_order(i) \in Inputs
             /\ get_vcs_order(r(i)) = i /\ r(get_vcs_order(i)) = i
  <2>1. i \in Nat
    BY DEF Inputs
  <2>2. QED
    BY <2>1, StaysInGroup, OrdersAreInverse
<1> HIDE DEF r
<1>4. ASSUME NEW j \in Inputs, NEW k \in Inputs, m[r(j)] = m[r(k)]
      PROVE  j = k
  <2>1. r(j) = r(k)
    BY <1>2, <1>3, <1>4
  <2>2. QED
    BY <1>3, <2>1
<1>5. ASSUME NEW x \in Inputs
      PROVE  Place(m, x) \in Inputs /\ m[r(Place(m, x))] = x
  <2>1. PICK j \in Inputs : m[j] = x
    BY <1>1
  <2>2. get_vcs_order(j) \in Inputs /\ m[r(get_vcs_order(j))] = x
    BY <1>3, <2>1
  <2>3. QED
    BY <2>2 DEF Place, r
<1>6. ASSUME NEW i \in Inputs
      PROVE  m[r(i)] \in Inputs /\ Place(m, m[r(i)]) = i
  <2>1. m[r(i)] \in Inputs
    BY <1>1, <1>3
  <2>2. Place(m, m[r(i)]) \in Inputs /\ m[r(Place(m, m[r(i)]))] = m[r(i)]
    BY <1>5, <2>1
  <2>3. QED
    BY <1>4, <2>1, <2>2
<1>7. QED
  BY <1>5, <1>6 DEF r

\* Two inputs have one place each.
LEMMA PlacesDiffer ==
  ASSUME NEW m \in AllOrders, NEW x \in Inputs, NEW y \in Inputs,
         Place(m, x) = Place(m, y)
  PROVE  x = y
BY PlacesAreInputs

-----------------------------------------------------------------------------
\* The full matrix, and the loops that make it.

\* What stands in row x and column y when the loops of generate_full_matrix are at
\* a row and column; when they are done; and when the empty places are filled.
Direct(m, x, y) == Place(m, x) <= Place(m, y)
Before(i, j, row, col) == j < col \/ (j < col + 2 /\ i < row)
Seen(m, x, y, row, col) ==
  IF Direct(m, x, y) /\ Before(Place(m, x), Place(m, y), row, col)
    THEN Number(Place(m, x), Place(m, y)) ELSE EMPTY
Raw(m, x, y) == IF Direct(m, x, y) THEN Number(Place(m, x), Place(m, y)) ELSE EMPTY
Value(m, x, y) ==
  IF Direct(m, x, y) THEN Number(Place(m, x), Place(m, y)) ELSE -Number(Place(m, y), Place(m, x))

InSquares ==
  /\ col_order \in 0 .. 2 * Half /\ row_order \in 0 .. col_order
  /\ col_order % 2 = 0 /\ row_order % 2 = 0
  /\ col_order = 2 * Half => row_order = 0

CorrelateInv ==
  stage = "correlate" =>
    /\ InSquares
    /\ source_legacy_ndx = 4 * (Triangle(col_order \div 2) + (row_order \div 2))
    /\ full_matrix = [x \in Inputs |-> [y \in Inputs |->
                        Seen(mwax_order, x, y, row_order, col_order)]]

FillInv ==
  stage = "fill" =>
    /\ row_order \in 0 .. 2 * Half /\ col_order = 0
    /\ full_matrix = [x \in Inputs |-> [y \in Inputs |->
                        IF x < row_order THEN Value(mwax_order, x, y) ELSE Raw(mwax_order, x, y)]]

MatrixInv ==
  stage = "table" =>
    full_matrix = [x \in Inputs |-> [y \in Inputs |-> Value(mwax_order, x, y)]]

StagesInv ==
  /\ mwax_order \in AllOrders /\ legacy \in BOOLEAN
  /\ stage \in {"correlate", "fill", "table", "ready", "by_baseline", "by_frequency"}
  /\ ~legacy => stage = "ready"
  /\ stage \in {"correlate", "fill"} => table = <<>>

LEMMA StagesNext == StagesInv /\ [NextConvert]_convertVars => StagesInv'
BY DEF StagesInv, NextConvert, convertVars, observation, loops, buffers, Correlate,
       Correlated, Fill, Filled, Push, Pushed, StartRead,
       ReadByBaseline, ReadByFrequency, ConvertToBaselineOrder,
       ConvertToFrequencyOrder, Return, ReadMwaxByBaseline,
       ReadMwaxByFrequency

\* The square that a step of the loops adds.
LEMMA SquareAdds ==
  ASSUME StagesInv, CorrelateInv, Correlate, NEW x \in Inputs, NEW y \in Inputs
  PROVE  full_matrix'[x][y] = Seen(mwax_order, x, y, row_order', col_order')
<1> DEFINE input(i) == mwax_order[fine_pfb_reorder(i)]
           n == source_legacy_ndx
           i == Place(mwax_order, x)
           j == Place(mwax_order, y)
<1>1. /\ stage = "correlate" /\ col_order < 2 * Half
      /\ full_matrix' =
           [row \in Inputs |-> [col \in Inputs |->
             CASE row = input(row_order) /\ col = input(col_order) -> n
               [] row = input(row_order + 1) /\ col = input(col_order) /\ col_order # row_order -> n + 1
               [] row = input(row_order) /\ col = input(col_order + 1) -> n + 2
               [] row = input(row_order + 1) /\ col = input(col_order + 1) -> n + 3
               [] OTHER -> full_matrix[row][col]]]
      /\ IF row_order + 2 <= col_order
           THEN row_order' = row_order + 2 /\ col_order' = col_order
           ELSE row_order' = 0 /\ col_order' = col_order + 2
  BY Halves DEF Correlate
<1>2. /\ Half \in Nat /\ Inputs = 0 .. 2 * Half - 1
      /\ col_order \in Nat /\ row_order \in Nat /\ row_order <= col_order
      /\ col_order % 2 = 0 /\ row_order % 2 = 0
      /\ n = 4 * (Triangle(col_order \div 2) + (row_order \div 2))
      /\ full_matrix[x][y] = Seen(mwax_order, x, y, row_order, col_order)
      /\ mwax_order \in AllOrders
  <2>1. Half \in Nat /\ Inputs = 0 .. 2 * Half - 1
    BY Halves
  <2>2. /\ InSquares
        /\ n = 4 * (Triangle(col_order \div 2) + (row_order \div 2))
        /\ full_matrix[x][y] = Seen(mwax_order, x, y, row_order, col_order)
    BY <1>1 DEF CorrelateInv
  <2>3. /\ col_order \in Nat /\ row_order \in Nat /\ row_order <= col_order
        /\ col_order % 2 = 0 /\ row_order % 2 = 0
    BY <2>1, <2>2 DEF InSquares
  <2>4. mwax_order \in AllOrders
    BY DEF StagesInv
  <2>5. QED
    BY <2>1, <2>2, <2>3, <2>4
<1>3. /\ row_order \in Inputs /\ row_order + 1 \in Inputs
      /\ col_order \in Inputs /\ col_order + 1 \in Inputs
  <2>1. /\ Half \in Nat /\ Inputs = 0 .. 2 * Half - 1 /\ col_order < 2 * Half
        /\ col_order \in Nat /\ row_order \in Nat /\ row_order <= col_order
        /\ col_order % 2 = 0 /\ (2 * Half) % 2 = 0
    BY <1>1, <1>2
  <2>2. col_order + 2 <= 2 * Half
    BY <2>1, EvenSteps
  <2>3. QED
    BY <2>1, <2>2
<1>4. i \in Inputs /\ j \in Inputs
  BY <1>2, PlacesAreInputs
<1>5. /\ \A k \in Inputs : x = input(k) <=> i = k
      /\ \A k \in Inputs : y = input(k) <=> j = k
  BY <1>2, PlacesAreInputs
<1>6. full_matrix'[x][y] =
        CASE i = row_order /\ j = col_order -> n
          [] i = row_order + 1 /\ j = col_order /\ col_order # row_order -> n + 1
          [] i = row_order /\ j = col_order + 1 -> n + 2
          [] i = row_order + 1 /\ j = col_order + 1 -> n + 3
          [] OTHER -> full_matrix[x][y]
  <2>1. full_matrix'[x][y] =
          CASE x = input(row_order) /\ y = input(col_order) -> n
            [] x = input(row_order + 1) /\ y = input(col_order) /\ col_order # row_order -> n + 1
            [] x = input(row_order) /\ y = input(col_order + 1) -> n + 2
            [] x = input(row_order + 1) /\ y = input(col_order + 1) -> n + 3
            [] OTHER -> full_matrix[x][y]
    BY <1>1
  <2> HIDE DEF input, i, j, n
  <2>2. QED
    BY <1>3, <1>5, <2>1
<1> HIDE DEF input
<1>7. /\ i = row_order /\ j = col_order => Number(i, j) = n
      /\ i = row_order + 1 /\ j = col_order => Number(i, j) = n + 1
      /\ i = row_order /\ j = col_order + 1 => Number(i, j) = n + 2
      /\ i = row_order + 1 /\ j = col_order + 1 => Number(i, j) = n + 3
  <2> DEFINE c == col_order \div 2
             r == row_order \div 2
  <2>1. c \in Nat /\ r \in Nat /\ col_order = 2 * c /\ row_order = 2 * r
    BY <1>2
  <2>2. /\ (2 * c) \div 2 = c /\ (2 * c + 1) \div 2 = c /\ (2 * c) % 2 = 0 /\ (2 * c + 1) % 2 = 1
        /\ (2 * r) \div 2 = r /\ (2 * r + 1) \div 2 = r /\ (2 * r) % 2 = 0 /\ (2 * r + 1) % 2 = 1
    BY <2>1
  <2>3. Triangle(c) \in Nat
    BY <2>1, Triangles
  <2>4. n = 4 * (Triangle(c) + r)
    BY <1>2
  <2> HIDE DEF c, r, i, j, n
  <2>5. QED
    BY <2>1, <2>2, <2>3, <2>4 DEF Number
<1>8. i \in Nat /\ j \in Nat
  BY <1>2, <1>4
<1>9. CASE i \in {row_order, row_order + 1} /\ j \in {col_order, col_order + 1}
  <2>1. Before(i, j, row_order', col_order')
    <3> HIDE DEF i, j, n
    <3>1. /\ col_order \in Nat /\ row_order \in Nat /\ row_order <= col_order
          /\ i <= row_order + 1 /\ j <= col_order + 1 /\ j >= col_order
      BY <1>2, <1>8, <1>9
    <3>2. CASE row_order + 2 <= col_order
      <4>1. row_order' = row_order + 2 /\ col_order' = col_order
        BY <1>1, <3>2
      <4>2. QED
        BY <1>8, <3>1, <4>1 DEF Before
    <3>3. CASE ~(row_order + 2 <= col_order)
      <4>1. row_order' = 0 /\ col_order' = col_order + 2
        BY <1>1, <3>3
      <4>2. QED
        BY <1>8, <3>1, <4>1 DEF Before
    <3>4. QED
      BY <3>2, <3>3
  <2>2. CASE i <= j
    <3>1. full_matrix'[x][y] = Number(i, j)
      <4> HIDE DEF i, j, n
      <4>1. QED
        BY <1>2, <1>6, <1>7, <1>9, <2>2
    <3>2. QED
      BY <2>1, <2>2, <3>1 DEF Seen, Direct
  <2>3. CASE ~(i <= j)
    <3>1. i = row_order + 1 /\ j = col_order /\ row_order = col_order
      <4>1. col_order \in Nat /\ row_order \in Nat /\ row_order <= col_order
        BY <1>2
      <4> HIDE DEF i, j
      <4>2. QED
        BY <1>8, <1>9, <2>3, <4>1
    <3>2. full_matrix'[x][y] = full_matrix[x][y]
      <4> HIDE DEF i, j, n
      <4>1. QED
        BY <1>2, <1>6, <3>1
    <3>3. QED
      BY <1>2, <2>3, <3>2 DEF Seen, Direct
  <2>4. QED
    BY <2>2, <2>3
<1>10. CASE ~(i \in {row_order, row_order + 1} /\ j \in {col_order, col_order + 1})
  <2>1. full_matrix'[x][y] = full_matrix[x][y]
    <3> HIDE DEF i, j, n
    <3>1. QED
      BY <1>6, <1>10
  <2>2. i <= j => (Before(i, j, row_order, col_order) <=> Before(i, j, row_order', col_order'))
    <3> HIDE DEF i, j, n
    <3>1. CASE row_order + 2 <= col_order
      <4>1. row_order' = row_order + 2 /\ col_order' = col_order
        BY <1>1, <3>1
      <4>2. /\ i < row_order + 2 <=> (i < row_order \/ i \in {row_order, row_order + 1})
            /\ j < col_order + 2 <=> (j < col_order \/ j \in {col_order, col_order + 1})
        BY <1>2, <1>8
      <4>3. QED
        BY <1>10, <4>1, <4>2 DEF Before
    <3>2. CASE ~(row_order + 2 <= col_order)
      <4>1. row_order = col_order /\ row_order' = 0 /\ col_order' = col_order + 2
        <5>1. row_order = col_order \/ row_order + 2 <= col_order
          BY <1>2, EvenSteps
        <5>2. QED
          BY <1>1, <3>2, <5>1
      <4>2. ~(i < row_order')
        BY <1>8, <4>1
      <4>3. j < col_order + 2 <=> (j < col_order \/ j \in {col_order, col_order + 1})
        BY <1>2, <1>8
      <4>4. /\ i <= j /\ j \in {col_order, col_order + 1} => i < row_order \/ i \in {row_order, row_order + 1}
            /\ j < col_order => j < col_order + 2
        BY <1>2, <1>8, <4>1
      <4>5. Before(i, j, row_order', col_order') <=> j < col_order + 2
        BY <4>1, <4>2 DEF Before
      <4>6. QED
        BY <1>10, <4>3, <4>4, <4>5 DEF Before
    <3>3. QED
      BY <3>1, <3>2
  <2>3. QED
    BY <1>2, <2>1, <2>2 DEF Seen, Direct
<1>11. QED
  BY <1>9, <1>10

\* Steps that leave the matrix and the loops alone.
Still ==
  UNCHANGED <<full_matrix, source_legacy_ndx, col_order, row_order, table, mwax_order, legacy>>

LEMMA ReadsLeaveLoops ==
  ASSUME \/ ReadByBaseline \/ ReadByFrequency \/ ConvertToBaselineOrder
         \/ ConvertToFrequencyOrder \/ Return \/ ReadMwaxByBaseline
         \/ ReadMwaxByFrequency
  PROVE  /\ Still
         /\ stage \in {"ready", "by_baseline", "by_frequency"}
         /\ stage' \in {"ready", "by_baseline", "by_frequency"}
BY DEF Still, observation, loops, StartRead,
       ReadByBaseline, ReadByFrequency, ConvertToBaselineOrder,
       ConvertToFrequencyOrder, Return, ReadMwaxByBaseline,
       ReadMwaxByFrequency

LEMMA CorrelateNext ==
  StagesInv /\ CorrelateInv /\ [NextConvert]_convertVars => CorrelateInv'
<1> SUFFICES ASSUME StagesInv, CorrelateInv, [NextConvert]_convertVars, stage' = "correlate"
             PROVE  CorrelateInv'
  BY DEF CorrelateInv
<1>1. CASE Correlate
  <2>1. /\ stage = "correlate" /\ col_order < 2 * Half /\ mwax_order' = mwax_order
        /\ source_legacy_ndx' = source_legacy_ndx + 4
        /\ IF row_order + 2 <= col_order
             THEN row_order' = row_order + 2 /\ col_order' = col_order
             ELSE row_order' = 0 /\ col_order' = col_order + 2
    BY <1>1, Halves DEF Correlate, observation
  <2>2. /\ Half \in Nat
        /\ col_order \in Nat /\ row_order \in Nat /\ row_order <= col_order
        /\ col_order % 2 = 0 /\ row_order % 2 = 0
        /\ source_legacy_ndx = 4 * (Triangle(col_order \div 2) + (row_order \div 2))
    BY <2>1, Halves DEF CorrelateInv, InSquares
  <2>3. PICK c \in Nat, r \in Nat : col_order = 2 * c /\ row_order = 2 * r
    <3>1. /\ col_order \div 2 \in Nat /\ col_order = 2 * (col_order \div 2)
          /\ row_order \div 2 \in Nat /\ row_order = 2 * (row_order \div 2)
      BY <2>2
    <3>2. QED
      BY <3>1
  <2>4. ASSUME NEW k \in Nat
        PROVE  (2 * k) \div 2 = k /\ (2 * k) % 2 = 0
    OBVIOUS
  <2>5. /\ Triangle(c) \in Nat /\ Triangle(c + 1) = Triangle(c) + c + 1
        /\ source_legacy_ndx = 4 * (Triangle(c) + r)
    BY <2>2, <2>3, <2>4, Triangles
  <2>6. InSquares' /\ source_legacy_ndx' = 4 * (Triangle(col_order' \div 2) + (row_order' \div 2))
    <3>1. CASE row_order + 2 <= col_order
      <4>1. row_order' = 2 * (r + 1) /\ col_order' = 2 * c
        BY <2>1, <2>3, <3>1
      <4>2. row_order' \div 2 = r + 1 /\ row_order' % 2 = 0 /\ col_order' \div 2 = c /\ col_order' % 2 = 0
        BY <2>4, <4>1
      <4>3. row_order' \in 0 .. col_order' /\ col_order' \in 0 .. 2 * Half - 1
        BY <2>1, <2>2, <2>3, <3>1, <4>1
      <4>4. Half' = Half
        BY DEF Half, NumTiles, NumInputs
      <4>5. col_order' \in 0 .. 2 * Half /\ col_order' # 2 * Half
        BY <2>2, <4>3
      <4>6. InSquares'
        BY <4>2, <4>3, <4>4, <4>5 DEF InSquares
      <4>7. QED
        BY <2>1, <2>5, <4>2, <4>6
    <3>2. CASE ~(row_order + 2 <= col_order)
      <4>1. row_order' = 2 * 0 /\ col_order' = 2 * (c + 1) /\ r = c
        BY <2>1, <2>2, <2>3, <3>2
      <4>2. row_order' \div 2 = 0 /\ row_order' % 2 = 0 /\ col_order' \div 2 = c + 1 /\ col_order' % 2 = 0
        BY <2>4, <4>1
      <4>3. row_order' \in 0 .. col_order' /\ col_order' \in 0 .. 2 * Half /\ row_order' = 0
        BY <2>1, <2>2, <2>3, <4>1
      <4>4. Half' = Half
        BY DEF Half, NumTiles, NumInputs
      <4>5. InSquares'
        BY <2>2, <4>2, <4>3, <4>4 DEF InSquares
      <4>6. source_legacy_ndx' = 4 * (Triangle(c + 1) + 0)
        BY <2>1, <2>5, <4>1
      <4>7. QED
        BY <4>2, <4>5, <4>6
    <3>3. QED
      BY <3>1, <3>2
  <2>7. full_matrix' = [x \in Inputs |-> [y \in Inputs |->
                          Seen(mwax_order', x, y, row_order', col_order')]]
    <3>1. ASSUME NEW x \in Inputs, NEW y \in Inputs
          PROVE  full_matrix'[x][y] = Seen(mwax_order', x, y, row_order', col_order')
      BY <1>1, <2>1, SquareAdds
    <3>2. /\ full_matrix' = [x \in Inputs |-> full_matrix'[x]]
          /\ \A x \in Inputs : full_matrix'[x] = [y \in Inputs |-> full_matrix'[x][y]]
      BY <1>1, Halves DEF Correlate
    <3>3. QED
      BY <3>1, <3>2
  <2>8. QED
    BY <2>6, <2>7 DEF CorrelateInv, Seen, Direct, Before, Place, Number, Triangle
<1>2. CASE UNCHANGED convertVars
  BY <1>2 DEF convertVars, observation, loops, CorrelateInv, InSquares, Seen, Direct, Before,
     Place, Number, Triangle
<1>3. CASE NextConvert /\ ~Correlate
  <2>1. stage' # "correlate"
    BY <1>3, ReadsLeaveLoops DEF NextConvert, Correlated, Fill, Filled, Push,
       Pushed
  <2>2. QED
    BY <2>1
<1>4. QED
  BY <1>1, <1>2, <1>3

\* A row is filled from the rows above, which are, and those below.
LEMMA RowFills ==
  ASSUME StagesInv, FillInv, Fill, NEW x \in Inputs, NEW y \in Inputs
  PROVE  full_matrix'[x][y] =
           IF x < row_order' THEN Value(mwax_order, x, y) ELSE Raw(mwax_order, x, y)
<1>1. /\ stage = "fill" /\ row_order \in Inputs /\ row_order' = row_order + 1
      /\ mwax_order \in AllOrders /\ Inputs = 0 .. 2 * Half - 1 /\ Half \in Nat
      /\ full_matrix = [a \in Inputs |-> [b \in Inputs |->
                          IF a < row_order THEN Value(mwax_order, a, b) ELSE Raw(mwax_order, a, b)]]
      /\ full_matrix' = [full_matrix EXCEPT ![row_order] =
                           [b \in Inputs |->
                             IF full_matrix[row_order][b] = EMPTY
                               THEN -full_matrix[b][row_order] ELSE full_matrix[row_order][b]]]
  <2>1. /\ stage = "fill" /\ row_order < NumInputs /\ row_order' = row_order + 1
        /\ full_matrix' = [full_matrix EXCEPT ![row_order] =
                             [b \in Inputs |->
                               IF full_matrix[row_order][b] = EMPTY
                                 THEN -full_matrix[b][row_order] ELSE full_matrix[row_order][b]]]
    BY DEF Fill, Mirrored
  <2>2. /\ row_order \in 0 .. 2 * Half
        /\ full_matrix = [a \in Inputs |-> [b \in Inputs |->
                            IF a < row_order THEN Value(mwax_order, a, b) ELSE Raw(mwax_order, a, b)]]
    BY <2>1 DEF FillInv
  <2>3. /\ NumInputs = 2 * Half /\ Half \in Nat
        /\ Inputs = 0 .. 2 * Half - 1
    BY Halves
  <2>4. row_order \in Inputs
    BY <2>1, <2>2, <2>3
  <2>5. mwax_order \in AllOrders
    BY DEF StagesInv
  <2>6. QED
    BY <2>1, <2>2, <2>3, <2>4, <2>5
<1>2. CASE x # row_order
  <2>1. full_matrix'[x][y] = full_matrix[x][y]
    BY <1>1, <1>2
  <2>2. x < row_order <=> x < row_order'
    BY <1>1, <1>2
  <2>3. QED
    BY <1>1, <2>1, <2>2
<1>3. CASE x = row_order
  <2> DEFINE i == Place(mwax_order, x)
             j == Place(mwax_order, y)
  <2>1. i \in Nat /\ j \in Nat /\ (i = j => x = y)
    BY <1>1, PlacesAreInputs, PlacesDiffer
  <2>2. /\ full_matrix[x][y] = Raw(mwax_order, x, y)
        /\ full_matrix'[x][y] = IF Raw(mwax_order, x, y) = EMPTY
                                  THEN -full_matrix[y][x] ELSE Raw(mwax_order, x, y)
    BY <1>1, <1>3
  <2>3. x < row_order'
    BY <1>1, <1>3
  <2>4. CASE i <= j
    <3>1. Number(i, j) \in Nat
      BY <2>1, <2>4, NumberParts
    <3>2. Raw(mwax_order, x, y) = Number(i, j) /\ Number(i, j) # EMPTY
      BY <2>4, <3>1 DEF Raw, Direct, EMPTY
    <3>3. QED
      BY <2>2, <2>3, <2>4, <3>2 DEF Value, Direct
  <2>5. CASE ~(i <= j)
    <3>1. j <= i /\ Raw(mwax_order, x, y) = EMPTY
      BY <2>1, <2>5 DEF Raw, Direct
    <3>2. full_matrix[y][x] = Number(j, i)
      <4>1. Value(mwax_order, y, x) = Number(j, i) /\ Raw(mwax_order, y, x) = Number(j, i)
        BY <3>1 DEF Value, Raw, Direct
      <4>2. QED
        BY <1>1, <4>1
    <3>3. QED
      BY <2>2, <2>3, <2>5, <3>1, <3>2 DEF Value, Direct
  <2>6. QED
    BY <2>4, <2>5
<1>4. QED
  BY <1>2, <1>3

LEMMA FillNext ==
  StagesInv /\ CorrelateInv /\ FillInv /\ [NextConvert]_convertVars => FillInv'
<1> SUFFICES ASSUME StagesInv, CorrelateInv, FillInv, [NextConvert]_convertVars, stage' = "fill"
             PROVE  FillInv'
  BY DEF FillInv
<1>1. CASE Correlated
  <2>1. /\ stage = "correlate" /\ row_order' = 0 /\ col_order' = 0 /\ full_matrix' = full_matrix
        /\ mwax_order' = mwax_order /\ mwax_order \in AllOrders
        /\ Half \in Nat /\ col_order = 2 * Half /\ row_order = 0 /\ Inputs = 0 .. 2 * Half - 1
        /\ full_matrix = [x \in Inputs |-> [y \in Inputs |->
                            Seen(mwax_order, x, y, row_order, col_order)]]
    <3>1. /\ stage = "correlate" /\ row_order' = 0 /\ col_order' = 0 /\ full_matrix' = full_matrix
          /\ mwax_order' = mwax_order /\ col_order >= NumInputs
      BY <1>1 DEF Correlated, observation
    <3>2. /\ col_order \in 0 .. 2 * Half /\ (col_order = 2 * Half => row_order = 0)
          /\ full_matrix = [x \in Inputs |-> [y \in Inputs |->
                              Seen(mwax_order, x, y, row_order, col_order)]]
      BY <3>1 DEF CorrelateInv, InSquares
    <3>3. /\ NumInputs = 2 * Half /\ Half \in Nat
          /\ Inputs = 0 .. 2 * Half - 1
      BY Halves
    <3>4. col_order = 2 * Half
      BY <3>1, <3>2, <3>3
    <3>5. mwax_order \in AllOrders
      BY DEF StagesInv
    <3>6. QED
      BY <3>1, <3>2, <3>3, <3>4, <3>5
  <2>2. ASSUME NEW x \in Inputs, NEW y \in Inputs
        PROVE  Seen(mwax_order, x, y, row_order, col_order) = Raw(mwax_order, x, y) /\ ~(x < 0)
    <3>1. Place(mwax_order, y) < 2 * Half
      BY <2>1, PlacesAreInputs
    <3>2. QED
      BY <2>1, <3>1 DEF Seen, Raw, Before
  <2>3. full_matrix' = [x \in Inputs |-> [y \in Inputs |->
                          IF x < row_order' THEN Value(mwax_order', x, y) ELSE Raw(mwax_order', x, y)]]
    BY <2>1, <2>2
  <2>4. row_order' \in 0 .. 2 * Half
    BY <2>1
  <2>5. QED
    BY <2>1, <2>3, <2>4 DEF FillInv, Value, Raw, Direct, Place, Number, Triangle
<1>2. CASE Fill
  <2>1. /\ row_order' \in 0 .. 2 * Half /\ col_order' = 0 /\ mwax_order' = mwax_order
    BY <1>2, Halves DEF Fill, observation, FillInv
  <2>2. full_matrix' = [x \in Inputs |-> [y \in Inputs |->
                          IF x < row_order' THEN Value(mwax_order', x, y) ELSE Raw(mwax_order', x, y)]]
    <3>1. ASSUME NEW x \in Inputs, NEW y \in Inputs
          PROVE  full_matrix'[x][y] =
                   IF x < row_order' THEN Value(mwax_order', x, y) ELSE Raw(mwax_order', x, y)
      BY <1>2, <2>1, RowFills
    <3>2. /\ full_matrix' = [x \in Inputs |-> full_matrix'[x]]
          /\ \A x \in Inputs : full_matrix'[x] = [y \in Inputs |-> full_matrix'[x][y]]
      BY <1>2, Halves DEF Fill, FillInv
    <3>3. QED
      BY <3>1, <3>2
  <2>3. QED
    BY <2>1, <2>2 DEF FillInv, Value, Raw, Direct, Place, Number, Triangle
<1>3. CASE UNCHANGED convertVars
  BY <1>3 DEF convertVars, observation, loops, FillInv, Value, Raw, Direct,
     Place, Number, Triangle
<1>4. CASE NextConvert /\ ~Correlated /\ ~Fill
  <2>1. stage' # "fill"
    BY <1>4, ReadsLeaveLoops DEF NextConvert, Correlate, Filled, Push, Pushed
  <2>2. QED
    BY <2>1
<1>5. QED
  BY <1>1, <1>2, <1>3, <1>4

LEMMA MatrixNext ==
  StagesInv /\ FillInv /\ MatrixInv /\ [NextConvert]_convertVars => MatrixInv'
<1> SUFFICES ASSUME StagesInv, FillInv, MatrixInv, [NextConvert]_convertVars, stage' = "table"
             PROVE  MatrixInv'
  BY DEF MatrixInv
<1>1. CASE Filled
  <2>1. /\ stage = "fill" /\ full_matrix' = full_matrix /\ mwax_order' = mwax_order
        /\ Half \in Nat /\ row_order = 2 * Half /\ Inputs = 0 .. 2 * Half - 1
        /\ full_matrix = [x \in Inputs |-> [y \in Inputs |->
                            IF x < row_order THEN Value(mwax_order, x, y) ELSE Raw(mwax_order, x, y)]]
    BY <1>1, Halves DEF Filled, observation, FillInv
  <2>2. \A x \in Inputs : x < row_order
    BY <2>1
  <2>3. full_matrix' = [x \in Inputs |-> [y \in Inputs |-> Value(mwax_order', x, y)]]
    BY <2>1, <2>2
  <2>4. QED
    BY <2>3 DEF MatrixInv, Value, Direct, Place, Number, Triangle
<1>2. CASE ~Filled
  <2>1. stage = "table" /\ UNCHANGED <<full_matrix, mwax_order>>
    BY <1>2, ReadsLeaveLoops DEF NextConvert, convertVars, observation, loops, Correlate,
       Correlated, Fill, Push, Pushed
  <2>2. QED
    BY <2>1 DEF MatrixInv, Value, Direct, Place, Number, Triangle
<1>3. QED
  BY <1>1, <1>2

-----------------------------------------------------------------------------
\* The table.

\* The number of the pair after a pair is the next number.
LEMMA RowSteps ==
  /\ ByRows(0, 0) = 0 /\ ByRows(Half, Half) = Triangle(Half)
         /\ \A a \in 0 .. Half - 1 : \A b \in a .. Half - 1 :
              /\ ByRows(a, b + 1) = ByRows(a, b) + 1
              /\ ByRows(a + 1, a + 1) = ByRows(a, Half - 1) + 1
<1>1. Half \in Nat \ {0}
  BY Halves
<1>2. ASSUME NEW c \in 0 .. Half, NEW d \in Nat
      PROVE  /\ ByRows(c, d) = c * Half - Triangle(c) + d
             /\ c * Half \in Int /\ Triangle(c) \in Nat
  <2>1. ByRows(c, d) = c * Half - Triangle(c) + d
    BY DEF ByRows, Triangle, Half
  <2>2. QED
    BY <1>1, <2>1, Triangles
<1>3. ByRows(0, 0) = 0
  <2>1. Triangle(0) = 0
    BY DEF Triangle
  <2>2. ByRows(0, 0) = 0 * Half - Triangle(0) + 0
    BY <1>1, <1>2
  <2>3. QED
    BY <1>1, <2>1, <2>2
<1>4. ByRows(Half, Half) = Triangle(Half)
  <2>1. 2 * Triangle(Half) = Half * Half + Half /\ Triangle(Half) \in Nat /\ Half * Half \in Int
    BY <1>1, Triangles
  <2>2. ByRows(Half, Half) = Half * Half - Triangle(Half) + Half
    BY <1>1, <1>2
  <2>3. QED
    BY <1>1, <2>1, <2>2
<1>5. ASSUME NEW a \in 0 .. Half - 1, NEW b \in a .. Half - 1
      PROVE  /\ ByRows(a, b + 1) = ByRows(a, b) + 1
             /\ ByRows(a + 1, a + 1) = ByRows(a, Half - 1) + 1
  <2>1. /\ ByRows(a, b) = a * Half - Triangle(a) + b
        /\ ByRows(a, b + 1) = a * Half - Triangle(a) + (b + 1)
        /\ ByRows(a, Half - 1) = a * Half - Triangle(a) + (Half - 1)
        /\ ByRows(a + 1, a + 1) = (a + 1) * Half - Triangle(a + 1) + (a + 1)
        /\ a * Half \in Int /\ Triangle(a) \in Nat
    BY <1>1, <1>2
  <2>2. (a + 1) * Half - Triangle(a + 1) + (a + 1) = a * Half - Triangle(a) + Half
    BY <1>1, RowsFollow
  <2>3. QED
    BY <1>1, <2>1, <2>2
<1>6. QED
  BY <1>3, <1>4, <1>5

Line(m, a, b) ==
  [pol \in 0 .. 3 |-> Source(Value(m, a * 2 + (pol \div 2), b * 2 + (pol % 2)))]
Lines(m) == {Line(m, a, b) : a \in 0 .. Half, b \in 0 .. Half}

HasLines(n) ==
  \A a \in 0 .. Half - 1 : \A b \in a .. Half - 1 :
    ByRows(a, b) < n => table[ByRows(a, b) + 1] = Line(mwax_order, a, b)

Reads == {"ready", "by_baseline", "by_frequency"}

TableInv ==
  /\ stage = "table" =>
       /\ row_order \in 0 .. Half /\ col_order \in row_order .. Half
       /\ row_order < Half => col_order < Half
       /\ table \in Seq(Lines(mwax_order))
       /\ Len(table) = ByRows(row_order, col_order)
       /\ HasLines(Len(table))
  /\ legacy /\ stage \in Reads => HasLines(Triangle(Half))

\* The line that a step pushes.
LEMMA LinePushed ==
  ASSUME StagesInv, MatrixInv, TableInv, Push
  PROVE  /\ row_order \in 0 .. Half - 1 /\ col_order \in row_order .. Half - 1
         /\ table' = Append(table, Line(mwax_order, row_order, col_order))
<1>1. /\ stage = "table" /\ row_order < Half
      /\ table' = Append(table, [pol \in 0 .. Pols - 1 |->
                    Source(full_matrix[row_order * 2 + (pol \div 2)][col_order * 2 + (pol % 2)])])
  BY DEF Push, LegacyConversionBaseline, Half
<1>2. /\ row_order \in 0 .. Half - 1 /\ col_order \in row_order .. Half - 1
      /\ full_matrix = [x \in Inputs |-> [y \in Inputs |-> Value(mwax_order, x, y)]]
      /\ Inputs = 0 .. 2 * Half - 1 /\ Pols = 4 /\ Half \in Nat
  <2>1. /\ row_order \in 0 .. Half /\ col_order \in row_order .. Half /\ col_order < Half
        /\ full_matrix = [x \in Inputs |-> [y \in Inputs |-> Value(mwax_order, x, y)]]
    BY <1>1 DEF TableInv, MatrixInv
  <2>2. Inputs = 0 .. 2 * Half - 1 /\ Pols = 4 /\ Half \in Nat
    BY Halves
  <2>3. row_order \in 0 .. Half - 1 /\ col_order \in row_order .. Half - 1
    BY <1>1, <2>1, <2>2
  <2>4. QED
    BY <2>1, <2>2, <2>3
<1>3. ASSUME NEW pol \in 0 .. 3
      PROVE  full_matrix[row_order * 2 + (pol \div 2)][col_order * 2 + (pol % 2)]
               = Value(mwax_order, row_order * 2 + (pol \div 2), col_order * 2 + (pol % 2))
  <2>1. pol \div 2 \in 0 .. 1 /\ pol % 2 \in 0 .. 1
    OBVIOUS
  <2>2. row_order * 2 + (pol \div 2) \in Inputs /\ col_order * 2 + (pol % 2) \in Inputs
    BY <1>2, <2>1
  <2>3. QED
    BY <1>2, <2>2
<1>4. 0 .. Pols - 1 = 0 .. 3
  BY <1>2
<1>5. [pol \in 0 .. Pols - 1 |->
         Source(full_matrix[row_order * 2 + (pol \div 2)][col_order * 2 + (pol % 2)])]
        = Line(mwax_order, row_order, col_order)
  BY <1>3, <1>4 DEF Line
<1>6. QED
  BY <1>1, <1>2, <1>5

LEMMA TableNext ==
  StagesInv /\ FillInv /\ MatrixInv /\ TableInv /\ [NextConvert]_convertVars => TableInv'
<1> SUFFICES ASSUME StagesInv, FillInv, MatrixInv, TableInv, [NextConvert]_convertVars
             PROVE  TableInv'
  OBVIOUS
<1> USE DEF Reads
<1>1. Half \in Nat \ {0} /\ Half' = Half /\ Triangle(Half) \in Nat
  BY Halves DEF Half, NumTiles, NumInputs
<1>2. ASSUME mwax_order' = mwax_order
      PROVE  /\ Lines(mwax_order)' = Lines(mwax_order)
             /\ \A a, b : Line(mwax_order, a, b)' = Line(mwax_order, a, b)
             /\ \A a, b : ByRows(a, b)' = ByRows(a, b)
             /\ Triangle(Half)' = Triangle(Half)
  BY <1>2 DEF Lines, Line, ByRows, Triangle, Half, NumTiles, NumInputs, Value, Direct,
     Place, Number, Source, Magnitude
<1>3. CASE Filled
  <2>1. /\ stage' = "table" /\ row_order' = 0 /\ col_order' = 0 /\ table' = <<>>
        /\ mwax_order' = mwax_order
    BY <1>3 DEF Filled, observation, FillInv, StagesInv
  <2>2. Len(table') = ByRows(row_order', col_order') /\ Len(table') = 0
    BY <2>1, RowSteps
  <2>3. \A a \in 0 .. Half - 1 : \A b \in a .. Half - 1 : ~(ByRows(a, b) < 0)
    BY <1>1, RowNumbers
  <2>4. HasLines(Len(table))'
    BY <1>1, <1>2, <2>1, <2>2, <2>3 DEF HasLines
  <2>5. row_order' \in 0 .. Half' /\ col_order' \in row_order' .. Half' /\ col_order' < Half'
    BY <1>1, <2>1
  <2>6. table' \in Seq(Lines(mwax_order)')
    BY <2>1
  <2>7. QED
    BY <1>1, <1>2, <2>1, <2>2, <2>4, <2>5, <2>6 DEF TableInv
<1>4. CASE Push
  <2>1. /\ row_order \in 0 .. Half - 1 /\ col_order \in row_order .. Half - 1
        /\ table' = Append(table, Line(mwax_order, row_order, col_order))
    BY <1>4, LinePushed
  <2>2. /\ stage = "table" /\ stage' = "table" /\ mwax_order' = mwax_order
        /\ IF col_order + 1 < Half
             THEN col_order' = col_order + 1 /\ row_order' = row_order
             ELSE row_order' = row_order + 1 /\ col_order' = row_order + 1
    BY <1>4 DEF Push, observation, Half
  <2>3. /\ table \in Seq(Lines(mwax_order)) /\ Len(table) = ByRows(row_order, col_order)
        /\ HasLines(Len(table))
    BY <2>2 DEF TableInv
  <2>4. Line(mwax_order, row_order, col_order) \in Lines(mwax_order)
    <3>1. row_order \in 0 .. Half /\ col_order \in 0 .. Half
      BY <1>1, <2>1
    <3>2. QED
      BY <3>1 DEF Lines
  <2>5. /\ table' \in Seq(Lines(mwax_order)) /\ Len(table') = Len(table) + 1
        /\ \A k \in 1 .. Len(table) : table'[k] = table[k]
        /\ table'[Len(table) + 1] = Line(mwax_order, row_order, col_order)
    BY <2>1, <2>3, <2>4
  <2>6. /\ row_order' \in 0 .. Half /\ col_order' \in row_order' .. Half
        /\ row_order' < Half => col_order' < Half
    BY <1>1, <2>1, <2>2
  <2>7. Len(table') = ByRows(row_order', col_order')
    <3>1. /\ ByRows(row_order, col_order + 1) = Len(table')
          /\ ByRows(row_order + 1, row_order + 1) = ByRows(row_order, Half - 1) + 1
      BY <2>1, <2>3, <2>5, RowSteps
    <3>2. CASE col_order + 1 < Half
      BY <2>2, <3>1, <3>2
    <3>3. CASE ~(col_order + 1 < Half)
      <4>1. col_order = Half - 1
        BY <1>1, <2>1, <3>3
      <4>2. QED
        BY <2>2, <2>3, <2>5, <3>1, <3>3, <4>1
    <3>4. QED
      BY <3>2, <3>3
  <2>8. ASSUME NEW a \in 0 .. Half - 1, NEW b \in a .. Half - 1, ByRows(a, b) < Len(table')
        PROVE  table'[ByRows(a, b) + 1] = Line(mwax_order, a, b)
    <3>1. /\ ByRows(a, b) \in Nat /\ Len(table) \in Nat
          /\ ByRows(a, b) = Len(table) => a = row_order /\ b = col_order
      <4>1. a \in 0 .. Half /\ row_order \in 0 .. Half - 1 /\ col_order \in row_order .. Half - 1
        BY <1>1, <2>1
      <4>2. /\ ByRows(a, b) \in 0 .. Triangle(Half) - 1
            /\ ByRows(a, b) = ByRows(row_order, col_order) => a = row_order /\ b = col_order
        BY <4>1, RowNumbers
      <4>3. QED
        BY <1>1, <2>3, <4>2
    <3>2. CASE ByRows(a, b) < Len(table)
      <4>1. ByRows(a, b) + 1 \in 1 .. Len(table)
        BY <3>1, <3>2
      <4>2. table[ByRows(a, b) + 1] = Line(mwax_order, a, b)
        BY <2>3, <3>2 DEF HasLines
      <4>3. QED
        BY <2>5, <4>1, <4>2
    <3>3. CASE ByRows(a, b) = Len(table)
      BY <2>5, <3>1, <3>3
    <3>4. QED
      BY <2>5, <2>8, <3>1, <3>2, <3>3
  <2>9. HasLines(Len(table))'
    BY <1>1, <1>2, <2>2, <2>8 DEF HasLines
  <2>10. QED
    BY <1>1, <1>2, <2>2, <2>5, <2>6, <2>7, <2>9 DEF TableInv
<1>5. CASE Pushed
  <2>1. /\ stage = "table" /\ stage' = "ready" /\ mwax_order' = mwax_order /\ table' = table
        /\ row_order >= Half
    BY <1>5 DEF Pushed, observation, loops, Half
  <2>2. /\ row_order \in 0 .. Half /\ col_order \in row_order .. Half
        /\ Len(table) = ByRows(row_order, col_order) /\ HasLines(Len(table))
    BY <2>1 DEF TableInv
  <2>3. row_order = Half /\ col_order = Half
    BY <1>1, <2>1, <2>2
  <2>4. HasLines(Triangle(Half))
    BY <2>2, <2>3, RowSteps
  <2>5. HasLines(Triangle(Half))'
    BY <1>1, <1>2, <2>1, <2>4 DEF HasLines
  <2>6. QED
    BY <2>1, <2>5 DEF TableInv
<1>6. CASE ~Filled /\ ~Push /\ ~Pushed
  <2>1. \/ stage' \in {"correlate", "fill"}
        \/ /\ UNCHANGED <<row_order, col_order, table, mwax_order, legacy>>
           /\ stage' = stage \/ (stage \in Reads /\ stage' \in Reads)
    BY <1>6, ReadsLeaveLoops DEF Still, NextConvert, convertVars, observation, loops,
       Correlate, Correlated, Fill, StagesInv
  <2>2. CASE stage' \in {"correlate", "fill"}
    BY <2>2 DEF TableInv
  <2>3. CASE /\ UNCHANGED <<row_order, col_order, table, mwax_order, legacy>>
             /\ stage' = stage \/ (stage \in Reads /\ stage' \in Reads)
    <3>1. /\ HasLines(Len(table)) => HasLines(Len(table))'
          /\ HasLines(Triangle(Half)) => HasLines(Triangle(Half))'
      BY <1>1, <1>2, <2>3 DEF HasLines
    <3>2. QED
      BY <1>1, <1>2, <2>3, <3>1 DEF TableInv
  <2>4. QED
    BY <2>1, <2>2, <2>3
<1>7. QED
  BY <1>3, <1>4, <1>5, <1>6

-----------------------------------------------------------------------------
\* The reads.

\* The HDU of the correlator has a pair of inputs where the matrix says.
LEMMA HduHasPair ==
  ASSUME StagesInv, NEW x \in Inputs, NEW y \in Inputs, Direct(mwax_order, x, y), NEW f
  PROVE  /\ Number(Place(mwax_order, x), Place(mwax_order, y)) \in 0 .. HduStride - 1
         /\ LegacyHdu(f, Number(Place(mwax_order, x), Place(mwax_order, y)))
              = Visibility(f, x, y)
<1> DEFINE i == Place(mwax_order, x)
           j == Place(mwax_order, y)
           k == Number(i, j)
           input(place) == mwax_order[CHOOSE q \in Inputs : get_vcs_order(q) = place]
           IsBlock(b) == b[1] <= b[2] /\ ByColumns(b[1], b[2]) = k \div 4
           Blocks == (0 .. Half - 1) \X (0 .. Half - 1)
<1>1. /\ mwax_order \in AllOrders /\ i \in Inputs /\ j \in Inputs /\ i <= j
      /\ mwax_order[fine_pfb_reorder(i)] = x /\ mwax_order[fine_pfb_reorder(j)] = y
  BY PlacesAreInputs DEF StagesInv, Direct
<1>2. /\ Inputs = 0 .. 2 * Half - 1 /\ Half \in Nat
      /\ NumInputs \div 2 = Half /\ HduStride = 4 * Triangle(Half)
  BY Halves
<1> HIDE DEF i, j
<1>3. /\ i \in Nat /\ j \in Nat /\ j < 2 * Half /\ k \in Nat
      /\ k \div 4 = Triangle(j \div 2) + (i \div 2) /\ k % 2 = i % 2 /\ (k % 4) \div 2 = j % 2
  <2>1. i \in Nat /\ j \in Nat /\ j < 2 * Half
    BY <1>1, <1>2
  <2>2. QED
    BY <1>1, <2>1, NumberParts
<1>4. /\ i \div 2 \in 0 .. Half - 1 /\ j \div 2 \in 0 .. Half - 1 /\ i \div 2 <= j \div 2
      /\ 2 * (i \div 2) + (k % 2) = i /\ 2 * (j \div 2) + ((k % 4) \div 2) = j
  <2>1. /\ i \div 2 \in Nat /\ i % 2 \in 0 .. 1 /\ i = 2 * (i \div 2) + (i % 2)
        /\ j \div 2 \in Nat /\ j % 2 \in 0 .. 1 /\ j = 2 * (j \div 2) + (j % 2)
        /\ i \div 2 <= j \div 2
    BY <1>1, <1>3, Parts
  <2>2. 2 * (i \div 2) + (k % 2) = i /\ 2 * (j \div 2) + ((k % 4) \div 2) = j
    <3> HIDE DEF k
    <3>1. QED
      BY <1>3, <2>1
  <2>3. i \div 2 \in 0 .. Half - 1 /\ j \div 2 \in 0 .. Half - 1
    <3>1. i < 2 * Half
      BY <1>1, <1>2, <1>3
    <3>2. QED
      BY <1>2, <1>3, <3>1, HalfFits
  <2>4. QED
    BY <2>1, <2>2, <2>3
<1>5. k \in 0 .. HduStride - 1
  <2>1. k < 4 * Triangle(Half)
    BY <1>1, <1>2, <1>3, NumbersFit
  <2>2. Triangle(Half) \in Nat
    BY <1>2, Triangles
  <2> HIDE DEF k
  <2>3. QED
    BY <1>2, <1>3, <2>1, <2>2
<1>6. (CHOOSE b \in Blocks : IsBlock(b)) = <<i \div 2, j \div 2>>
  <2>1. \A a, b \in 0 .. Half - 1 : ByColumns(a, b) = Triangle(b) + a
    BY DEF ByColumns, Triangle
  <2>2. <<i \div 2, j \div 2>> \in Blocks /\ IsBlock(<<i \div 2, j \div 2>>)
    <3>1. ByColumns(i \div 2, j \div 2) = k \div 4
      BY <1>3, <1>4, <2>1
    <3> HIDE DEF k
    <3>2. QED
      BY <1>4, <3>1
  <2>3. ASSUME NEW b \in Blocks, IsBlock(b) PROVE b = <<i \div 2, j \div 2>>
    <3>1. /\ b[1] \in 0 .. Half - 1 /\ b[2] \in 0 .. Half - 1 /\ b[1] <= b[2]
          /\ b = <<b[1], b[2]>>
      BY <2>3
    <3>2. Triangle(b[2]) + b[1] = Triangle(j \div 2) + (i \div 2)
      BY <1>3, <2>1, <2>3, <3>1
    <3>3. /\ b[1] \in Nat /\ b[2] \in Nat /\ i \div 2 \in Nat /\ j \div 2 \in Nat
      BY <1>4, <3>1
    <3>4. b[1] = i \div 2 /\ b[2] = j \div 2
      BY <1>4, <3>1, <3>2, <3>3, ColumnNumbers
    <3>5. QED
      BY <3>1, <3>4
  <2> HIDE DEF IsBlock, Blocks
  <2>4. QED
    BY <2>2, <2>3
<1>7. ASSUME NEW p \in Inputs PROVE input(p) = mwax_order[fine_pfb_reorder(p)]
  <2> DEFINE r(q) == fine_pfb_reorder(q)
             v(q) == get_vcs_order(q)
  <2>1. ASSUME NEW q \in Inputs
        PROVE  r(q) \in Inputs /\ v(r(q)) = q /\ r(v(q)) = q
    <3>1. q \in Nat
      BY <1>2
    <3>2. QED
      BY <3>1, StaysInGroup, OrdersAreInverse
  <2> HIDE DEF r, v
  <2>2. \A q \in Inputs : v(q) = p <=> q = r(p)
    BY <2>1
  <2>3. (CHOOSE q \in Inputs : v(q) = p) = r(p)
    BY <2>1, <2>2
  <2>4. QED
    BY <2>3 DEF r, v
<1>8. LegacyHdu(f, k)
        = Visibility(f, input(2 * (i \div 2) + (k % 2)), input(2 * (j \div 2) + ((k % 4) \div 2)))
  <2> DEFINE block == CHOOSE b \in Blocks : IsBlock(b)
  <2>1. LegacyHdu(f, k)
          = Visibility(f, input(2 * block[1] + (k % 2)), input(2 * block[2] + ((k % 4) \div 2)))
    BY <1>2 DEF LegacyHdu
  <2>2. block[1] = i \div 2 /\ block[2] = j \div 2
    <3>1. block = <<i \div 2, j \div 2>>
      BY <1>6
    <3> HIDE DEF block
    <3>2. QED
      BY <3>1
  <2> HIDE DEF block, input, k
  <2>3. QED
    BY <2>1, <2>2
<1> HIDE DEF input, k
<1>9. LegacyHdu(f, k) = Visibility(f, x, y)
  BY <1>1, <1>4, <1>7, <1>8
<1>10. QED
  BY <1>5, <1>9 DEF i, j, k

\* What the matrix says of a pair leads to it, and to no number of another sign.
LEMMA ValueLeads ==
  ASSUME StagesInv, NEW x \in Inputs, NEW y \in Inputs, NEW f
  PROVE  LET v == Value(mwax_order, x, y)
             hdu == LegacyHdu(f, Magnitude(v))
         IN  /\ v \in Int /\ Magnitude(v) \in 0 .. HduStride - 1
             /\ v >= 0 => Direct(mwax_order, x, y) /\ hdu = Visibility(f, x, y)
             /\ v < 0 => ~Direct(mwax_order, x, y) /\ hdu = Visibility(f, y, x)
<1> DEFINE v == Value(mwax_order, x, y)
           i == Place(mwax_order, x)
           j == Place(mwax_order, y)
<1>1. i \in Nat /\ j \in Nat
  BY PlacesAreInputs DEF StagesInv, Inputs
<1>2. CASE Direct(mwax_order, x, y)
  <2>1. /\ v = Number(i, j) /\ Number(i, j) \in 0 .. HduStride - 1
        /\ LegacyHdu(f, Number(i, j)) = Visibility(f, x, y)
    BY <1>2, HduHasPair DEF Value
  <2>2. Number(i, j) \in Nat
    BY <1>1, <1>2, NumberParts DEF Direct
  <2> HIDE DEF v, i, j
  <2>3. v \in Int /\ v >= 0 /\ ~(v < 0) /\ Magnitude(v) = Number(i, j)
    BY <2>1, <2>2 DEF Magnitude
  <2>4. QED
    BY <1>2, <2>1, <2>3 DEF v
<1>3. CASE ~Direct(mwax_order, x, y)
  <2>1. j < i /\ Direct(mwax_order, y, x)
    BY <1>1, <1>3 DEF Direct
  <2>2. /\ v = -Number(j, i) /\ Number(j, i) \in 0 .. HduStride - 1
        /\ LegacyHdu(f, Number(j, i)) = Visibility(f, y, x)
    BY <1>3, <2>1, HduHasPair DEF Value
  <2>3. Number(j, i) \in Nat /\ Number(j, i) # 0
    <3>1. Number(0, 0) = 0
      <4>1. Triangle(0) = 0
        BY DEF Triangle
      <4>2. QED
        BY <4>1 DEF Number
    <3>2. Number(j, i) = Number(0, 0) => j = 0 /\ i = 0
      BY <1>1, <2>1, NumbersTellApart
    <3>3. Number(j, i) \in Nat
      BY <1>1, <2>1, NumberParts
    <3> HIDE DEF i, j
    <3>4. QED
      BY <1>1, <2>1, <3>1, <3>2, <3>3
  <2> HIDE DEF v, i, j
  <2>4. v \in Int /\ v < 0 /\ ~(v >= 0) /\ Magnitude(v) = Number(j, i)
    BY <2>2, <2>3 DEF Magnitude
  <2>5. QED
    BY <1>3, <2>2, <2>4 DEF v
<1>4. QED
  BY <1>2, <1>3

\* Every line of the table converts to what is wanted.
LEMMA LineConverts ==
  ASSUME StagesInv, HasLines(Triangle(Half)), NEW a \in 0 .. Half - 1, NEW b \in a .. Half - 1,
         NEW f \in 0 .. FineChans - 1, NEW pol \in 0 .. 3
  PROVE  Converted(f, ByRows(a, b), pol) = Wanted(f, a, b, pol)
<1> DEFINE x == a * 2 + (pol \div 2)
           y == b * 2 + (pol % 2)
           v == Value(mwax_order, x, y)
           S == HduStride
           source == table[ByRows(a, b) + 1][pol]
           hdu == LegacyHdu(f, Magnitude(v))
<1>1. /\ Half \in Nat \ {0} /\ Inputs = 0 .. 2 * Half - 1 /\ S \in Nat \ {0}
      /\ Triangle(Half) \in Nat
  BY Halves
<1>2. x \in Inputs /\ y \in Inputs
  <2>1. pol \div 2 \in 0 .. 1 /\ pol % 2 \in 0 .. 1
    OBVIOUS
  <2>2. QED
    BY <1>1, <2>1
<1>3. source = [index |-> Magnitude(v), conjugate |-> v < 0]
  <2>1. a \in 0 .. Half
    BY <1>1
  <2>2. ByRows(a, b) < Triangle(Half)
    BY <1>1, <2>1, RowNumbers
  <2>3. table[ByRows(a, b) + 1] = Line(mwax_order, a, b)
    BY <2>2 DEF HasLines
  <2>4. QED
    BY <2>3 DEF Line, Source
<1> HIDE DEF x, y
<1>4. /\ v \in Int /\ Magnitude(v) \in 0 .. S - 1
      /\ v >= 0 => hdu = Visibility(f, x, y)
      /\ v < 0 => hdu = Visibility(f, y, x)
  BY <1>2, ValueLeads
<1>5. LegacyInput(f * S + Magnitude(v)) = hdu
  <2> HIDE DEF v, S
  <2>1. FineChans \in Nat /\ f \in Nat
    BY SizesAssumption
  <2>2. /\ (f * S + Magnitude(v)) \div S = f
        /\ (f * S + Magnitude(v)) % S = Magnitude(v)
    BY <1>1, <1>4, <2>1, Division
  <2>3. QED
    BY <2>2 DEF LegacyInput, S
<1>6. Converted(f, ByRows(a, b), pol)
        = Conjugate(IF v < 0 THEN Conjugate(hdu) ELSE hdu)
  <2> HIDE DEF hdu, v
  <2>1. source.index = Magnitude(v) /\ source.conjugate = (v < 0)
    BY <1>3
  <2>2. QED
    BY <1>5, <2>1 DEF Converted
<1>7. Wanted(f, a, b, pol) = Visibility(f, y, x)
  <2>1. 2 * b + (pol % 2) = y /\ 2 * a + (pol \div 2) = x
    BY <1>1 DEF x, y
  <2>2. QED
    BY <2>1 DEF Wanted
<1> HIDE DEF v, hdu
<1>8. QED
  BY <1>4, <1>6, <1>7 DEF Conjugate, Visibility

\* The digits of an index of a buffer.
Packed(n, a, b, p) == (a * n + b) * 4 + p
HasDigits(n, a, b, p, i) ==
  /\ i \div 4 = a * n + b /\ i % 4 = p
  /\ (i \div 4) % n = b /\ i \div (n * 4) = a /\ i % (n * 4) = b * 4 + p

LEMMA PackedFits ==
  ASSUME NEW n \in Nat \ {0}, NEW m \in Nat \ {0}, NEW a \in 0 .. m - 1, NEW b \in 0 .. n - 1,
         NEW p \in 0 .. 3
  PROVE  Packed(n, a, b, p) \in 0 .. n * m * 4 - 1
<1> DEFINE q == a * n + b
           N == n * m
<1>1. q \in 0 .. N - 1
  BY InTable
<1>2. N \in Nat \ {0}
  OBVIOUS
<1>3. Packed(n, a, b, p) = q * 4 + p
  BY DEF Packed
<1> HIDE DEF q, N
<1>4. q * 4 + p \in 0 .. N * 4 - 1
  BY <1>1, <1>2
<1>5. QED
  BY <1>3, <1>4 DEF N

LEMMA Digits ==
  ASSUME NEW n \in Nat \ {0}, NEW a \in Nat, NEW b \in 0 .. n - 1, NEW p \in 0 .. 3
  PROVE  HasDigits(n, a, b, p, Packed(n, a, b, p))
<1> DEFINE q == a * n + b
           d == n * 4
           r == b * 4 + p
           i == Packed(n, a, b, p)
<1>1. q \div n = a /\ q % n = b /\ q \in Nat
  BY Division
<1>2. d \in Nat \ {0} /\ r \in 0 .. d - 1
  OBVIOUS
<1>3. i = a * d + r /\ i = q * 4 + p
  <2>1. a * (n * 4) = (a * n) * 4 /\ a * n \in Int
    OBVIOUS
  <2>2. i = (a * n + b) * 4 + p
    BY DEF Packed
  <2>3. QED
    BY <2>1, <2>2
<1> HIDE DEF q, d, r, i
<1>4. i \div d = a /\ i % d = r
  BY <1>2, <1>3, Division
<1>5. i \div 4 = q /\ i % 4 = p
  <2>1. p \in 0 .. 4 - 1
    OBVIOUS
  <2>2. QED
    BY <1>1, <1>3, <2>1, Division
<1>6. QED
  BY <1>1, <1>4, <1>5 DEF q, d, r, i, HasDigits

LEMMA Indices ==
  ASSUME NEW f \in 0 .. FineChans - 1, NEW bl \in 0 .. Triangle(Half) - 1, NEW pol \in 0 .. 3
  PROVE  /\ BaselineOrder(f, bl, pol) = (bl * FineChans + f) * 4 + pol
         /\ FrequencyOrder(f, bl, pol) = (f * Triangle(Half) + bl) * 4 + pol
         /\ BaselineOrder(f, bl, pol) \in BufferIndices
         /\ FrequencyOrder(f, bl, pol) \in BufferIndices
<1> DEFINE T == Triangle(Half)
<1>1. T \in Nat \ {0} /\ FineChans \in Nat \ {0} /\ NumBaselines = T /\ Pols = 4
      /\ HduStride = 4 * T
  BY Halves, SizesAssumption
<1> HIDE DEF T
<1>2. bl \in 0 .. T - 1
  BY DEF T
<1>3. BaselineOrder(f, bl, pol) = (bl * FineChans + f) * 4 + pol
  <2>1. BaselineOrder(f, bl, pol) = bl * FineChans * 4 + f * 4 + pol
    BY <1>1 DEF BaselineOrder
  <2>2. bl * FineChans \in Int
    BY <1>1, <1>2
  <2>3. QED
    BY <1>1, <2>1, <2>2
<1>4. FrequencyOrder(f, bl, pol) = (f * T + bl) * 4 + pol
  <2>1. FrequencyOrder(f, bl, pol) = f * (4 * T) + bl * 4 + pol
    BY <1>1 DEF FrequencyOrder
  <2>2. f * T \in Int /\ f * (4 * T) = 4 * (f * T)
    BY <1>1
  <2>3. QED
    BY <1>1, <1>2, <2>1, <2>2
<1>5. BufferIndices = 0 .. FineChans * T * 4 - 1 /\ FineChans * T * 4 = T * FineChans * 4
  BY <1>1 DEF BufferIndices
<1>6. /\ (bl * FineChans + f) * 4 + pol \in 0 .. FineChans * T * 4 - 1
      /\ (f * T + bl) * 4 + pol \in 0 .. T * FineChans * 4 - 1
  <2>1. /\ Packed(FineChans, bl, f, pol) \in 0 .. FineChans * T * 4 - 1
        /\ Packed(T, f, bl, pol) \in 0 .. T * FineChans * 4 - 1
    BY <1>1, <1>2, PackedFits
  <2>2. QED
    BY <2>1 DEF Packed
<1>7. QED
  BY <1>3, <1>4, <1>5, <1>6 DEF T

\* The channels of a buffer that have been converted.
BaselineWritten(n) ==
  \A f \in 0 .. n - 1, bl \in 0 .. Triangle(Half) - 1, pol \in 0 .. 3 :
    by_baseline[BaselineOrder(f, bl, pol)] = Converted(f, bl, pol)
FrequencyWritten(n) ==
  \A f \in 0 .. n - 1, bl \in 0 .. Triangle(Half) - 1, pol \in 0 .. 3 :
    by_frequency[FrequencyOrder(f, bl, pol)] = Converted(f, bl, pol)

BuffersInv ==
  /\ fine_chan_index \in 0 .. FineChans
  /\ stage \in {"correlate", "fill", "table"} => by_baseline = <<>> /\ by_frequency = <<>>
  /\ legacy =>
       /\ stage = "by_baseline" => BaselineWritten(fine_chan_index)
       /\ stage # "by_baseline" => by_baseline = <<>> \/ BaselineWritten(FineChans)
       /\ stage = "by_frequency" => FrequencyWritten(fine_chan_index)
       /\ stage # "by_frequency" => by_frequency = <<>> \/ FrequencyWritten(FineChans)
  /\ ~legacy =>
       /\ by_baseline \in {<<>>, MwaxHdu}
       /\ by_frequency \in {<<>>, ToFrequencyOrder(MwaxHdu)}

LEMMA SameConverted ==
  ASSUME table' = table, mwax_order' = mwax_order, NEW f, NEW bl, NEW pol
  PROVE  Converted(f, bl, pol)' = Converted(f, bl, pol)
BY DEF Converted, LegacyInput, LegacyHdu, HduStride, NumBaselines,
       NumTiles, NumInputs, Pols, Visibility, Conjugate, ByColumns,
       Inputs, get_vcs_order

\* The digits tell places apart, in one order and in the other.
LEMMA SameDigits ==
  ASSUME NEW n \in Nat \ {0}, NEW m \in Nat \ {0}, NEW a \in 0 .. m - 1, NEW b \in 0 .. n - 1,
         NEW p \in 0 .. 3, NEW c \in 0 .. m - 1, NEW d \in 0 .. n - 1, NEW q \in 0 .. 3,
         (a * n + b) * 4 + p = (c * n + d) * 4 + q
  PROVE  a = c /\ b = d /\ p = q
<1> DEFINE u == a * n + b
           v == c * n + d
<1>1. u \in Int /\ v \in Int /\ u * 4 + p = v * 4 + q
  OBVIOUS
<1>2. u \div n = a /\ u % n = b /\ v \div n = c /\ v % n = d
  <2>1. a \in Nat /\ c \in Nat
    OBVIOUS
  <2>2. QED
    BY <2>1, Division
<1> HIDE DEF u, v
<1>3. u = v /\ p = q
  BY <1>1
<1>4. QED
  BY <1>2, <1>3

LEMMA OrdersTellApart ==
  ASSUME NEW f \in 0 .. FineChans - 1, NEW bl \in 0 .. Triangle(Half) - 1, NEW pol \in 0 .. 3,
         NEW g \in 0 .. FineChans - 1, NEW cl \in 0 .. Triangle(Half) - 1, NEW qol \in 0 .. 3
  PROVE  /\ BaselineOrder(f, bl, pol) = BaselineOrder(g, cl, qol)
              => f = g /\ bl = cl /\ pol = qol
         /\ FrequencyOrder(f, bl, pol) = FrequencyOrder(g, cl, qol)
              => f = g /\ bl = cl /\ pol = qol
<1> DEFINE T == Triangle(Half)
<1>1. /\ BaselineOrder(f, bl, pol) = (bl * FineChans + f) * 4 + pol
      /\ FrequencyOrder(f, bl, pol) = (f * T + bl) * 4 + pol
  BY Indices
<1>2. /\ BaselineOrder(g, cl, qol) = (cl * FineChans + g) * 4 + qol
      /\ FrequencyOrder(g, cl, qol) = (g * T + cl) * 4 + qol
  BY Indices
<1>3. T \in Nat \ {0} /\ FineChans \in Nat \ {0} /\ bl \in 0 .. T - 1 /\ cl \in 0 .. T - 1
  BY Halves, SizesAssumption
<1> HIDE DEF T
<1>4. (bl * FineChans + f) * 4 + pol = (cl * FineChans + g) * 4 + qol
        => f = g /\ bl = cl /\ pol = qol
  BY <1>3, SameDigits
<1>5. (f * T + bl) * 4 + pol = (g * T + cl) * 4 + qol => f = g /\ bl = cl /\ pol = qol
  BY <1>3, SameDigits
<1>6. QED
  BY <1>1, <1>2, <1>4, <1>5

\* The channel that a step converts, by baseline.
LEMMA BaselineChannel ==
  ASSUME fine_chan_index \in 0 .. FineChans - 1,
         by_baseline' = WriteChannel(by_baseline, fine_chan_index, BaselineOrder),
         BaselineWritten(fine_chan_index)
  PROVE  \A f \in 0 .. fine_chan_index, bl \in 0 .. Triangle(Half) - 1, pol \in 0 .. 3 :
           by_baseline'[BaselineOrder(f, bl, pol)] = Converted(f, bl, pol)
<1> DEFINE T == Triangle(Half)
           P == (0 .. T - 1) \X (0 .. 3)
           F == fine_chan_index
           place(f, bl, pol) == BaselineOrder(f, bl, pol)
<1>1. FineChans \in Nat \ {0} /\ P = Places
  <2>1. NumBaselines = T /\ Pols - 1 = 3
    BY Halves
  <2>2. QED
    BY <2>1, SizesAssumption DEF Places
<1>2. ASSUME NEW f \in 0 .. FineChans - 1, NEW bl \in 0 .. T - 1, NEW pol \in 0 .. 3,
             NEW g \in 0 .. FineChans - 1, NEW cl \in 0 .. T - 1, NEW qol \in 0 .. 3,
             place(f, bl, pol) = place(g, cl, qol)
      PROVE  f = g /\ bl = cl /\ pol = qol
  BY <1>2, OrdersTellApart
<1>3. by_baseline' = [i \in BufferIndices |->
                        IF \E p \in P : place(F, p[1], p[2]) = i
                          THEN LET p == CHOOSE p \in P : place(F, p[1], p[2]) = i
                               IN  Converted(F, p[1], p[2])
                          ELSE by_baseline[i]]
  BY <1>1 DEF WriteChannel
<1>4. ASSUME NEW f \in 0 .. FineChans - 1, NEW bl \in 0 .. T - 1, NEW pol \in 0 .. 3
      PROVE  place(f, bl, pol) \in BufferIndices
  BY Indices
<1>5. ASSUME NEW bl \in 0 .. T - 1, NEW pol \in 0 .. 3
      PROVE  by_baseline'[place(F, bl, pol)] = Converted(F, bl, pol)
  <2> DEFINE Hits(p) == place(F, p[1], p[2]) = place(F, bl, pol)
  <2>1. <<bl, pol>> \in P /\ Hits(<<bl, pol>>)
    OBVIOUS
  <2>2. ASSUME NEW p \in P, Hits(p) PROVE p = <<bl, pol>>
    <3>1. p[1] \in 0 .. T - 1 /\ p[2] \in 0 .. 3 /\ p = <<p[1], p[2]>>
      OBVIOUS
    <3> HIDE DEF T, place, P
    <3>2. p[1] = bl /\ p[2] = pol
      BY <1>2, <2>2, <3>1
    <3>3. QED
      BY <3>1, <3>2
  <2>3. by_baseline'[place(F, bl, pol)] =
          IF \E p \in P : Hits(p)
            THEN LET p == CHOOSE p \in P : Hits(p) IN Converted(F, p[1], p[2])
            ELSE by_baseline[place(F, bl, pol)]
    <3>1. place(F, bl, pol) \in BufferIndices
      BY <1>4
    <3> HIDE DEF T, place, P
    <3>2. QED
      BY <1>3, <3>1
  <2> HIDE DEF Hits, P, place, T
  <2>4. PICK w : w = <<bl, pol>>
    OBVIOUS
  <2>5. (CHOOSE p \in P : Hits(p)) = w
    BY <2>1, <2>2, <2>4
  <2>6. by_baseline'[place(F, bl, pol)] = Converted(F, w[1], w[2])
    BY <2>1, <2>3, <2>5
  <2>7. w[1] = bl /\ w[2] = pol
    BY <2>4
  <2>8. QED
    BY <2>6, <2>7
<1>6. ASSUME NEW f \in 0 .. F - 1, NEW bl \in 0 .. T - 1, NEW pol \in 0 .. 3
      PROVE  by_baseline'[place(f, bl, pol)] = Converted(f, bl, pol)
  <2>1. f \in 0 .. FineChans - 1 /\ f # F
    BY <1>1
  <2>2. ~\E p \in P : place(F, p[1], p[2]) = place(f, bl, pol)
    <3>1. \A p \in P : p[1] \in 0 .. T - 1 /\ p[2] \in 0 .. 3
      OBVIOUS
    <3> HIDE DEF T, place, P
    <3>2. QED
      BY <1>2, <2>1, <3>1
  <2>3. place(f, bl, pol) \in BufferIndices
    BY <1>4, <2>1
  <2>4. by_baseline[place(f, bl, pol)] = Converted(f, bl, pol)
    BY DEF BaselineWritten
  <2> HIDE DEF P, place, T
  <2>5. QED
    BY <1>3, <2>2, <2>3, <2>4
<1>7. ASSUME NEW f \in 0 .. F, NEW bl \in 0 .. T - 1, NEW pol \in 0 .. 3
      PROVE  by_baseline'[place(f, bl, pol)] = Converted(f, bl, pol)
  <2>1. f = F \/ f \in 0 .. F - 1
    BY <1>1
  <2> HIDE DEF place, T
  <2>2. QED
    BY <1>5, <1>6, <2>1
<1>8. QED
  BY <1>7

\* The channel that a step converts, by frequency.
LEMMA FrequencyChannel ==
  ASSUME fine_chan_index \in 0 .. FineChans - 1,
         by_frequency' = WriteChannel(by_frequency, fine_chan_index, FrequencyOrder),
         FrequencyWritten(fine_chan_index)
  PROVE  \A f \in 0 .. fine_chan_index, bl \in 0 .. Triangle(Half) - 1, pol \in 0 .. 3 :
           by_frequency'[FrequencyOrder(f, bl, pol)] = Converted(f, bl, pol)
<1> DEFINE T == Triangle(Half)
           P == (0 .. T - 1) \X (0 .. 3)
           F == fine_chan_index
           place(f, bl, pol) == FrequencyOrder(f, bl, pol)
<1>1. FineChans \in Nat \ {0} /\ P = Places
  <2>1. NumBaselines = T /\ Pols - 1 = 3
    BY Halves
  <2>2. QED
    BY <2>1, SizesAssumption DEF Places
<1>2. ASSUME NEW f \in 0 .. FineChans - 1, NEW bl \in 0 .. T - 1, NEW pol \in 0 .. 3,
             NEW g \in 0 .. FineChans - 1, NEW cl \in 0 .. T - 1, NEW qol \in 0 .. 3,
             place(f, bl, pol) = place(g, cl, qol)
      PROVE  f = g /\ bl = cl /\ pol = qol
  BY <1>2, OrdersTellApart
<1>3. by_frequency' = [i \in BufferIndices |->
                        IF \E p \in P : place(F, p[1], p[2]) = i
                          THEN LET p == CHOOSE p \in P : place(F, p[1], p[2]) = i
                               IN  Converted(F, p[1], p[2])
                          ELSE by_frequency[i]]
  BY <1>1 DEF WriteChannel
<1>4. ASSUME NEW f \in 0 .. FineChans - 1, NEW bl \in 0 .. T - 1, NEW pol \in 0 .. 3
      PROVE  place(f, bl, pol) \in BufferIndices
  BY Indices
<1>5. ASSUME NEW bl \in 0 .. T - 1, NEW pol \in 0 .. 3
      PROVE  by_frequency'[place(F, bl, pol)] = Converted(F, bl, pol)
  <2> DEFINE Hits(p) == place(F, p[1], p[2]) = place(F, bl, pol)
  <2>1. <<bl, pol>> \in P /\ Hits(<<bl, pol>>)
    OBVIOUS
  <2>2. ASSUME NEW p \in P, Hits(p) PROVE p = <<bl, pol>>
    <3>1. p[1] \in 0 .. T - 1 /\ p[2] \in 0 .. 3 /\ p = <<p[1], p[2]>>
      OBVIOUS
    <3> HIDE DEF T, place, P
    <3>2. p[1] = bl /\ p[2] = pol
      BY <1>2, <2>2, <3>1
    <3>3. QED
      BY <3>1, <3>2
  <2>3. by_frequency'[place(F, bl, pol)] =
          IF \E p \in P : Hits(p)
            THEN LET p == CHOOSE p \in P : Hits(p) IN Converted(F, p[1], p[2])
            ELSE by_frequency[place(F, bl, pol)]
    <3>1. place(F, bl, pol) \in BufferIndices
      BY <1>4
    <3> HIDE DEF T, place, P
    <3>2. QED
      BY <1>3, <3>1
  <2> HIDE DEF Hits, P, place, T
  <2>4. PICK w : w = <<bl, pol>>
    OBVIOUS
  <2>5. (CHOOSE p \in P : Hits(p)) = w
    BY <2>1, <2>2, <2>4
  <2>6. by_frequency'[place(F, bl, pol)] = Converted(F, w[1], w[2])
    BY <2>1, <2>3, <2>5
  <2>7. w[1] = bl /\ w[2] = pol
    BY <2>4
  <2>8. QED
    BY <2>6, <2>7
<1>6. ASSUME NEW f \in 0 .. F - 1, NEW bl \in 0 .. T - 1, NEW pol \in 0 .. 3
      PROVE  by_frequency'[place(f, bl, pol)] = Converted(f, bl, pol)
  <2>1. f \in 0 .. FineChans - 1 /\ f # F
    BY <1>1
  <2>2. ~\E p \in P : place(F, p[1], p[2]) = place(f, bl, pol)
    <3>1. \A p \in P : p[1] \in 0 .. T - 1 /\ p[2] \in 0 .. 3
      OBVIOUS
    <3> HIDE DEF T, place, P
    <3>2. QED
      BY <1>2, <2>1, <3>1
  <2>3. place(f, bl, pol) \in BufferIndices
    BY <1>4, <2>1
  <2>4. by_frequency[place(f, bl, pol)] = Converted(f, bl, pol)
    BY DEF FrequencyWritten
  <2> HIDE DEF P, place, T
  <2>5. QED
    BY <1>3, <2>2, <2>3, <2>4
<1>7. ASSUME NEW f \in 0 .. F, NEW bl \in 0 .. T - 1, NEW pol \in 0 .. 3
      PROVE  by_frequency'[place(f, bl, pol)] = Converted(f, bl, pol)
  <2>1. f = F \/ f \in 0 .. F - 1
    BY <1>1
  <2> HIDE DEF place, T
  <2>2. QED
    BY <1>5, <1>6, <2>1
<1>8. QED
  BY <1>7

\* What does not change with the state, and what was written stays so.
LEMMA SameWritten ==
  ASSUME UNCHANGED <<table, mwax_order>>, NEW n
  PROVE  /\ by_baseline' = by_baseline /\ BaselineWritten(n) => BaselineWritten(n)'
         /\ by_frequency' = by_frequency /\ FrequencyWritten(n) => FrequencyWritten(n)'
<1>1. Triangle(Half)' = Triangle(Half)
  BY DEF Triangle, Half, NumTiles, NumInputs
<1>2. ASSUME NEW f, NEW bl, NEW pol
      PROVE  /\ BaselineOrder(f, bl, pol)' = BaselineOrder(f, bl, pol)
             /\ FrequencyOrder(f, bl, pol)' = FrequencyOrder(f, bl, pol)
  BY DEF BaselineOrder, FrequencyOrder, HduStride, NumBaselines, NumTiles,
     NumInputs, Pols
<1>3. ASSUME NEW f, NEW bl, NEW pol
      PROVE  Converted(f, bl, pol)' = Converted(f, bl, pol)
  BY SameConverted
<1>4. by_baseline' = by_baseline /\ BaselineWritten(n) => BaselineWritten(n)'
  BY <1>1, <1>2, <1>3 DEF BaselineWritten
<1>5. by_frequency' = by_frequency /\ FrequencyWritten(n) => FrequencyWritten(n)'
  BY <1>1, <1>2, <1>3 DEF FrequencyWritten
<1>6. QED
  BY <1>4, <1>5

\* A step of a read writes one channel more.
LEMMA BaselineGrows ==
  ASSUME BaselineWritten(fine_chan_index), fine_chan_index \in 0 .. FineChans,
         ConvertToBaselineOrder
  PROVE  fine_chan_index' \in 0 .. FineChans /\ BaselineWritten(fine_chan_index)'
<1>1. /\ table' = table /\ mwax_order' = mwax_order /\ fine_chan_index < FineChans
      /\ fine_chan_index' = fine_chan_index + 1
      /\ by_baseline' = WriteChannel(by_baseline, fine_chan_index, BaselineOrder)
  BY DEF ConvertToBaselineOrder, observation, loops
<1>2. FineChans \in Nat
  BY SizesAssumption
<1>3. fine_chan_index \in 0 .. FineChans - 1 /\ fine_chan_index' \in 0 .. FineChans
  BY <1>1, <1>2
<1>4. \A f \in 0 .. fine_chan_index, bl \in 0 .. Triangle(Half) - 1, pol \in 0 .. 3 :
        by_baseline'[BaselineOrder(f, bl, pol)] = Converted(f, bl, pol)
  BY <1>1, <1>3, BaselineChannel
<1>5. Triangle(Half)' = Triangle(Half) /\ 0 .. fine_chan_index' - 1 = 0 .. fine_chan_index
  <2>1. Triangle(Half)' = Triangle(Half)
    BY DEF Triangle, Half, NumTiles, NumInputs
  <2>2. QED
    BY <1>1, <1>3, <2>1
<1>6. ASSUME NEW f, NEW bl, NEW pol
      PROVE  /\ BaselineOrder(f, bl, pol)' = BaselineOrder(f, bl, pol)
             /\ Converted(f, bl, pol)' = Converted(f, bl, pol)
  <2>1. Converted(f, bl, pol)' = Converted(f, bl, pol)
    BY <1>1, SameConverted
  <2>2. QED
    BY <2>1 DEF BaselineOrder, Pols
<1>7. ASSUME NEW f \in 0 .. fine_chan_index' - 1, NEW bl \in 0 .. Triangle(Half)' - 1, NEW pol \in 0 .. 3
      PROVE  by_baseline'[BaselineOrder(f, bl, pol)'] = Converted(f, bl, pol)'
  <2>1. f \in 0 .. fine_chan_index /\ bl \in 0 .. Triangle(Half) - 1
    BY <1>5
  <2>2. by_baseline'[BaselineOrder(f, bl, pol)] = Converted(f, bl, pol)
    BY <1>4, <2>1
  <2>3. /\ BaselineOrder(f, bl, pol)' = BaselineOrder(f, bl, pol)
        /\ Converted(f, bl, pol)' = Converted(f, bl, pol)
    BY <1>6
  <2>4. QED
    BY <2>2, <2>3
<1>8. BaselineWritten(fine_chan_index)'
  BY <1>7 DEF BaselineWritten
<1>9. QED
  BY <1>3, <1>8

LEMMA FrequencyGrows ==
  ASSUME FrequencyWritten(fine_chan_index), fine_chan_index \in 0 .. FineChans,
         ConvertToFrequencyOrder
  PROVE  fine_chan_index' \in 0 .. FineChans /\ FrequencyWritten(fine_chan_index)'
<1>1. /\ table' = table /\ mwax_order' = mwax_order /\ fine_chan_index < FineChans
      /\ fine_chan_index' = fine_chan_index + 1
      /\ by_frequency' = WriteChannel(by_frequency, fine_chan_index, FrequencyOrder)
  BY DEF ConvertToFrequencyOrder, observation, loops
<1>2. FineChans \in Nat
  BY SizesAssumption
<1>3. fine_chan_index \in 0 .. FineChans - 1 /\ fine_chan_index' \in 0 .. FineChans
  BY <1>1, <1>2
<1>4. \A f \in 0 .. fine_chan_index, bl \in 0 .. Triangle(Half) - 1, pol \in 0 .. 3 :
        by_frequency'[FrequencyOrder(f, bl, pol)] = Converted(f, bl, pol)
  BY <1>1, <1>3, FrequencyChannel
<1>5. Triangle(Half)' = Triangle(Half) /\ 0 .. fine_chan_index' - 1 = 0 .. fine_chan_index
  <2>1. Triangle(Half)' = Triangle(Half)
    BY DEF Triangle, Half, NumTiles, NumInputs
  <2>2. QED
    BY <1>1, <1>3, <2>1
<1>6. ASSUME NEW f, NEW bl, NEW pol
      PROVE  /\ FrequencyOrder(f, bl, pol)' = FrequencyOrder(f, bl, pol)
             /\ Converted(f, bl, pol)' = Converted(f, bl, pol)
  <2>1. Converted(f, bl, pol)' = Converted(f, bl, pol)
    BY <1>1, SameConverted
  <2>2. QED
    BY <2>1 DEF FrequencyOrder, HduStride, NumBaselines, NumTiles,
       NumInputs, Pols
<1>7. ASSUME NEW f \in 0 .. fine_chan_index' - 1, NEW bl \in 0 .. Triangle(Half)' - 1, NEW pol \in 0 .. 3
      PROVE  by_frequency'[FrequencyOrder(f, bl, pol)'] = Converted(f, bl, pol)'
  <2>1. f \in 0 .. fine_chan_index /\ bl \in 0 .. Triangle(Half) - 1
    BY <1>5
  <2>2. by_frequency'[FrequencyOrder(f, bl, pol)] = Converted(f, bl, pol)
    BY <1>4, <2>1
  <2>3. /\ FrequencyOrder(f, bl, pol)' = FrequencyOrder(f, bl, pol)
        /\ Converted(f, bl, pol)' = Converted(f, bl, pol)
    BY <1>6
  <2>4. QED
    BY <2>2, <2>3
<1>8. FrequencyWritten(fine_chan_index)'
  BY <1>7 DEF FrequencyWritten
<1>9. QED
  BY <1>3, <1>8

LEMMA SameHdu ==
  /\ MwaxHdu' = MwaxHdu
  /\ ToFrequencyOrder(MwaxHdu)' = ToFrequencyOrder(MwaxHdu)
BY DEF MwaxHdu, ToFrequencyOrder, Wanted, Baseline, ByRows, TilePairs,
   Tiles, BufferIndices, BaselineOrder, HduStride, NumBaselines,
   NumTiles, NumInputs, Pols, Visibility

LEMMA BuffersNext ==
  StagesInv /\ BuffersInv /\ [NextConvert]_convertVars => BuffersInv'
<1> SUFFICES ASSUME StagesInv, BuffersInv, [NextConvert]_convertVars
             PROVE  BuffersInv'
  OBVIOUS
<1>1. FineChans \in Nat \ {0}
  BY SizesAssumption
<1>2. fine_chan_index \in 0 .. FineChans
  BY DEF BuffersInv
<1>3. CASE \/ UNCHANGED convertVars \/ Correlate \/ Correlated \/ Fill \/ Filled
           \/ Push \/ Pushed
  <2>1. UNCHANGED <<fine_chan_index, by_baseline, by_frequency, legacy, mwax_order>>
    BY <1>3 DEF convertVars, observation, loops, buffers, Correlate,
       Correlated, Fill, Filled, Push, Pushed
  <2>2. CASE UNCHANGED convertVars
    <3>1. UNCHANGED <<table, stage, mwax_order, by_baseline, by_frequency, fine_chan_index>>
      BY <2>2 DEF convertVars, observation, loops, buffers
    <3>2. /\ BaselineWritten(fine_chan_index) => BaselineWritten(fine_chan_index)'
          /\ BaselineWritten(FineChans) => BaselineWritten(FineChans)'
          /\ FrequencyWritten(fine_chan_index) => FrequencyWritten(fine_chan_index)'
          /\ FrequencyWritten(FineChans) => FrequencyWritten(FineChans)'
      BY <3>1, SameWritten
    <3>3. fine_chan_index' \in 0 .. FineChans
      BY <1>2, <3>1
    <3>4. ASSUME legacy
          PROVE  /\ stage' = "by_baseline" => BaselineWritten(fine_chan_index)'
                 /\ stage' # "by_baseline" => by_baseline' = <<>> \/ BaselineWritten(FineChans)'
                 /\ stage' = "by_frequency" => FrequencyWritten(fine_chan_index)'
                 /\ stage' # "by_frequency" => by_frequency' = <<>> \/ FrequencyWritten(FineChans)'
      BY <3>1, <3>2, <3>4 DEF BuffersInv
    <3>5. ASSUME ~legacy
          PROVE  /\ by_baseline' \in {<<>>, MwaxHdu}
                 /\ by_frequency' \in {<<>>, ToFrequencyOrder(MwaxHdu)}
      BY <3>1, <3>5 DEF BuffersInv
    <3>6. stage' \in {"correlate", "fill", "table"} => by_baseline' = <<>> /\ by_frequency' = <<>>
      BY <3>1 DEF BuffersInv
    <3>7. CASE legacy
      <4>1. legacy'
        BY <2>1, <3>7
      <4>2. QED
        BY <3>3, <3>4, <3>6, <3>7, <4>1 DEF BuffersInv
    <3>8. CASE ~legacy
      <4>1. ~legacy'
        BY <2>1, <3>8
      <4>2. QED
        BY <3>3, <3>5, <3>6, <3>8, <4>1, SameHdu DEF BuffersInv
    <3>9. QED
      BY <3>7, <3>8
  <2>3. CASE ~UNCHANGED convertVars
    <3>1. /\ stage \in {"correlate", "fill", "table"}
          /\ stage' \in {"correlate", "fill", "table", "ready"}
      BY <1>3, <2>3 DEF Correlate, Correlated, Fill, Filled, Push,
         Pushed
    <3>2. by_baseline' = <<>> /\ by_frequency' = <<>>
      BY <2>1, <3>1 DEF BuffersInv
    <3>3. QED
      BY <1>2, <2>1, <3>1, <3>2 DEF BuffersInv
  <2>4. QED
    BY <2>2, <2>3
<1>4. CASE ReadByBaseline
  <2>1. /\ legacy' /\ stage = "ready" /\ stage' = "by_baseline" /\ fine_chan_index' = 0 /\ legacy
        /\ UNCHANGED <<table, mwax_order, by_frequency>>
    BY <1>4 DEF ReadByBaseline, StartRead, observation, loops
  <2>2. BaselineWritten(0)'
    BY DEF BaselineWritten
  <2>3. FrequencyWritten(FineChans) => FrequencyWritten(FineChans)'
    BY <2>1, SameWritten
  <2>4. QED
    BY <1>1, <2>1, <2>2, <2>3 DEF BuffersInv
<1>5. CASE ReadByFrequency
  <2>1. /\ legacy' /\ stage = "ready" /\ stage' = "by_frequency" /\ fine_chan_index' = 0 /\ legacy
        /\ UNCHANGED <<table, mwax_order, by_baseline>>
    BY <1>5 DEF ReadByFrequency, StartRead, observation, loops
  <2>2. FrequencyWritten(0)'
    BY DEF FrequencyWritten
  <2>3. BaselineWritten(FineChans) => BaselineWritten(FineChans)'
    BY <2>1, SameWritten
  <2>4. QED
    BY <1>1, <2>1, <2>2, <2>3 DEF BuffersInv
<1>6. CASE ConvertToBaselineOrder
  <2>1. /\ stage = "by_baseline" /\ stage' = stage /\ legacy' = legacy /\ legacy
        /\ UNCHANGED <<table, mwax_order, by_frequency>>
    BY <1>6 DEF ConvertToBaselineOrder, observation, loops, StagesInv
  <2>2. FrequencyWritten(FineChans) => FrequencyWritten(FineChans)'
    BY <2>1, SameWritten
  <2>3. BaselineWritten(fine_chan_index)
    BY <2>1 DEF BuffersInv
  <2>4. fine_chan_index' \in 0 .. FineChans /\ BaselineWritten(fine_chan_index)'
    BY <1>2, <1>6, <2>3, BaselineGrows
  <2>5. QED
    BY <2>1, <2>2, <2>4 DEF BuffersInv
<1>7. CASE ConvertToFrequencyOrder
  <2>1. /\ stage = "by_frequency" /\ stage' = stage /\ legacy' = legacy /\ legacy
        /\ UNCHANGED <<table, mwax_order, by_baseline>>
    BY <1>7 DEF ConvertToFrequencyOrder, observation, loops, StagesInv
  <2>2. BaselineWritten(FineChans) => BaselineWritten(FineChans)'
    BY <2>1, SameWritten
  <2>3. FrequencyWritten(fine_chan_index)
    BY <2>1 DEF BuffersInv
  <2>4. fine_chan_index' \in 0 .. FineChans /\ FrequencyWritten(fine_chan_index)'
    BY <1>2, <1>7, <2>3, FrequencyGrows
  <2>5. QED
    BY <2>1, <2>2, <2>4 DEF BuffersInv
<1>8. CASE Return
  <2>1. /\ stage' = "ready" /\ stage \in {"by_baseline", "by_frequency"}
        /\ legacy /\ legacy' /\ fine_chan_index = FineChans
        /\ UNCHANGED <<table, mwax_order, by_baseline, by_frequency, fine_chan_index>>
    BY <1>8 DEF Return, observation, loops, buffers, StagesInv
  <2>2. /\ BaselineWritten(FineChans) => BaselineWritten(FineChans)'
        /\ FrequencyWritten(FineChans) => FrequencyWritten(FineChans)'
    BY <2>1, SameWritten
  <2>3. QED
    BY <2>1, <2>2 DEF BuffersInv
<1>9. CASE ReadMwaxByBaseline \/ ReadMwaxByFrequency
  <2>1. /\ stage = "ready" /\ stage' = "ready" /\ ~legacy /\ ~legacy'
        /\ by_baseline' \in {by_baseline, MwaxHdu}
        /\ by_frequency' \in {by_frequency, ToFrequencyOrder(MwaxHdu)}
        /\ fine_chan_index' = fine_chan_index
    BY <1>9 DEF ReadMwaxByBaseline, ReadMwaxByFrequency, observation
  <2>2. QED
    BY <1>2, <2>1, SameHdu DEF BuffersInv
<1>10. QED
  BY <1>3, <1>4, <1>5, <1>6, <1>7, <1>8, <1>9 DEF NextConvert

-----------------------------------------------------------------------------
ConvInv ==
  /\ StagesInv /\ CorrelateInv /\ FillInv /\ MatrixInv /\ TableInv /\ BuffersInv

LEMMA ConvStarts == InitConvert => ConvInv
<1> SUFFICES ASSUME InitConvert
             PROVE  ConvInv
  OBVIOUS
<1>1. /\ legacy \in BOOLEAN /\ mwax_order \in AllOrders
      /\ stage = IF legacy THEN "correlate" ELSE "ready"
      /\ full_matrix = [row \in Inputs |-> [col \in Inputs |-> EMPTY]]
      /\ source_legacy_ndx = 0 /\ col_order = 0 /\ row_order = 0
      /\ table = <<>> /\ fine_chan_index = 0
      /\ by_baseline = <<>> /\ by_frequency = <<>>
  BY OrdersAssumption DEF InitConvert, AllOrders
<1>2. Half \in Nat \ {0} /\ FineChans \in Nat \ {0}
  BY Halves, SizesAssumption
<1>3. StagesInv
  BY <1>1 DEF StagesInv
<1>4. CorrelateInv
  <2>1. InSquares
    BY <1>1, <1>2 DEF InSquares
  <2>2. 4 * (Triangle(0 \div 2) + (0 \div 2)) = 0
    BY DEF Triangle
  <2>3. ASSUME NEW x \in Inputs, NEW y \in Inputs
        PROVE  Seen(mwax_order, x, y, 0, 0) = EMPTY
    <3>1. Place(mwax_order, x) \in Nat /\ Place(mwax_order, y) \in Nat
      BY PlacesAreInputs, <1>3 DEF StagesInv, Inputs
    <3>2. Direct(mwax_order, x, y) => ~Before(Place(mwax_order, x), Place(mwax_order, y), 0, 0)
      BY <3>1 DEF Direct, Before
    <3>3. QED
      BY <3>2 DEF Seen
  <2>4. QED
    BY <1>1, <1>2, <2>1, <2>2, <2>3 DEF CorrelateInv
<1>5. FillInv /\ MatrixInv
  BY <1>1 DEF FillInv, MatrixInv
<1>6. TableInv
  BY <1>1 DEF TableInv, Reads
<1>7. BuffersInv
  BY <1>1, <1>2 DEF BuffersInv
<1>8. QED
  BY <1>3, <1>4, <1>5, <1>6, <1>7 DEF ConvInv

LEMMA ConvGoesOn == ConvInv /\ [NextConvert]_convertVars => ConvInv'
BY StagesNext, CorrelateNext, FillNext, MatrixNext, TableNext, BuffersNext DEF ConvInv

LEMMA ConvHolds == SpecConvert => []ConvInv
<1>1. InitConvert => ConvInv
  BY ConvStarts
<1>2. ConvInv /\ [NextConvert]_convertVars => ConvInv'
  BY ConvGoesOn
<1>3. QED
  BY <1>1, <1>2, PTL DEF SpecConvert

\* What an index of a buffer stands for in an MWAX HDU.
LEMMA MwaxAt ==
  ASSUME NEW a \in 0 .. Half - 1, NEW b \in a .. Half - 1,
         NEW f \in 0 .. FineChans - 1, NEW pol \in 0 .. 3
  PROVE  MwaxHdu[(ByRows(a, b) * FineChans + f) * 4 + pol] = Wanted(f, a, b, pol)
<1> DEFINE bl == ByRows(a, b)
           i == (bl * FineChans + f) * 4 + pol
           T == Triangle(Half)
<1>1. Half \in Nat \ {0} /\ T \in Nat \ {0} /\ Pols = 4 /\ FineChans \in Nat \ {0}
  BY Halves, SizesAssumption
<1>2. bl \in 0 .. T - 1
  <2>1. a \in 0 .. Half
    BY <1>1
  <2>2. QED
    BY <2>1, RowNumbers
<1>3. i \in BufferIndices
  BY <1>2, Indices
<1>4. Baseline(bl) = <<a, b>>
  <2>1. <<a, b>> \in TilePairs
    BY <1>1, Halves DEF TilePairs
  <2>2. ASSUME NEW p \in TilePairs, ByRows(p[1], p[2]) = bl
        PROVE  p = <<a, b>>
    <3>1. p = <<p[1], p[2]>> /\ p[1] \in 0 .. Half - 1 /\ p[2] \in p[1] .. Half - 1
      BY <1>1, Halves DEF TilePairs
    <3>2. p[1] \in 0 .. Half /\ a \in 0 .. Half
      BY <1>1, <3>1
    <3>3. p[1] = a /\ p[2] = b
      BY <2>2, <3>1, <3>2, RowNumbers
    <3>4. QED
      BY <3>1, <3>3
  <2> DEFINE Is(p) == ByRows(p[1], p[2]) = bl
  <2>3. Is(<<a, b>>)
    OBVIOUS
  <2>4. \A p \in TilePairs : Is(p) => p = <<a, b>>
    BY <2>2
  <2>5. Baseline(bl) = CHOOSE p \in TilePairs : Is(p)
    BY DEF Baseline
  <2> HIDE DEF Is
  <2>6. QED
    BY <2>1, <2>3, <2>4, <2>5
<1> HIDE DEF bl, i, T
<1>5. i \div (FineChans * 4) = bl /\ (i \div 4) % FineChans = f /\ i % 4 = pol
  <2>1. i = Packed(FineChans, bl, f, pol)
    BY DEF i, Packed
  <2>2. bl \in Nat
    BY <1>2
  <2>3. HasDigits(FineChans, bl, f, pol, i)
    BY <1>1, <2>1, <2>2, Digits
  <2>4. QED
    BY <2>3 DEF HasDigits
<1>6. MwaxHdu[i] = LET p == Baseline(bl) IN Wanted(f, p[1], p[2], pol)
  BY <1>1, <1>3, <1>5 DEF MwaxHdu
<1>7. QED
  BY <1>4, <1>6 DEF i, bl

\* A read of a legacy or an MWAX observation gives the wanted triangle
\* (ReadsGiveTheTriangle), whatever the order of the inputs.
THEOREM ReadsAreTheTriangle == SpecConvert => []ReadsGiveTheTriangle
<1>1. ASSUME ConvInv
      PROVE  ReadsGiveTheTriangle
  <2> SUFFICES ASSUME stage = "ready", by_baseline # <<>>,
                      NEW p \in TilePairs, NEW f \in 0 .. FineChans - 1, NEW pol \in 0 .. 3
               PROVE  by_baseline[(ByRows(p[1], p[2]) * FineChans + f) * 4 + pol]
                        = Wanted(f, p[1], p[2], pol)
    BY Halves DEF ReadsGiveTheTriangle
  <2>1. PICK a, b : a = p[1] /\ b = p[2]
    OBVIOUS
  <2>2. a \in 0 .. Half - 1 /\ b \in a .. Half - 1 /\ Half \in Nat \ {0}
    BY <2>1, Halves DEF TilePairs
  <2>3. ByRows(a, b) \in 0 .. Triangle(Half) - 1
    <3>1. a \in 0 .. Half
      BY <2>2
    <3>2. QED
      BY <2>2, <3>1, RowNumbers
  <2>4. CASE legacy
    <3>1. BaselineWritten(FineChans) /\ HasLines(Triangle(Half)) /\ StagesInv
      BY <1>1, <2>4 DEF ConvInv, BuffersInv, TableInv, Reads
    <3>2. by_baseline[BaselineOrder(f, ByRows(a, b), pol)]
            = Converted(f, ByRows(a, b), pol)
      BY <2>3, <3>1 DEF BaselineWritten
    <3>3. BaselineOrder(f, ByRows(a, b), pol)
            = (ByRows(a, b) * FineChans + f) * 4 + pol
      BY <2>3, Indices
    <3>4. Converted(f, ByRows(a, b), pol) = Wanted(f, a, b, pol)
      BY <2>2, <3>1, LineConverts
    <3>5. QED
      BY <2>1, <3>2, <3>3, <3>4
  <2>5. CASE ~legacy
    <3>1. by_baseline = MwaxHdu
      BY <1>1, <2>5 DEF ConvInv, BuffersInv
    <3>2. QED
      BY <2>1, <2>2, <3>1, MwaxAt
  <2>6. QED
    BY <2>4, <2>5
<1>2. QED
  BY <1>1, ConvHolds, PTL

\* The read by frequency of an MWAX HDU takes each number from its place in the HDU.
LEMMA ToFrequencyAt ==
  ASSUME NEW f \in 0 .. FineChans - 1, NEW bl \in 0 .. Triangle(Half) - 1,
         NEW pol \in 0 .. 3, NEW input
  PROVE  ToFrequencyOrder(input)[(f * Triangle(Half) + bl) * 4 + pol]
           = input[(bl * FineChans + f) * 4 + pol]
<1> DEFINE T == Triangle(Half)
           i == (f * T + bl) * 4 + pol
<1>1. T \in Nat \ {0} /\ Pols = 4 /\ HduStride = T * 4 /\ FineChans \in Nat \ {0}
  BY Halves, SizesAssumption
<1>2. i \in BufferIndices /\ BaselineOrder(f, bl, pol) = (bl * FineChans + f) * 4 + pol
  BY Indices
<1>3. bl \in 0 .. T - 1 /\ f \in Nat
  BY <1>1
<1> HIDE DEF i, T
<1>4. HasDigits(T, f, bl, pol, i)
  <2>1. i = Packed(T, f, bl, pol)
    BY DEF i, Packed
  <2>2. QED
    BY <1>1, <1>3, <2>1, Digits
<1>5. i \div HduStride = f /\ (i % HduStride) \div Pols = bl /\ i % Pols = pol
  <2>1. i \div (T * 4) = f /\ i % (T * 4) = bl * 4 + pol /\ i % 4 = pol
    BY <1>4 DEF HasDigits
  <2>2. (bl * 4 + pol) \div 4 = bl
    BY <1>1, <1>3
  <2>3. QED
    BY <1>1, <2>1, <2>2
<1>6. ToFrequencyOrder(input)[i] = input[BaselineOrder(f, bl, pol)]
  BY <1>2, <1>5 DEF ToFrequencyOrder
<1>7. QED
  BY <1>2, <1>6 DEF i, T

\* The reads by baseline and by frequency give the same numbers in their two
\* orders (OrdersAgree), of both kinds of correlator.
THEOREM ReadsAgree == SpecConvert => []OrdersAgree
<1>1. ASSUME ConvInv
      PROVE  OrdersAgree
  <2> DEFINE T == Triangle(Half)
  <2> SUFFICES ASSUME stage = "ready", by_baseline # <<>>, by_frequency # <<>>,
                      NEW bl \in 0 .. T - 1, NEW f \in 0 .. FineChans - 1, NEW pol \in 0 .. 3
               PROVE  by_frequency[(f * T + bl) * 4 + pol] = by_baseline[(bl * FineChans + f) * 4 + pol]
    <3>1. NumBaselines = T /\ 0 .. Pols - 1 = 0 .. 3 /\ Pols = 4
      BY Halves
    <3> HIDE DEF T
    <3>2. QED
      BY <3>1 DEF OrdersAgree
  <2>1. CASE legacy
    <3>1. BaselineWritten(FineChans) /\ FrequencyWritten(FineChans)
      BY <1>1, <2>1 DEF ConvInv, BuffersInv
    <3>2. /\ by_baseline[BaselineOrder(f, bl, pol)] = Converted(f, bl, pol)
          /\ by_frequency[FrequencyOrder(f, bl, pol)] = Converted(f, bl, pol)
      BY <3>1 DEF BaselineWritten, FrequencyWritten
    <3>3. QED
      BY <3>2, Indices
  <2>2. CASE ~legacy
    <3>1. by_baseline = MwaxHdu /\ by_frequency = ToFrequencyOrder(MwaxHdu)
      BY <1>1, <2>2 DEF ConvInv, BuffersInv
    <3>2. QED
      BY <3>1, ToFrequencyAt
  <2>3. QED
    BY <2>1, <2>2
<1>2. QED
  BY <1>1, ConvHolds, PTL

\* Once the full matrix is filled each pair of inputs has a number of its own, or
\* that of the mirrored pair, conjugated (MatrixIsHermitian).
THEOREM FilledMatrixIsHermitian == SpecConvert => []MatrixIsHermitian
<1>1. ASSUME ConvInv
      PROVE  MatrixIsHermitian
  <2> DEFINE v(a, b) == Value(mwax_order, a, b)
             hdu(n) == LegacyHdu(0, n)
  <2> SUFFICES ASSUME stage = "table", NEW a \in Inputs, NEW b \in Inputs
               PROVE  /\ Magnitude(full_matrix[a][b]) < HduStride
                      /\ a # b => full_matrix[a][b] = -full_matrix[b][a]
                      /\ \A c, d \in Inputs :
                           full_matrix[a][b] = full_matrix[c][d] => a = c /\ b = d
    BY Halves DEF MatrixIsHermitian
  <2>1. StagesInv /\ mwax_order \in AllOrders
        /\ \A c, d \in Inputs : full_matrix[c][d] = v(c, d)
    BY <1>1 DEF ConvInv, MatrixInv, StagesInv
  <2>2. ASSUME NEW c \in Inputs, NEW d \in Inputs
        PROVE  /\ v(c, d) \in Int /\ Magnitude(v(c, d)) \in 0 .. HduStride - 1
               /\ v(c, d) >= 0 => Direct(mwax_order, c, d)
                                  /\ hdu(Magnitude(v(c, d))) = Visibility(0, c, d)
               /\ v(c, d) < 0 => ~Direct(mwax_order, c, d)
                                 /\ hdu(Magnitude(v(c, d))) = Visibility(0, d, c)
    BY <2>1, ValueLeads
  <2>3. Magnitude(v(a, b)) < HduStride
    <3>1. HduStride \in Nat
      BY Halves
    <3>2. QED
      BY <2>2, <3>1
  <2>4. ASSUME a # b
        PROVE  v(a, b) = -v(b, a)
    <3> DEFINE i == Place(mwax_order, a)
               j == Place(mwax_order, b)
    <3>1. i \in Nat /\ j \in Nat /\ i # j
      BY <2>1, <2>4, PlacesAreInputs, PlacesDiffer DEF Inputs
    <3>2. CASE i < j
      <4>1. v(a, b) = Number(i, j) /\ v(b, a) = -Number(i, j)
        BY <3>1, <3>2 DEF Value, Direct
      <4>2. v(a, b) \in Int
        BY <2>2
      <4> HIDE DEF v
      <4>3. QED
        BY <4>1, <4>2
    <3>3. CASE j < i
      <4>1. v(a, b) = -Number(j, i) /\ v(b, a) = Number(j, i)
        BY <3>1, <3>3 DEF Value, Direct
      <4>2. QED
        BY <4>1
    <3>4. QED
      BY <3>1, <3>2, <3>3
  <2>5. ASSUME NEW c \in Inputs, NEW d \in Inputs, v(a, b) = v(c, d)
        PROVE  a = c /\ b = d
    <3> HIDE DEF v, hdu
    <3>1. \/ Visibility(0, a, b) = Visibility(0, c, d)
          \/ Visibility(0, b, a) = Visibility(0, d, c)
      <4>1. v(a, b) \in Int
        BY <2>2
      <4>2. CASE v(a, b) >= 0
        BY <2>2, <2>5, <4>2
      <4>3. CASE v(a, b) < 0
        BY <2>2, <2>5, <4>3
      <4>4. QED
        BY <4>1, <4>2, <4>3
    <3>2. QED
      BY <3>1 DEF Visibility
  <2>6. QED
    BY <2>1, <2>3, <2>4, <2>5
<1>2. QED
  BY <1>1, ConvHolds, PTL
=============================================================================
