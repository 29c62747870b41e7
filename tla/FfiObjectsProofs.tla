--------------------------- MODULE FfiObjectsProofs ---------------------------
(***************************************************************************)
(* Proofs about FfiObjects, for any number of objects and any contexts,    *)
(* those whose antennas are not half of their inputs included: no call     *)
(* reaches memory that is not allocated but past the end of an array of    *)
(* antennas shorter than num_ants, and only the seven strings of a         *)
(* metafits struct and the names num_ants does not count are ever left     *)
(* behind.  Where every context has at least num_ants antennas no call     *)
(* reaches such memory at all.  The invariant says which blocks of an      *)
(* object the heap holds: all that its free drops, as far as they were     *)
(* boxed, while the caller holds it, and nothing but those left behind     *)
(* afterwards.                                                             *)
(***************************************************************************)
EXTENDS FfiObjects, TLAPS

Kinds == Contexts \cup {"unused", "metafits_metadata", "correlator_metadata", "voltage_metadata"}

\* What the struct or context of an object can hold.
DataOf(k, d) ==
    /\ k \in Contexts => d \in Shapes
    /\ k = "metafits_metadata" => \E s \in Shapes : d = MetafitsStruct(s)
    /\ k = "correlator_metadata" => \E s \in Shapes : d = CorrelatorStruct(s)
    /\ k = "voltage_metadata" => \E s \in Shapes : d = VoltageStruct(s)

IsTopString(k, p) == k = "metafits_metadata" /\ p \in TopStrings \X {0}
IsLeftBehind(k, d, p) == IsTopString(k, p) \/ p \in Uncounted(k, d)

ObjectsOK ==
    /\ held \subseteq Ids
    /\ kind \in [Ids -> Kinds]
    /\ DOMAIN data = Ids /\ data = [id \in Ids |-> data[id]]
    /\ \A id \in Ids : DataOf(kind[id], data[id])
    /\ \A id \in held : kind[id] # "unused"

\* Every block belongs to an object that was made, and is one its free drops or
\* leaves behind.
BlocksAreOwned ==
    \A b \in heap : \E id \in Ids :
        /\ kind[id] # "unused"
        /\ \E p : /\ b = <<id, p>>
                  /\ \/ id \in held /\ p \in Drops(kind[id], data[id])
                     \/ IsLeftBehind(kind[id], data[id], p)

\* All that the free of a held object drops is there, or past an array.
HeldAreWhole ==
    \A id \in held : \A p \in Drops(kind[id], data[id]) :
        <<id, p>> \in heap \/ p \in PastTheArray(kind[id], data[id])

\* What was reached and not there is past the array of an object that was made.
WildArePast ==
    \A b \in wild : \E id \in Ids :
        /\ kind[id] # "unused"
        /\ \E p \in PastTheArray(kind[id], data[id]) : b = <<id, p>>

IInv == ObjectsOK /\ BlocksAreOwned /\ HeldAreWhole /\ WildArePast

-----------------------------------------------------------------------------
\* Blocks and parts.

LEMMA BlocksAre ==
    ASSUME NEW id, NEW P, NEW b
    PROVE  b \in BlocksOf(id, P) <=> \E p \in P : b = <<id, p>>
  BY DEF BlocksOf

\* No free drops a top string.
LEMMA TopStringsAreNotDropped ==
    ASSUME NEW s \in Shapes, NEW p \in FreedOfMetafits(MetafitsStruct(s))
    PROVE  p \notin TopStrings \X {0}
<1> DEFINE d == MetafitsStruct(s)
<1>1. d.arrays \subseteq MetafitsArrays /\ d.input_arrays \subseteq RfInputArrays
  BY DEF MetafitsStruct, Boxed
<1>2. p = Box \/ p \in MetafitsArrays \X {0} \/ p \in FreedOfItems(d)
  BY <1>1 DEF FreedOfMetafits
<1>3. ASSUME p \in FreedOfItems(d)
      PROVE  p[1] \in {"antennas.tile_name"} \cup RfInputStrings \cup RfInputArrays
  BY <1>1, <1>3 DEF FreedOfItems
<1> QED
  BY <1>2, <1>3 DEF Box, MetafitsArrays, TopStrings, RfInputStrings, RfInputArrays

\* Of the members of the items, the free of a struct drops those that were boxed
\* and that num_ants counts, and those it counts and that were not.
LEMMA ItemsAreParts ==
    ASSUME NEW s \in Shapes
    PROVE  LET d == MetafitsStruct(s)
               k == "metafits_metadata"
           IN  /\ AntennaParts(s) \cup RfInputParts(s) \subseteq FreedOfItems(d) \cup Uncounted(k, d)
               /\ FreedOfItems(d) \subseteq AntennaParts(s) \cup RfInputParts(s) \cup PastTheArray(k, d)
<1> DEFINE d == MetafitsStruct(s)
           Names == {"antennas.tile_name"}
           Walked == IF "antennas" \in d.arrays THEN Names \X (1 .. d.num_ants) ELSE {}
<1>1. /\ d.num_ants = s.inputs \div 2 /\ d.boxed = s.antennas /\ d.num_rf_inputs = s.inputs
      /\ d.arrays = MetafitsArrays \ s.empty
      /\ d.input_arrays = RfInputArrays \ s.empty
  BY DEF MetafitsStruct, Boxed
<1>2. "antennas" \in d.arrays <=> s.antennas # 0
  BY <1>1, ShapesAssumption DEF MetafitsArrays
<1>3. "rf_inputs" \in d.arrays <=> s.inputs # 0
  BY <1>1, ShapesAssumption DEF MetafitsArrays
<1>4. s.antennas \in Nat /\ s.inputs \in Nat /\ d.num_ants \in Nat
  BY <1>1, ShapesAssumption
<1>5. /\ AntennaParts(s) \subseteq Walked \cup Uncounted("metafits_metadata", d)
      /\ Walked \subseteq AntennaParts(s) \cup PastTheArray("metafits_metadata", d)
  <2>1. CASE s.antennas = 0
    <3>1. 1 .. s.antennas = {}
      BY <2>1
    <3> QED
      BY <1>2, <2>1, <3>1 DEF AntennaParts
  <2>2. CASE s.antennas # 0
    <3>1. /\ 1 .. s.antennas \subseteq (1 .. d.num_ants) \cup (d.num_ants + 1 .. s.antennas)
          /\ 1 .. d.num_ants \subseteq (1 .. s.antennas) \cup (s.antennas + 1 .. d.num_ants)
      BY <1>4
    <3>2. Walked = Names \X (1 .. d.num_ants)
      BY <1>2, <2>2
    <3>3. /\ Uncounted("metafits_metadata", d) = Names \X (d.num_ants + 1 .. s.antennas)
          /\ PastTheArray("metafits_metadata", d) = Names \X (s.antennas + 1 .. d.num_ants)
      BY <1>1 DEF Uncounted, PastTheArray
    <3> QED
      BY <3>1, <3>2, <3>3 DEF AntennaParts
  <2> QED BY <2>1, <2>2
<1>6. (IF "rf_inputs" \in d.arrays
       THEN (RfInputStrings \cup d.input_arrays) \X (1 .. d.num_rf_inputs) ELSE {})
        = RfInputParts(s)
  <2>1. CASE s.inputs = 0
    <3>1. 1 .. s.inputs = {}
      BY <2>1
    <3> QED
      BY <1>1, <1>3, <2>1, <3>1 DEF RfInputParts
  <2>2. CASE s.inputs # 0
    BY <1>1, <1>3, <2>2 DEF RfInputParts
  <2> QED BY <2>1, <2>2
<1> HIDE DEF d
<1>7. FreedOfItems(d) = Walked \cup RfInputParts(s)
  BY <1>6 DEF FreedOfItems
<1> QED BY <1>5, <1>7 DEF d

\* mwalib_metafits_metadata_free drops all that _get boxed but the top strings and
\* the names it does not count, and nothing else but the names that are not there.
LEMMA MetafitsFreeDropsAllButStrings ==
    ASSUME NEW s \in Shapes
    PROVE  LET d == MetafitsStruct(s)
               k == "metafits_metadata"
           IN  /\ \A p \in MetafitsParts(s) : p \in FreedOfMetafits(d) \/ IsLeftBehind(k, d, p)
               /\ FreedOfMetafits(d) \subseteq MetafitsParts(s) \cup PastTheArray(k, d)
  BY ItemsAreParts DEF MetafitsParts, FreedOfMetafits, MetafitsStruct, Boxed, IsLeftBehind, IsTopString

LEMMA CorrelatorFreeDropsAll ==
    ASSUME NEW s \in Shapes
    PROVE  CorrelatorParts(s) = FreedOfCorrelator(CorrelatorStruct(s))
  BY DEF CorrelatorParts, FreedOfCorrelator, CorrelatorStruct, Boxed

LEMMA VoltageFreeDropsAll ==
    ASSUME NEW s \in Shapes
    PROVE  VoltageParts(s) = FreedOfVoltage(VoltageStruct(s))
  BY DEF VoltageParts, FreedOfVoltage, VoltageStruct, Boxed

-----------------------------------------------------------------------------
\* What a step can do to objects and heap.

\* A call that answers without touching the objects.
LEMMA ObjectsUnchanged ==
    ASSUME IInv, UNCHANGED objects
    PROVE  IInv'
  BY DEF IInv, ObjectsOK, BlocksAreOwned, HeldAreWhole, WildArePast, objects

LEMMA HeldAreMade ==
    ASSUME IInv
    PROVE  \A id \in held : id \in Ids /\ kind[id] # "unused"
  BY DEF IInv, ObjectsOK

\* A call that only reads blocks of an object the caller holds.
LEMMA ReadingIsTame ==
    ASSUME IInv, NEW id \in held, NEW P \in SUBSET Freed(id),
           Reads(BlocksOf(id, P)), UNCHANGED <<heap, kind, data, held>>
    PROVE  IInv'
<1>1. \A b \in BlocksOf(id, P) \ heap :
        \E p \in PastTheArray(kind[id], data[id]) : b = <<id, p>>
  BY BlocksAre DEF IInv, HeldAreWhole, Freed
<1>2. WildArePast'
  BY <1>1, HeldAreMade DEF Reads, IInv, WildArePast
<1> QED
  BY <1>2 DEF IInv, ObjectsOK, BlocksAreOwned, HeldAreWhole

\* The box of a held object is one of the blocks its free drops.
LEMMA BoxIsDropped ==
    ASSUME NEW id
    PROVE  Box \in Freed(id)
  BY DEF Freed, Drops, FreedOfMetafits, FreedOfCorrelator, FreedOfVoltage

LEMMA ReadingTheBoxIsTame ==
    ASSUME IInv, NEW id \in held, ReadsBox(id), UNCHANGED <<heap, kind, data, held>>
    PROVE  IInv'
<1>1. {Box} \in SUBSET Freed(id)
  BY BoxIsDropped
<1>2. BlocksOf(id, {Box}) = {<<id, Box>>}
  BY DEF BlocksOf
<1>3. Reads(BlocksOf(id, {Box}))
  BY <1>2 DEF ReadsBox
<1> QED
  BY <1>1, <1>3, ReadingIsTame

\* The box is there as long as the object is held.
LEMMA BoxIsThere ==
    ASSUME IInv, NEW id \in held
    PROVE  <<id, Box>> \in heap
<1>1. Box \notin PastTheArray(kind[id], data[id])
  BY DEF PastTheArray, Box
<1> QED
  BY <1>1, BoxIsDropped DEF IInv, HeldAreWhole, Freed

\* A new object whose blocks are those its free drops, as far as there are, and
\* those it leaves behind.
LEMMA HandingOut ==
    ASSUME IInv, NEW k \in Kinds \ {"unused"}, NEW d, NEW P, DataOf(k, d),
           Drops(k, d) \subseteq P \cup PastTheArray(k, d),
           \A p \in P : p \in Drops(k, d) \/ IsLeftBehind(k, d, p),
           Hand(k, d, P), UNCHANGED wild
    PROVE  IInv'
<1>1. PICK id \in Ids :
        /\ kind[id] = "unused"
        /\ kind' = [kind EXCEPT ![id] = k]
        /\ data' = [data EXCEPT ![id] = d]
        /\ heap' = heap \cup BlocksOf(id, P)
        /\ held' = held \cup {id}
  BY DEF Hand
<1>2. id \notin held /\ \A i \in Ids : i # id => kind'[i] = kind[i] /\ data'[i] = data[i]
  BY <1>1 DEF IInv, ObjectsOK
<1>3. kind'[id] = k /\ data'[id] = d
  BY <1>1 DEF IInv, ObjectsOK
<1>4. ObjectsOK'
  <2>1. held' \subseteq Ids /\ kind' \in [Ids -> Kinds] /\ DOMAIN data' = Ids
        /\ data' = [i \in Ids |-> data'[i]]
    BY <1>1 DEF IInv, ObjectsOK
  <2>2. \A i \in Ids : DataOf(kind'[i], data'[i])
    BY <1>2, <1>3 DEF IInv, ObjectsOK
  <2>3. \A i \in held' : kind'[i] # "unused"
    BY <1>1, <1>2, <1>3 DEF IInv, ObjectsOK
  <2> QED
    BY <2>1, <2>2, <2>3 DEF ObjectsOK, DataOf
<1>5. BlocksAreOwned'
  <2> SUFFICES ASSUME NEW b \in heap'
               PROVE  \E i \in Ids :
                        /\ kind'[i] # "unused"
                        /\ \E p : /\ b = <<i, p>>
                                  /\ \/ i \in held' /\ p \in Drops(kind'[i], data'[i])
                                     \/ IsLeftBehind(kind'[i], data'[i], p)
    BY DEF BlocksAreOwned
  <2>1. CASE b \in heap
    <3>0. PICK i \in Ids :
            /\ kind[i] # "unused"
            /\ \E p : /\ b = <<i, p>>
                      /\ \/ i \in held /\ p \in Drops(kind[i], data[i])
                         \/ IsLeftBehind(kind[i], data[i], p)
      BY <2>1 DEF IInv, BlocksAreOwned
    <3>1. PICK p :
            /\ kind[i] # "unused" /\ b = <<i, p>>
            /\ \/ i \in held /\ p \in Drops(kind[i], data[i])
               \/ IsLeftBehind(kind[i], data[i], p)
      BY <3>0
    <3>2. i # id
      BY <1>1, <3>1
    <3> QED
      BY <1>1, <1>2, <3>1, <3>2
  <2>2. CASE b \in BlocksOf(id, P)
    <3>1. PICK p \in P : b = <<id, p>>
      BY <2>2, BlocksAre
    <3> QED
      BY <1>1, <1>3, <3>1
  <2> QED
    BY <1>1, <2>1, <2>2
<1>6. HeldAreWhole'
  <2> SUFFICES ASSUME NEW i \in held', NEW p \in Drops(kind'[i], data'[i])
               PROVE  <<i, p>> \in heap' \/ p \in PastTheArray(kind'[i], data'[i])
    BY DEF HeldAreWhole
  <2>1. CASE i = id
    <3>1. p \in P \/ p \in PastTheArray(kind'[i], data'[i])
      BY <1>3, <2>1
    <3> QED
      BY <1>1, <2>1, <3>1, BlocksAre
  <2>2. CASE i # id
    BY <1>1, <1>2, <2>2 DEF IInv, HeldAreWhole, ObjectsOK
  <2> QED
    BY <2>1, <2>2
<1>7. WildArePast'
  <2> SUFFICES ASSUME NEW b \in wild
               PROVE  \E i \in Ids :
                        /\ kind'[i] # "unused"
                        /\ \E p \in PastTheArray(kind'[i], data'[i]) : b = <<i, p>>
    BY DEF WildArePast
  <2>1. PICK i \in Ids : /\ kind[i] # "unused"
                         /\ \E p \in PastTheArray(kind[i], data[i]) : b = <<i, p>>
    BY DEF IInv, WildArePast
  <2>2. i # id
    BY <1>1, <2>1
  <2> QED
    BY <1>2, <2>1, <2>2
<1> QED
  BY <1>4, <1>5, <1>6, <1>7 DEF IInv

\* The free of a held object.
LEMMA FreeingIsTame ==
    ASSUME IInv, NEW id \in held,
           wild' = wild \cup (BlocksOf(id, Freed(id)) \ heap),
           heap' = heap \ BlocksOf(id, Freed(id)),
           held' = held \ {id}, UNCHANGED <<kind, data>>
    PROVE  IInv'
<1>1. \A b \in BlocksOf(id, Freed(id)) \ heap :
        \E p \in PastTheArray(kind[id], data[id]) : b = <<id, p>>
  BY BlocksAre DEF IInv, HeldAreWhole, Freed
<1>2. WildArePast'
  BY <1>1, HeldAreMade DEF IInv, WildArePast
<1>3. ObjectsOK'
  BY DEF IInv, ObjectsOK, DataOf
<1>4. BlocksAreOwned'
  <2> SUFFICES ASSUME NEW b \in heap'
               PROVE  \E i \in Ids :
                        /\ kind[i] # "unused"
                        /\ \E p : /\ b = <<i, p>>
                                  /\ \/ i \in held' /\ p \in Drops(kind[i], data[i])
                                     \/ IsLeftBehind(kind[i], data[i], p)
    BY DEF BlocksAreOwned
  <2>0. PICK i \in Ids :
          /\ kind[i] # "unused"
          /\ \E p : /\ b = <<i, p>>
                    /\ \/ i \in held /\ p \in Drops(kind[i], data[i])
                       \/ IsLeftBehind(kind[i], data[i], p)
    BY DEF IInv, BlocksAreOwned
  <2>1. PICK p :
          /\ kind[i] # "unused" /\ b = <<i, p>>
          /\ \/ i \in held /\ p \in Drops(kind[i], data[i])
             \/ IsLeftBehind(kind[i], data[i], p)
    BY <2>0
  <2>2. i = id => p \notin Drops(kind[i], data[i])
    BY <2>1, BlocksAre DEF Freed
  <2> QED
    BY <2>1, <2>2
<1>5. HeldAreWhole'
  <2> SUFFICES ASSUME NEW i \in held', NEW p \in Drops(kind[i], data[i])
               PROVE  <<i, p>> \in heap' \/ p \in PastTheArray(kind[i], data[i])
    BY DEF HeldAreWhole
  <2>1. (<<i, p>> \in heap \/ p \in PastTheArray(kind[i], data[i])) /\ i # id
    BY DEF IInv, HeldAreWhole
  <2> QED
    BY <2>1, BlocksAre
<1> QED
  BY <1>2, <1>3, <1>4, <1>5 DEF IInv

-----------------------------------------------------------------------------
\* The calls.

LEMMA SayingIsTame ==
    ASSUME IInv, NEW call, Fails(call)
    PROVE  IInv'
  BY ObjectsUnchanged DEF Fails

LEMMA PanickingIsTame ==
    ASSUME IInv, NEW call, NEW reason, Panic(call, reason)
    PROVE  IInv'
  BY ObjectsUnchanged DEF Panic

LEMMA NewContextIsTame ==
    ASSUME IInv, NEW call, NEW k \in Contexts, NewContext(call, k)
    PROVE  IInv'
<1>1. CASE \E s \in Shapes : Hand(k, s, {Box}) /\ UNCHANGED wild
  <2>1. PICK s \in Shapes : Hand(k, s, {Box}) /\ UNCHANGED wild
    BY <1>1
  <2>2. k \in Kinds \ {"unused"} /\ DataOf(k, s) /\ Drops(k, s) = {Box}
    BY DEF Contexts, Kinds, DataOf, Drops
  <2> HIDE DEF IInv
  <2> QED
    BY <2>1, <2>2, HandingOut
<1> QED
  BY <1>1, PanickingIsTame, SayingIsTame DEF NewContext

LEMMA DisplayIsTame ==
    ASSUME IInv, NEW call, NEW k, Display(call, k)
    PROVE  IInv'
  BY SayingIsTame, ReadingTheBoxIsTame DEF Display, HeldOf

LEMMA FreeIsTame ==
    ASSUME IInv, NEW call, NEW k, Free(call, k)
    PROVE  IInv'
  BY ObjectsUnchanged, FreeingIsTame DEF Free, HeldOf

LEMMA ReadIsTame ==
    ASSUME IInv, NEW call, NEW k, Read(call, k)
    PROVE  IInv'
  BY SayingIsTame, PanickingIsTame, ObjectsUnchanged, ReadingTheBoxIsTame DEF Read, HeldOf

\* A top string that the caller frees is not one that a free drops.
LEMMA FreeRustCstringIsTame ==
    ASSUME IInv, FreeRustCstring
    PROVE  IInv'
<1>1. CASE UNCHANGED heap
  BY <1>1, ObjectsUnchanged DEF FreeRustCstring, objects
<1>2. CASE ~UNCHANGED heap
  <2>1. PICK id \in HeldOf("metafits_metadata"), s \in TopStrings :
          heap' = heap \ {<<id, <<s, 0>>>>}
    BY <1>2, StringsAssumption DEF FreeRustCstring
  <2>2. UNCHANGED <<kind, data, held, wild>>
    BY DEF FreeRustCstring
  <2>3. ObjectsOK' /\ WildArePast'
    BY <2>2 DEF IInv, ObjectsOK, WildArePast
  <2>4. BlocksAreOwned'
    BY <2>1, <2>2 DEF IInv, BlocksAreOwned
  <2>5. id \in held /\ id \in Ids /\ kind[id] = "metafits_metadata"
    BY DEF IInv, ObjectsOK, HeldOf
  <2>6. PICK shape \in Shapes : data[id] = MetafitsStruct(shape)
    BY <2>5 DEF IInv, ObjectsOK, DataOf
  <2>7. <<s, 0>> \notin Drops(kind[id], data[id])
    BY <2>5, <2>6, TopStringsAreNotDropped DEF Drops
  <2>8. HeldAreWhole'
    <3> SUFFICES ASSUME NEW i \in held, NEW p \in Drops(kind[i], data[i])
                 PROVE  \/ <<i, p>> \in heap \ {<<id, <<s, 0>>>>}
                        \/ p \in PastTheArray(kind[i], data[i])
      BY <2>1, <2>2 DEF HeldAreWhole
    <3>1. <<i, p>> \in heap \/ p \in PastTheArray(kind[i], data[i])
      BY DEF IInv, HeldAreWhole
    <3>2. ~(i = id /\ p = <<s, 0>>)
      BY <2>7
    <3> QED
      BY <3>1, <3>2
  <2> QED
    BY <2>3, <2>4, <2>8 DEF IInv
<1> QED
  BY <1>1, <1>2

\* The first of an odd number of pointers is one that is held.
LEMMA FirstIsHeld ==
    ASSUME IInv, NEW m \in Pointers("metafits"), NEW c \in Pointers("correlator"),
           NEW v \in Pointers("voltage"), OneGiven(m, c, v)
    PROVE  FirstGiven(m, c, v) \in held /\ kind[FirstGiven(m, c, v)] \in Contexts
  BY DEF Pointers, HeldOf, OneGiven, FirstGiven, Contexts

LEMMA MetafitsMetadataGetIsTame ==
    ASSUME IInv, MetafitsMetadataGet
    PROVE  IInv'
<1>1. PICK m \in Pointers("metafits"), c \in Pointers("correlator"),
           v \in Pointers("voltage") :
        LET id == FirstGiven(m, c, v)
        IN  \/ Fails("get")
            \/ Panic("get", "input not found")
            \/ /\ OneGiven(m, c, v) /\ ReadsBox(id)
               /\ Hand("metafits_metadata", MetafitsStruct(data[id]), MetafitsParts(data[id]))
  BY DEF MetafitsMetadataGet
<1> DEFINE id == FirstGiven(m, c, v)
<1>2. CASE OneGiven(m, c, v) /\ ReadsBox(id)
           /\ Hand("metafits_metadata", MetafitsStruct(data[id]), MetafitsParts(data[id]))
  <2>1. id \in held /\ kind[id] \in Contexts
    BY <1>1, <1>2, FirstIsHeld
  <2>2. data[id] \in Shapes
    BY <2>1 DEF IInv, ObjectsOK, DataOf
  <2>3. <<id, Box>> \in heap
    BY <2>1, BoxIsThere
  <2>4. UNCHANGED wild
    BY <1>2, <2>3 DEF ReadsBox, Reads
  <2> DEFINE k == "metafits_metadata"
             d == MetafitsStruct(data[id])
             P == MetafitsParts(data[id])
  <2>5. k \in Kinds \ {"unused"} /\ DataOf(k, d)
    BY <2>2 DEF Kinds, DataOf, Contexts
  <2>6. /\ Drops(k, d) \subseteq P \cup PastTheArray(k, d)
        /\ \A p \in P : p \in Drops(k, d) \/ IsLeftBehind(k, d, p)
    BY <2>2, MetafitsFreeDropsAllButStrings DEF Drops
  <2>7. Hand(k, d, P)
    BY <1>2
  <2> HIDE DEF k, d, P
  <2> QED
    BY <2>4, <2>5, <2>6, <2>7, HandingOut
<1> QED
  BY <1>1, <1>2, SayingIsTame, PanickingIsTame

LEMMA CorrelatorMetadataGetIsTame ==
    ASSUME IInv, CorrelatorMetadataGet
    PROVE  IInv'
<1>1. CASE \E id \in HeldOf("correlator") :
             ReadsBox(id) /\ Hand("correlator_metadata", CorrelatorStruct(data[id]),
                                  CorrelatorParts(data[id]))
  <2>1. PICK id \in HeldOf("correlator") :
             ReadsBox(id) /\ Hand("correlator_metadata", CorrelatorStruct(data[id]),
                                  CorrelatorParts(data[id]))
    BY <1>1
  <2>2. data[id] \in Shapes /\ id \in held
    BY DEF IInv, ObjectsOK, DataOf, HeldOf, Contexts
  <2>3. <<id, Box>> \in heap
    BY <2>2, BoxIsThere
  <2>4. UNCHANGED wild
    BY <2>1, <2>3 DEF ReadsBox, Reads
  <2> DEFINE k == "correlator_metadata"
             d == CorrelatorStruct(data[id])
             P == CorrelatorParts(data[id])
  <2>5. k \in Kinds \ {"unused"} /\ DataOf(k, d)
    BY <2>2 DEF Kinds, DataOf, Contexts
  <2>6. Drops(k, d) = P
    BY <2>2, CorrelatorFreeDropsAll DEF Drops
  <2>7. Hand(k, d, P)
    BY <2>1
  <2> HIDE DEF k, d, P
  <2> QED
    BY <2>4, <2>5, <2>6, <2>7, HandingOut
<1> QED
  BY <1>1, SayingIsTame DEF CorrelatorMetadataGet

LEMMA VoltageMetadataGetIsTame ==
    ASSUME IInv, VoltageMetadataGet
    PROVE  IInv'
<1>1. CASE \E id \in HeldOf("voltage") :
             ReadsBox(id) /\ Hand("voltage_metadata", VoltageStruct(data[id]),
                                  VoltageParts(data[id]))
  <2>1. PICK id \in HeldOf("voltage") :
             ReadsBox(id) /\ Hand("voltage_metadata", VoltageStruct(data[id]),
                                  VoltageParts(data[id]))
    BY <1>1
  <2>2. data[id] \in Shapes /\ id \in held
    BY DEF IInv, ObjectsOK, DataOf, HeldOf, Contexts
  <2>3. <<id, Box>> \in heap
    BY <2>2, BoxIsThere
  <2>4. UNCHANGED wild
    BY <2>1, <2>3 DEF ReadsBox, Reads
  <2> DEFINE k == "voltage_metadata"
             d == VoltageStruct(data[id])
             P == VoltageParts(data[id])
  <2>5. k \in Kinds \ {"unused"} /\ DataOf(k, d)
    BY <2>2 DEF Kinds, DataOf, Contexts
  <2>6. Drops(k, d) = P
    BY <2>2, VoltageFreeDropsAll DEF Drops
  <2>7. Hand(k, d, P)
    BY <2>1
  <2> HIDE DEF k, d, P
  <2> QED
    BY <2>4, <2>5, <2>6, <2>7, HandingOut
<1> QED
  BY <1>1, SayingIsTame DEF VoltageMetadataGet

LEMMA InspectIsTame ==
    ASSUME IInv, Inspect
    PROVE  IInv'
  BY ReadingIsTame DEF Inspect

LEMMA CorrelatorFineChanFreqsIsTame ==
    ASSUME IInv, CorrelatorFineChanFreqs
    PROVE  IInv'
  BY SayingIsTame, PanickingIsTame, ReadingTheBoxIsTame
     DEF CorrelatorFineChanFreqs, FineChanFreqs, HeldOf

LEMMA VoltageFineChanFreqsIsTame ==
    ASSUME IInv, VoltageFineChanFreqs
    PROVE  IInv'
  BY SayingIsTame, PanickingIsTame, ReadingTheBoxIsTame
     DEF VoltageFineChanFreqs, FineChanFreqs, HeldOf

LEMMA GetExpectedVoltFilenameIsTame ==
    ASSUME IInv, GetExpectedVoltFilename
    PROVE  IInv'
  BY SayingIsTame, ReadingTheBoxIsTame DEF GetExpectedVoltFilename, HeldOf

-----------------------------------------------------------------------------
\* The theorems.

LEMMA InitEstablishes == Init => IInv
  BY DEF Init, IInv, ObjectsOK, BlocksAreOwned, HeldAreWhole, WildArePast, DataOf, Kinds, Contexts

LEMMA StepPreserves == IInv /\ [Next]_vars => IInv'
<1> SUFFICES ASSUME IInv, [Next]_vars PROVE IInv'
  OBVIOUS
<1>1. CASE UNCHANGED vars
  BY <1>1, ObjectsUnchanged DEF vars, objects
<1>2. CASE MetafitsContextNew \/ MetafitsContextNew2 \/ CorrelatorContextNew \/ VoltageContextNew
  BY <1>2, NewContextIsTame
     DEF MetafitsContextNew, MetafitsContextNew2, CorrelatorContextNew, VoltageContextNew, Contexts
<1>3. CASE MetafitsContextDisplay \/ CorrelatorContextDisplay \/ VoltageContextDisplay
  BY <1>3, DisplayIsTame
     DEF MetafitsContextDisplay, CorrelatorContextDisplay, VoltageContextDisplay
<1>4. CASE MetafitsContextFree \/ CorrelatorContextFree \/ VoltageContextFree
  BY <1>4, FreeIsTame DEF MetafitsContextFree, CorrelatorContextFree, VoltageContextFree
<1>5. CASE MetafitsMetadataFree \/ CorrelatorMetadataFree \/ VoltageMetadataFree
  BY <1>5, FreeIsTame DEF MetafitsMetadataFree, CorrelatorMetadataFree, VoltageMetadataFree
<1>6. CASE ReadByBaseline \/ ReadByFrequency \/ ReadFile \/ ReadSecond
  BY <1>6, ReadIsTame DEF ReadByBaseline, ReadByFrequency, ReadFile, ReadSecond
<1> QED
  BY <1>1, <1>2, <1>3, <1>4, <1>5, <1>6, FreeRustCstringIsTame, MetafitsMetadataGetIsTame,
     CorrelatorMetadataGetIsTame, VoltageMetadataGetIsTame, InspectIsTame,
     CorrelatorFineChanFreqsIsTame, VoltageFineChanFreqsIsTame, GetExpectedVoltFilenameIsTame
     DEF Next, Calls

LEMMA Inductive == Spec => []IInv
<1> QED
  BY InitEstablishes, StepPreserves, PTL DEF Spec

\* No call of the C interface reads or frees memory that is not allocated,
\* whatever was made and freed before, for any contexts, except for the items that
\* num_ants counts and the array of antennas does not have.
THEOREM PointersStayGood == Spec => []OnlyWildPastTheArray
<1>1. IInv => OnlyWildPastTheArray
  BY DEF IInv, WildArePast, OnlyWildPastTheArray
<1> QED
  BY <1>1, Inductive, PTL

\* Where every context has at least the antennas that num_ants says, no call reads
\* or frees memory that is not allocated.
THEOREM PairedContextsAreSafe ==
    ASSUME \A s \in Shapes : s.antennas >= s.inputs \div 2
    PROVE  Spec => []NoWildAccess
<1>1. IInv => NoWildAccess
  <2> SUFFICES ASSUME IInv, NEW b \in wild PROVE FALSE
    BY DEF NoWildAccess
  <2>1. PICK id \in Ids : \E p : p \in PastTheArray(kind[id], data[id])
    BY DEF IInv, WildArePast
  <2>2. kind[id] = "metafits_metadata"
    BY <2>1 DEF PastTheArray
  <2>3. PICK s \in Shapes : data[id] = MetafitsStruct(s)
    BY <2>2 DEF IInv, ObjectsOK, DataOf
  <2>4. data[id].boxed + 1 .. data[id].num_ants = {}
    BY <2>3, ShapesAssumption DEF MetafitsStruct
  <2> QED
    BY <2>1, <2>2, <2>4 DEF PastTheArray
<1> QED
  BY <1>1, Inductive, PTL

\* The frees drop all that the gets boxed, except the seven strings and the names
\* of antennas that num_ants does not count.
THEOREM OnlyTopStringsLeak == Spec => []OnlyStringsLeak
<1>1. IInv => OnlyStringsLeak
  BY DEF IInv, BlocksAreOwned, OnlyStringsLeak, IsLeftBehind, IsTopString
<1> QED
  BY <1>1, Inductive, PTL

-----------------------------------------------------------------------------
\* What a call says and what it does.

Succeeds == outcome'.code = "SUCCESS"
Keeps == heap' = heap /\ held' = held

\* A call keeps the objects, or succeeds and gives or takes one.
LEMMA CallsKeepGiveOrTake ==
    ASSUME Next
    PROVE  \/ Keeps
           \/ Succeeds /\ held' \subseteq held
           \/ Succeeds /\ \E k, d, P : Hand(k, d, P)
<1>1. ASSUME NEW call, Fails(call) PROVE Keeps
  BY <1>1 DEF Fails, objects, Keeps
<1>2. ASSUME NEW call, NEW reason, Panic(call, reason) PROVE Keeps
  BY <1>2 DEF Panic, objects, Keeps
<1>3. ASSUME NEW call, NEW told, Answer(call, "SUCCESS", told) PROVE Succeeds
  BY <1>3 DEF Answer, Succeeds
<1>4. ASSUME NEW call, NEW k, NewContext(call, k)
      PROVE  Keeps \/ (Succeeds /\ \E s, d, P : Hand(s, d, P))
  BY <1>1, <1>2, <1>3, <1>4 DEF NewContext
<1>5. ASSUME NEW call, NEW k, Display(call, k) PROVE Keeps
  BY <1>1, <1>5 DEF Display, Keeps
<1>6. ASSUME NEW call, NEW k, Free(call, k) PROVE Succeeds /\ held' \subseteq held
  BY <1>3, <1>6 DEF Free, objects
<1>7. ASSUME NEW call, NEW k, Read(call, k) PROVE Keeps
  BY <1>1, <1>2, <1>7 DEF Read, Keeps, objects
<1>8. CASE MetafitsContextNew \/ MetafitsContextNew2 \/ CorrelatorContextNew \/ VoltageContextNew
  BY <1>4, <1>8
     DEF MetafitsContextNew, MetafitsContextNew2, CorrelatorContextNew, VoltageContextNew
<1>9. CASE MetafitsContextDisplay \/ CorrelatorContextDisplay \/ VoltageContextDisplay
  BY <1>5, <1>9
     DEF MetafitsContextDisplay, CorrelatorContextDisplay, VoltageContextDisplay
<1>10. CASE \/ MetafitsContextFree \/ CorrelatorContextFree \/ VoltageContextFree
            \/ MetafitsMetadataFree \/ CorrelatorMetadataFree \/ VoltageMetadataFree
  BY <1>6, <1>10 DEF MetafitsContextFree, CorrelatorContextFree, VoltageContextFree,
     MetafitsMetadataFree, CorrelatorMetadataFree, VoltageMetadataFree
<1>11. CASE FreeRustCstring
  BY <1>3, <1>11 DEF FreeRustCstring
<1>12. CASE MetafitsMetadataGet
  BY <1>1, <1>2, <1>3, <1>12 DEF MetafitsMetadataGet
<1>13. CASE CorrelatorMetadataGet \/ VoltageMetadataGet
  BY <1>1, <1>3, <1>13 DEF CorrelatorMetadataGet, VoltageMetadataGet
<1>14. CASE Inspect
  BY <1>14 DEF Inspect, Keeps
<1>15. CASE ReadByBaseline \/ ReadByFrequency \/ ReadFile \/ ReadSecond
  BY <1>7, <1>15 DEF ReadByBaseline, ReadByFrequency, ReadFile, ReadSecond
<1>16. CASE CorrelatorFineChanFreqs
  BY <1>1, <1>2, <1>16 DEF CorrelatorFineChanFreqs, FineChanFreqs, Keeps
<1>17. CASE VoltageFineChanFreqs
  BY <1>1, <1>2, <1>17 DEF VoltageFineChanFreqs, FineChanFreqs, Keeps
<1>18. CASE GetExpectedVoltFilename
  BY <1>1, <1>18 DEF GetExpectedVoltFilename, Keeps
<1> QED
  BY <1>8, <1>9, <1>10, <1>11, <1>12, <1>13, <1>14, <1>15, <1>16, <1>17, <1>18
     DEF Next, Calls

\* An object that is handed out is new, and the heap has no block of it.
LEMMA HandedOutIsNew ==
    ASSUME IInv, NEW k, NEW d, NEW P, Hand(k, d, P)
    PROVE  \A id \in held' \ held :
             held' = held \cup {id} /\ kind[id] = "unused" /\ \A b \in heap : b[1] # id
  BY DEF Hand, IInv, BlocksAreOwned

\* A failing call changes nothing, and a call hands out at most one object, with
\* blocks no other object has.
THEOREM FailuresChangeNothing == Spec => CallsKeepTheirWord
<1> DEFINE Word ==
        /\ outcome'.code \in {"FAILURE", "NO_DATA"} => heap' = heap /\ held' = held
        /\ \A id \in held' \ held :
             held' = held \cup {id} /\ kind[id] = "unused" /\ \A b \in heap : b[1] # id
<1>1. ASSUME IInv, [Next]_vars PROVE [Word]_vars
  <2>1. CASE Next
    <3>1. CASE Keeps
      BY <3>1 DEF Keeps
    <3>2. CASE Succeeds /\ held' \subseteq held
      BY <3>2 DEF Succeeds
    <3>3. CASE Succeeds /\ \E k, d, P : Hand(k, d, P)
      BY <1>1, <3>3, HandedOutIsNew DEF Succeeds
    <3> QED
      BY <2>1, <3>1, <3>2, <3>3, CallsKeepGiveOrTake
  <2> QED
    BY <1>1, <2>1
<1>2. IInv /\ [Next]_vars => [/\ outcome'.code \in {"FAILURE", "NO_DATA"} => heap' = heap /\ held' = held
       /\ \A id \in held' \ held :
            /\ held' = held \cup {id}
            /\ kind[id] = "unused"
            /\ \A b \in heap : b[1] # id]_vars
  BY <1>1
<1> QED
  BY <1>2, Inductive, PTL DEF Spec, CallsKeepTheirWord

=============================================================================
