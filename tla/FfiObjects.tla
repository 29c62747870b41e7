------------------------------ MODULE FfiObjects ------------------------------
(***************************************************************************)
(* The C interface of ffi/mod.rs as its caller and the heap see it: which  *)
(* blocks a call allocates and leaks to C, which ones a free follows the   *)
(* stored pointers to, which pointers a call reads through, and what the   *)
(* caller is told.  The values copied into the structs are left out; the   *)
(* numbers and the null pointers that steer a free are not.                *)
(*                                                                         *)
(* A block is <<object, part>>, a part <<name, position>>, so that all the *)
(* blocks of one object can be told apart.  Contexts own everything behind *)
(* one box and are one block.  A free hands a block back whatever the type *)
(* of the pointer: Rust's default allocator is malloc, which ignores the   *)
(* size that Box::from_raw of a first element derives.                     *)
(*                                                                         *)
(* The caller keeps the contract of the "Safety" sections: it passes null  *)
(* or a pointer of the right type that it has not freed.                   *)
(***************************************************************************)
EXTENDS Integers

CONSTANTS
    Ids,       \* identities of the objects handed out: bounds the calls of new and get
    NULL,      \* the null pointer
    Shapes,    \* what the vectors of a context hold
    CallerStrings, \* the strings of a metafits struct the caller frees itself
    Messages,  \* error messages and file names, with the positions they can be cut at
    Buffers    \* lengths of the caller's buffers, NullBuffer for a null pointer

NullBuffer == -1

TopStrings == {"hour_angle_string", "grid_name", "creator", "project_id",
               "obs_name", "calibrator_source", "metafits_filename"}
MetafitsArrays == {"receivers", "delays", "antennas", "rf_inputs", "baselines",
                   "metafits_coarse_chans", "metafits_fine_chan_freqs_hz",
                   "metafits_timesteps"}
CorrelatorArrays == {"timesteps", "coarse_chans", "common_timestep_indices",
                     "common_coarse_chan_indices", "common_good_timestep_indices",
                     "common_good_coarse_chan_indices", "provided_timestep_indices",
                     "provided_coarse_chan_indices"}
VoltageArrays == {"timesteps", "coarse_chans", "common_timestep_indices",
                  "common_coarse_chan_indices", "common_good_timestep_indices",
                  "common_good_coarse_chan_indices", "provided_timestep_indices",
                  "provided_coarse_chan_indices"}
RfInputStrings == {"rf_inputs.tile_name", "rf_inputs.pol"}
RfInputArrays == {"digital_gains", "dipole_gains", "dipole_delays"}
Contexts == {"metafits", "correlator", "voltage"}

\* A context: the lengths of antennas and rf_inputs, the vectors that are empty,
\* the numbers of fine channels of a coarse channel, and whether an rf input has
\* a coordinate that is not a number.  The antennas are the rows that pair, and
\* nothing makes them half of the inputs.
ASSUME ShapesAssumption ==
    \A s \in Shapes :
        /\ s.antennas \in Nat /\ s.inputs \in Nat
        /\ s.antennas > 0 => s.inputs >= 2      \* a pair takes two rows
        /\ "antennas" \in s.empty <=> s.antennas = 0
        /\ "rf_inputs" \in s.empty <=> s.inputs = 0
ASSUME StringsAssumption == CallerStrings \subseteq TopStrings
ASSUME NullAssumption == NULL \notin Ids
ASSUME BuffersAssumption == Buffers \subseteq Nat \cup {NullBuffer}
ASSUME MessagesAssumption ==
    \A m \in Messages : m.len \in Nat /\ {0, m.len} \subseteq m.cuts

VARIABLES
    heap,     \* the blocks that are allocated
    kind,     \* what each object is, "unused" before it is made
    data,     \* the shape of a context, the counts and pointers of a struct
    held,     \* the objects whose pointer the caller holds and has not freed
    wild,     \* blocks that were read or freed while they were not allocated
    outcome   \* what the last call returned

vars == <<heap, kind, data, held, wild, outcome>>
objects == <<heap, kind, data, held, wild>>

HeldOf(k) == {id \in held : kind[id] = k}
Pointers(k) == HeldOf(k) \cup {NULL}

-----------------------------------------------------------------------------
\* Messages to the caller.

NoRoom(b) == b = NullBuffer \/ b - 1 < 1

Kept(m, b) == IF m.len > b THEN b - 1 ELSE m.len

\* The slice of the message may end inside a character; a message that is not
\* trimmed may fill the buffer and leave no byte for its terminator.
SplitsCharacter(m, b) == Kept(m, b) \notin m.cuts
NoTerminator(m, b) == Kept(m, b) + 1 > b

Panics == {"split character", "no terminator"}

Told(m, b) ==
    CASE NoRoom(b) -> "nothing"
      [] ~NoRoom(b) /\ SplitsCharacter(m, b) -> "split character"
      [] ~NoRoom(b) /\ ~SplitsCharacter(m, b) /\ NoTerminator(m, b) -> "no terminator"
      [] OTHER -> IF Kept(m, b) = m.len THEN "whole" ELSE "trimmed"

Answer(call, code, told) ==
    outcome' = [call |-> call, code |-> code, told |-> told]

Panic(call, reason) == Answer(call, "panic", reason) /\ UNCHANGED objects

\* set_c_string of some message into some buffer, and the return code.
Tellings == {Told(m, b) : m \in Messages, b \in Buffers}

Says(call, code) ==
    \E told \in Tellings : Answer(call, IF told \in Panics THEN "panic" ELSE code, told)

Fails(call) == Says(call, "FAILURE") /\ UNCHANGED objects

-----------------------------------------------------------------------------
\* Objects and their blocks.

Box == <<"box", 0>>
BlocksOf(id, parts) == {id} \X parts

\* ffi_array_to_boxed_slice: an empty vector becomes a null pointer.
Boxed(names, s) == names \ s.empty

\* The counts and the pointers that are not null, as they are put in a struct.
\* Beside num_ants, which the context has from the number of inputs, "boxed" is the
\* length of the array of antennas: the C struct does not have it and no call
\* reads it.
MetafitsStruct(s) ==
    [num_ants |-> s.inputs \div 2, boxed |-> s.antennas, num_rf_inputs |-> s.inputs,
     arrays |-> Boxed(MetafitsArrays, s), input_arrays |-> Boxed(RfInputArrays, s)]
CorrelatorStruct(s) == [arrays |-> Boxed(CorrelatorArrays, s)]
VoltageStruct(s) == [arrays |-> Boxed(VoltageArrays, s)]

AntennaParts(s) == {"antennas.tile_name"} \X (1 .. s.antennas)
RfInputParts(s) == (RfInputStrings \cup (RfInputArrays \ s.empty)) \X (1 .. s.inputs)

\* All that mwalib_metafits_metadata_get leaks to the caller.
MetafitsParts(s) ==
    {Box} \cup (TopStrings \X {0}) \cup ((MetafitsArrays \ s.empty) \X {0})
        \cup AntennaParts(s) \cup RfInputParts(s)
CorrelatorParts(s) == {Box} \cup ((CorrelatorArrays \ s.empty) \X {0})
VoltageParts(s) == {Box} \cup ((VoltageArrays \ s.empty) \X {0})

\* What the three frees drop, from the pointers and counts of the struct d.
FreedOfItems(d) ==
    (IF "antennas" \in d.arrays THEN {"antennas.tile_name"} \X (1 .. d.num_ants) ELSE {})
    \cup (IF "rf_inputs" \in d.arrays
          THEN (RfInputStrings \cup d.input_arrays) \X (1 .. d.num_rf_inputs) ELSE {})

\* Mutant: the slice of antennas is walked with the number of inputs.
FreedWithInputs(d) ==
    {Box} \cup (d.arrays \X {0})
        \cup FreedOfItems([d EXCEPT !.num_ants = d.num_rf_inputs])

\* Mutant: the members of the items are forgotten.
FreedWithoutItems(d) == {Box} \cup (d.arrays \X {0})

FreedOfMetafits(d) == {Box} \cup (d.arrays \X {0}) \cup FreedOfItems(d)

FreedOfCorrelator(d) == {Box} \cup (d.arrays \X {0})
FreedOfVoltage(d) == {Box} \cup (d.arrays \X {0})

Drops(k, d) ==
    IF k = "metafits_metadata" THEN FreedOfMetafits(d)
    ELSE IF k = "correlator_metadata" THEN FreedOfCorrelator(d)
    ELSE IF k = "voltage_metadata" THEN FreedOfVoltage(d)
    ELSE {Box}

Freed(id) == Drops(kind[id], data[id])

\* A new object with its blocks, whose pointer goes to the caller.
Hand(k, d, parts) ==
    \E id \in Ids :
        /\ kind[id] = "unused"
        /\ kind' = [kind EXCEPT ![id] = k]
        /\ data' = [data EXCEPT ![id] = d]
        /\ heap' = heap \cup BlocksOf(id, parts)
        /\ held' = held \cup {id}

Reads(blocks) == wild' = wild \cup (blocks \ heap)
ReadsBox(id) == Reads({<<id, Box>>})

Init ==
    /\ heap = {} /\ held = {} /\ wild = {}
    /\ kind = [id \in Ids |-> "unused"]
    /\ data = [id \in Ids |-> NULL]
    /\ outcome = [call |-> "none", code |-> "SUCCESS", told |-> "nothing"]

-----------------------------------------------------------------------------
\* Contexts: new, display and free.

\* Mutant: the object is handed out before the error is looked at.
NewContextTooSoon(call, k) ==
    \/ Panic(call, "name is not UTF-8")
    \/ \E s \in Shapes : Hand(k, s, {Box}) /\ Says(call, "FAILURE") /\ UNCHANGED wild
    \/ \E s \in Shapes : Hand(k, s, {Box}) /\ Answer(call, "SUCCESS", "nothing")
       /\ UNCHANGED wild

\* A file name that is not UTF-8 panics, an error of the constructor is told.
NewContext(call, k) ==
    \/ Panic(call, "name is not UTF-8")
    \/ Fails(call)
    \/ \E s \in Shapes : Hand(k, s, {Box}) /\ Answer(call, "SUCCESS", "nothing")
       /\ UNCHANGED wild

MetafitsContextNew == NewContext("new", "metafits")
MetafitsContextNew2 == NewContext("new", "metafits")
CorrelatorContextNew == NewContext("new", "correlator")
VoltageContextNew == NewContext("new", "voltage")

Display(call, k) ==
    \/ Fails(call)      \* the pointer is null
    \/ \E id \in HeldOf(k) :
        /\ ReadsBox(id) /\ Answer(call, "SUCCESS", "nothing")
        /\ UNCHANGED <<heap, kind, data, held>>

MetafitsContextDisplay == Display("display", "metafits")
CorrelatorContextDisplay == Display("display", "correlator")
VoltageContextDisplay == Display("display", "voltage")

\* Free of a null pointer does nothing; any other free reads the box for the
\* pointers it follows, and drops them and the box.
Free(call, k) ==
    /\ Answer(call, "SUCCESS", "nothing")
    /\ \/ UNCHANGED objects
       \/ \E id \in HeldOf(k) :
           /\ wild' = wild \cup (BlocksOf(id, Freed(id)) \ heap)
           /\ heap' = heap \ BlocksOf(id, Freed(id))
           /\ held' = held \ {id}
           /\ UNCHANGED <<kind, data>>

MetafitsContextFree == Free("free", "metafits")
CorrelatorContextFree == Free("free", "correlator")
VoltageContextFree == Free("free", "voltage")
MetafitsMetadataFree == Free("free", "metafits_metadata")
CorrelatorMetadataFree == Free("free", "correlator_metadata")
VoltageMetadataFree == Free("free", "voltage_metadata")

\* mwalib_free_rust_cstring: of null, or of a string that no other free drops.
FreeRustCstring ==
    /\ Answer("free", "SUCCESS", "nothing")
    /\ UNCHANGED <<kind, data, held, wild>>
    /\ \/ UNCHANGED heap
       \/ \E id \in HeldOf("metafits_metadata"), s \in CallerStrings :
           /\ <<id, <<s, 0>>>> \in heap
           /\ heap' = heap \ {<<id, <<s, 0>>>>}

-----------------------------------------------------------------------------
\* Metadata.

\* The call goes on if an odd number of the three pointers is not null, and
\* takes the first of them.
OneGiven(m, c, v) == ((m # NULL) # (c # NULL)) # (v # NULL)
FirstGiven(m, c, v) == IF m # NULL THEN m ELSE IF c # NULL THEN c ELSE v

\* The antennas' inputs are looked up by equality, which a coordinate that is
\* not a number fails: the unwrap panics.
MetafitsMetadataGet ==
    \E m \in Pointers("metafits"), c \in Pointers("correlator"), v \in Pointers("voltage") :
        LET id == FirstGiven(m, c, v)
        IN  \/ ~OneGiven(m, c, v) /\ Fails("get")
            \/ /\ OneGiven(m, c, v) /\ data[id].nan /\ data[id].antennas > 0
               /\ Panic("get", "input not found")
            \/ /\ OneGiven(m, c, v) /\ ~(data[id].nan /\ data[id].antennas > 0)
               /\ ReadsBox(id)
               /\ Hand("metafits_metadata", MetafitsStruct(data[id]), MetafitsParts(data[id]))
               /\ Answer("get", "SUCCESS", "nothing")

CorrelatorMetadataGet ==
    \/ Fails("get")
    \/ \E id \in HeldOf("correlator") :
        /\ ReadsBox(id)
        /\ Hand("correlator_metadata", CorrelatorStruct(data[id]), CorrelatorParts(data[id]))
        /\ Answer("get", "SUCCESS", "nothing")

VoltageMetadataGet ==
    \/ Fails("get")
    \/ \E id \in HeldOf("voltage") :
        /\ ReadsBox(id)
        /\ Hand("voltage_metadata", VoltageStruct(data[id]), VoltageParts(data[id]))
        /\ Answer("get", "SUCCESS", "nothing")

\* The caller reads through every pointer of a struct it holds, the strings it
\* has freed itself excepted.
Inspect ==
    \E id \in held :
        /\ Reads(BlocksOf(id, Freed(id)))
        /\ Answer("display", "SUCCESS", "nothing")
        /\ UNCHANGED <<heap, kind, data, held>>

-----------------------------------------------------------------------------
\* Reading data and frequencies.

\* A null data buffer fails without a message.  "Panics" are those of the read
\* itself, which VoltageContext and CorrelatorContext name.
Read(call, k) ==
    \/ Fails(call)      \* the context is null
    \/ Answer(call, "FAILURE", "no data buffer") /\ UNCHANGED objects
    \/ HeldOf(k) # {} /\ Panic(call, "read panics")
    \/ \E id \in HeldOf(k) :
        /\ ReadsBox(id) /\ UNCHANGED <<heap, kind, data, held>>
        /\ \/ Answer(call, "SUCCESS", "nothing")
           \/ Says(call, "NO_DATA")
           \/ Says(call, "FAILURE")

ReadByBaseline == Read("read", "correlator")
ReadByFrequency == Read("read", "correlator")
ReadFile == Read("read", "voltage")
ReadSecond == Read("read", "voltage")

\* A null pointer, or an array of another length than n * Expected, fails.  An
\* index past the channels panics, and so does the copy if what the context
\* returns has another length than the array.
FineChanFreqs(call, k, Expected(_), Returned(_)) ==
    \/ Fails(call)
    \/ HeldOf(k) # {} /\ Panic(call, "index out of range")
    \/ \E id \in HeldOf(k) :
        \E n \in 0 .. 1 :          \* channels asked for
            IF n * Expected(data[id]) # n * Returned(data[id])
            THEN Panic(call, "lengths differ")
            ELSE /\ ReadsBox(id) /\ Answer(call, "SUCCESS", "nothing")
                 /\ UNCHANGED <<heap, kind, data, held>>

CorrFine(s) == s.corr_fine
VoltFine(s) == s.volt_fine

CorrelatorFineChanFreqs ==
    FineChanFreqs("fine chan freqs", "correlator", CorrFine, CorrFine)
VoltageFineChanFreqs ==
    FineChanFreqs("voltage fine chan freqs", "voltage", CorrFine, VoltFine)

\* The name is cut like a message, and the call succeeds all the same.
GetExpectedVoltFilename ==
    \/ Fails("display")
    \/ \E id \in HeldOf("metafits") :
        /\ ReadsBox(id) /\ Says("display", "SUCCESS")
        /\ UNCHANGED <<heap, kind, data, held>>

-----------------------------------------------------------------------------
\* Nothing is promised of a process that has used memory it does not have.
Running == outcome.code # "panic" /\ wild = {}

Calls ==
    \/ MetafitsContextNew \/ MetafitsContextNew2 \/ CorrelatorContextNew \/ VoltageContextNew
    \/ MetafitsContextDisplay \/ CorrelatorContextDisplay \/ VoltageContextDisplay
    \/ MetafitsContextFree \/ CorrelatorContextFree \/ VoltageContextFree
    \/ MetafitsMetadataFree \/ CorrelatorMetadataFree \/ VoltageMetadataFree
    \/ FreeRustCstring
    \/ MetafitsMetadataGet \/ CorrelatorMetadataGet \/ VoltageMetadataGet
    \/ Inspect
    \/ ReadByBaseline \/ ReadByFrequency \/ ReadFile \/ ReadSecond
    \/ CorrelatorFineChanFreqs \/ VoltageFineChanFreqs
    \/ GetExpectedVoltFilename

\* A panic that unwinds into C ends the process, and so, here, does a wild access.
Next == Running /\ Calls

Spec == Init /\ [][Next]_vars

-----------------------------------------------------------------------------
\* Properties.

\* num_ants is the "Total number of antennas (tiles) in the array" of the struct,
\* so that no free and no walk reaches an item that is not there.  The code breaks
\* it for a metafits whose rows do not all pair.
NoWildAccess == wild = {}

\* The names that num_ants counts and the array of antennas does not have, and
\* those that the array has and num_ants does not count.
PastTheArray(k, d) ==
    IF k = "metafits_metadata"
    THEN {"antennas.tile_name"} \X (d.boxed + 1 .. d.num_ants) ELSE {}
Uncounted(k, d) ==
    IF k = "metafits_metadata"
    THEN {"antennas.tile_name"} \X (d.num_ants + 1 .. d.boxed) ELSE {}

\* The caller's pointers stay good: a call, a free or a walk through a struct that
\* reaches a block that is not allocated does so past the end of an array of
\* antennas shorter than num_ants, and nowhere else, whatever was freed before,
\* contexts that a struct was made from included.  About the pairs of get and free.
OnlyWildPastTheArray ==
    \A b \in wild : b[2] \in PastTheArray(kind[b[1]], data[b[1]])

\* What the caller has given back is gone, except for the seven strings that
\* mwalib_metafits_metadata_free does not look at, and for the names of antennas
\* that num_ants does not count.
OnlyStringsLeak ==
    \A b \in heap :
        \/ b[1] \in held
        \/ kind[b[1]] = "metafits_metadata" /\ b[2][1] \in TopStrings
        \/ b[2] \in Uncounted(kind[b[1]], data[b[1]])

\* A call that fails changes nothing on the heap, and one that succeeds hands
\* out at most one object, never one whose blocks another call may still own.
CallsKeepTheirWord ==
    [][/\ outcome'.code \in {"FAILURE", "NO_DATA"} => heap' = heap /\ held' = held
       /\ \A id \in held' \ held :
            /\ held' = held \cup {id}
            /\ kind[id] = "unused"
            /\ \A b \in heap : b[1] # id]_vars

\* The comment of set_c_string: what is copied leaves room for its terminator.
MessageLeavesRoom == outcome.told # "no terminator"
=============================================================================
