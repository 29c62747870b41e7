# mwalib in TLA+

mwalib reads the raw data and metadata of the Murchison Widefield Array. A
caller gives it a metafits file (the metadata of one observation) and a list of
data files; it builds a *context* that says which timesteps and coarse channels
there are, and then serves reads by timestep and channel, to Rust and through a C
interface. This directory models where that can go wrong: how the metadata are
read, how the files of an observation are indexed, matched with the metadata and
found again, how their numbers are put in order, and who owns what C was given.

## Inventory

| component | state | operations | correct when |
|---|---|---|---|
| `gpubox_files` | list of files, `gpubox_time_map`, the elements of `maps` | `determine_gpubox_batches`, `create_time_map` (rayon), `convert_temp_gpuboxes`, `examine_gpubox_files`, `populate_provided_*`, `determine_common_obs_times_and_chans` | the index does not depend on the schedule and leads to the HDU it names; the common timesteps are complete, contiguous, earliest and maximal |
| `timestep` | the vector `timesteps` | `populate_correlator_timesteps`, `populate_voltage_timesteps`, the superset loops, `populate_timesteps`, `get_timstep_indicies` | each time once, ascending, no gap, over data and schedule |
| `coarse_channel` | the vector `coarse_chans` | `populate_coarse_channels`, `get_coarse_chan_indicies`, fine channel centres | a channel's number leads to the files of its frequency |
| `correlator_context` | the fields of the context; the files on disk | `new`, `read_by_baseline*`, `read_by_frequency*`, the lookup, `validate_first_hdu` | accepts sound files only, and a read serves what was asked for |
| `voltage_files`, `voltage_context` | the same for voltage capture files | `examine_voltage_files`, `new`, `read_second`, `read_file` | the same; and the seconds read are the seconds asked for |
| `metafits_context` | metadata, expected channels and timesteps | `new`, `new_internal`, `populate_expected_*`, `generate_expected_volt_filename` | it fails at the first fault and for nothing else; inputs, antennas, channels and timesteps agree with each other, the mode and the version |
| `rfinput`, `antenna` | vectors of inputs and antennas | reading of the table, two orders of the inputs, pairing | orders are permutations, antennas are pairs of one tile |
| `baseline`, `misc` | vector of baselines | numbering of pairs and its inverses, gps and unix times | four functions have one numbering |
| `convert` | conversion table | generation of the table, reordering of HDUs | every number ends where the order says it is |
| `fits_read` | none | macros around cfitsio | outcomes: a value, a missing key, a failed open |
| `ffi` | heap objects owned by C callers | `*_new`, `*_free`, `*_metadata_get/free`, reads, error buffers | pointers stay good while they are held, what is freed is gone, a failure changes nothing |

How they interact: `CorrelatorContext::new` makes a `MetafitsContext`, hands the
file names to `examine_gpubox_files`, which indexes the files in parallel and
then examines them one by one; the version it finds decides how the metafits'
coarse channels are numbered; the times of the index and the schedule make the
timesteps; a third pass validates the shape of the files; the index gives the
common timesteps, once with and once without the quack time. For legacy files a
conversion table is made from the inputs. All of this is one
call on one thread but for the scan. Reads are calls on the context, which
never changes; they open the files again. There is no persistence, no message
passing and no timeout. What makes it hard:

* concurrency: the scan of the files by a thread pool;
* shared state: the files, which others may remove or extend between the three
  passes and the reads;
* order: "first file wins" across files, "last HDU wins" within one, errors in
  list order, unstable sorts of equal keys;
* boundaries: contiguity to the millisecond, half-open and closed ranges,
  unsigned subtraction, grids of data and schedule that do not meet, channels
  on both sides of 128;
* failure half way: one bad file of many, one bad key of forty; `unwrap`s that
  rely on checks made earlier, or later, in another pass;
* ownership: structs that C holds after the contexts they were made from are
  freed, and frees that follow the counts and pointers stored in them;
* orders composed of orders: of the receivers, the PFB, the correlator's squares
  and the metafits.

`PROJECT.json` lists these hazards at their lines, with the properties for each.

## Modules

| module | models | built on |
|---|---|---|
| `CommonRange` | what `determine_common_obs_times_and_chans` promises, one step | |
| `CommonTimes` | its loop: `First`, `Extend`, `Break`, `Exhausted`, `NoneCommon` are the arms of the code's matches | refines `CommonRange` |
| `TimeMapIndex` | the index `create_time_map` promises, as a function of the file list, one step | |
| `GpuboxTimeMap` | `create_time_map` and `map_unix_times_to_hdus`: threads take files (`Open`, `Refuse`), scan HDU by HDU (`ScanHdu`, `BadHdu`, `Finish`), `Collect`, and the ordered fold (`Fold`, `FoldError`, `Return`) | refines `TimeMapIndex` |
| `TimestepGrid` | the superset of timesteps as a set | |
| `TimestepSuperset` | the three loops that compute it, push by push | extends `TimestepGrid` |
| `ChannelMap` | the numbers of gpubox files; `position()` | |
| `CoarseChannels` | `populate_coarse_channels`, one step per receiver channel, and the sort | extends `ChannelMap` |
| `CorrelatorContext` | `new_inner` over files on disk, the indices of the context, the lookup and opening of a read, and other users of the disk | composes `TimeMapIndex`, `CommonRange`, `TimestepGrid`, `ChannelMap` |
| `VoltageFiles` | `VoltageContext::new_inner`: batches of names, their contiguity and 8-bit counts, the loop over the sizes, timesteps, provided and common indices; other users of the disk | uses `CommonRange`, `TimestepGrid`, `ChannelMap` |
| `VoltageContext` | `read_second` and `read_file`: validation and timestep arithmetic, then timestep by timestep opening a file and reading blocks from it | extends `VoltageFiles` |
| `MetafitsContext` | `MetafitsContext::new`: `ReadKey` and `RefuseKey` for each key in its order, `ReadRow` and `RefuseRow` for the table, `TableRead` (sort and pairing), `DetermineVersion`, `PopulateCoarse` from the file opened again, `PopulateTimesteps`; then file names; another user of the file | uses `InputOrder` |
| `InputOrder` | `get_vcs_order` and `fine_pfb_reorder` as arithmetic | |
| `LegacyConversion` | `generate_full_matrix` square by square (`Correlate`, `Fill`), `generate_conversion_array` tile by tile (`Push`), the two legacy reads channel by channel, the two MWAX reads | uses `InputOrder` |
| `Baselines` | `populate_baselines` and the searching lookups pair by pair (`Populate`, `Count`, `Found`, `NotFound`), the quadratic lookup | |
| `FfiObjects` | every call of the C interface as its caller and the heap see it: blocks, pointers held, return codes, messages, panics | |
| `*Proofs` | theorems about the module they extend | |
| `MC*` | instances for TLC | |

The detailed modules and the composition meet in the abstract ones: the scan is
shown to implement `TimeMapIndex`, the loop `CommonRange`, the three loops the
set `Superset`, the loop over channels `GpuboxOf`; `CorrelatorContext` uses
those four in place of the loops, so that each of its actions is one stretch of
code between two uses of the disk.

Correspondence of state. Times are unix milliseconds as naturals; the models
use small ones. A nested `BTreeMap` is a function on pairs or a set of channels
per time; its iteration order is `Yields` (the least key). A vector is a
sequence where its order matters and a set with a length where the code sorts
it before reading (`TimestepSuperset`). A file is a record of what the code
reads from it: format, batch and channel of its name, whether it opens,
`CORR_VER`, `OBSID`, the shape of its first HDU and the time of each HDU. Unix
to gps conversion adds a constant and is left out, as are frequencies.

For voltage files times are gps seconds (the code multiplies by 1000) and sizes
are voltage blocks, with header and delay block as a number of them (`Prefix`);
a block read is the file and the offset it came from. Lengths and block counts
of the versions (8 s and 160 blocks, 1 s and 1 block) are constants. The unstable
sorts and the `HashMap` of batches are choices (`DetermineBatches`, `Examines`).
Arithmetic below zero and the full counter panic in a debug build and wrap in a
release build: both are in the model (`LoopFrom`, `CounterOverflows`).

In `MetafitsContext` a file is a record of what is wrong with which key, the
rows of the table and the few values that decide something; times are in halves
of a second and frequencies in units of 5 kHz, so that all centres and offsets
are whole. It is the file that a step between two opens may replace or remove; a
file that is open keeps what it was opened on. In `LegacyConversion` a complex
number is the fine channel and the pair of inputs it correlates, its conjugate
the pair exchanged; real and imaginary part always move together. The root of
`get_antennas_from_baseline` is its whole part, which f32 gives exactly for up
to 2047 antennas (all integers below 2^24).

In `FfiObjects` the heap is a set of blocks, each named by the object and the
part of it (the box, a string, an array, the string of an item of an array). A
get adds the blocks that it leaks to C; a free computes the blocks it drops from
the *struct*, by its counts and its null pointers, not from what was allocated:
that the two agree is what is checked. Beside `num_ants`, which is half the inputs
of the metafits, the model keeps the length of the array of antennas (`boxed`), which
is what pairs and which C is not told; a call that reaches a block that is not
there (`wild`) ends the run, since anything may follow.
Frees pass pointers of first elements to
`Box::from_raw`; the system allocator ignores their size, and this is assumed.
The caller keeps the contract of the "Safety" sections: it passes null or a
pointer of the right type that it has not freed. A panic that leaves a call ends
the process. The calls for the version of the library return constants.

Definitions marked `Mutant` are plausible mistakes in the code next to the
definition they would replace; nothing uses them, and each breaks one property
of a run when put in its place.

## Runs

| run | asks | bounds, and why they are enough |
|---|---|---|
| `MCCommonTimes` | is the answer of the loop the right stretch, on every map? | five times, two channels, integration 2: runs of one to three timesteps, a gap, times between grid points, every quack time |
| `MCGpuboxTimeMap` | does the schedule of the pool matter? | two threads, lists of up to three files: two files in flight while a third waits, equal channels and equal headers, repeated and unordered times, weights, missing keys, files that do not open |
| `MCTimestepSuperset` | is the vector right for all data and schedules? | eight times, duration 2: both parities, so grids that meet and that do not, data before, in and after the schedule |
| `MCCoarseChannels` | do numbers follow frequencies? | up to three of the channels 127 to 130 in any order: none, one, two and three over 128; every format; every map |
| `MCCorrelatorContext` | does `new` always decide, for a reason, are only sound files accepted, and do reads serve what was asked for? | about eighty lists drawn from 25 files, sound and faulty, of all formats; `MaxChanges` = 1 file vanishes or grows at any point |
| `MCVoltageContext` | what do the checks on batches leave for the timesteps and the common indices, and does a read fill the buffer with what was asked for, or fail for a reason, and does every call return? | all sets of legacy files of four seconds and two channels, all sets of MWAX files on two grids, faulty files and copies; a counter that overflows at 3 (`CounterLimit`), so that three copies fill it and four look like one; MWAX files of 2 s with 4 blocks in place of 8 s. Reads go to eleven lists (`ReadOffers`): whole, off the schedule's grid, with gaps, copies and odd sizes; every start from before to after the observation, 0 to 4 seconds (three files). One file vanishes, is cut off or grows at any point of the construction or of a read |
| `MCMetafitsContext` | does `new` decide for the first thing that is wrong, and does what it makes agree? | every step of the forty-four wrong in every way it can be, and every two of twelve that stand for their kinds; all orders of the rows of two tiles, tables too short, too long, unpaired, or with a bad row; tables of one and of two PFBs of two lanes of three (so that the transposition is not its own inverse); all modes and versions; 0, 1, 8, 9 and 17 s (below, at and above a file of 8 s); 1 to 128 fine channels; four ways to replace the file |
| `MCLegacyConversion` | does each read find every number, wherever the orders have put it? | 16 inputs in groups of four rows of two (so that the PFB's transposition is not its own inverse), 48 orders of the inputs: rotations, reversal, either polarisation first; two fine channels, so that strides differ. An assumption checks the arithmetic of `InputOrder` against the bit operations of the code, at its own size |
| `MCBaselines` | is there one numbering of baselines? | one to four antennas, all names from three, so that one name may be several tiles; baselines up to two past the last |
| `MCFfiObjects` | are pointers good, and is everything given back, in any order of calls? | three objects (a struct may outlive its context while another is made), contexts with one tile, with nothing, with some lists empty, with fewer and with more antennas than `num_ants`, and with a coordinate that is not a number; messages of two and three bytes, one with a character of two, buffers of 0 to 4 bytes; the caller may free one string itself. The objects are symmetric |
| `MCSecondsAreWithinRange` | does the validation do what its comment says? | as `MCVoltageContext` with `MaxChanges` = 0: it does not |
| `MCMessageLeavesRoom` | does a message leave room for its terminator, as the comment says? | as `MCFfiObjects`: it does not |

`MaxChanges`, `ReadOffers` and the number of objects (`Ids`) are the artificial
bounds. One change is enough to separate any two of the passes. A list that is
not read differs from one that is only in its files, and every kind of gap, copy
and size is among those that are read. No call looks at more than one struct and
one context, but for a get that is given all three, which then has no object left
for its struct: that case is left to the theorems. `Times` bounds the times of an
HDU that is written later.

What they show. The scan is deterministic: neither the threads' order nor the
way files are shared out can be seen in the index, and a failing scan always
returns the error of the first faulty file. The common timesteps are right for
every map; the range of indices that the context derives from them also
contains incomplete timesteps when the data are not on one grid, each of them
less than an integration after a common one (`SelectedAreComplete`);
`ContextIsReadable` has one grid as its premise. The timesteps
cover data and schedule without a gap on any offset between them, and equal
their union when they share a grid. The numbering of legacy channels is right
for a list in ascending order (which metafits files have). A context is made
only of sound files although no single pass checks all of it; `new` panics only
for a file of an unknown channel, or when a file without data grows during the
call.

Voltage files, unlike gpubox files, are checked for contiguity and equal counts;
the timesteps are then exactly one file apart (what `read_second` divides by),
and either everything provided is common or nothing is, as long as names differ.
A read may start and end inside a file and cross several: the buffer is filled
in order, also when the read fails on the way. It panics for a file that has
vanished or been cut off, for the second after the observation and for no second
at its start, `read_file` also for files of a wrong size, and for nothing else.

A metafits context is refused for the first thing that is wrong with its file, in
the order of the code, and for nothing else; it panics for contents that are
unwrapped, for unsigned differences below zero and for channel 0. From rows in
any order the antennas come out numbered and paired, and stay among the inputs
when these are sorted again for legacy voltages; the centres of the fine channels
are the means of what was averaged; and the names of the expected voltage files
cover every second once. When the file is replaced between the two opens the
channels may no longer fit the gains of the inputs, which is why that part has
the premise that it is not.

The conversion table is the composition it stands for: a legacy read gives the
number of each pair of tiles and polarisations in the standard triangle, and
reads by baseline and by frequency give the same numbers, in both formats.

Through the C interface no sequence of calls that keeps the contract reaches
freed memory, structs may outlive their contexts, and a failing call changes
nothing. Frees drop what gets made, but for seven strings, as long as the rows of
the metafits pair. Where they do not, a free walks past an array of antennas
shorter than `num_ants` (`OnlyWildPastTheArray` says that nothing else is reached
that is not there), and forgets the names of a longer one.

Deadlock is not checked where a function returns or panics. That it does is a
property of its own where a step could be refused for want of a case: for the
scan (`Returns`), the two loops (`ComputesTheSuperset`, `SortedAndComplete`), the
two constructors of contexts over data files (`Decides`, `CallsReturn`) and the
reads (`CallsReturn`), whatever others do to the files meanwhile. In
`CommonTimes` and `MetafitsContext`, which run over finite lists, in `FfiObjects`
and in `Baselines`, where a panic ends the run, it is not.

### Disagreements with the documentation

Two have a run that shows them:

* `MCSecondsAreWithinRange`: the second that begins where the observation ends
  is accepted by `validate_gps_time_parameters`, whose comment promises an error,
  and `read_second` panics on an index past its timesteps.
* `MCMessageLeavesRoom`: a message exactly as long as the buffer is not trimmed,
  though the comment says that room for the terminator is kept; the copy panics.

The others are visible in the models, as a premise or an exception of a property
that holds, or as a state that is reached:

* Two batchless files of one gpubox number are both put in batch 0, the map
  points to an HDU of the second, and the lookup opens the first: the read
  succeeds with an HDU of another time. The comment of `gpubox_time_map` says
  that number, batch and HDU are all that is needed; `ReadServesRequested` has
  the premise that headers differ, so the case is disclosed by it, not caught.
* Contiguous batch numbers and equal counts are documented reasons to fail, and
  have error variants, but nothing checks them (`DetermineBatches` of
  `CorrelatorContext`); `num_gpubox_files`, documented as per batch, counts all.
* `mwalib_metafits_metadata_free` promises to free the struct and its members,
  and forgets seven strings: the first exception in `OnlyStringsLeak`.
* "Only one" of three contexts is an exclusive or in
  `mwalib_metafits_metadata_get`, which all three satisfy (`OneGiven`).
* The length of the array for the fine channels of a voltage context is compared
  with the number of the correlator's (`VoltageFineChanFreqs`).
* A baseline past the last is promised to be `None`; with overflow checks the
  subtraction under the root panics first. The `unreachable!` of the lookup by
  names is reached by two names in descending order. `LookupsAgree` says that
  neither happens for anything else.
* A request for a file name of an observation of 0 s panics, where a result is
  promised: the exception in `ExpectedFilesCoverObservation`.
* `num_ants`, "Total number of antennas (tiles) in the array" (`ffi/mod.rs:1390`),
  is half the claimed number of inputs; the list of antennas is what pairs, and
  nothing compares them. Given a metafits with rows that do not pair, the free of a
  struct goes by `num_ants` past the end of a shorter array: `MCFfiObjects` reaches
  this for a context of one antenna and four inputs, so `NoWildAccess` does not hold
  of the code, and `OnlyWildPastTheArray` says that this is the one way it fails.
  The same difference is the premise (`IsArray`) of `InputsAndAntennasAgree` and the
  second exception of `OnlyStringsLeak`.
* A comment says that the range of timesteps includes its end; the range does
  not (and the code is right).

## Fairness

Each function runs on its caller's thread, which is scheduled: `WF_vars(Next)`
where the module is that function. In `GpuboxTimeMap` weak fairness of `Next`
says that *some* thread of the pool that can run does; no thread is assumed to
be treated fairly, and none needs to be, since every step is progress.
`CorrelatorContext` and `VoltageFiles` have other users of the disk too, so fairness
is asked of the constructor only (`WF_vars(Build)`), and `SpecRead` of
`VoltageContext` of the constructor and of the reads; nobody has to touch a file.
A caller that has a context may stop calling, so `CallsReturn` is about calls that
were made. The other modules assume no fairness and state no liveness: their
callers may stop calling, and their loops run over finite ranges with a counter
that every step moves.

## Proofs

TLAPS checks, for all values of the constants:

* `CommonTimesProofs`: type correctness; the loop invariant `IInv`, which adds
  to the properties that no filtered time up to `prev` is still pending and none
  is skipped (`Unconsumed`, `NothingSkipped`), without which contiguity says
  nothing of the times the loop has left behind; from it the three safety
  properties, and that the loop implements `CommonRange`. From `Times` being
  naturals and `IntTime` positive.
* `GpuboxTimeMapProofs`: type correctness and `IInv`: a thread's partial map is
  what its file holds below its `hdu`, a finished slot matches its file, the fold
  is `TimeMapOf` of the files folded. One step per action. From it: each file is
  scanned once, scans do not depend on the schedule, entries are right,
  and the whole implements `TimeMapIndex`. From any non-empty set of
  workers and any lists of files.
* `TimestepSupersetProofs`: `IInv` has one part per loop (`BackInv`,
  `ForwardInv`, `FillInv`), each saying how far the loop has got and that what
  lies behind it has no gap; from it, type correctness, distinct times, data
  kept, schedule spanned, no gap left, which together are the first property of the
  run. `GridInv` adds what each loop has put in, as a set of times on a grid: with
  it the result is `Superset`, the closed form that both contexts take in place
  of the loops. From positive durations and times no
  smaller than a duration, so that no unsigned subtraction wraps.
* `FfiObjectsProofs`: `IInv` says that a struct still has the counts and pointers
  of a shape it was made from, that every block belongs to an object that was
  made, and that what the caller holds is whole: all blocks its free will follow
  are allocated but the antennas past the array (`HeldAreWhole`). Without the first
  the frees could follow anything, without the last a free could spoil another
  object. The key lemma is about the pair of get and free: what the free computes
  from the struct is what the get allocated, but for the top strings and for where
  `num_ants` and the array differ. From it: a wild access is past the array, only
  top strings and names that `num_ants` does not count leak, failing calls change
  nothing. For any set of objects and any shapes, of which it is only assumed that
  antennas are made of inputs. `PairedContextsAreSafe` adds that there is no wild
  access at all if no context has fewer antennas than `num_ants`, a premise that
  the code does not ensure.
* `BaselinesProofs`: the index of the populating loop is a closed form of its two
  counters (proved by nonlinear arithmetic over the triangle numbers), so it
  never leaves the vector and what is written stays in order; the searching
  lookups keep the same form; and the quadratic inequality picks the one row in
  whose range a baseline lies. For every number of antennas in range.
* `VoltageContextProofs`: `VoltageFiles` and `VoltageContext` together, since the
  reads rest on what the construction leaves. `FilesInv` is about the files and
  the context: others only remove or resize files and each time leave a record
  (`DiskInv`); a file the loop has passed is as the loop saw it, or a change is on
  record (`SeenInv`), without which nothing could be said of untouched files
  whose size was asked for before others were changed; names, map and batches
  agree (`NamesInv`, `FileOfInv`, `CountsInv`); the timesteps are a grid one file
  apart that data fill from some point to their last (`UniformInv`), which is what
  the division by the length of a file in `read_second` rests on; and `common` and
  `good` are answers of `CommonRange` (`CommonInv`). `ReadInv` is about a read:
  `RunInv` says that the length of the buffer is what was asked for up to the
  timestep the loop is at, and that its last timestep is the one of the last
  second, so that each file's blocks continue where the one before ended. Four
  more invariants carry what a read owes its caller from the call to the result
  (`GapInv` and those of the last two theorems). From them the eight safety
  properties of the run, for every list of files, order of the loop, length of file, number of blocks
  and number of changes.
* `CorrelatorContextProofs`: the action lemma `AnyStep` says that no step changes
  a file without a trace: it keeps its name and its headers, its HDUs are only
  added to, and each change is on record. `FilesInv` says what each pass has
  found, in terms that such changes keep: each key of the map leads to an HDU that
  had its time when it was indexed, and each file has its keys or has grown
  (`MapInv`); files before `at` have passed `examine_gpubox_files` (`ExaminedInv`)
  and the validation (`ValidatedInv`); timesteps, channels and common ranges are
  made of the map (`BuiltInv`). That a context is made of sound files is their
  conjunction at the end of the third pass; no one pass gives it. `ReplyInv`
  carries a reply past later changes of its file. From any lists, shapes, times
  and number of changes.
  The last part is about `CoarseChannels`, for any set of receiver
  channels: `LoopInv` gives the channels kept so far in closed form, by the place
  of each in the list, so that the number of a channel over 128 is that from the
  end. From it, that every step keeps channels under the number of their files, and
  that the result has each channel that was asked for once, in ascending order
  (`SelectsAsAsked`, the safety part of `SortedAndComplete`).
* `MetafitsContextProofs`: `IInv` follows `new` through its stages: what it has
  read is what the file it opened says (`FilesInv`, `ReadInv`), keys and rows
  passed so far are sound (`KeysInv`), channels and timesteps are made of the
  file opened again and of the schedule (`CoarseInv`, `TimestepsInv`), a reply
  has its file (`ReplyInv`), and an error or panic has its first fault
  (`ReasonInv`). Both sorts of the inputs are treated by ranks: the choice of a
  permutation that sorts is one with each element at the number of those below
  it, so it exists, and is unique where the keys differ. From it the four
  properties of the run, for every file, order of rows and replacement.
  `OrdersAreInverse`, that the two orders of inputs undo each other for lanes of
  any number and length, is the general fact behind the check of 256 values that
  the run of `LegacyConversion` makes.
  The last part is about `LegacyConversion`, whose order of inputs comes from the
  metafits: for any number of groups and of fine channels and every permutation
  of the inputs. `Value` is the matrix in closed form: at the places that two
  inputs have in the order of the correlator, the number of their pair in the
  triangle of squares, negated below the diagonal. `CorrelateInv` and `FillInv`
  say how much of it the loops have made, `TableInv` that line k of the table is
  that of the k-th pair of tiles, `BuffersInv` that the channels of a buffer
  before `fine_chan_index` hold what was converted. The lemmas: triangle numbers
  grow by rows and columns, so numbers tell pairs apart (`NumbersTellApart`);
  the correlator's HDU has a pair where the matrix says (`HduHasPair`); each line
  of the table converts to what is wanted (`LineConverts`); and the digits of
  an index tell its channel, baseline and polarisation. From them the three
  properties of the run.

The theorems on `CoarseChannels` (`SpecSelect`) and `LegacyConversion`
(`SpecConvert`) hold for every set of receiver channels, every bound on the length
of their list (`MaxChans`) and every set of orders that are permutations.

The premise that no file begins at gps time 0 in the properties of voltage files
is the code's own: its loop over the times takes 0 for "no time before", so a list
with such a file may leave a gap. `OnOneGrid` is the premise of
`ContextIsReadable` for the reason given under "Runs", and with `NoGap` of
`GoodAreCommonAfterQuack`: behind a gap the good stretch may be another than the
common one. What is assumed of the
constants is what the code's types give: file records and lists of them
(`FilesAssumption`), channels and times that are naturals (`ChansAssumption`,
`ScheduleAssumption`), files that are not empty and a whole number of blocks in a
second (`SecondsAssumption`, `BlocksAssumption`); lanes and groups that
are not empty and orders that are permutations (`LanesAssumption`,
`SizesAssumption`, `OrdersAssumption`), receiver channels that are naturals
(`ReceiverAssumption`).
Two premises in the properties of `MetafitsContext` name the sizes that the code
is written for: legacy voltages have the inputs of a whole number of PFBs, and a
coarse channel is 128 channels of 10 kHz wide in the modes that average them.

Only model-checked: termination, which is liveness and outside the prover's
reach. That is `Returns`, `Decides` and `CallsReturn`, and the "eventually" of
`ComputesTheSuperset` and `SortedAndComplete`, whose results are proved
(`LoopsComputeTheSuperset`, `SelectionIsComplete`). All other properties of the
passing runs are theorems. The type invariants and `EachFileScannedOnce`, which a
pool of threads should give by itself, are only proved, not listed in a run: each
is part of an inductive invariant. The two disagreements under "Runs" are each shown by
a run.

## Not modelled

* Values that nothing else depends on: coordinates, gains and delays, electrical
  lengths, dates, sexagesimal angles, durations and bandwidths derived from
  indices. gps and unix times differ by a constant, so one of them is enough.
* Wording: Display and Debug, names of files beyond the second and the channel
  in them; regular expressions enter as the format, batch and channel they yield.
* `fits_read` is the boundary to cfitsio and enters as outcomes: an open that
  fails, a key that is absent or does not parse. Reads of images and columns that
  fail half way are errors of the one call and enter as such.
* Data races on files: a file changes between two steps of the models, not
  during a call to cfitsio.
* Release builds wrap where builds with overflow checks panic; the models take
  the checked build, except where they say that both are in (`LoopFrom`,
  `CounterOverflows`, `get_antennas_from_baseline`).
* The build script, the examples and the tools have no behaviour to check.

## Plan

Done: the components above, alone and composed, and the theorems about all ten
of them that a run checks. Left: termination, which stays with TLC, and a proof module of their own for the two parts that are now attached
to others.
