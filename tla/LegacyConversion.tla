--------------------------- MODULE LegacyConversion ---------------------------
(***************************************************************************)
(* From the HDU of a correlator to the visibilities of a read: the full    *)
(* matrix and the conversion table that new makes for legacy correlators,  *)
(* and the reads by baseline and by frequency that apply it or, for MWAX   *)
(* files, copy.                                                            *)
(*                                                                         *)
(* A visibility is a record of a fine channel and a pair of rf inputs, by  *)
(* their places in the order wanted; its conjugate has the pair exchanged. *)
(* The real and the imaginary part always go together, so that an index    *)
(* counts complex numbers, not floats.  The code is for 256 inputs, which  *)
(* the fine PFB puts out in groups of 16 rows of 4: here both are          *)
(* parameters.                                                             *)
(***************************************************************************)
EXTENDS InputOrder, Sequences

CONSTANTS
    Groups,                  \* of what fine_pfb_reorder transposes, 4
    Orders,                  \* orders of the inputs in the metafits: subfile_order by input
    FineChans                \* fine channels of a coarse channel

NumInputs == Groups * Lanes * PerLane
NumTiles == NumInputs \div 2
NumBaselines == (NumTiles * (NumTiles + 1)) \div 2
Pols == 4
Inputs == 0 .. NumInputs - 1
EMPTY == -1

ASSUME SizesAssumption ==
    /\ Groups \in Nat \ {0} /\ FineChans \in Nat \ {0}
    /\ NumInputs % 2 = 0
ASSUME OrdersAssumption ==
    \A order \in Orders :
        order \in [Inputs -> Inputs] /\ \A i \in Inputs : \E j \in Inputs : order[j] = i

VARIABLES
    legacy,      \* whether the files are of a legacy correlator
    mwax_order,  \* subfile_order of each input
    stage,
    full_matrix, \* source index by row and column of inputs, negated for a conjugate
    source_legacy_ndx,
    col_order, row_order,   \* counters of the loops over inputs, then over tiles
    table,       \* legacy_conversion_table
    fine_chan_index,
    by_baseline, by_frequency   \* the buffers that the two reads fill

convertVars == <<legacy, mwax_order, stage, full_matrix, source_legacy_ndx, col_order,
                 row_order, table, fine_chan_index, by_baseline, by_frequency>>
observation == <<legacy, mwax_order>>
loops == <<full_matrix, source_legacy_ndx, col_order, row_order, table>>
buffers == <<by_baseline, by_frequency>>

Visibility(f, a, b) == [chan |-> f, pair |-> <<a, b>>]
Conjugate(v) == [v EXCEPT !.pair = <<v.pair[2], v.pair[1]>>]

\* The number of a block or baseline in a triangle that is walked by columns, and
\* by rows.
ByColumns(row, col) == (col * (col + 1)) \div 2 + row
ByRows(row, col) == row * NumTiles - (row * (row + 1)) \div 2 + col

\* The HDU of a legacy correlator: for each pair of columns the squares above it,
\* each with its two rows, in the order that comes out of the PFB.
LegacyHdu(f, k) ==
    LET half == NumInputs \div 2
        block == CHOOSE b \in (0 .. half - 1) \X (0 .. half - 1) :
                    b[1] <= b[2] /\ ByColumns(b[1], b[2]) = k \div 4
        input(place) == mwax_order[CHOOSE i \in Inputs : get_vcs_order(i) = place]
    IN  Visibility(f, input(2 * block[1] + (k % 2)), input(2 * block[2] + ((k % 4) \div 2)))

\* What a read is asked for: fine channel f of two tiles and two polarisations.
Wanted(f, tile1, tile2, pol) ==
    Visibility(f, 2 * tile2 + (pol % 2), 2 * tile1 + (pol \div 2))

Tiles == 0 .. NumTiles - 1
TilePairs == {p \in Tiles \X Tiles : p[1] <= p[2]}

InitConvert ==
    /\ legacy \in BOOLEAN
    /\ mwax_order \in Orders
    /\ stage = IF legacy THEN "correlate" ELSE "ready"
    /\ full_matrix = [row \in Inputs |-> [col \in Inputs |-> EMPTY]]
    /\ source_legacy_ndx = 0 /\ col_order = 0 /\ row_order = 0
    /\ table = <<>> /\ fine_chan_index = 0
    /\ by_baseline = <<>> /\ by_frequency = <<>>

-----------------------------------------------------------------------------
\* generate_full_matrix.

\* One square of 2 x 2; of the redundant number on the diagonal only the source
\* index is counted.
Correlate ==
    LET input(i) == mwax_order[fine_pfb_reorder(i)]
        col_a == input(col_order)     row1st == input(row_order)
        col_b == input(col_order + 1) row2nd == input(row_order + 1)
        index(row, col) ==
            CASE row = row1st /\ col = col_a -> source_legacy_ndx
              [] row = row2nd /\ col = col_a /\ col_order # row_order -> source_legacy_ndx + 1
              [] row = row1st /\ col = col_b -> source_legacy_ndx + 2
              [] row = row2nd /\ col = col_b -> source_legacy_ndx + 3
              [] OTHER -> full_matrix[row][col]
    IN  /\ stage = "correlate" /\ col_order < NumInputs
        /\ full_matrix' = [row \in Inputs |-> [col \in Inputs |-> index(row, col)]]
        /\ source_legacy_ndx' = source_legacy_ndx + 4
        /\ IF row_order + 2 <= col_order
           THEN row_order' = row_order + 2 /\ UNCHANGED col_order
           ELSE row_order' = 0 /\ col_order' = col_order + 2
        /\ UNCHANGED <<observation, stage, table, fine_chan_index, buffers>>

Correlated ==
    /\ stage = "correlate" /\ col_order >= NumInputs
    /\ stage' = "fill" /\ row_order' = 0 /\ col_order' = 0
    /\ UNCHANGED <<observation, full_matrix, source_legacy_ndx, table, fine_chan_index, buffers>>

\* Mutant: the source of the other half is taken as it is.
MirroredAsIs(row, col) ==
    IF full_matrix[row][col] = EMPTY THEN full_matrix[col][row] ELSE full_matrix[row][col]

\* What is missing is the conjugate of the mirrored number.
Mirrored(row, col) ==
    IF full_matrix[row][col] = EMPTY THEN -full_matrix[col][row] ELSE full_matrix[row][col]

Fill ==
    /\ stage = "fill" /\ row_order < NumInputs
    /\ full_matrix' =
        [full_matrix EXCEPT ![row_order] = [col \in Inputs |-> Mirrored(row_order, col)]]
    /\ row_order' = row_order + 1
    /\ UNCHANGED <<observation, stage, source_legacy_ndx, col_order, table, fine_chan_index, buffers>>

Filled ==
    /\ stage = "fill" /\ row_order >= NumInputs
    /\ stage' = "table" /\ row_order' = 0
    /\ UNCHANGED <<observation, full_matrix, source_legacy_ndx, col_order, table,
                   fine_chan_index, buffers>>

-----------------------------------------------------------------------------
\* generate_conversion_array: the loops over row_tile and col_tile.

Magnitude(x) == IF x < 0 THEN -x ELSE x
Source(x) == [index |-> Magnitude(x), conjugate |-> x < 0]

\* Mutant: xy is taken for yx.
XyAndYxExchanged(row, col) ==
    [pol \in 0 .. Pols - 1 |->
        Source(full_matrix[row * 2 + (pol % 2)][col * 2 + (pol \div 2)])]

LegacyConversionBaseline(row, col) ==
    [pol \in 0 .. Pols - 1 |->
        Source(full_matrix[row * 2 + (pol \div 2)][col * 2 + (pol % 2)])]

Push ==
    /\ stage = "table" /\ row_order < NumTiles
    /\ table' = Append(table, LegacyConversionBaseline(row_order, col_order))
    /\ IF col_order + 1 < NumTiles
       THEN col_order' = col_order + 1 /\ UNCHANGED row_order
       ELSE row_order' = row_order + 1 /\ col_order' = row_order + 1
    /\ UNCHANGED <<observation, stage, full_matrix, source_legacy_ndx, fine_chan_index, buffers>>

Pushed ==
    /\ stage = "table" /\ row_order >= NumTiles
    /\ Len(table) = NumBaselines        \* assert_eq
    /\ stage' = "ready"
    /\ UNCHANGED <<observation, loops, fine_chan_index, buffers>>

-----------------------------------------------------------------------------
\* The reads.  A buffer is a function from index to visibility.

BufferIndices == 0 .. FineChans * NumBaselines * Pols - 1
HduStride == NumBaselines * Pols    \* of a fine channel

\* [baseline][fine_chan][pol] and [fine_chan][baseline][pol].
BaselineOrder(f, bl, pol) == bl * FineChans * Pols + f * Pols + pol

\* Mutant: the stride of the other order.
FrequencyOrderStrided(f, bl, pol) == bl * FineChans * Pols + f * Pols + pol

FrequencyOrder(f, bl, pol) == f * HduStride + bl * Pols + pol

\* input_buffer of a legacy file: [fine_chan][number].
LegacyInput(index) == LegacyHdu(index \div HduStride, index % HduStride)

\* One fine channel of a legacy HDU: numbers that the table says are conjugated
\* are, and then all are.
Converted(f, bl, pol) ==
    LET source == table[bl + 1][pol]
        v == LegacyInput(f * HduStride + source.index)
    IN  Conjugate(IF source.conjugate THEN Conjugate(v) ELSE v)

Places == (0 .. NumBaselines - 1) \X (0 .. Pols - 1)

WriteChannel(buffer, f, index(_, _, _)) ==
    [i \in BufferIndices |->
        IF \E p \in Places : index(f, p[1], p[2]) = i
        THEN LET p == CHOOSE p \in Places : index(f, p[1], p[2]) = i
             IN  Converted(f, p[1], p[2])
        ELSE buffer[i]]

Cleared == [i \in BufferIndices |-> EMPTY]

StartRead(to) ==
    /\ stage = "ready" /\ legacy
    /\ stage' = to /\ fine_chan_index' = 0
    /\ UNCHANGED <<observation, loops>>

ReadByBaseline ==
    StartRead("by_baseline") /\ by_baseline' = Cleared /\ UNCHANGED by_frequency
ReadByFrequency ==
    StartRead("by_frequency") /\ by_frequency' = Cleared /\ UNCHANGED by_baseline

ConvertToBaselineOrder ==
    /\ stage = "by_baseline" /\ fine_chan_index < FineChans
    /\ by_baseline' = WriteChannel(by_baseline, fine_chan_index, BaselineOrder)
    /\ fine_chan_index' = fine_chan_index + 1
    /\ UNCHANGED <<observation, stage, loops, by_frequency>>

ConvertToFrequencyOrder ==
    /\ stage = "by_frequency" /\ fine_chan_index < FineChans
    /\ by_frequency' = WriteChannel(by_frequency, fine_chan_index, FrequencyOrder)
    /\ fine_chan_index' = fine_chan_index + 1
    /\ UNCHANGED <<observation, stage, loops, by_baseline>>

Return ==
    /\ stage \in {"by_baseline", "by_frequency"} /\ fine_chan_index = FineChans
    /\ stage' = "ready"
    /\ UNCHANGED <<observation, loops, fine_chan_index, buffers>>

\* The HDU of an MWAX correlator has the order by baseline.
Baseline(bl) == CHOOSE p \in TilePairs : ByRows(p[1], p[2]) = bl
MwaxHdu ==
    [i \in BufferIndices |->
        LET bl == Baseline(i \div (FineChans * Pols))
        IN  Wanted((i \div Pols) % FineChans, bl[1], bl[2], i % Pols)]

\* convert_mwax_hdu_to_frequency_order: the pols of a channel and baseline are
\* copied as a slice.
ToFrequencyOrder(input) ==
    [i \in BufferIndices |->
        input[BaselineOrder(i \div HduStride, (i % HduStride) \div Pols, i % Pols)]]

ReadMwaxByBaseline ==
    /\ stage = "ready" /\ ~legacy
    /\ by_baseline' = MwaxHdu
    /\ UNCHANGED <<observation, stage, loops, fine_chan_index, by_frequency>>

ReadMwaxByFrequency ==
    /\ stage = "ready" /\ ~legacy
    /\ by_frequency' = ToFrequencyOrder(MwaxHdu)
    /\ UNCHANGED <<observation, stage, loops, fine_chan_index, by_baseline>>

NextConvert ==
    \/ Correlate \/ Correlated \/ Fill \/ Filled \/ Push \/ Pushed
    \/ ReadByBaseline \/ ReadByFrequency
    \/ ConvertToBaselineOrder \/ ConvertToFrequencyOrder \/ Return
    \/ ReadMwaxByBaseline \/ ReadMwaxByFrequency

SpecConvert == InitConvert /\ [][NextConvert]_convertVars

-----------------------------------------------------------------------------
\* Properties.

\* A read by baseline gives, for every pair of tiles and polarisations and every
\* fine channel, the number of the wanted triangle, whatever the order of the
\* inputs was.  About the three index computations of convert/mod.rs together.
ReadsGiveTheTriangle ==
    stage = "ready" /\ by_baseline # <<>> =>
        \A p \in TilePairs, f \in 0 .. FineChans - 1, pol \in 0 .. Pols - 1 :
            by_baseline[(ByRows(p[1], p[2]) * FineChans + f) * Pols + pol]
                = Wanted(f, p[1], p[2], pol)

\* The two reads give the same numbers with their axes exchanged, though each
\* computes its places on its own.
OrdersAgree ==
    stage = "ready" /\ by_baseline # <<>> /\ by_frequency # <<>> =>
        \A bl \in 0 .. NumBaselines - 1, f \in 0 .. FineChans - 1, pol \in 0 .. Pols - 1 :
            by_frequency[(f * NumBaselines + bl) * Pols + pol]
                = by_baseline[(bl * FineChans + f) * Pols + pol]

\* Each number of the legacy HDU that is not redundant has one place in the full
\* matrix, and once it is filled each pair of inputs has a number of its own or
\* that of the mirrored pair, conjugated.
MatrixIsHermitian ==
    stage = "table" /\ table = <<>> =>
        \A a, b \in Inputs :
            /\ Magnitude(full_matrix[a][b]) < HduStride
            /\ a # b => full_matrix[a][b] = -full_matrix[b][a]
            /\ \A c, d \in Inputs :
                full_matrix[a][b] = full_matrix[c][d] => a = c /\ b = d
=============================================================================
