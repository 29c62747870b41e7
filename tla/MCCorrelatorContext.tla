------------------------ MODULE MCCorrelatorContext ------------------------
(***************************************************************************)
(* CorrelatorContext for an observation of two coarse channels over 128,   *)
(* which the legacy files number in reverse, and three timesteps.          *)
(***************************************************************************)
EXTENDS CorrelatorContext

MCRecChans == {129, 130}
MCTimes    == 2 .. 7

LegacyAxes == <<24, 2>>
MwaxAxes   == <<16, 3>>
File(format, batch, chan, hdus) ==
  [format |-> format, batch |-> batch, chan |-> chan, hdus |-> hdus,
   opens |-> TRUE, obsid |-> "same",
   corrVer |-> IF format = "CorrMWAXv2" THEN 2 ELSE 0,
   axes |-> IF format = "CorrMWAXv2" THEN MwaxAxes ELSE LegacyAxes]
LegacyFile(batch, chan, hdus) == File("CorrLegacy", batch, chan, hdus)
OldFile(chan, hdus)  == File("CorrOldLegacy", 9, chan, hdus)
MwaxFile(chan, hdus) == File("CorrMWAXv2", 0, chan, hdus)

MCContents ==
  [ first    |-> LegacyFile(0, 1, <<2, 4>>),
    second   |-> LegacyFile(0, 2, <<2, 4>>),
    next     |-> LegacyFile(1, 1, <<6>>),
    overlap  |-> LegacyFile(1, 2, <<6, 4>>),
    late     |-> LegacyFile(2, 2, <<6>>),
    twin     |-> LegacyFile(0, 1, <<4, 6>>),
    offGrid  |-> LegacyFile(0, 2, <<3, 5>>),
    gap      |-> LegacyFile(0, 2, <<2, 6>>),
    unknown  |-> LegacyFile(0, 3, <<2>>),
    empty    |-> LegacyFile(0, 1, <<>>),
    untimed  |-> LegacyFile(0, 1, <<2, NoTime>>),
    locked   |-> [LegacyFile(0, 1, <<2>>) EXCEPT !.opens = FALSE],
    newer    |-> [LegacyFile(0, 1, <<2>>) EXCEPT !.corrVer = 2],
    other    |-> [LegacyFile(0, 1, <<2>>) EXCEPT !.obsid = "other"],
    no_obsid |-> [LegacyFile(0, 1, <<2>>) EXCEPT !.obsid = "missing"],
    turned   |-> [LegacyFile(0, 1, <<2>>) EXCEPT !.axes = MwaxAxes],
    small    |-> [LegacyFile(0, 1, <<2>>) EXCEPT !.axes = <<24, 1>>],
    old      |-> OldFile(1, <<2>>),
    oldTwin  |-> OldFile(1, <<4>>),
    oldOther |-> OldFile(2, <<2, 4>>),
    mwax     |-> MwaxFile(129, <<2, 2, 4, 4>>),
    mwaxHigh |-> MwaxFile(130, <<4, 4, 6>>),
    keyless  |-> [MwaxFile(129, <<2>>) EXCEPT !.corrVer = 0],
    version1 |-> [MwaxFile(129, <<2>>) EXCEPT !.corrVer = 1],
    notes    |-> File("none", 0, 0, <<>>) ]
MCNames == DOMAIN MCContents

Bad == {"unknown", "empty", "untimed", "locked", "newer", "other", "no_obsid",
        "turned", "small", "notes", "old", "mwax"}
Sets ==
  {{n} : n \in MCNames} \cup {{"second", n} : n \in Bad} \cup {{"first", "notes"}}
  \cup {{"first", n} : n \in {"second", "next", "overlap", "late", "twin", "offGrid", "gap"}}
  \cup {{"old", "oldTwin"}, {"old", "oldOther"}, {"mwax", "mwaxHigh"},
        {"mwaxHigh", "keyless"}, {"mwaxHigh", "version1"}}
MCOffers ==
  {<<>>} \cup UNION {SetToSeqs(S) : S \in Sets}
  \cup {<<"late", "next", "first">>, <<"gap", "next", "first">>,
        <<"oldTwin", "oldOther", "old">>, <<"overlap", "next", "second", "first">>}
=============================================================================
