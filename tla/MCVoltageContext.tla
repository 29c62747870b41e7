-------------------------- MODULE MCVoltageContext --------------------------
(***************************************************************************)
(* VoltageFiles and VoltageContext for an observation of two coarse        *)
(* channels and four seconds.  Legacy files hold one block of one second;  *)
(* MWAX files hold a header and a delay block, and two blocks for each of  *)
(* two seconds.  A name is the record of what it says and of the directory *)
(* it is in, which says what is wrong with the file.                       *)
(***************************************************************************)
EXTENDS VoltageContext

MCRecChans == {109, 110}
MCSeconds  == [v \in Versions |-> IF v = "VCSMWAXv2" THEN 2 ELSE 1]
MCBlocks   == [v \in Versions |-> IF v = "VCSMWAXv2" THEN 4 ELSE 1]
MCPrefix   == [v \in Versions |-> IF v = "VCSMWAXv2" THEN 2 ELSE 0]
MCNewSizes == {0, 3, 9}

Name(format, time, chan) == [format |-> format, time |-> time, chan |-> chan, dir |-> "data"]
Legacy(t, c) == Name("VCSLegacyRecombined", t, c)
Mwax(t, c)   == Name("VCSMWAXv2", t, c)
In(dir, n)   == [n EXCEPT !.dir = dir]
Odd(n)       == In("odd", n)
\* A second file of the same name, in another directory.
Copy(n)      == In("copy", n)
Unnamed(n)   == [n EXCEPT !.format = "none"]

Grid     == {Legacy(t, c) : t \in 3 .. 6, c \in MCRecChans}
Subfiles == {Mwax(t, c) : t \in {3, 5, 7}, c \in MCRecChans}
OffGrid  == {Mwax(t, 109) : t \in 4 .. 6} \cup {Mwax(8, 109)}
First    == Legacy(4, 109)
Faulty   == {In(d, First) : d \in {"other", "odd", "gone"}}
            \cup {Unnamed(First), Legacy(4, 111), Mwax(5, 111)}
Copies   == {Copy(First), Copy(Legacy(5, 109)), In("third", First), In("fourth", First)}

\* Lists of which a context is made and read: whole, off the schedule's grid,
\* with gaps, copies and odd sizes.
MCReadOffers ==
  { <<Legacy(5, 109)>>,
    <<Legacy(4, 109), Legacy(5, 109), Legacy(4, 110), Legacy(5, 110)>>,
    <<Legacy(6, 110), Legacy(5, 109)>>,
    <<Legacy(5, 109), Copy(Legacy(5, 109)), Legacy(6, 109), Legacy(6, 110)>>,
    <<Odd(Legacy(5, 109))>>,
    <<Mwax(4, 109), Mwax(6, 109)>>,
    <<Mwax(6, 110), Mwax(6, 109), Mwax(4, 109), Mwax(4, 110)>>,
    <<Mwax(5, 109), Mwax(7, 109)>>,
    <<Mwax(5, 110)>>,
    <<Mwax(5, 109), Mwax(7, 110)>>,
    <<Odd(Mwax(5, 109))>> }

\* All sets of files on two grids, and lists with faulty files and copies.
Listed(S) == FoldSet(LAMBDA n, list : Append(list, n), <<>>, S)
MCOffers ==
  MCReadOffers
  \cup {Listed(S) : S \in SUBSET Grid} \cup {Listed(S) : S \in SUBSET Subfiles}
  \cup {Listed(S) : S \in SUBSET OffGrid}
  \cup UNION {{<<n, Legacy(5, 109)>>, <<Legacy(5, 109), n>>, <<n>>} : n \in Faulty}
  \cup {<<Mwax(0, 109), Mwax(3, 109)>>, <<First, Mwax(4, 109)>>, <<First, Mwax(4, 109), Unnamed(First)>>}
  \cup {Listed(Copies \cup S) : S \in SUBSET {First, Legacy(5, 109), Legacy(5, 110)}}
  \cup {Listed({First, Copy(First)} \cup S) : S \in SUBSET {Legacy(5, 109), Legacy(5, 110)}}

MCNames == UNION {ToSet(list) : list \in MCOffers}

Size(n) == CASE n.dir = "odd" -> 5
             [] n.format = "none" -> 0
             [] OTHER -> MCPrefix[n.format] + MCBlocks[n.format]
FileOfName(n) ==
  [format |-> n.format, time |-> n.time, chan |-> n.chan,
   obsid |-> IF n.dir = "other" THEN "other" ELSE "same",
   size |-> Size(n), present |-> n.dir # "gone"]
MCContents == [n \in MCNames |-> FileOfName(n)]
=============================================================================
