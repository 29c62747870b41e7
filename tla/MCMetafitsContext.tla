-------------------------- MODULE MCMetafitsContext --------------------------
(***************************************************************************)
(* Metafits files around one that is sound: every step wrong in every way  *)
(* it can be, and two of them at once; tables of two tiles in every order, *)
(* too short, too long or with a row that is wrong; tables with all inputs *)
(* of one PFB and of two, which has three inputs to each of two lanes;     *)
(* every mode; observations that are and are not a whole number of files,  *)
(* or empty; and channels that change before the file is opened again.     *)
(***************************************************************************)
EXTENDS MetafitsContext, TLC

Row4(i, a, t, p) == [input |-> i, ant |-> a, tile |-> t, pol |-> p, fault |-> "none"]
Tiles == <<Row4(2, 0, 51, "Y"), Row4(1, 1, 11, "X"), Row4(0, 1, 11, "Y"), Row4(3, 0, 51, "X")>>

NoFaults == [s \in {} |-> "sound"]

Sound == [hdus |-> 2, faults |-> NoFaults, chans |-> <<130, 129>>, bandwidth |-> 512,
          rows |-> Tiles, ninputs |-> 4, mode |-> "HW_LFILES",
          exposure |-> 9, inttime |-> 1, finechan |-> 8]

\* Steps that stand for the others of their kind when two are wrong.
Kinds == {"GPSTIME", "CHANNELS", "DUT1", "unix start", "DATE-OBS", "HA", "GRIDNAME", "MODE",
          "GEODEL", "receivers", "RECVRS", "fine channels"}
Ways(s) == IF s \in Computed THEN {"malformed"} ELSE {"absent", "malformed"}
OneFault == {(s :> w) : s \in Keys, w \in {"absent", "malformed"}}
TwoFaults == {(s :> w) @@ (t :> x) : s \in Kinds, t \in Kinds,
                                     w \in {"absent", "malformed"}, x \in {"absent", "malformed"}}
FaultyFiles ==
  {[Sound EXCEPT !.faults = f] :
     f \in {g \in OneFault \cup TwoFaults : \A s \in DOMAIN g : g[s] \in Ways(s)}}

Tables == {[k \in 1 .. 4 |-> Tiles[p[k]]] : p \in Permutations(1 .. 4)}
Spoilt(row, fault) == [Tiles EXCEPT ![row].fault = fault]
OddTables == {[Tiles EXCEPT ![1].tile = 7], [Tiles EXCEPT ![4].tile = 11], [Tiles EXCEPT ![1].ant = 1],
              [Tiles EXCEPT ![2].input = 4]}
             \cup {Spoilt(r, f) : r \in {1, 3}, f \in {"cell", "pol", "length"}}

\* n rows of n \div 2 tiles, whose inputs are in another order than the tiles.
Array(n) == [k \in 1 .. n |-> Row4((5 * k) % n, (k - 1) \div 2, 100 - (k - 1) \div 2,
                                  IF k % 2 = 1 THEN "X" ELSE "Y")]
Turned(t, m, r) == [k \in DOMAIN t |-> t[((m * k + r) % Len(t)) + 1]]
PfbTables == {Turned(Array(6), m, r) : m \in {1, 5}, r \in 0 .. 5}
             \cup {Turned(Array(12), m, 0) : m \in {1, 5}}

TableFiles ==
  {[Sound EXCEPT !.rows = t] : t \in Tables \cup OddTables}
    \cup {[Sound EXCEPT !.rows = t, !.ninputs = Len(t)] : t \in PfbTables}
    \cup {[Sound EXCEPT !.ninputs = n] : n \in 0 .. 5}

Modes == {"HW_LFILES", "VOLTAGE_START", "VOLTAGE_BUFFER", "MWAX_CORRELATOR", "MWAX_VCS",
          "MWAX_BUFFER", "NO_CAPTURE"}
OtherFiles ==
  {[Sound EXCEPT !.mode = m] : m \in Modes}
    \cup {[Sound EXCEPT !.exposure = e, !.inttime = i] : e \in {0, 1, 8, 17}, i \in {0, 1, 4}}
    \cup {[Sound EXCEPT !.finechan = w] : w \in {2, 4, 256, 300}}
    \cup {[Sound EXCEPT !.hdus = 1]}
    \cup {[Sound EXCEPT !.chans = c, !.bandwidth = 256 * Len(c)] :
            c \in {<<0>>, <<1>>, <<3, 1, 2>>}}

SomeFiles == FaultyFiles \cup TableFiles \cup OtherFiles \cup {GONE}
OtherChannels ==
  {[Sound EXCEPT !.chans = <<129>>], [Sound EXCEPT !.chans = <<0, 129, 130>>],
   [Sound EXCEPT !.faults = "CHANNELS" :> "absent"],
   [Sound EXCEPT !.faults = "CHANNELS" :> "malformed"]}
=============================================================================
