-------------------------- MODULE TimestepSuperset -------------------------
(***************************************************************************)
(* populate_metafits_provided_superset_of_timesteps (timestep/mod.rs): the *)
(* timesteps of the data files, extended step by step back to the start of *)
(* the schedule, on to its end, and over the gaps.  The vector is sorted   *)
(* after each loop that reads it, so it is modelled by the set of its      *)
(* times and by its length.                                                *)
(***************************************************************************)
EXTENDS Integers, FiniteSets, TimestepGrid

CONSTANTS
  Times,      \* unix times (ms) of data and schedule
  Duration    \* timestep_duration_ms

\* Unix times are far larger than an integration: no subtraction wraps.
ASSUME DurationAssumption == Duration \in Nat \ {0}
ASSUME TimesAssumption    == Times \subseteq {t \in Nat : t >= Duration}

VARIABLES
  provided,    \* the times of the data files, ascending keys of a BTreeMap
  metaFirst,   \* metafits_timesteps[0]
  metaLast,    \* metafits_timesteps[len - 1]
  steps,       \* the times in the vector timesteps
  len,         \* its length
  cur,         \* current_timestep_unix_ms, then the variable of the gap loop
  last,        \* end of the range of the gap loop
  pc           \* "start", "back", "turn", "forward", "sort", "fill", "done"

vars == <<provided, metaFirst, metaLast, steps, len, cur, last, pc>>
inputs == <<provided, metaFirst, metaLast>>

Init ==
  /\ provided \in (SUBSET Times) \ {{}} /\ IsFiniteSet(provided)
  /\ metaFirst \in Times
  /\ metaLast \in {t \in Times : t >= metaFirst /\ (t - metaFirst) % Duration = 0}
  /\ steps = provided
  /\ len = Cardinality(provided)
  /\ cur = 0 /\ last = 0
  /\ pc = "start"

Push(t) == steps' = steps \cup {t} /\ len' = len + 1

\* Only data that start after the scheduled start are extended backwards.
StartBack ==
  /\ pc = "start"
  /\ IF Least(provided) > metaFirst
     THEN cur' = Least(provided) - Duration /\ pc' = "back"
     ELSE pc' = "turn" /\ UNCHANGED cur
  /\ UNCHANGED <<inputs, steps, len, last>>

Back ==
  /\ pc = "back"
  /\ cur >= metaFirst
  /\ Push(cur)
  /\ cur' = cur - Duration
  /\ UNCHANGED <<inputs, last, pc>>

BackDone ==
  /\ pc = "back"
  /\ cur < metaFirst
  /\ pc' = "turn"
  /\ UNCHANGED <<inputs, steps, len, cur, last>>

StartForward ==
  /\ pc = "turn"
  /\ IF Greatest(provided) < metaLast
     THEN cur' = Greatest(provided) + Duration /\ pc' = "forward"
     ELSE pc' = "sort" /\ UNCHANGED cur
  /\ UNCHANGED <<inputs, steps, len, last>>

Forward ==
  /\ pc = "forward"
  /\ cur <= metaLast
  /\ Push(cur)
  /\ cur' = cur + Duration
  /\ UNCHANGED <<inputs, last, pc>>

ForwardDone ==
  /\ pc = "forward"
  /\ cur > metaLast
  /\ pc' = "sort"
  /\ UNCHANGED <<inputs, steps, len, cur, last>>

\* Mutant: the gaps are filled on the grid of the schedule.
SortFromSchedule ==
  /\ pc = "sort"
  /\ cur' = metaFirst
  /\ last' = Greatest(steps)
  /\ pc' = "fill"
  /\ UNCHANGED <<inputs, steps, len>>

\* The range of the gap loop is fixed by the ends of the sorted vector.
Sort ==
  /\ pc = "sort"
  /\ cur' = Least(steps)
  /\ last' = Greatest(steps)
  /\ pc' = "fill"
  /\ UNCHANGED <<inputs, steps, len>>

\* Mutant: the loop does not look for the time.
FillAlways ==
  /\ pc = "fill"
  /\ cur < last
  /\ Push(cur)
  /\ cur' = cur + Duration
  /\ UNCHANGED <<inputs, last, pc>>

Fill ==
  /\ pc = "fill"
  /\ cur < last
  /\ IF cur \in steps THEN UNCHANGED <<steps, len>> ELSE Push(cur)
  /\ cur' = cur + Duration
  /\ UNCHANGED <<inputs, last, pc>>

FillDone ==
  /\ pc = "fill"
  /\ cur >= last
  /\ pc' = "done"
  /\ UNCHANGED <<inputs, steps, len, cur, last>>

Next ==
  \/ StartBack \/ Back \/ BackDone
  \/ StartForward \/ Forward \/ ForwardDone
  \/ Sort \/ Fill \/ FillDone

\* One thread runs the function: an enabled step is eventually taken.
Spec == Init /\ [][Next]_vars /\ WF_vars(Next)

-----------------------------------------------------------------------------
\* The inputs stay times, and no loop leaves the unsigned ones.
TypeOK ==
  /\ provided \subseteq Times /\ provided # {} /\ IsFiniteSet(provided)
  /\ metaFirst \in Times /\ metaLast \in Times /\ metaFirst <= metaLast
  /\ steps \subseteq Nat /\ IsFiniteSet(steps)
  /\ len \in Nat /\ cur \in Int /\ last \in Nat
  /\ pc \in {"start", "back", "turn", "forward", "sort", "fill", "done"}

\* The vector never holds a time twice: an index names one timestep, and
\* position() finds the right one.
NoTimeTwice == len = Cardinality(steps)

\* No data timestep is lost (the unwrap of populate_provided_timesteps), and
\* nothing is added before both data and schedule start or after both end.
WithinDataAndSchedule ==
  /\ provided \subseteq steps
  /\ \A t \in steps :
       /\ metaFirst <= t \/ \E u \in provided : u <= t
       /\ t <= metaLast \/ \E u \in provided : t <= u

\* The result reaches over the schedule: it begins and ends less than a
\* timestep inside it, or outside.
SpansSchedule ==
  pc = "done" =>
    /\ \E t \in steps : t < metaFirst + Duration
    /\ \E t \in steps : metaLast < t + Duration

\* No gap is left: after each timestep but the last there is another within a
\* timestep's duration.
NoGapLeft ==
  pc = "done" =>
    \A t, u \in steps : t < u => \E v \in steps : t < v /\ v <= t + Duration

\* The vector is a list of distinct times, all data among them and nothing beyond
\* data and schedule; when the function returns it reaches over the schedule
\* without a gap.
TimestepsAreSound == NoTimeTwice /\ WithinDataAndSchedule /\ SpansSchedule /\ NoGapLeft

\* The function returns, and the loops have computed the set that the contexts
\* take the timesteps from.
ComputesTheSuperset ==
  <>(pc = "done" /\ steps = Superset(provided, metaFirst, metaLast, Duration))
=============================================================================
