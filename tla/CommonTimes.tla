---------------------------- MODULE CommonTimes ----------------------------
(***************************************************************************)
(* determine_common_obs_times_and_chans (gpubox_files/mod.rs): the loop    *)
(* over the timesteps of the time map that have as many coarse channels as *)
(* the whole map, in time order, up to the first that does not follow its  *)
(* predecessor by one integration.  Only the keys of the map matter here.  *)
(***************************************************************************)
EXTENDS Integers, FiniteSets

CONSTANTS
  Channels,   \* gpubox numbers that can appear in the map
  Times,      \* unix times (ms) that can appear in the map
  IntTime     \* integration_time_ms

ASSUME ChannelsAssumption == IsFiniteSet(Channels)
ASSUME TimesAssumption    == Times \subseteq Nat
ASSUME IntTimeAssumption  == IntTime \in Nat \ {0}

VARIABLES
  timeMap,        \* gpubox_time_map: time -> the channels with an HDU then
  good,           \* good_time_unix_time_ms, 0 for None: times are unsigned
  pending,        \* the times filtered_timesteps has still to yield
  start,          \* common_start_unix_ms
  prev,           \* prev_ts_unix_ms
  end,            \* common_end_unix_ms
  pc              \* "first", "extend", or the result: "none", "some"

vars == <<timeMap, good, pending, start, prev, end, pc>>

TimeMaps == UNION {[D -> SUBSET Channels \ {{}}] : D \in SUBSET Times}

\* max_chans counts the channels of the whole map, early times included.
ProvidedChans == UNION {timeMap[t] : t \in DOMAIN timeMap}

\* The timesteps left by the two filters.
Filtered ==
  {t \in DOMAIN timeMap : /\ t >= good
                          /\ Cardinality(timeMap[t]) = Cardinality(ProvidedChans)}

\* The BTreeMap iterator yields its keys in ascending order.
Yields(t) == t \in pending /\ \A u \in pending : t <= u

Init ==
  /\ timeMap \in TimeMaps
  /\ good \in Times \cup {0}
  /\ pending = Filtered
  /\ start = 0 /\ prev = 0 /\ end = 0
  /\ pc = "first"

NoneCommon ==
  /\ pc = "first"
  /\ pending = {}
  /\ pc' = "none"
  /\ UNCHANGED <<timeMap, good, pending, start, prev, end>>

First ==
  /\ pc = "first"
  /\ \E t \in pending :
       /\ Yields(t)
       /\ pending' = pending \ {t}
       /\ start' = t
       /\ prev' = t
       /\ end' = t + IntTime
  /\ pc' = "extend"
  /\ UNCHANGED <<timeMap, good>>

\* Mutants: the times are not compared, or compared with the first.
FollowsAfterAnyGap(t) == Cardinality(timeMap[t]) = Cardinality(timeMap[start])
FollowsTheStart(t) == t = start + IntTime /\ FollowsAfterAnyGap(t)

Follows(t) ==
  /\ t = prev + IntTime
  /\ Cardinality(timeMap[t]) = Cardinality(timeMap[start])

Extend ==
  /\ pc = "extend"
  /\ \E t \in pending :
       /\ Yields(t)
       /\ Follows(t)
       /\ pending' = pending \ {t}
       /\ end' = t + IntTime
       /\ prev' = t
  /\ UNCHANGED <<timeMap, good, start, pc>>

Break ==
  /\ pc = "extend"
  /\ \E t \in pending :
       /\ Yields(t)
       /\ ~Follows(t)
       /\ pending' = pending \ {t}
  /\ pc' = "some"
  /\ UNCHANGED <<timeMap, good, start, prev, end>>

Exhausted ==
  /\ pc = "extend"
  /\ pending = {}
  /\ pc' = "some"
  /\ UNCHANGED <<timeMap, good, pending, start, prev, end>>

Next == NoneCommon \/ First \/ Extend \/ Break \/ Exhausted

\* One thread runs the function: an enabled step is eventually taken.
Spec == Init /\ [][Next]_vars /\ WF_vars(Next)

-----------------------------------------------------------------------------
\* The iterator only yields filtered times; the times of the loop are unsigned.
TypeOK ==
  /\ timeMap \in TimeMaps
  /\ good \in Times \cup {0}
  /\ pending \subseteq Filtered
  /\ start \in Nat /\ prev \in Nat /\ end \in Nat
  /\ pc \in {"first", "extend", "none", "some"}

\* The times the loop has accepted so far.
Accepted == {t \in Filtered : t <= prev}
Ranging  == pc \in {"extend", "some"}

\* Each accepted timestep has every provided channel, and an accepted timestep
\* that is not the last is followed by the one exactly an integration later.
CommonIsContiguous ==
  Ranging =>
    /\ start \in Accepted /\ prev \in Accepted
    /\ \A t \in Accepted : /\ timeMap[t] = ProvidedChans
                           /\ start <= t
                           /\ t = prev \/ t + IntTime \in Accepted
    /\ \A t, u \in Accepted : t < u => t + IntTime <= u
    /\ end = prev + IntTime

NothingFollows ==
  pc = "some" =>
    \/ end \notin Filtered
    \/ \E t \in Filtered : prev < t /\ t < end
NoneIsComplete ==
  pc = "none" => \A t \in DOMAIN timeMap : t >= good => timeMap[t] # ProvidedChans

\* The stretch cannot be longer: when the loop has stopped, the first common
\* timestep after it does not follow it; and None is returned only when no
\* timestep has all the channels.
StopsOnlyAtAGap == NothingFollows /\ NoneIsComplete

\* get_timstep_indicies selects start <= t < end.  A selected timestep that lacks a
\* channel is off the grid: it lies within the integration of a common one.  On
\* data no two times of which are closer than an integration there is none.
SelectedAreComplete ==
  pc = "some" =>
    \A t \in DOMAIN timeMap : start <= t /\ t < end =>
      timeMap[t] = ProvidedChans \/ \E u \in Accepted : u < t /\ t < u + IntTime

\* What the caller has been given: new_inner takes (0, 0, 0, []) for None.
answer ==
  IF pc = "some"
  THEN [kind |-> "some", start |-> start, end |-> end, chans |-> timeMap[start]]
  ELSE [kind |-> IF pc = "none" THEN "none" ELSE "pending",
        start |-> 0, end |-> 0, chans |-> {}]

Abstract == INSTANCE CommonRange

\* The whole loop is one step of CommonRange.
ImplementsCommonRange == Abstract!Spec

=============================================================================
