---------------------------- MODULE CommonRange ----------------------------
(***************************************************************************)
(* What determine_common_obs_times_and_chans promises, as one atomic step: *)
(* from the channels present at every unix time it answers the stretch of  *)
(* contiguous times at which every provided coarse channel has data, or    *)
(* that there is none.  CommonTimes is the loop that computes it.          *)
(***************************************************************************)
EXTENDS Integers, FiniteSets

CONSTANTS
  Channels,   \* gpubox numbers (or receiver channels)
  Times,      \* candidate unix times of an HDU
  IntTime     \* integration_time_ms, in the unit of Times

VARIABLES
  timeMap,    \* the channels present at each time that has any data
  good,       \* first time allowed (0 when the caller passes None)
  answer      \* what has been returned so far

rangeVars == <<timeMap, good, answer>>

\* Every key of the outer BTreeMap has a non-empty inner map.
TimeMaps == UNION {[D -> SUBSET Channels \ {{}}] : D \in SUBSET Times}

ProvidedChans == UNION {timeMap[t] : t \in DOMAIN timeMap}

\* The times from "good" on at which all the provided channels have data.
CommonTime == {t \in DOMAIN timeMap : t >= good /\ timeMap[t] = ProvidedChans}

Answer(kind, s, e, chans) == [kind |-> kind, start |-> s, end |-> e, chans |-> chans]
Pending  == Answer("pending", 0, 0, {})
NoCommon == Answer("none", 0, 0, {})

\* Every time of R is followed by the one an integration later, with none in
\* between, or is the last of R.
Contiguous(R) ==
  \A t, u \in R : t < u => t + IntTime \in R /\ t + IntTime <= u

\* From s to the last time l: s is the earliest common time, the common times
\* up to l are contiguous, and the next common time does not continue them.
IsCommonRange(s, l) ==
  LET run == {t \in CommonTime : t <= l}
  IN  /\ s \in CommonTime /\ \A t \in CommonTime : s <= t
      /\ l \in CommonTime
      /\ Contiguous(run)
      /\ \/ l + IntTime \notin CommonTime
         \/ \E t \in CommonTime : l < t /\ t < l + IntTime

Init ==
  /\ timeMap \in TimeMaps
  /\ good \in Times \cup {0}
  /\ answer = Pending

AnswerNone ==
  /\ answer = Pending
  /\ CommonTime = {}
  /\ answer' = NoCommon
  /\ UNCHANGED <<timeMap, good>>

AnswerSome ==
  /\ answer = Pending
  /\ \E s, l \in CommonTime :
       /\ IsCommonRange(s, l)
       /\ answer' = Answer("some", s, l + IntTime, ProvidedChans)
  /\ UNCHANGED <<timeMap, good>>

Next == AnswerNone \/ AnswerSome

Spec == Init /\ [][Next]_rangeVars
=============================================================================
