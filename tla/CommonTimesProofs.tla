------------------------- MODULE CommonTimesProofs -------------------------
(***************************************************************************)
(* Proofs about CommonTimes, for every finite set of channels, every set   *)
(* of times and every integration time.                                    *)
(***************************************************************************)
EXTENDS CommonTimes, FiniteSetTheorems, TLAPS

\* The count the code compares is as good as the set: a timestep with as many
\* channels as the whole map has every channel of the map.
LEMMA FullCountIsAllChans ==
  ASSUME timeMap \in TimeMaps, NEW t \in DOMAIN timeMap
  PROVE  Cardinality(timeMap[t]) = Cardinality(ProvidedChans)
           <=> timeMap[t] = ProvidedChans
<1>1. timeMap[t] \subseteq ProvidedChans
  BY DEF ProvidedChans
<1>2. ProvidedChans \subseteq Channels
  BY DEF ProvidedChans, TimeMaps
<1>3. IsFiniteSet(ProvidedChans)
  BY <1>2, ChannelsAssumption, FS_Subset
<1>4. QED
  BY <1>1, <1>3, FS_Subset

\* The times of the map are natural numbers.
LEMMA FilteredIsNat ==
  ASSUME timeMap \in TimeMaps
  PROVE  /\ DOMAIN timeMap \subseteq Nat
         /\ Filtered \subseteq DOMAIN timeMap
         /\ Filtered \subseteq Nat
BY TimesAssumption DEF Filtered, TimeMaps

\* What the loop knows of the part of the iterator it has not consumed: it is
\* what lies after the last accepted timestep.
Unconsumed ==
  /\ pc = "first" => pending = Filtered
  /\ pc = "extend" => pending = {t \in Filtered : t > prev}
  /\ pc = "none" => Filtered = {}

\* Every time before the end is accepted, or lies within the integration of one
\* that is.
NothingSkipped ==
  Ranging =>
    \A t \in DOMAIN timeMap : start <= t /\ t < end =>
      t \in Accepted \/ \E u \in Accepted : u < t /\ t < u + IntTime

IInv == Unconsumed /\ CommonIsContiguous /\ NothingFollows /\ NothingSkipped

-----------------------------------------------------------------------------
\* Type correctness of the loop of determine_common_obs_times_and_chans.
THEOREM TypeCorrect == Spec => []TypeOK
<1>1. Init => TypeOK
  BY DEF Init, TypeOK
<1>2. TypeOK /\ [Next]_vars => TypeOK'
  <2> SUFFICES ASSUME TypeOK, [Next]_vars PROVE TypeOK'
    OBVIOUS
  <2> USE DEF TypeOK
  <2>0. timeMap' = timeMap /\ good' = good
    BY DEF Next, vars, NoneCommon, First, Extend, Break, Exhausted
  <2>1. TimeMaps' = TimeMaps /\ Filtered' = Filtered
    BY <2>0 DEF TimeMaps, Filtered, ProvidedChans
  <2>2. Filtered \subseteq Nat
    BY FilteredIsNat
  <2>3. CASE NoneCommon
    BY <2>0, <2>1, <2>3 DEF NoneCommon
  <2>4. CASE First
    BY <2>0, <2>1, <2>2, <2>4, IntTimeAssumption DEF First
  <2>5. CASE Extend
    BY <2>0, <2>1, <2>2, <2>5, IntTimeAssumption DEF Extend
  <2>6. CASE Break
    BY <2>0, <2>1, <2>6 DEF Break
  <2>7. CASE Exhausted
    BY <2>0, <2>1, <2>7 DEF Exhausted
  <2>8. CASE UNCHANGED vars
    BY <2>0, <2>1, <2>8 DEF vars
  <2>9. QED
    BY <2>3, <2>4, <2>5, <2>6, <2>7, <2>8 DEF Next
<1>3. QED
  BY <1>1, <1>2, PTL DEF Spec

\* The loop invariant holds in every reachable state.
THEOREM LoopInvariant == Spec => []IInv
<1>1. Init => IInv
  BY DEF Init, IInv, Unconsumed, CommonIsContiguous, NothingFollows, NothingSkipped, Ranging
<1>2. TypeOK /\ IInv /\ [Next]_vars => IInv'
  <2> SUFFICES ASSUME TypeOK, IInv, [Next]_vars PROVE IInv'
    OBVIOUS
  <2>0. timeMap' = timeMap /\ good' = good
    BY DEF Next, vars, NoneCommon, First, Extend, Break, Exhausted
  <2>1. ProvidedChans' = ProvidedChans /\ Filtered' = Filtered
    BY <2>0 DEF Filtered, ProvidedChans
  <2>2. /\ timeMap \in TimeMaps
        /\ DOMAIN timeMap \subseteq Nat
        /\ Filtered \subseteq DOMAIN timeMap
        /\ Filtered \subseteq Nat
        /\ start \in Nat /\ prev \in Nat /\ end \in Nat
        /\ IntTime \in Nat \ {0}
    BY FilteredIsNat, IntTimeAssumption DEF TypeOK
  <2>3. \A t \in Filtered : timeMap[t] = ProvidedChans
    BY <2>2, FullCountIsAllChans DEF Filtered
  <2>4. CASE NoneCommon
    BY <2>1, <2>4 DEF NoneCommon, IInv, Unconsumed, CommonIsContiguous,
                      NothingFollows, NothingSkipped, Ranging
  <2>5. CASE First
    <3>1. PICK t \in Filtered : /\ \A u \in Filtered : t <= u
                                /\ pending' = Filtered \ {t}
                                /\ start' = t /\ prev' = t /\ end' = t + IntTime
                                /\ pc' = "extend"
      BY <2>5 DEF First, Yields, IInv, Unconsumed
    <3>2. Accepted' = {t}
      BY <2>1, <2>2, <3>1 DEF Accepted
    <3>3. Unconsumed'
      BY <2>1, <2>2, <3>1 DEF Unconsumed
    <3>4. CommonIsContiguous'
      BY <2>0, <2>1, <2>2, <2>3, <3>1, <3>2 DEF CommonIsContiguous
    <3>5. NothingFollows'
      BY <3>1 DEF NothingFollows
    <3>6. NothingSkipped'
      BY <2>0, <2>1, <2>2, <3>1, <3>2 DEF NothingSkipped
    <3>7. QED
      BY <3>3, <3>4, <3>5, <3>6 DEF IInv
  <2>6. CASE Extend
    <3>1. PICK t \in pending : /\ \A u \in pending : t <= u
                               /\ t = prev + IntTime
                               /\ pending' = pending \ {t}
                               /\ prev' = t /\ end' = t + IntTime
                               /\ start' = start /\ pc' = "extend"
      BY <2>6 DEF Extend, Yields, Follows
    <3>2. /\ pc = "extend" /\ Ranging
          /\ pending = {u \in Filtered : u > prev}
          /\ CommonIsContiguous /\ NothingSkipped
      BY <2>6 DEF Extend, IInv, Unconsumed, Ranging
    <3>3. t \in Filtered /\ Accepted' = Accepted \cup {t}
      BY <2>1, <2>2, <3>1, <3>2 DEF Accepted
    <3>4. Unconsumed'
      BY <2>1, <2>2, <3>1, <3>2 DEF Unconsumed
    <3>5. CommonIsContiguous'
      BY <2>0, <2>1, <2>2, <2>3, <3>1, <3>2, <3>3 DEF CommonIsContiguous, Accepted
    <3>6. NothingFollows'
      BY <3>1 DEF NothingFollows
    <3>7. NothingSkipped'
      BY <2>0, <2>1, <2>2, <3>1, <3>2, <3>3 DEF NothingSkipped, CommonIsContiguous
    <3>8. QED
      BY <3>4, <3>5, <3>6, <3>7 DEF IInv
  <2>7. CASE Break
    <3>1. PICK t \in pending : /\ \A u \in pending : t <= u
                               /\ ~Follows(t)
                               /\ pc' = "some"
                               /\ start' = start /\ prev' = prev /\ end' = end
      BY <2>7 DEF Break, Yields
    <3>2. /\ pc = "extend" /\ Ranging
          /\ pending = {u \in Filtered : u > prev}
          /\ CommonIsContiguous /\ NothingSkipped
      BY <2>7 DEF Break, IInv, Unconsumed, Ranging
    <3>3. t # prev + IntTime
      <4>1. start \in Filtered /\ timeMap[start] = timeMap[t]
        BY <2>3, <3>1, <3>2 DEF CommonIsContiguous, Accepted
      <4>2. QED
        BY <3>1, <4>1 DEF Follows
    <3>4. Accepted' = Accepted
      BY <2>1, <3>1 DEF Accepted
    <3>5. CommonIsContiguous'
      BY <2>0, <2>1, <3>1, <3>2, <3>4 DEF CommonIsContiguous
    <3>6. NothingFollows'
      BY <2>1, <2>2, <3>1, <3>2, <3>3 DEF NothingFollows, CommonIsContiguous
    <3>7. Unconsumed' /\ NothingSkipped'
      BY <2>0, <2>1, <3>1, <3>2, <3>4 DEF Unconsumed, NothingSkipped
    <3>8. QED
      BY <3>5, <3>6, <3>7 DEF IInv
  <2>8. CASE Exhausted
    <3>1. /\ pc = "extend" /\ pc' = "some" /\ Ranging
          /\ start' = start /\ prev' = prev /\ end' = end
          /\ {u \in Filtered : u > prev} = {}
          /\ CommonIsContiguous /\ NothingSkipped
      BY <2>8 DEF Exhausted, IInv, Unconsumed, Ranging
    <3>2. Accepted' = Accepted
      BY <2>1, <3>1 DEF Accepted
    <3>3. CommonIsContiguous'
      BY <2>0, <2>1, <3>1, <3>2 DEF CommonIsContiguous
    <3>4. NothingFollows'
      BY <2>1, <2>2, <3>1 DEF NothingFollows, CommonIsContiguous
    <3>5. Unconsumed' /\ NothingSkipped'
      BY <2>0, <2>1, <3>1, <3>2 DEF Unconsumed, NothingSkipped
    <3>6. QED
      BY <3>3, <3>4, <3>5 DEF IInv
  <2>9. CASE UNCHANGED vars
    <3>1. /\ UNCHANGED <<timeMap, good, pending, start, prev, end, pc>>
          /\ Accepted' = Accepted /\ Ranging' = Ranging
      BY <2>1, <2>9 DEF vars, Accepted, Ranging
    <3>2. Unconsumed' /\ CommonIsContiguous' /\ NothingFollows'
      BY <2>1, <3>1 DEF IInv, Unconsumed, CommonIsContiguous, NothingFollows
    <3>3. NothingSkipped'
      BY <3>1 DEF IInv, NothingSkipped
    <3>4. QED
      BY <3>2, <3>3 DEF IInv
  <2>10. QED
    BY <2>4, <2>5, <2>6, <2>7, <2>8, <2>9 DEF Next
<1>3. QED
  BY <1>1, <1>2, TypeCorrect, PTL DEF Spec

\* The common timesteps have every provided channel and follow each other
\* without a gap.
THEOREM CommonTimesAreContiguous == Spec => []CommonIsContiguous
<1>1. IInv => CommonIsContiguous
  BY DEF IInv
<1>2. QED
  BY <1>1, LoopInvariant, PTL

\* The loop stops only at the end of the data or at a gap, and answers None only
\* when no allowed timestep has every channel.
THEOREM CommonTimesAreMaximal == Spec => []StopsOnlyAtAGap
<1>1. IInv => NothingFollows
  BY DEF IInv
<1>2. TypeOK /\ IInv => NoneIsComplete
  BY DEF TypeOK, IInv, Unconsumed, NoneIsComplete, Filtered
<1>3. TypeOK /\ IInv => StopsOnlyAtAGap
  BY <1>1, <1>2 DEF StopsOnlyAtAGap
<1>4. QED
  BY <1>3, TypeCorrect, LoopInvariant, PTL

\* Of what the caller selects between the start and the end, a timestep that lacks
\* a channel lies within the integration of a common one.
THEOREM SelectionIsComplete == Spec => []SelectedAreComplete
<1>1. IInv => SelectedAreComplete
  BY DEF IInv, NothingSkipped, CommonIsContiguous, SelectedAreComplete, Ranging
<1>2. QED
  BY <1>1, LoopInvariant, PTL

-----------------------------------------------------------------------------
\* With counts compared as the code does, or sets as CommonRange does, the
\* same timesteps are kept.
LEMMA FilteredIsCommonTime ==
  ASSUME timeMap \in TimeMaps
  PROVE  Abstract!CommonTime = Filtered
BY FullCountIsAllChans DEF Filtered, Abstract!CommonTime, ProvidedChans, Abstract!ProvidedChans

\* When the loop stops, its start and last accepted time are a common range.
LEMMA StoppedOnCommonRange ==
  TypeOK /\ IInv /\ pc = "some" => Abstract!IsCommonRange(start, prev)
<1> SUFFICES ASSUME TypeOK, IInv, pc = "some"
             PROVE  Abstract!IsCommonRange(start, prev)
  OBVIOUS
<1>1. /\ CommonIsContiguous /\ NothingFollows /\ Ranging
      /\ Filtered \subseteq Nat /\ Abstract!CommonTime = Filtered
      /\ start \in Nat /\ prev \in Nat /\ IntTime \in Nat \ {0}
  BY FilteredIsNat, FilteredIsCommonTime, IntTimeAssumption DEF TypeOK, IInv, Ranging
<1>2. start \in Filtered /\ prev \in Filtered /\ \A t \in Filtered : start <= t
  BY <1>1 DEF CommonIsContiguous, Accepted
<1>3. Abstract!Contiguous(Accepted)
  BY <1>1 DEF CommonIsContiguous, Abstract!Contiguous, Accepted
<1>4. \/ prev + IntTime \notin Filtered
      \/ \E t \in Filtered : prev < t /\ t < prev + IntTime
  BY <1>1 DEF CommonIsContiguous, NothingFollows
<1>5. QED
  BY <1>1, <1>2, <1>3, <1>4 DEF Abstract!IsCommonRange, Accepted

\* determine_common_obs_times_and_chans answers what CommonRange says.
THEOREM LoopImplementsCommonRange == Spec => ImplementsCommonRange
<1>1. Init => Abstract!Init
  BY DEF Init, Abstract!Init, TimeMaps, Abstract!TimeMaps, answer,
         Abstract!Pending, Abstract!Answer
<1>2. TypeOK /\ IInv /\ TypeOK' /\ IInv' /\ [Next]_vars => [Abstract!Next]_Abstract!rangeVars
  <2> SUFFICES ASSUME TypeOK, IInv, TypeOK', IInv', [Next]_vars
               PROVE  [Abstract!Next]_Abstract!rangeVars
    OBVIOUS
  <2>0. timeMap' = timeMap /\ good' = good
    BY DEF Next, vars, NoneCommon, First, Extend, Break, Exhausted
  <2>1. Filtered' = Filtered /\ ProvidedChans' = ProvidedChans
    BY <2>0 DEF Filtered, ProvidedChans
  <2>2. timeMap \in TimeMaps /\ Abstract!CommonTime = Filtered
    BY FilteredIsCommonTime DEF TypeOK
  <2>3. CASE NoneCommon
    <3>1. answer = Abstract!Pending /\ answer' = Abstract!NoCommon
      BY <2>3 DEF NoneCommon, answer, Abstract!Pending, Abstract!NoCommon, Abstract!Answer
    <3>2. Abstract!CommonTime = {}
      BY <2>2, <2>3 DEF NoneCommon, IInv, Unconsumed
    <3>3. Abstract!AnswerNone
      BY <2>0, <3>1, <3>2 DEF Abstract!AnswerNone
    <3>4. QED
      BY <3>3 DEF Abstract!Next
  <2>4. CASE First \/ Extend
    BY <2>0, <2>4 DEF First, Extend, answer, Abstract!rangeVars
  <2>5. CASE Break \/ Exhausted
    <3>1. /\ pc = "extend" /\ pc' = "some"
          /\ start' = start /\ prev' = prev /\ end' = end
      BY <2>5 DEF Break, Exhausted
    <3>2. /\ start \in Filtered /\ prev \in Filtered /\ end = prev + IntTime
          /\ timeMap[start] = ProvidedChans
      BY <3>1 DEF IInv, CommonIsContiguous, Ranging, Accepted
    <3>3. Abstract!ProvidedChans = ProvidedChans
      BY DEF ProvidedChans, Abstract!ProvidedChans
    <3>4. answer = Abstract!Pending
      BY <3>1 DEF answer, Abstract!Pending, Abstract!Answer
    <3>5. answer' = Abstract!Answer("some", start, prev + IntTime, Abstract!ProvidedChans)
      BY <2>0, <3>1, <3>2, <3>3 DEF answer, Abstract!Answer
    <3>6. Abstract!IsCommonRange(start, prev)
      <4>1. (Abstract!IsCommonRange(start, prev))'
        <5>1. (TypeOK /\ IInv /\ pc = "some")'
          BY <3>1
        <5>2. QED
          BY <5>1, StoppedOnCommonRange, PTL
      <4>2. QED
        BY <2>0, <3>1, <4>1 DEF Abstract!IsCommonRange, Abstract!CommonTime,
                               Abstract!ProvidedChans, Abstract!Contiguous
    <3>7. Abstract!AnswerSome
      BY <2>0, <2>2, <3>2, <3>4, <3>5, <3>6 DEF Abstract!AnswerSome
    <3>8. QED
      BY <3>7 DEF Abstract!Next
  <2>6. CASE UNCHANGED vars
    BY <2>6 DEF vars, answer, Abstract!rangeVars
  <2>7. QED
    BY <2>3, <2>4, <2>5, <2>6 DEF Next
<1>3. QED
  BY <1>1, <1>2, TypeCorrect, LoopInvariant, PTL DEF ImplementsCommonRange, Spec, Abstract!Spec
=============================================================================
