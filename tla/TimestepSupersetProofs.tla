----------------------- MODULE TimestepSupersetProofs ----------------------
(***************************************************************************)
(* Proofs about TimestepSuperset, for every set of times and every         *)
(* duration: the vector holds no time twice, loses no data timestep, spans *)
(* the schedule and has no gap; and what the loops compute is the set that *)
(* the contexts take the timesteps from.                                   *)
(***************************************************************************)
EXTENDS TimestepSuperset, FiniteSetTheorems, TLAPS

\* A finite set of numbers has a least and a greatest element.
LEMMA LeastExists ==
  ASSUME NEW S, S \subseteq Int, IsFiniteSet(S), S # {}
  PROVE  Least(S) \in S /\ \A t \in S : Least(S) <= t
<1> DEFINE Below(t) == {u \in S : u < t}
           F == {Below(t) : t \in S}
<1>1. IsWellFoundedOn(StrictSubsetOrdering(S), SUBSET S)
  BY FS_StrictSubsetOrderingWellFounded, FS_FiniteSubsetsOfFinite
<1>2. F \subseteq SUBSET S /\ F # {}
  OBVIOUS
<1>3. PICK B \in F : \A C \in F : <<C, B>> \notin StrictSubsetOrdering(S)
  BY <1>1, <1>2, WFMin
<1>4. PICK t \in S : B = Below(t)
  BY <1>3
<1>5. ASSUME NEW u \in S, u < t
      PROVE  FALSE
  <2>1. Below(u) \subseteq Below(t)
    <3>1. \A v \in S : v < u => v < t
      BY <1>5
    <3>2. QED
      BY <3>1, Zenon
  <2>2. u \in Below(t) /\ u \notin Below(u)
    BY <1>5
  <2>3. Below(u) \in SUBSET S /\ Below(t) \in SUBSET S /\ Below(u) \in F
    OBVIOUS
  <2>4. <<Below(u), Below(t)>> \in StrictSubsetOrdering(S)
    BY <2>1, <2>2, <2>3 DEF StrictSubsetOrdering
  <2>5. QED
    BY <1>3, <1>4, <2>3, <2>4
<1>6. \A u \in S : t <= u
  BY <1>5
<1>7. QED
  BY <1>6 DEF Least

LEMMA GreatestExists ==
  ASSUME NEW S, S \subseteq Int, IsFiniteSet(S), S # {}
  PROVE  Greatest(S) \in S /\ \A t \in S : t <= Greatest(S)
<1> DEFINE Above(t) == {u \in S : t < u}
           F == {Above(t) : t \in S}
<1>1. IsWellFoundedOn(StrictSubsetOrdering(S), SUBSET S)
  BY FS_StrictSubsetOrderingWellFounded, FS_FiniteSubsetsOfFinite
<1>2. F \subseteq SUBSET S /\ F # {}
  OBVIOUS
<1>3. PICK B \in F : \A C \in F : <<C, B>> \notin StrictSubsetOrdering(S)
  BY <1>1, <1>2, WFMin
<1>4. PICK t \in S : B = Above(t)
  BY <1>3
<1>5. ASSUME NEW u \in S, t < u
      PROVE  FALSE
  <2>1. Above(u) \subseteq Above(t)
    <3>1. \A v \in S : u < v => t < v
      BY <1>5
    <3>2. QED
      BY <3>1, Zenon
  <2>2. u \in Above(t) /\ u \notin Above(u)
    BY <1>5
  <2>3. Above(u) \in SUBSET S /\ Above(t) \in SUBSET S /\ Above(u) \in F
    OBVIOUS
  <2>4. <<Above(u), Above(t)>> \in StrictSubsetOrdering(S)
    BY <2>1, <2>2, <2>3 DEF StrictSubsetOrdering
  <2>5. QED
    BY <1>3, <1>4, <2>3, <2>4
<1>6. \A u \in S : u <= t
  BY <1>5
<1>7. QED
  BY <1>6 DEF Greatest

-----------------------------------------------------------------------------
\* The ends of the data.
LEMMA DataEnds ==
  ASSUME TypeOK
  PROVE  /\ Least(provided) \in provided /\ \A t \in provided : Least(provided) <= t
         /\ Greatest(provided) \in provided /\ \A t \in provided : t <= Greatest(provided)
         /\ provided \subseteq Nat /\ metaFirst \in Nat /\ metaLast \in Nat
         /\ metaFirst >= Duration /\ Duration \in Nat /\ Duration > 0
<1>1. provided \subseteq Nat /\ provided \subseteq Int /\ IsFiniteSet(provided) /\ provided # {}
  BY TimesAssumption DEF TypeOK
<1>2. metaFirst \in Nat /\ metaLast \in Nat /\ metaFirst >= Duration
  BY TimesAssumption DEF TypeOK
<1>3. Least(provided) \in provided /\ \A t \in provided : Least(provided) <= t
  BY <1>1, LeastExists
<1>4. Greatest(provided) \in provided /\ \A t \in provided : t <= Greatest(provided)
  BY <1>1, GreatestExists
<1>5. Duration \in Nat /\ Duration > 0
  BY DurationAssumption
<1>6. QED
  BY <1>1, <1>2, <1>3, <1>4, <1>5

\* A pushed time that is new keeps the length that of the set.
LEMMA PushNew ==
  ASSUME TypeOK, NoTimeTwice, cur \in Nat, cur \notin steps, Push(cur)
  PROVE  /\ steps' \subseteq Nat /\ IsFiniteSet(steps') /\ len' \in Nat
         /\ NoTimeTwice'
BY FS_AddElement DEF TypeOK, NoTimeTwice, Push

-----------------------------------------------------------------------------
\* While going back all the times are after the next to push, the first of them
\* by at most a timestep; then the data still end the vector.
BackInv ==
  /\ pc = "start" => steps = provided
  /\ pc = "back" => /\ \A t \in steps : cur < t
                    /\ \E t \in steps : t <= cur + Duration
  /\ pc \in {"start", "back", "turn"} => \A t \in steps : \E u \in provided : t <= u
  /\ pc \in {"turn", "forward", "sort", "fill", "done"} =>
       \E t \in steps : t < metaFirst + Duration

\* While going forward, the other way round.
ForwardInv ==
  /\ pc = "forward" => /\ \A t \in steps : t < cur
                       /\ \E t \in steps : cur <= t + Duration
  /\ pc \in {"sort", "fill", "done"} => \E t \in steps : metaLast < t + Duration

\* The gap loop has filled what lies before its variable.
FillInv ==
  /\ pc = "fill" =>
       /\ last \in steps /\ \A t \in steps : t <= last
       /\ \E t \in steps : t <= cur
       /\ \A t \in steps : t < cur => \E v \in steps \cup {cur} : t < v /\ v <= t + Duration
  /\ NoGapLeft

IInv == TypeOK /\ NoTimeTwice /\ WithinDataAndSchedule /\ BackInv /\ ForwardInv /\ FillInv

\* The invariant holds at first and is kept by every action.
LEMMA InitIInv == Init => IInv
<1> SUFFICES ASSUME Init PROVE IInv
  OBVIOUS
<1>1. TypeOK
  <2>1. metaFirst \in Nat /\ metaLast \in Nat /\ provided \subseteq Nat
    BY TimesAssumption DEF Init
  <2>2. len \in Nat
    BY FS_CardinalityType DEF Init
  <2>3. QED
    BY <2>1, <2>2 DEF Init, TypeOK
<1>2. NoTimeTwice
  BY DEF Init, NoTimeTwice
<1>3. WithinDataAndSchedule
  BY TimesAssumption DEF Init, WithinDataAndSchedule
<1>4. BackInv
  BY <1>1, DataEnds DEF Init, BackInv
<1>5. ForwardInv /\ FillInv
  BY DEF Init, ForwardInv, FillInv, NoGapLeft
<1>6. QED
  BY <1>1, <1>2, <1>3, <1>4, <1>5 DEF IInv

\* What a step changes apart from the vector: the inputs stay.
LEMMA InputsStay == [Next]_vars => provided' = provided /\ metaFirst' = metaFirst /\ metaLast' = metaLast
BY DEF Next, vars, inputs, StartBack, Back, BackDone, StartForward, Forward, ForwardDone,
       Sort, Fill, FillDone

\* A step that leaves the vector alone keeps what does not mention the loops.
LEMMA VectorStays ==
  ASSUME IInv, [Next]_vars, UNCHANGED <<steps, len>>, cur' \in Int, last' \in Nat,
         pc' \in {"start", "back", "turn", "forward", "sort", "fill", "done"}
  PROVE  TypeOK' /\ NoTimeTwice' /\ WithinDataAndSchedule'
<1>1. provided' = provided /\ metaFirst' = metaFirst /\ metaLast' = metaLast
  BY InputsStay
<1>2. QED
  BY <1>1 DEF IInv, TypeOK, NoTimeTwice, WithinDataAndSchedule

LEMMA StartBackIInv == IInv /\ StartBack => IInv'
<1> SUFFICES ASSUME IInv, StartBack PROVE IInv'
  OBVIOUS
<1> DEFINE lo == Least(provided)
<1>1. /\ provided' = provided /\ metaFirst' = metaFirst /\ metaLast' = metaLast
      /\ steps' = steps /\ len' = len /\ last' = last /\ pc = "start"
  BY DEF StartBack, inputs
<1>2. \/ lo > metaFirst /\ cur' = lo - Duration /\ pc' = "back"
      \/ ~(lo > metaFirst) /\ cur' = cur /\ pc' = "turn"
  BY DEF StartBack
<1>3. /\ lo \in provided /\ \A t \in provided : lo <= t
      /\ provided \subseteq Nat /\ metaFirst \in Nat /\ Duration \in Nat /\ Duration > 0
  BY DataEnds DEF IInv
<1> HIDE DEF lo
<1>4. steps = provided /\ cur \in Int /\ last \in Nat
  BY <1>1 DEF IInv, BackInv, TypeOK
<1>5. TypeOK' /\ NoTimeTwice' /\ WithinDataAndSchedule'
  <2>1. cur' \in Int /\ pc' \in {"back", "turn"} /\ last' \in Nat
    BY <1>1, <1>2, <1>3, <1>4
  <2>2. QED
    BY <1>1, <2>1, VectorStays DEF Next
<1>6. BackInv'
  <2>1. \A t \in steps : \E u \in provided : t <= u
    BY <1>3, <1>4
  <2>2. pc' = "back" => (\A t \in steps : cur' < t) /\ \E t \in steps : t <= cur' + Duration
    BY <1>2, <1>3, <1>4
  <2>3. pc' = "turn" => \E t \in steps : t < metaFirst + Duration
    BY <1>2, <1>3, <1>4
  <2>4. QED
    BY <1>1, <1>2, <2>1, <2>2, <2>3 DEF BackInv
<1>7. ForwardInv' /\ FillInv'
  BY <1>2 DEF ForwardInv, FillInv, NoGapLeft
<1>8. QED
  BY <1>5, <1>6, <1>7 DEF IInv

LEMMA BackIInv == IInv /\ Back => IInv'
<1> SUFFICES ASSUME IInv, Back PROVE IInv'
  OBVIOUS
<1>1. /\ provided' = provided /\ metaFirst' = metaFirst /\ metaLast' = metaLast
      /\ last' = last /\ pc = "back" /\ pc' = "back"
      /\ cur >= metaFirst /\ cur' = cur - Duration
      /\ steps' = steps \cup {cur} /\ Push(cur)
  BY DEF Back, inputs, Push
<1>2. /\ provided \subseteq Nat /\ metaFirst \in Nat /\ metaLast \in Nat
      /\ metaFirst >= Duration /\ Duration \in Nat /\ Duration > 0
  BY DataEnds DEF IInv
<1>3. /\ cur \in Nat /\ cur \notin steps
      /\ \A t \in steps : cur < t
      /\ \A t \in steps : \E u \in provided : t <= u
      /\ steps \subseteq Nat /\ provided \subseteq steps /\ provided # {}
  BY <1>1, <1>2 DEF IInv, BackInv, TypeOK, WithinDataAndSchedule
<1>4. \E u \in provided : cur <= u
  <2>1. PICK u \in provided : u \in steps
    BY <1>3
  <2>2. cur < u /\ u \in Nat
    BY <1>3, <2>1
  <2>3. QED
    BY <1>3, <2>1, <2>2
<1>5. TypeOK' /\ NoTimeTwice' /\ WithinDataAndSchedule'
  <2>1. steps' \subseteq Nat /\ IsFiniteSet(steps') /\ len' \in Nat /\ NoTimeTwice'
    BY <1>1, <1>3, PushNew DEF IInv
  <2>2. TypeOK'
    BY <1>1, <1>2, <1>3, <2>1 DEF IInv, TypeOK
  <2>3. WithinDataAndSchedule'
    BY <1>1, <1>2, <1>4 DEF IInv, WithinDataAndSchedule
  <2>4. QED
    BY <2>1, <2>2, <2>3
<1>6. BackInv'
  <2>1. \A t \in steps' : cur' < t
    BY <1>1, <1>2, <1>3
  <2>2. cur \in steps' /\ cur <= cur' + Duration
    BY <1>1, <1>2, <1>3
  <2>3. \A t \in steps' : \E u \in provided : t <= u
    BY <1>1, <1>3, <1>4
  <2>4. QED
    BY <1>1, <2>1, <2>2, <2>3 DEF BackInv
<1>7. ForwardInv' /\ FillInv'
  BY <1>1 DEF ForwardInv, FillInv, NoGapLeft
<1>8. QED
  BY <1>5, <1>6, <1>7 DEF IInv

LEMMA BackDoneIInv == IInv /\ BackDone => IInv'
<1> SUFFICES ASSUME IInv, BackDone PROVE IInv'
  OBVIOUS
<1>1. /\ provided' = provided /\ metaFirst' = metaFirst /\ metaLast' = metaLast
      /\ steps' = steps /\ len' = len /\ cur' = cur /\ last' = last
      /\ pc = "back" /\ pc' = "turn" /\ cur < metaFirst
  BY DEF BackDone, inputs
<1>2. cur \in Int /\ last \in Nat /\ metaFirst \in Nat /\ Duration \in Nat /\ steps \subseteq Nat
  BY DataEnds DEF IInv, TypeOK
<1>3. TypeOK' /\ NoTimeTwice' /\ WithinDataAndSchedule'
  BY <1>1, <1>2, VectorStays DEF Next
<1>4. BackInv'
  <2>1. PICK t \in steps : t <= cur + Duration
    BY <1>1 DEF IInv, BackInv
  <2>2. t < metaFirst + Duration
    BY <1>1, <1>2, <2>1
  <2>3. QED
    BY <1>1, <2>2 DEF IInv, BackInv
<1>5. ForwardInv' /\ FillInv'
  BY <1>1 DEF ForwardInv, FillInv, NoGapLeft
<1>6. QED
  BY <1>3, <1>4, <1>5 DEF IInv

LEMMA StartForwardIInv == IInv /\ StartForward => IInv'
<1> SUFFICES ASSUME IInv, StartForward PROVE IInv'
  OBVIOUS
<1> DEFINE hi == Greatest(provided)
<1>1. /\ provided' = provided /\ metaFirst' = metaFirst /\ metaLast' = metaLast
      /\ steps' = steps /\ len' = len /\ last' = last /\ pc = "turn"
  BY DEF StartForward, inputs
<1>2. \/ hi < metaLast /\ cur' = hi + Duration /\ pc' = "forward"
      \/ ~(hi < metaLast) /\ cur' = cur /\ pc' = "sort"
  BY DEF StartForward
<1>3. /\ hi \in provided /\ \A t \in provided : t <= hi
      /\ provided \subseteq Nat /\ metaLast \in Nat /\ Duration \in Nat /\ Duration > 0
  BY DataEnds DEF IInv
<1> HIDE DEF hi
<1>4. /\ cur \in Int /\ last \in Nat /\ steps \subseteq Nat /\ provided \subseteq steps
      /\ \A t \in steps : \E u \in provided : t <= u
  BY <1>1 DEF IInv, BackInv, TypeOK, WithinDataAndSchedule
<1>5. TypeOK' /\ NoTimeTwice' /\ WithinDataAndSchedule'
  <2>1. cur' \in Int /\ pc' \in {"forward", "sort"} /\ last' \in Nat
    BY <1>1, <1>2, <1>3, <1>4
  <2>2. QED
    BY <1>1, <2>1, VectorStays DEF Next
<1>6. BackInv'
  BY <1>1, <1>2 DEF IInv, BackInv
<1>7. ForwardInv'
  <2>1. hi \in steps /\ hi \in Nat /\ \A t \in steps : t <= hi
    BY <1>3, <1>4
  <2>2. pc' = "forward" => (\A t \in steps : t < cur') /\ \E t \in steps : cur' <= t + Duration
    BY <1>2, <1>3, <1>4, <2>1
  <2>3. pc' = "sort" => \E t \in steps : metaLast < t + Duration
    BY <1>2, <1>3, <2>1
  <2>4. QED
    BY <1>1, <1>2, <2>2, <2>3 DEF ForwardInv
<1>8. FillInv'
  BY <1>2 DEF FillInv, NoGapLeft
<1>9. QED
  BY <1>5, <1>6, <1>7, <1>8 DEF IInv

LEMMA ForwardIInv == IInv /\ Forward => IInv'
<1> SUFFICES ASSUME IInv, Forward PROVE IInv'
  OBVIOUS
<1>1. /\ provided' = provided /\ metaFirst' = metaFirst /\ metaLast' = metaLast
      /\ last' = last /\ pc = "forward" /\ pc' = "forward"
      /\ cur <= metaLast /\ cur' = cur + Duration
      /\ steps' = steps \cup {cur} /\ Push(cur)
  BY DEF Forward, inputs, Push
<1>2. /\ provided \subseteq Nat /\ provided # {} /\ metaLast \in Nat
      /\ Duration \in Nat /\ Duration > 0
  BY DataEnds DEF IInv, TypeOK
<1>3. /\ cur \in Int /\ \A t \in steps : t < cur
      /\ steps \subseteq Nat /\ provided \subseteq steps
  BY <1>1 DEF IInv, ForwardInv, TypeOK, WithinDataAndSchedule
<1>4. /\ \E u \in provided : u <= cur
      /\ cur \in Nat /\ cur \notin steps
  <2>1. PICK u \in provided : u \in steps
    BY <1>2, <1>3
  <2>2. u < cur /\ u \in Nat
    BY <1>3, <2>1
  <2>3. cur \notin steps
    BY <1>3
  <2>4. QED
    BY <1>3, <2>1, <2>2, <2>3
<1>5. TypeOK' /\ NoTimeTwice' /\ WithinDataAndSchedule'
  <2>1. steps' \subseteq Nat /\ IsFiniteSet(steps') /\ len' \in Nat /\ NoTimeTwice'
    BY <1>1, <1>4, PushNew DEF IInv
  <2>2. TypeOK'
    BY <1>1, <1>2, <1>3, <2>1 DEF IInv, TypeOK
  <2>3. WithinDataAndSchedule'
    BY <1>1, <1>2, <1>4 DEF IInv, WithinDataAndSchedule
  <2>4. QED
    BY <2>1, <2>2, <2>3
<1>6. BackInv'
  BY <1>1 DEF IInv, BackInv
<1>7. ForwardInv'
  <2>1. \A t \in steps' : t < cur'
    BY <1>1, <1>2, <1>3
  <2>2. cur \in steps' /\ cur' <= cur + Duration
    BY <1>1, <1>2, <1>3
  <2>3. QED
    BY <1>1, <2>1, <2>2 DEF ForwardInv
<1>8. FillInv'
  BY <1>1 DEF FillInv, NoGapLeft
<1>9. QED
  BY <1>5, <1>6, <1>7, <1>8 DEF IInv

LEMMA ForwardDoneIInv == IInv /\ ForwardDone => IInv'
<1> SUFFICES ASSUME IInv, ForwardDone PROVE IInv'
  OBVIOUS
<1>1. /\ provided' = provided /\ metaFirst' = metaFirst /\ metaLast' = metaLast
      /\ steps' = steps /\ len' = len /\ cur' = cur /\ last' = last
      /\ pc = "forward" /\ pc' = "sort" /\ cur > metaLast
  BY DEF ForwardDone, inputs
<1>2. cur \in Int /\ last \in Nat /\ metaLast \in Nat /\ Duration \in Nat /\ steps \subseteq Nat
  BY DataEnds DEF IInv, TypeOK
<1>3. TypeOK' /\ NoTimeTwice' /\ WithinDataAndSchedule'
  BY <1>1, <1>2, VectorStays DEF Next
<1>4. BackInv'
  BY <1>1 DEF IInv, BackInv
<1>5. ForwardInv'
  <2>1. PICK t \in steps : cur <= t + Duration
    BY <1>1 DEF IInv, ForwardInv
  <2>2. metaLast < t + Duration
    BY <1>1, <1>2, <2>1
  <2>3. QED
    BY <1>1, <2>2 DEF ForwardInv
<1>6. FillInv'
  BY <1>1 DEF FillInv, NoGapLeft
<1>7. QED
  BY <1>3, <1>4, <1>5, <1>6 DEF IInv

LEMMA SortIInv == IInv /\ Sort => IInv'
<1> SUFFICES ASSUME IInv, Sort PROVE IInv'
  OBVIOUS
<1> DEFINE lo == Least(steps)
           hi == Greatest(steps)
<1>1. /\ provided' = provided /\ metaFirst' = metaFirst /\ metaLast' = metaLast
      /\ steps' = steps /\ len' = len /\ pc = "sort" /\ pc' = "fill"
      /\ cur' = lo /\ last' = hi
  BY DEF Sort, inputs
<1>2. steps \subseteq Nat /\ steps \subseteq Int /\ IsFiniteSet(steps) /\ steps # {}
  <2>1. steps \subseteq Nat /\ IsFiniteSet(steps) /\ provided # {} /\ provided \subseteq steps
    BY DEF IInv, TypeOK, WithinDataAndSchedule
  <2>2. steps # {}
    BY <2>1, Zenon
  <2>3. steps \subseteq Int
    BY <2>1
  <2>4. QED
    BY <2>1, <2>2, <2>3, Zenon
<1>3. lo \in steps /\ \A t \in steps : lo <= t
  BY <1>2, LeastExists
<1>4. hi \in steps /\ \A t \in steps : t <= hi
  BY <1>2, GreatestExists
<1> HIDE DEF lo, hi
<1>5. TypeOK' /\ NoTimeTwice' /\ WithinDataAndSchedule'
  <2>1. cur' \in Int /\ last' \in Nat
    BY <1>1, <1>2, <1>3, <1>4
  <2>2. QED
    BY <1>1, <2>1, VectorStays DEF Next
<1>6. BackInv' /\ ForwardInv'
  BY <1>1 DEF IInv, BackInv, ForwardInv
<1>7. FillInv'
  <2>1. \A t \in steps : ~(t < lo)
    BY <1>2, <1>3
  <2>2. lo <= lo
    BY <1>2, <1>3
  <2>3. QED
    BY <1>1, <1>3, <1>4, <2>1, <2>2 DEF FillInv, NoGapLeft
<1>8. QED
  BY <1>5, <1>6, <1>7 DEF IInv

LEMMA FillIInv == IInv /\ Fill => IInv'
<1> SUFFICES ASSUME IInv, Fill PROVE IInv'
  OBVIOUS
<1>1. /\ provided' = provided /\ metaFirst' = metaFirst /\ metaLast' = metaLast
      /\ last' = last /\ pc = "fill" /\ pc' = "fill"
      /\ cur < last /\ cur' = cur + Duration
      /\ \/ cur \in steps /\ steps' = steps /\ len' = len
         \/ cur \notin steps /\ Push(cur)
  BY DEF Fill, inputs
<1>2. steps' = steps \cup {cur}
  BY <1>1 DEF Push
<1>3. /\ last \in steps /\ \A t \in steps : t <= last
      /\ \A t \in steps : t < cur => \E v \in steps \cup {cur} : t < v /\ v <= t + Duration
  BY <1>1 DEF IInv, FillInv
<1>4. /\ steps \subseteq Nat /\ cur \in Int /\ provided \subseteq Nat
      /\ metaFirst \in Nat /\ metaLast \in Nat /\ Duration \in Nat /\ Duration > 0
  BY DataEnds DEF IInv, TypeOK
<1>5. PICK t0 \in steps : t0 <= cur
  BY <1>1 DEF IInv, FillInv
<1>6. cur \in Nat
  BY <1>4, <1>5
<1>7. TypeOK' /\ NoTimeTwice'
  <2>1. steps' \subseteq Nat /\ IsFiniteSet(steps') /\ len' \in Nat /\ NoTimeTwice'
    <3>1. CASE cur \in steps
      BY <1>1, <3>1 DEF IInv, TypeOK, NoTimeTwice
    <3>2. CASE cur \notin steps
      BY <1>1, <1>6, <3>2, PushNew DEF IInv
    <3>3. QED
      BY <3>1, <3>2
  <2>2. QED
    BY <1>1, <1>4, <2>1 DEF IInv, TypeOK
<1>8. WithinDataAndSchedule'
  <2>1. metaFirst <= cur \/ \E u \in provided : u <= cur
    BY <1>4, <1>5, <1>6 DEF IInv, WithinDataAndSchedule
  <2>2. cur <= metaLast \/ \E u \in provided : cur <= u
    BY <1>1, <1>3, <1>4, <1>6 DEF IInv, WithinDataAndSchedule
  <2>3. QED
    BY <1>1, <1>2, <2>1, <2>2 DEF IInv, WithinDataAndSchedule
<1>9. BackInv' /\ ForwardInv'
  BY <1>1, <1>2 DEF IInv, BackInv, ForwardInv
<1>10. FillInv'
  <2>1. last' \in steps' /\ \A t \in steps' : t <= last'
    <3>1. last' = last /\ cur < last
      BY <1>1
    <3>2. last \in steps' /\ \A t \in steps : t <= last
      BY <1>2, <1>3
    <3>3. cur <= last
      BY <1>3, <1>4, <1>6, <3>1
    <3>4. \A t \in steps' : t <= last
      BY <1>2, <3>2, <3>3
    <3>5. QED
      BY <3>1, <3>2, <3>4
  <2>2. cur \in steps' /\ cur <= cur'
    <3>1. cur \in steps'
      BY <1>2
    <3>2. cur' = cur + Duration
      BY <1>1
    <3>3. cur <= cur'
      BY <1>4, <1>6, <3>2
    <3>4. QED
      BY <3>1, <3>3
  <2>3. ASSUME NEW t \in steps', t < cur'
        PROVE  \E v \in steps' \cup {cur'} : t < v /\ v <= t + Duration
    <3>1. t \in Nat
      BY <1>2, <1>4, <1>6
    <3>2. CASE t < cur
      <4>1. t \in steps
        BY <1>2, <1>6, <3>1, <3>2
      <4>2. PICK v \in steps \cup {cur} : t < v /\ v <= t + Duration
        BY <1>3, <3>2, <4>1
      <4>3. v \in steps'
        BY <1>2
      <4>4. QED
        BY <4>2, <4>3
    <3>3. CASE t >= cur
      <4>1. cur' <= t + Duration
        BY <1>1, <1>4, <1>6, <3>1, <3>3
      <4>2. QED
        BY <2>3, <4>1
    <3>4. QED
      BY <1>4, <3>1, <3>2, <3>3
  <2>4. QED
    BY <1>1, <2>1, <2>2, <2>3 DEF FillInv, NoGapLeft
<1>11. QED
  BY <1>7, <1>8, <1>9, <1>10 DEF IInv

LEMMA FillDoneIInv == IInv /\ FillDone => IInv'
<1> SUFFICES ASSUME IInv, FillDone PROVE IInv'
  OBVIOUS
<1>1. /\ provided' = provided /\ metaFirst' = metaFirst /\ metaLast' = metaLast
      /\ steps' = steps /\ len' = len /\ cur' = cur /\ last' = last
      /\ pc = "fill" /\ pc' = "done" /\ cur >= last
  BY DEF FillDone, inputs
<1>2. /\ cur \in Int /\ last \in Nat /\ Duration \in Nat /\ steps \subseteq Nat
      /\ \A t \in steps : t <= last
      /\ \A t \in steps : t < cur => \E v \in steps \cup {cur} : t < v /\ v <= t + Duration
  BY <1>1, DataEnds DEF IInv, TypeOK, FillInv
<1>3. TypeOK' /\ NoTimeTwice' /\ WithinDataAndSchedule'
  BY <1>1, <1>2, VectorStays DEF Next
<1>4. BackInv' /\ ForwardInv'
  BY <1>1 DEF IInv, BackInv, ForwardInv
<1>5. FillInv'
  <2>1. ASSUME NEW t \in steps, NEW u \in steps, t < u
        PROVE  \E v \in steps : t < v /\ v <= t + Duration
    <3>1. t \in Nat /\ u \in Nat /\ u <= cur /\ t < cur
      BY <1>1, <1>2, <2>1
    <3>2. PICK v \in steps \cup {cur} : t < v /\ v <= t + Duration
      BY <1>2, <3>1
    <3>3. CASE v \in steps
      BY <3>2, <3>3
    <3>4. CASE v = cur
      BY <1>2, <2>1, <3>1, <3>2, <3>4
    <3>5. QED
      BY <3>2, <3>3, <3>4
  <2>2. NoGapLeft'
    BY <1>1, <2>1 DEF NoGapLeft
  <2>3. QED
    BY <1>1, <2>2 DEF FillInv
<1>6. QED
  BY <1>3, <1>4, <1>5 DEF IInv

LEMMA NextIInv == IInv /\ [Next]_vars => IInv'
<1> SUFFICES ASSUME IInv, [Next]_vars PROVE IInv'
  OBVIOUS
<1>1. CASE UNCHANGED vars
  BY <1>1 DEF vars, IInv, TypeOK, NoTimeTwice, WithinDataAndSchedule, BackInv, ForwardInv,
              FillInv, NoGapLeft
<1>2. CASE Next
  BY <1>2, StartBackIInv, BackIInv, BackDoneIInv, StartForwardIInv, ForwardIInv,
     ForwardDoneIInv, SortIInv, FillIInv, FillDoneIInv DEF Next
<1>3. QED
  BY <1>1, <1>2

\* The invariant of the three loops.
THEOREM LoopInvariant == Spec => []IInv
BY InitIInv, NextIInv, PTL DEF Spec

-----------------------------------------------------------------------------
\* The variables keep their types: the subtractions of the backward loop stay
\* among the unsigned times as long as a step is shorter than a unix time.
THEOREM TypeCorrect == Spec => []TypeOK
<1>1. IInv => TypeOK
  BY DEF IInv
<1>2. QED
  BY <1>1, LoopInvariant, PTL

\* The vector never holds two timesteps of one time, so position() and the
\* binary relation between index and time are unambiguous.
THEOREM TimesAreDistinct == Spec => []NoTimeTwice
<1>1. IInv => NoTimeTwice
  BY DEF IInv
<1>2. QED
  BY <1>1, LoopInvariant, PTL

\* Every data timestep is in the vector, which makes the unwrap in
\* populate_provided_timesteps safe, and none lies outside data and schedule.
THEOREM DataAreKept == Spec => []WithinDataAndSchedule
<1>1. IInv => WithinDataAndSchedule
  BY DEF IInv
<1>2. QED
  BY <1>1, LoopInvariant, PTL

\* The result reaches both ends of the schedule, to less than a timestep.
THEOREM ScheduleIsSpanned == Spec => []SpansSchedule
<1>1. IInv => SpansSchedule
  BY DEF IInv, BackInv, ForwardInv, SpansSchedule
<1>2. QED
  BY <1>1, LoopInvariant, PTL

\* The result has no gap: consecutive timesteps are at most a timestep apart,
\* whatever the offset of the data from the schedule.
THEOREM GapsAreFilled == Spec => []NoGapLeft
<1>1. IInv => NoGapLeft
  BY DEF IInv, FillInv
<1>2. QED
  BY <1>1, LoopInvariant, PTL

\* The list of timesteps is a set of times that holds the data and stays within
\* data and schedule, and what the function returns spans the schedule without a
\* gap.
THEOREM TimesAreSound == Spec => []TimestepsAreSound
<1>1. NoTimeTwice /\ WithinDataAndSchedule /\ SpansSchedule /\ NoGapLeft => TimestepsAreSound
  BY DEF TimestepsAreSound
<1>2. QED
  BY <1>1, TimesAreDistinct, DataAreKept, ScheduleIsSpanned, GapsAreFilled, PTL

-----------------------------------------------------------------------------
\* The set that the loops compute, as far as each has come.

Lo == Least(provided)
Hi == Greatest(provided)
Before == OnGrid(Lo, metaFirst, Lo, Duration)
After == OnGrid(Hi, Hi, metaLast, Duration)
All == Extended(provided, metaFirst, metaLast, Duration)
Between == OnGrid(Least(All), Least(All), Greatest(All), Duration)

GridInv ==
  /\ pc = "start" => steps = provided
  /\ pc = "back" => /\ (cur - Lo) % Duration = 0 /\ cur < Lo
                    /\ steps = provided \cup {u \in Before : cur < u}
  /\ pc = "turn" => steps = provided \cup Before
  /\ pc = "forward" => /\ (cur - Hi) % Duration = 0 /\ Hi < cur
                       /\ steps = provided \cup Before \cup {u \in After : u < cur}
  /\ pc = "sort" => steps = All
  /\ pc = "fill" => /\ (cur - Least(All)) % Duration = 0 /\ Least(All) <= cur /\ Least(All) \in Int
                    /\ steps = All \cup {u \in Between : u < cur}
                    /\ last = Greatest(All) /\ last \in All
  /\ pc = "done" => steps = All \cup Between

\* Multiples of d: the next, the one before, and that none lies between.
LEMMA Multiples ==
  ASSUME NEW d \in Nat \ {0}, NEW x \in Int, x % d = 0
  PROVE  /\ (x + d) % d = 0 /\ (x - d) % d = 0
         /\ \A y \in Int : y % d = 0 /\ x < y => x + d <= y
<1> DEFINE k == x \div d
<1>1. x = k * d /\ k \in Int
  OBVIOUS
<1> HIDE DEF k
<1>2. ASSUME NEW j \in Int
      PROVE  (j * d) % d = 0
  OBVIOUS
<1>3. x + d = (k + 1) * d /\ x - d = (k - 1) * d
  BY <1>1
<1>4. (x + d) % d = 0 /\ (x - d) % d = 0
  <2>1. k + 1 \in Int /\ k - 1 \in Int
    BY <1>1
  <2>2. ((k + 1) * d) % d = 0 /\ ((k - 1) * d) % d = 0
    BY <1>2, <2>1
  <2>3. QED
    BY <1>3, <2>2
<1>5. ASSUME NEW y \in Int, y % d = 0, x < y
      PROVE  x + d <= y
  <2> DEFINE j == y \div d
  <2>1. y = j * d /\ j \in Int
    BY <1>5
  <2> HIDE DEF j
  <2>2. k < j
    <3>1. CASE j <= k
      <4>1. j * d <= k * d
        BY <1>1, <2>1, <3>1
      <4>2. QED
        BY <1>1, <1>5, <2>1, <4>1
    <3>2. QED
      BY <1>1, <2>1, <3>1
  <2>3. (k + 1) * d <= j * d
    BY <1>1, <2>1, <2>2
  <2>4. QED
    BY <1>3, <2>1, <2>3
<1>6. QED
  BY <1>4, <1>5

\* On the grid of t the times above one of them are those above it by a timestep
\* or more, and so below.
LEMMA GridSteps ==
  ASSUME NEW t \in Int, NEW lo \in Int, NEW hi \in Int, NEW d \in Nat \ {0},
         NEW c \in Int, (c - t) % d = 0
  PROVE  /\ (c + d - t) % d = 0 /\ (c - d - t) % d = 0
         /\ \A u \in OnGrid(t, lo, hi, d) :
              u \in lo .. hi /\ (c - d < u => c <= u) /\ (u < c + d => u <= c)
         /\ c \in lo .. hi => c \in OnGrid(t, lo, hi, d)
<1>1. c - t \in Int /\ (c - t + d) % d = 0 /\ (c - t - d) % d = 0
  <2> DEFINE x == c - t
  <2>1. x \in Int /\ x % d = 0
    OBVIOUS
  <2> HIDE DEF x
  <2>2. (x + d) % d = 0 /\ (x - d) % d = 0
    BY <2>1, Multiples
  <2>3. QED
    BY <2>1, <2>2 DEF x
<1>2. c - t + d = c + d - t /\ c - t - d = c - d - t
  OBVIOUS
<1>3. ASSUME NEW u \in OnGrid(t, lo, hi, d)
      PROVE  u \in lo .. hi /\ (c - d < u => c <= u) /\ (u < c + d => u <= c)
  <2>1. u \in lo .. hi /\ (u - t) % d = 0 /\ u - t \in Int /\ u \in Int
    BY DEF OnGrid
  <2>2. c - t < u - t => c - t + d <= u - t
    BY <1>1, <2>1, Multiples
  <2>3. u - t < c - t => u - t + d <= c - t
    BY <1>1, <2>1, Multiples
  <2>4. QED
    BY <2>1, <2>2, <2>3
<1>4. c \in lo .. hi => c \in OnGrid(t, lo, hi, d)
  BY DEF OnGrid
<1>5. QED
  BY <1>1, <1>2, <1>3, <1>4

\* What the sets are made of.
LEMMA Sets ==
  ASSUME TypeOK
  PROVE  /\ Duration \in Nat \ {0} /\ Lo \in provided /\ Hi \in provided /\ provided \subseteq Int
         /\ Lo \in Int /\ Hi \in Int /\ metaFirst \in Int /\ metaLast \in Int
         /\ \A u \in Before : u \in Int /\ metaFirst <= u /\ u <= Lo
         /\ \A u \in After : u \in Int /\ Hi <= u /\ u <= metaLast
         /\ All = provided \cup Before \cup After
         /\ steps \subseteq Int /\ IsFiniteSet(steps) /\ cur \in Int
<1>1. /\ Lo \in provided /\ Hi \in provided /\ provided \subseteq Int
      /\ metaFirst \in Int /\ metaLast \in Int /\ Duration \in Nat \ {0}
  BY DataEnds DEF Lo, Hi
<1>2. Lo \in Int /\ Hi \in Int
  BY <1>1
<1>3. /\ \A u \in Before : u \in Int /\ metaFirst <= u /\ u <= Lo
      /\ \A u \in After : u \in Int /\ Hi <= u /\ u <= metaLast
  BY <1>1, <1>2 DEF Before, After, OnGrid
<1>4. All = provided \cup Before \cup After
  BY DEF All, Extended, Before, After, Lo, Hi
<1>5. QED
  BY <1>1, <1>2, <1>3, <1>4 DEF TypeOK

LEMMA GridStart == Init => GridInv
BY DEF Init, GridInv

LEMMA SetsStay ==
  ASSUME [Next]_vars
  PROVE  Lo' = Lo /\ Hi' = Hi /\ Before' = Before /\ After' = After /\ All' = All /\ Between' = Between
         /\ Least(All)' = Least(All) /\ Greatest(All)' = Greatest(All)
<1>1. provided' = provided /\ metaFirst' = metaFirst /\ metaLast' = metaLast
  BY InputsStay
<1>2. Lo' = Lo /\ Hi' = Hi
  BY <1>1 DEF Lo, Hi
<1>3. Before' = Before /\ After' = After /\ All' = All
  BY <1>1, <1>2 DEF Before, After, All
<1>4. QED
  BY <1>1, <1>2, <1>3 DEF Between

LEMMA GridNext == IInv /\ GridInv /\ [Next]_vars => GridInv'
<1> SUFFICES ASSUME IInv, GridInv, [Next]_vars
             PROVE  GridInv'
  OBVIOUS
<1> DEFINE d == Duration
<1>1. /\ d \in Nat \ {0} /\ Lo \in provided /\ Hi \in provided /\ provided \subseteq Int
      /\ Lo \in Int /\ Hi \in Int /\ metaFirst \in Int /\ metaLast \in Int
      /\ \A u \in Before : u \in Int /\ metaFirst <= u /\ u <= Lo
      /\ \A u \in After : u \in Int /\ Hi <= u /\ u <= metaLast
      /\ All = provided \cup Before \cup After
      /\ steps \subseteq Int /\ IsFiniteSet(steps) /\ cur \in Int
  BY Sets DEF IInv
<1>2. /\ provided' = provided /\ metaFirst' = metaFirst /\ metaLast' = metaLast
      /\ Lo' = Lo /\ Hi' = Hi /\ Before' = Before /\ After' = After /\ All' = All /\ Between' = Between
      /\ Least(All)' = Least(All) /\ Greatest(All)' = Greatest(All)
  BY InputsStay, SetsStay
<1>3. CASE UNCHANGED vars
  BY <1>2, <1>3 DEF vars, GridInv
<1>4. CASE StartBack
  <2>1. steps = provided /\ steps' = provided
    BY <1>4 DEF StartBack, GridInv
  <2>2. CASE Lo > metaFirst
    <3>1. cur' = Lo - d /\ pc' = "back"
      BY <1>4, <2>2 DEF StartBack, Lo
    <3>2. (Lo - Lo) % d = 0
      BY <1>1
    <3>3. (Lo - d - Lo) % d = 0 /\ \A u \in Before : Lo - d < u => Lo <= u
      BY <1>1, <3>2, GridSteps DEF Before
    <3>4. {u \in Before : cur' < u} \subseteq {Lo}
      BY <1>1, <3>1, <3>3
    <3>5. cur' < Lo
      BY <1>1, <3>1
    <3>6. QED
      BY <1>1, <1>2, <2>1, <3>1, <3>3, <3>4, <3>5 DEF GridInv
  <2>3. CASE ~(Lo > metaFirst)
    <3>1. pc' = "turn"
      BY <1>4, <2>3 DEF StartBack, Lo
    <3>2. Before \subseteq {Lo}
      BY <1>1, <2>3
    <3>3. QED
      BY <1>1, <1>2, <2>1, <3>1, <3>2 DEF GridInv
  <2>4. QED
    BY <2>2, <2>3
<1>5. CASE Back
  <2>1. /\ pc = "back" /\ pc' = "back" /\ cur >= metaFirst /\ steps' = steps \cup {cur}
        /\ cur' = cur - d
    BY <1>5 DEF Back, Push
  <2>2. (cur - Lo) % d = 0 /\ cur < Lo /\ steps = provided \cup {u \in Before : cur < u}
    BY <2>1 DEF GridInv
  <2>3. /\ (cur - d - Lo) % d = 0 /\ cur \in Before
        /\ \A u \in Before : cur - d < u => cur <= u
    <3>1. cur \in metaFirst .. Lo
      BY <1>1, <2>1, <2>2
    <3>2. QED
      BY <1>1, <2>2, <3>1, GridSteps DEF Before
  <2>4. {u \in Before : cur - d < u} = {u \in Before : cur < u} \cup {cur}
    <3>1. cur - d < cur
      BY <1>1
    <3>2. \A u \in Before : cur - d < u <=> cur < u \/ u = cur
      BY <1>1, <2>3, <3>1
    <3>3. QED
      BY <2>3, <3>2
  <2>5. cur' < Lo
    BY <1>1, <2>1, <2>2
  <2>6. QED
    BY <1>2, <2>1, <2>2, <2>3, <2>4, <2>5 DEF GridInv
<1>6. CASE BackDone
  <2>1. pc = "back" /\ pc' = "turn" /\ cur < metaFirst /\ steps' = steps
    BY <1>6 DEF BackDone
  <2>2. steps = provided \cup {u \in Before : cur < u}
    BY <2>1 DEF GridInv
  <2>3. {u \in Before : cur < u} = Before
    BY <1>1, <2>1
  <2>4. QED
    BY <1>2, <2>1, <2>2, <2>3 DEF GridInv
<1>7. CASE StartForward
  <2>1. pc = "turn" /\ steps = provided \cup Before /\ steps' = steps
    BY <1>7 DEF StartForward, GridInv
  <2>2. CASE Hi < metaLast
    <3>1. cur' = Hi + d /\ pc' = "forward"
      BY <1>7, <2>2 DEF StartForward, Hi
    <3>2. (Hi - Hi) % d = 0
      BY <1>1
    <3>3. (Hi + d - Hi) % d = 0 /\ \A u \in After : u < Hi + d => u <= Hi
      BY <1>1, <3>2, GridSteps DEF After
    <3>4. {u \in After : u < cur'} \subseteq {Hi}
      BY <1>1, <3>1, <3>3
    <3>5. Hi < cur'
      BY <1>1, <3>1
    <3>6. QED
      BY <1>1, <1>2, <2>1, <3>1, <3>3, <3>4, <3>5 DEF GridInv
  <2>3. CASE ~(Hi < metaLast)
    <3>1. pc' = "sort"
      BY <1>7, <2>3 DEF StartForward, Hi
    <3>2. After \subseteq {Hi}
      BY <1>1, <2>3
    <3>3. QED
      BY <1>1, <1>2, <2>1, <3>1, <3>2 DEF GridInv
  <2>4. QED
    BY <2>2, <2>3
<1>8. CASE Forward
  <2>1. /\ pc = "forward" /\ pc' = "forward" /\ cur <= metaLast /\ steps' = steps \cup {cur}
        /\ cur' = cur + d
    BY <1>8 DEF Forward, Push
  <2>2. /\ (cur - Hi) % d = 0 /\ Hi < cur
        /\ steps = provided \cup Before \cup {u \in After : u < cur}
    BY <2>1 DEF GridInv
  <2>3. /\ (cur + d - Hi) % d = 0 /\ cur \in After
        /\ \A u \in After : u < cur + d => u <= cur
    <3>1. cur \in Hi .. metaLast
      BY <1>1, <2>1, <2>2
    <3>2. QED
      BY <1>1, <2>2, <3>1, GridSteps DEF After
  <2>4. {u \in After : u < cur + d} = {u \in After : u < cur} \cup {cur}
    <3>1. cur < cur + d
      BY <1>1
    <3>2. \A u \in After : u < cur + d <=> u < cur \/ u = cur
      BY <1>1, <2>3, <3>1
    <3>3. QED
      BY <2>3, <3>2
  <2>5. Hi < cur'
    BY <1>1, <2>1, <2>2
  <2>6. steps' = provided \cup Before \cup {u \in After : u < cur'}
    BY <2>1, <2>2, <2>4
  <2>7. (cur' - Hi) % Duration = 0
    <3>1. (cur' - Hi) % d = (cur + d - Hi) % d
      <4>1. cur' - Hi = cur + d - Hi
        BY <1>1, <2>1, <2>2
      <4>2. QED
        BY <4>1
    <3>2. QED
      BY <2>3, <3>1
  <2> HIDE DEF d
  <2>8. QED
    BY <1>2, <2>1, <2>5, <2>6, <2>7 DEF GridInv
<1>9. CASE ForwardDone
  <2>1. pc = "forward" /\ pc' = "sort" /\ cur > metaLast /\ steps' = steps
    BY <1>9 DEF ForwardDone
  <2>2. steps = provided \cup Before \cup {u \in After : u < cur}
    BY <2>1 DEF GridInv
  <2>3. {u \in After : u < cur} = After
    BY <1>1, <2>1
  <2>4. QED
    BY <1>1, <1>2, <2>1, <2>2, <2>3 DEF GridInv
<1>10. CASE Sort
  <2>1. /\ pc = "sort" /\ pc' = "fill" /\ steps = All /\ steps' = All
        /\ cur' = Least(All) /\ last' = Greatest(All)
    BY <1>10 DEF Sort, GridInv
  <2>2. Least(All) \in All /\ Greatest(All) \in All /\ Least(All) \in Int
    <3>1. All \subseteq Int /\ All # {} /\ IsFiniteSet(All)
      BY <1>1, <2>1
    <3>2. QED
      BY <3>1, LeastExists, GreatestExists
  <2>3. {u \in Between : u < Least(All)} = {}
    <3>1. Greatest(All) \in Int
      BY <1>1, <2>1, <2>2
    <3>2. QED
      BY <2>2, <3>1 DEF Between, OnGrid
  <2>4. (Least(All) - Least(All)) % d = 0 /\ Least(All) <= Least(All)
    BY <1>1, <2>2
  <2>5. QED
    BY <1>2, <2>1, <2>2, <2>3, <2>4 DEF GridInv
<1>11. CASE Fill
  <2>1. /\ pc = "fill" /\ pc' = "fill" /\ cur < last /\ steps' = steps \cup {cur}
        /\ cur' = cur + d /\ last' = last
    BY <1>11 DEF Fill, Push
  <2>2. /\ (cur - Least(All)) % d = 0 /\ Least(All) <= cur /\ Least(All) \in Int
        /\ steps = All \cup {u \in Between : u < cur}
        /\ last = Greatest(All) /\ last \in All
    BY <2>1 DEF GridInv
  <2>3. last \in Int
    BY <1>1, <2>2
  <2>4. /\ (cur + d - Least(All)) % d = 0 /\ cur \in Between
        /\ \A u \in Between : u \in Int /\ (u < cur + d => u <= cur)
    <3> DEFINE least == Least(All)
               most == Greatest(All)
    <3>1. /\ cur \in least .. most /\ most \in Int /\ least \in Int
          /\ (cur - least) % d = 0 /\ Between = OnGrid(least, least, most, d)
          /\ cur \in Int /\ d \in Nat \ {0}
      BY <1>1, <2>1, <2>2, <2>3 DEF Between
    <3> HIDE DEF least, most, d
    <3>2. /\ (cur + d - least) % d = 0 /\ cur \in OnGrid(least, least, most, d)
          /\ \A u \in OnGrid(least, least, most, d) : u \in least .. most /\ (u < cur + d => u <= cur)
      BY <3>1, GridSteps
    <3>3. QED
      BY <3>1, <3>2 DEF least
  <2>5. {u \in Between : u < cur + d} = {u \in Between : u < cur} \cup {cur}
    <3>1. cur < cur + d
      BY <1>1
    <3>2. \A u \in Between : u < cur + d <=> u < cur \/ u = cur
      BY <1>1, <2>4, <3>1
    <3>3. QED
      BY <2>4, <3>2
  <2>6. Least(All) <= cur'
    BY <1>1, <2>1, <2>2
  <2>7. steps' = All \cup {u \in Between : u < cur'}
    BY <2>1, <2>2, <2>5
  <2>8. (cur' - Least(All)) % Duration = 0 /\ last' = Greatest(All) /\ last' \in All
    <3>1. (cur' - Least(All)) % d = (cur + d - Least(All)) % d
      <4>1. cur' - Least(All) = cur + d - Least(All)
        BY <1>1, <2>1, <2>2
      <4>2. QED
        BY <4>1
    <3>2. QED
      BY <2>1, <2>2, <2>4, <3>1
  <2> HIDE DEF d
  <2>9. QED
    BY <1>2, <2>1, <2>2, <2>6, <2>7, <2>8 DEF GridInv
<1>12. CASE FillDone
  <2>1. pc = "fill" /\ pc' = "done" /\ cur >= last /\ steps' = steps
    BY <1>12 DEF FillDone
  <2>2. /\ Least(All) \in Int /\ steps = All \cup {u \in Between : u < cur}
        /\ last = Greatest(All) /\ last \in All
    BY <2>1 DEF GridInv
  <2>3. \A u \in Between : u < cur \/ u = last
    <3>1. last \in Int
      BY <1>1, <2>2
    <3>2. QED
      BY <1>1, <2>1, <2>2, <3>1 DEF Between, OnGrid
  <2>4. steps = All \cup Between
    BY <2>2, <2>3
  <2>5. QED
    BY <1>2, <2>1, <2>4 DEF GridInv
<1>13. QED
  BY <1>3, <1>4, <1>5, <1>6, <1>7, <1>8, <1>9, <1>10, <1>11, <1>12 DEF Next

\* When the function returns the vector holds the set that the contexts take the
\* timesteps from: the safety part of ComputesTheSuperset.
THEOREM LoopsComputeTheSuperset ==
  Spec => [](pc = "done" => steps = Superset(provided, metaFirst, metaLast, Duration))
<1>1. GridInv => (pc = "done" => steps = Superset(provided, metaFirst, metaLast, Duration))
  BY DEF GridInv, Superset, All, Between
<1>2. QED
  BY <1>1, GridStart, GridNext, LoopInvariant, PTL DEF Spec
=============================================================================
