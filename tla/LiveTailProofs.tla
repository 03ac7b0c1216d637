--------------------------- MODULE LiveTailProofs ---------------------------
(***************************************************************************)
(* For every delay, failure budget and idle limit: runTail keeps its types *)
(* and gives up exactly when its budget of failures in a row is spent, the *)
(* user's signal ends it at once, and no attempt outlasts its idle timer.  *)
(* And for all bodies: readFrames gives the frames that the body has.      *)
(***************************************************************************)
EXTENDS LiveTail, TailFrames, FiniteSetTheorems, TLAPS

\* The last k attempts are one row of failures: none but the first of them
\* delivered a frame, and what came before does not belong to the row.
Row(k) ==
  /\ k <= Len(past)
  /\ k > 0 => past[Len(past) - k + 1] # "closed"
  /\ \A i \in (Len(past) - k + 2) .. Len(past) : past[i] = "mute"
  /\ k < Len(past) => \/ past[Len(past) - k] = "closed"
                      \/ k > 0 /\ past[Len(past) - k + 1] = "broken"

\* What `failures` says of that row.  While an attempt has delivered a frame
\* it is zero already, and the row of the past is no longer counted.
Counted ==
  \E k \in 0 .. MaxFailures :
    /\ Row(k)
    /\ pc = "lost" <=> k = MaxFailures
    /\ pc \in {"loop", "sleep", "lost"} => failures = k
    /\ pc \in Attempting => failures = IF sawFrame THEN 0 ELSE k

\* The server has never been silent for longer than the idle timer has waited.
IInv == TypeOK /\ silent <= idle /\ Counted

-----------------------------------------------------------------------------
\* The smaller of two numbers.
LEMMA MinOfTwo ==
  ASSUME NEW a \in Nat, NEW b \in Nat
  PROVE  /\ Min({a, b}) \in {a, b}
         /\ Min({a, b}) <= a /\ Min({a, b}) <= b
<1>1. \E x \in {a, b} : \A y \in {a, b} : x <= y
  OBVIOUS
<1>2. QED
  BY <1>1 DEF Min

\* What Remember does: the newest ending is last, every other one is as far
\* from it as before and one further, and the oldest may be forgotten.
LEMMA RememberShape ==
  ASSUME NEW e \in Ending, TypeOK, Remember(e)
  PROVE  /\ past' \in Seq(Ending)
         /\ Len(past') = IF Len(past) < MaxFailures THEN Len(past) + 1 ELSE MaxFailures
         /\ past'[Len(past')] = e
         /\ \A j \in 1 .. (Len(past') - 1) : past'[Len(past') - j] = past[Len(past) - j + 1]
<1> DEFINE all == Append(past, e)
<1>1. /\ past \in Seq(Ending) /\ Len(past) \in Nat /\ Len(past) <= MaxFailures
      /\ MaxFailures \in Nat \ {0}
  BY TailAssumption DEF TypeOK
<1>2. /\ all \in Seq(Ending) /\ Len(all) = Len(past) + 1
      /\ all[Len(all)] = e
      /\ \A i \in 1 .. Len(past) : all[i] = past[i]
  BY <1>1
<1>3. CASE Len(all) > MaxFailures
  <2>1. past' = Tail(all)
    BY <1>3 DEF Remember
  <2>2. /\ past' \in Seq(Ending) /\ Len(past') = Len(past)
        /\ \A i \in 1 .. Len(past) : past'[i] = all[i + 1]
    BY <1>1, <1>2, <2>1
  <2> QED
    BY <1>1, <1>2, <1>3, <2>2
<1>4. CASE ~(Len(all) > MaxFailures)
  <2>1. past' = all
    BY <1>4 DEF Remember
  <2> QED
    BY <1>1, <1>2, <1>4, <2>1
<1>5. QED
  BY <1>3, <1>4

\* A failed attempt lengthens the row, or starts one if it delivered a frame.
LEMMA FailureCounts ==
  ASSUME TypeOK, NEW k \in 0 .. (MaxFailures - 1), Row(k),
         NEW e \in {"broken", "mute"}, Remember(e)
  PROVE  /\ e = "broken" => Row(1)'
         /\ e = "mute" => Row(k + 1)'
<1>1. /\ Len(past) \in Nat /\ Len(past) <= MaxFailures
      /\ MaxFailures \in Nat \ {0} /\ k \in Nat
  BY TailAssumption DEF TypeOK
<1>2. /\ Len(past') = IF Len(past) < MaxFailures THEN Len(past) + 1 ELSE MaxFailures
      /\ past'[Len(past')] = e
      /\ \A j \in 1 .. (Len(past') - 1) : past'[Len(past') - j] = past[Len(past) - j + 1]
  BY RememberShape DEF Ending
<1>3. CASE e = "broken"
  BY <1>1, <1>2, <1>3 DEF Row
<1>4. CASE e = "mute"
  <2>1. k + 1 <= Len(past')
    BY <1>1, <1>2 DEF Row
  <2>2. past'[Len(past') - (k + 1) + 1] # "closed"
    <3>1. CASE k = 0
      BY <1>1, <1>2, <1>4, <3>1
    <3>2. CASE k > 0
      <4>1. past'[Len(past') - k] = past[Len(past) - k + 1]
        BY <1>1, <1>2, <2>1, <3>2
      <4> QED
        BY <1>1, <3>2, <4>1 DEF Row
    <3> QED
      BY <1>1, <3>1, <3>2
  <2>3. ASSUME NEW i \in (Len(past') - (k + 1) + 2) .. Len(past')
        PROVE  past'[i] = "mute"
    <3>1. CASE i = Len(past')
      BY <1>2, <1>4, <3>1
    <3>2. CASE i < Len(past')
      <4> DEFINE j == Len(past') - i
      <4>1. j \in 1 .. (Len(past') - 1) /\ i = Len(past') - j /\ j < k
        BY <1>1, <1>2, <2>1, <3>2
      <4>2. past'[i] = past[Len(past) - j + 1]
        BY <1>2, <4>1
      <4>3. Len(past) - j + 1 \in (Len(past) - k + 2) .. Len(past)
        BY <1>1, <4>1
      <4> QED
        BY <4>2, <4>3 DEF Row
    <3> QED
      BY <1>1, <1>2, <3>1, <3>2
  <2>4. ASSUME k + 1 < Len(past')
        PROVE  \/ past'[Len(past') - (k + 1)] = "closed"
               \/ past'[Len(past') - (k + 1) + 1] = "broken"
    <3>1. k < Len(past)
      BY <1>1, <1>2, <2>4
    <3>2. past'[Len(past') - (k + 1)] = past[Len(past) - k]
      BY <1>1, <1>2, <2>4
    <3>3. k > 0 => past'[Len(past') - k] = past[Len(past) - k + 1]
      BY <1>1, <1>2, <2>4
    <3>4. Len(past') - (k + 1) + 1 = Len(past') - k
      BY <1>1, <1>2
    <3> QED
      BY <3>1, <3>2, <3>3, <3>4 DEF Row
  <2> QED
    BY <1>1, <1>4, <2>1, <2>2, <2>3, <2>4 DEF Row
<1>5. QED
  BY <1>3, <1>4

\* A stream that the server closes after a frame ends every row.
LEMMA ClosedEndsRow ==
  ASSUME TypeOK, Remember("closed")
  PROVE  Row(0)'
BY RememberShape, TailAssumption DEF Ending, TypeOK, Row

-----------------------------------------------------------------------------
\* A failed attempt: the catch block, from wherever it is entered.
LEMMA CaughtKeeps ==
  ASSUME IInv, pc \in Attempting, Caught
  PROVE  IInv'
<1>1. CASE aborted
  <2>1. TypeOK'
    BY <1>1 DEF IInv, TypeOK, Caught, Over
  <2>2. Counted'
    BY <1>1, TailAssumption DEF IInv, Counted, Row, Caught, Attempting
  <2> QED
    BY <1>1, <2>1, <2>2 DEF IInv, Caught
<1>2. CASE ~aborted
  <2> DEFINE e == IF sawFrame THEN "broken" ELSE "mute"
  <2>1. PICK k \in 0 .. MaxFailures :
          /\ Row(k)
          /\ pc = "lost" <=> k = MaxFailures
          /\ failures = IF sawFrame THEN 0 ELSE k
    BY DEF IInv, Counted
  <2>2. k \in 0 .. (MaxFailures - 1)
    BY <2>1, TailAssumption DEF Attempting
  <2>3. /\ Remember(e)
        /\ failures' = failures + 1
        /\ pc' = IF failures + 1 >= MaxFailures THEN "lost" ELSE "sleep"
        /\ UNCHANGED <<aborted, cut, sawFrame, delay, idle, silent>>
    BY <1>2 DEF Caught
  <2>4. PICK n \in 1 .. MaxFailures : n = IF sawFrame THEN 1 ELSE k + 1
    BY <2>2, TailAssumption
  <2>5. Row(n)' /\ failures' = n
    <3>1. CASE sawFrame
      BY <2>1, <2>2, <2>3, <2>4, <3>1, FailureCounts DEF IInv
    <3>2. CASE ~sawFrame
      BY <2>1, <2>2, <2>3, <2>4, <3>2, FailureCounts DEF IInv
    <3> QED
      BY <3>1, <3>2
  <2>6. TypeOK'
    <3>1. past' \in Seq(Ending) /\ Len(past') <= MaxFailures
      <4>1. e \in Ending
        BY DEF Ending
      <4>2. Len(past) \in Nat /\ Len(past) <= MaxFailures
        BY DEF IInv, TypeOK
      <4>3. /\ past' \in Seq(Ending)
            /\ Len(past') = IF Len(past) < MaxFailures THEN Len(past) + 1 ELSE MaxFailures
        <5>1. Remember(e)
          BY <2>3
        <5> HIDE DEF e
        <5> QED
          BY <4>1, <5>1, RememberShape DEF IInv
      <4> QED
        BY <4>2, <4>3, TailAssumption
    <3>2. failures' \in 0 .. MaxFailures
      BY <2>5
    <3>3. pc' \in {"lost", "sleep"}
      BY <2>3
    <3> QED
      BY <2>3, <3>1, <3>2, <3>3 DEF IInv, TypeOK, Over
  <2>7. Counted'
    <3>1. pc' \in {"lost", "sleep"} /\ (pc' = "lost" <=> n = MaxFailures)
      <4>1. failures + 1 = n
        BY <2>3, <2>5
      <4>2. n >= MaxFailures <=> n = MaxFailures
        BY <2>4, TailAssumption
      <4> QED
        BY <2>3, <4>1, <4>2
    <3> QED
      BY <2>5, <3>1 DEF Counted, Attempting
  <2> QED
    BY <2>3, <2>6, <2>7 DEF IInv
<1>3. QED
  BY <1>1, <1>2

\* IInv is kept by every step: it is what `failures` has to mean for the
\* budget to be right, which the types alone do not say.
LEMMA StepKeeps == IInv /\ [Next]_vars => IInv'
<1> SUFFICES ASSUME IInv, [Next]_vars PROVE IInv'
  OBVIOUS
<1> USE DEF IInv
<1>1. CASE Attempt
  <2>1. TypeOK'
    <3>1. 0 \in 0 .. IdleLimit
      BY TailAssumption
    <3>2. pc' \in Attempting
      BY <1>1 DEF Attempt, Attempting
    <3> QED
      BY <1>1, <3>1, <3>2 DEF TypeOK, Attempt
  <2>2. Counted'
    BY <1>1 DEF Counted, Row, Attempt, Attempting
  <2> QED
    BY <1>1, <2>1, <2>2 DEF Attempt
<1>2. CASE Leave
  BY <1>2 DEF Leave, TypeOK, Over, Counted, Row, Attempting
<1>3. CASE Answered
  BY <1>3, TailAssumption DEF Answered, TypeOK, Counted, Row, Attempting
<1>4. CASE Refused
  BY <1>4 DEF Refused, TypeOK, Over, Counted, Row, Attempting
<1>5. CASE Unwell
  BY <1>5, CaughtKeeps DEF Unwell, Attempting
<1>6. CASE LinkFails
  BY <1>6, CaughtKeeps DEF LinkFails, Attempting
<1>7. CASE Interrupted
  BY <1>7, CaughtKeeps DEF Interrupted, Attempting
<1>8. CASE Frame
  <2>1. TypeOK'
    BY <1>8, TailAssumption DEF Frame, TypeOK
  <2>2. Counted'
    BY <1>8 DEF Frame, Counted, Row, Attempting
  <2> QED
    BY <1>8, <2>1, <2>2 DEF Frame
<1>9. CASE Keepalive
  BY <1>9, TailAssumption DEF Keepalive, TypeOK, Counted, Row
<1>10. CASE StreamEnds
  <2>1. CASE ~sawFrame
    BY <1>10, <2>1, CaughtKeeps DEF StreamEnds, Attempting
  <2>2. CASE sawFrame
    <3>1. /\ pc' = "loop" /\ Remember("closed") /\ failures = 0
          /\ UNCHANGED <<aborted, cut, sawFrame, failures, delay, idle, silent>>
      BY <1>10, <2>2 DEF StreamEnds, Counted, Attempting
    <3>2. Row(0)'
      BY <3>1, ClosedEndsRow
    <3>3. past' \in Seq(Ending) /\ Len(past') <= MaxFailures
      BY <3>1, RememberShape, TailAssumption DEF Ending, TypeOK
    <3>4. TypeOK'
      BY <3>1, <3>3 DEF TypeOK
    <3>5. Counted'
      BY <3>1, <3>2, TailAssumption DEF Counted, Attempting
    <3> QED
      BY <3>1, <3>4, <3>5
  <2> QED
    BY <2>1, <2>2 DEF TypeOK
<1>11. CASE IdleFires
  BY <1>11 DEF IdleFires, TypeOK, Counted, Row
<1>12. CASE UserAborts
  BY <1>12 DEF UserAborts, TypeOK, Counted, Row
<1>13. CASE Wake
  <2>1. delay * 2 \in Nat /\ delay * 2 >= Retry /\ DelayCap \in Nat
    BY TailAssumption DEF TypeOK, DelayCap
  <2>2. Min({delay * 2, DelayCap}) \in Retry .. DelayCap
    <3> DEFINE d == delay * 2
    <3>1. /\ Min({d, DelayCap}) \in {d, DelayCap}
          /\ Min({d, DelayCap}) <= DelayCap
      BY <2>1, MinOfTwo
    <3>2. DelayCap >= Retry /\ Retry \in Nat
      BY TailAssumption DEF DelayCap
    <3> HIDE DEF d
    <3> QED
      BY <2>1, <3>1, <3>2 DEF d
  <2>3. TypeOK'
    BY <1>13, <2>2 DEF Wake, TypeOK
  <2>4. Counted'
    BY <1>13 DEF Wake, Counted, Row, Attempting
  <2> QED
    BY <1>13, <2>3, <2>4 DEF Wake
<1>14. CASE Tick
  BY <1>14, TailAssumption DEF Tick, TypeOK, Counted, Row
<1>15. CASE UNCHANGED vars
  BY <1>15 DEF vars, TypeOK, Counted, Row
<1>16. QED
  BY <1>1, <1>2, <1>3, <1>4, <1>5, <1>6, <1>7, <1>8, <1>9, <1>10, <1>11,
     <1>12, <1>13, <1>14, <1>15 DEF Next

LEMMA Inductive == Spec => []IInv
<1>1. Init => IInv
  <2> SUFFICES ASSUME Init PROVE IInv
    OBVIOUS
  <2>1. TypeOK
    <3>1. /\ Retry \in Retry .. DelayCap
          /\ 0 \in 0 .. MaxFailures /\ 0 \in 0 .. IdleLimit /\ 0 <= MaxFailures
      BY TailAssumption DEF DelayCap
    <3>2. past \in Seq(Ending) /\ Len(past) = 0
      BY DEF Init
    <3>3. pc \in {"loop", "sleep"}
      BY DEF Init
    <3> QED
      BY <3>1, <3>2, <3>3 DEF Init, TypeOK
  <2>2. Row(0)
    BY DEF Init, Row
  <2>3. 0 # MaxFailures /\ 0 \in 0 .. MaxFailures
    BY TailAssumption
  <2> QED
    BY <2>1, <2>2, <2>3 DEF Init, IInv, Counted, Attempting
<1>2. QED
  BY <1>1, StepKeeps, PTL DEF Spec

-----------------------------------------------------------------------------
\* The failure count of runTail stays within its budget, the delay within its
\* cap, for every value of the constants.
THEOREM TypeCorrect == Spec => []TypeOK
<1>1. IInv => TypeOK
  BY DEF IInv
<1>2. QED
  BY Inductive, <1>1, PTL

\* runTail gives up exactly when the whole budget has been spent by failures
\* in a row, however large it is and whatever the attempts before did.
THEOREM BudgetIsExact == Spec => []GivesUpInTime
<1>1. IInv => GivesUpInTime
  <2> SUFFICES ASSUME IInv PROVE GivesUpInTime
    OBVIOUS
  <2>1. PICK k \in 0 .. MaxFailures : Row(k) /\ (pc = "lost" <=> k = MaxFailures)
    BY DEF IInv, Counted
  <2>2. Len(past) \in Nat /\ Len(past) <= MaxFailures /\ MaxFailures \in Nat \ {0}
    BY TailAssumption DEF IInv, TypeOK
  <2>3. ASSUME pc = "lost"
        PROVE  Len(past) = MaxFailures /\ past[1] # "closed"
               /\ \A i \in 2 .. MaxFailures : past[i] = "mute"
    BY <2>1, <2>2, <2>3 DEF Row
  <2>4. ASSUME Len(past) = MaxFailures, past[1] # "closed",
               \A i \in 2 .. MaxFailures : past[i] = "mute"
        PROVE  k = MaxFailures
    <3> SUFFICES ASSUME k < MaxFailures PROVE FALSE
      BY <2>1, <2>2
    <3>1. MaxFailures - k \in 1 .. MaxFailures
      BY <2>2
    <3>2. past[MaxFailures - k] # "closed"
      BY <2>2, <2>4, <3>1
    <3>3. k > 0 => past[MaxFailures - k + 1] = "mute"
      BY <2>2, <2>4
    <3> QED
      BY <2>1, <2>2, <2>4, <3>2, <3>3 DEF Row
  <2> QED
    BY <2>1, <2>3, <2>4 DEF GivesUpInTime
<1>2. QED
  BY Inductive, <1>1, PTL

-----------------------------------------------------------------------------
(***************************************************************************)
(* The back-off.  The delay is doubled after each sleep and cut to its     *)
(* cap, and what the property names is the first delay doubled all at once *)
(* and cut once: that these are the same is arithmetic of powers, which    *)
(* the provers know only as sizes of sets of subsets.                      *)
(***************************************************************************)
\* A set with one more element has twice as many subsets.
LEMMA PowerDoubles ==
  ASSUME NEW n \in Nat
  PROVE  2 ^ n \in Nat \ {0} /\ 2 ^ (n + 1) = 2 * 2 ^ n
<1> DEFINE A == SUBSET (1 .. n)
           B == {s \cup {n + 1} : s \in A}
<1>1. IsFiniteSet(1 .. n) /\ Cardinality(1 .. n) = n
  BY FS_Interval
<1>2. IsFiniteSet(1 .. (n + 1)) /\ Cardinality(1 .. (n + 1)) = n + 1
  BY FS_Interval
<1>3. IsFiniteSet(A) /\ Cardinality(A) = 2 ^ n
  BY <1>1, FS_SUBSET
<1>4. Cardinality(SUBSET (1 .. (n + 1))) = 2 ^ (n + 1)
  BY <1>2, FS_SUBSET
<1>5. SUBSET (1 .. (n + 1)) = A \cup B
  <2>1. ASSUME NEW s \in SUBSET (1 .. (n + 1)), s \notin A PROVE s \in B
    <3>1. n + 1 \in s
      BY <2>1
    <3>2. s \ {n + 1} \in A /\ s = (s \ {n + 1}) \cup {n + 1}
      BY <3>1
    <3> QED
      BY <3>2
  <2>2. ASSUME NEW s \in A
               PROVE s \in SUBSET (1 .. (n + 1)) /\ s \cup {n + 1} \in SUBSET (1 .. (n + 1))
    <3>1. n + 1 \in 1 .. (n + 1) /\ 1 .. n \subseteq 1 .. (n + 1)
      OBVIOUS
    <3> QED
      BY <3>1
  <2>3. B \subseteq SUBSET (1 .. (n + 1)) /\ A \subseteq SUBSET (1 .. (n + 1))
    BY <2>2
  <2> HIDE DEF A, B
  <2> QED
    BY <2>1, <2>3
<1>6. A \cap B = {}
  <2>1. n + 1 \notin 1 .. n
    OBVIOUS
  <2> QED
    BY <2>1
<1>7. IsFiniteSet(B) /\ Cardinality(B) = Cardinality(A)
  <2> DEFINE f == [s \in A |-> s \cup {n + 1}]
  <2>1. f \in [A -> B] /\ \A t \in B : \E s \in A : f[s] = t
    OBVIOUS
  <2>2. ASSUME NEW s \in A, NEW t \in A, f[s] = f[t] PROVE s = t
    <3>1. n + 1 \notin s /\ n + 1 \notin t
      OBVIOUS
    <3>2. s \cup {n + 1} = t \cup {n + 1}
      BY <2>2
    <3>3. \A x : x \in s <=> x \in t
      BY <3>1, <3>2
    <3> QED
      BY <3>3
  <2> HIDE DEF f
  <2>3. f \in Bijection(A, B)
    BY <2>1, <2>2 DEF Bijection, Injection, Surjection, IsInjective
  <2>4. ExistsBijection(A, B)
    BY <2>3 DEF ExistsBijection
  <2> HIDE DEF A, B
  <2> QED
    BY <1>3, <2>4, FS_Bijection
<1> HIDE DEF A, B
<1>8. Cardinality(A \cup B) = Cardinality(A) + Cardinality(B) - Cardinality(A \cap B)
  BY <1>3, <1>7, FS_Union
<1>9. Cardinality(A \cap B) = 0
  BY <1>6, FS_EmptySet
<1>10. Cardinality(A) \in Nat /\ (Cardinality(A) = 0 <=> A = {})
  BY <1>3, FS_CardinalityType, FS_EmptySet
<1>11. A # {}
  BY DEF A
<1>12. Cardinality(A \cup B) = 2 ^ (n + 1)
  BY <1>4, <1>5
<1>13. Cardinality(A \cup B) = 2 * Cardinality(A)
  BY <1>7, <1>8, <1>9, <1>10
<1> QED
  BY <1>3, <1>10, <1>11, <1>12, <1>13

\* The delay that is due after n failures in a row.
Due(n) == Min({Retry * 2 ^ n, DelayCap})

LEMMA DueFirst == Due(0) = Retry
<1>1. 2 ^ 0 = 1
  BY SMT
<1>2. Retry * 2 ^ 0 = Retry /\ Retry \in Nat /\ DelayCap \in Nat /\ Retry <= DelayCap
  BY <1>1, TailAssumption DEF DelayCap
<1> QED
  BY <1>2, MinOfTwo DEF Due

\* A delay that has reached the cap stays there, another is doubled.
LEMMA DueNext ==
  ASSUME NEW n \in Nat
  PROVE  Due(n + 1) = Min({Due(n) * 2, DelayCap})
<1> DEFINE u == 2 ^ n
           w == Retry * u
<1>1. u \in Nat /\ 2 ^ (n + 1) = 2 * u
  BY PowerDoubles
<1>2. Retry \in Nat /\ DelayCap \in Nat
  BY TailAssumption DEF DelayCap
<1> HIDE DEF u
<1>3. w \in Nat /\ Retry * 2 ^ (n + 1) = w * 2
  BY <1>1, <1>2
<1>4. Due(n) = Min({w, DelayCap}) /\ Due(n + 1) = Min({w * 2, DelayCap})
  BY <1>3 DEF Due, u
<1> HIDE DEF w
<1>5. Due(n) \in Nat
  BY <1>2, <1>3, <1>4, MinOfTwo
<1>6. /\ Due(n) \in {w, DelayCap} /\ Due(n) <= w /\ Due(n) <= DelayCap
  BY <1>2, <1>3, <1>4, MinOfTwo
<1>7. w * 2 \in Nat /\ Due(n) * 2 \in Nat
  BY <1>3, <1>5
<1>8. /\ Min({w * 2, DelayCap}) \in {w * 2, DelayCap}
      /\ Min({w * 2, DelayCap}) <= w * 2 /\ Min({w * 2, DelayCap}) <= DelayCap
  BY <1>2, <1>7, MinOfTwo
<1>9. /\ Min({Due(n) * 2, DelayCap}) \in {Due(n) * 2, DelayCap}
      /\ Min({Due(n) * 2, DelayCap}) <= Due(n) * 2 /\ Min({Due(n) * 2, DelayCap}) <= DelayCap
  BY <1>2, <1>7, MinOfTwo
<1> QED
  BY <1>2, <1>3, <1>4, <1>5, <1>6, <1>8, <1>9

\* While runTail sleeps the failure is counted already and the delay not yet
\* doubled; elsewhere the two agree.
Paced ==
  /\ pc = "sleep" => failures > 0 /\ delay = Due(failures - 1)
  /\ pc \in {"loop"} \cup Attempting => delay = Due(failures)

LEMMA CaughtPaced ==
  ASSUME TypeOK, Paced, pc \in Attempting, Caught
  PROVE  Paced'
<1>1. failures \in Nat /\ delay = Due(failures)
  BY DEF TypeOK, Paced
<1>2. delay' = delay
  BY DEF Caught
<1>3. \/ pc' \in {"ended", "lost"}
      \/ pc' = "sleep" /\ failures' = failures + 1
  BY DEF Caught
<1>4. (failures + 1) - 1 = failures /\ failures + 1 > 0
  BY <1>1
<1> QED
  BY <1>1, <1>2, <1>3, <1>4 DEF Paced, Due, Attempting

LEMMA StepPaced ==
  ASSUME TypeOK, Paced, [Next]_vars
  PROVE  Paced'
<1>1. CASE Attempt \/ Leave \/ Answered \/ Refused
  BY <1>1 DEF Attempt, Leave, Answered, Refused, Paced, Due, Attempting
<1>2. CASE Unwell \/ LinkFails \/ Interrupted
  BY <1>2, CaughtPaced DEF Unwell, LinkFails, Interrupted, Attempting
<1>3. CASE Frame
  BY <1>3, DueFirst DEF Frame, Paced, Due, Attempting
<1>4. CASE StreamEnds
  <2>1. CASE ~sawFrame
    BY <1>4, <2>1, CaughtPaced DEF StreamEnds, Attempting
  <2>2. CASE sawFrame
    BY <1>4, <2>2 DEF StreamEnds, Caught, Paced, Due, Attempting
  <2> QED
    BY <2>1, <2>2
<1>5. CASE Keepalive \/ IdleFires \/ UserAborts \/ Tick
  BY <1>5 DEF Keepalive, IdleFires, UserAborts, Tick, Paced, Due
<1>6. CASE Wake
  <2>1. failures - 1 \in Nat /\ delay = Due(failures - 1)
    BY <1>6 DEF Wake, Paced, TypeOK
  <2>2. (failures - 1) + 1 = failures
    BY DEF TypeOK
  <2>3. delay' = Due(failures) /\ failures' = failures
    BY <1>6, <2>1, <2>2, DueNext DEF Wake
  <2> QED
    BY <1>6, <2>3 DEF Wake, Paced, Due
<1>7. CASE UNCHANGED vars
  BY <1>7 DEF vars, Paced, Due
<1> QED
  BY <1>1, <1>2, <1>3, <1>4, <1>5, <1>6, <1>7 DEF Next

\* Before each new attempt runTail waits the first delay, doubled for every
\* failure after the first since a frame arrived, and never more than the cap.
THEOREM BackOffIsExact == Spec => []BackOffFollowsFailures
<1>1. Init => Paced
  BY DueFirst DEF Init, Paced
<1>2. Paced => BackOffFollowsFailures
  BY DEF Paced, Due, BackOffFollowsFailures
<1>3. TypeOK /\ Paced /\ [Next]_vars => Paced'
  BY StepPaced
<1> QED
  BY <1>1, <1>2, <1>3, TypeCorrect, PTL DEF Spec

-----------------------------------------------------------------------------
(***************************************************************************)
(* What AbortEnds and NoSilentHang rest on, apart from fairness: the       *)
(* signal is never missed, and the idle timer is never out of reach.       *)
(***************************************************************************)
\* The attempt listens to the signal from its first step on, and nothing but
\* the signal and a timer that has run its course aborts an attempt.
Heard ==
  pc \in Attempting => /\ aborted => cut
                       /\ cut => aborted \/ idle = IdleLimit

LEMMA StepHeard ==
  ASSUME Heard, [Next]_vars
  PROVE  Heard'
<1> USE DEF Heard
<1>1. CASE Attempt \/ Leave \/ Wake
  BY <1>1 DEF Attempt, Leave, Wake, Attempting, Over
<1>2. CASE Answered \/ Refused \/ Frame \/ Keepalive \/ Tick
  BY <1>2 DEF Answered, Refused, Frame, Keepalive, Tick, Attempting
<1>3. CASE Unwell \/ LinkFails \/ Interrupted \/ StreamEnds
  <2>1. pc' \in {"loop", "sleep", "ended", "lost"}
    BY <1>3 DEF Unwell, LinkFails, Interrupted, StreamEnds, Caught
  <2> QED
    BY <2>1 DEF Attempting
<1>4. CASE IdleFires
  BY <1>4 DEF IdleFires
<1>5. CASE UserAborts
  BY <1>5 DEF UserAborts
<1>6. CASE UNCHANGED vars
  BY <1>6 DEF vars
<1> QED
  BY <1>1, <1>2, <1>3, <1>4, <1>5, <1>6 DEF Next

\* No attempt runs on past the user's signal or is given up before its time:
\* the controller of an attempt is aborted if the user has ended the command,
\* and otherwise only with the idle timer at its limit.
THEOREM SignalIsHeard == Spec => []Heard
<1>1. Init => Heard
  BY DEF Init, Heard, Attempting
<1>2. Heard /\ [Next]_vars => Heard'
  BY StepHeard
<1> QED
  BY <1>1, <1>2, PTL DEF Spec

\* Once the user has ended the command every step of runTail ends it too,
\* except that a sleep ends first: no server and no failure can start another
\* attempt, and no two steps pass before the end.
AbortLeadsOut ==
  [][aborted => pc' \in Over \/ (pc = "sleep" /\ pc' = "loop")]_vars

\* Ctrl-C is final, the part of AbortEnds that asks no fairness: runTail does
\* no more than leave the loop, for every state it can be in.
THEOREM AbortIsFinal == Spec => AbortLeadsOut
<1> DEFINE Out == aborted => pc' \in Over \/ (pc = "sleep" /\ pc' = "loop")
<1>1. ASSUME Heard, Next PROVE Out
  <2> SUFFICES ASSUME aborted PROVE pc' \in Over \/ (pc = "sleep" /\ pc' = "loop")
    OBVIOUS
  <2> USE <1>1 DEF Heard
  <2>1. CASE Attempt \/ Answered \/ Frame \/ Keepalive \/ StreamEnds
    BY <2>1 DEF Attempt, Answered, Frame, Keepalive, StreamEnds, Attempting
  <2>2. CASE IdleFires \/ UserAborts \/ Tick
    BY <2>2 DEF IdleFires, UserAborts, Tick
  <2>3. CASE Leave \/ Refused \/ Wake
    BY <2>3 DEF Leave, Refused, Wake, Over
  <2>4. CASE Unwell \/ LinkFails \/ Interrupted
    BY <2>4 DEF Unwell, LinkFails, Interrupted, Caught, Over
  <2> QED
    BY <1>1, <2>1, <2>2, <2>3, <2>4 DEF Next
<1>2. Heard /\ [Next]_vars => [Out]_vars
  BY <1>1
<1> QED
  BY <1>2, SignalIsHeard, PTL DEF Spec, AbortLeadsOut

\* As long as an attempt lasts only a frame gives it more time: a step that
\* does not end the attempt leaves the idle timer where it is or brings it
\* nearer to its limit, which it cannot pass.
OnlyFramesBuyTime ==
  [][(pc \in Attempting /\ pc' \in Attempting) =>
       (idle <= idle' /\ idle' <= IdleLimit) \/ (pc = "stream" /\ sawFrame' /\ failures' = 0)]_vars

\* No attempt hangs for want of a timer: neither a slow answer, nor the text of
\* an error answer, nor keepalives put off the moment at which it is aborted.
THEOREM TimerIsMonotone == Spec => OnlyFramesBuyTime
<1> DEFINE Nearer == (pc \in Attempting /\ pc' \in Attempting) =>
                       (idle <= idle' /\ idle' <= IdleLimit) \/ (pc = "stream" /\ sawFrame' /\ failures' = 0)
<1>1. ASSUME TypeOK, Next PROVE Nearer
  <2>0. idle \in 0 .. IdleLimit /\ IdleLimit \in Nat
    BY <1>1, TailAssumption DEF TypeOK
  <2>1. CASE Attempt \/ Leave \/ Wake
    BY <2>1 DEF Attempt, Leave, Wake, Attempting
  <2>2. CASE Answered \/ Refused \/ Keepalive \/ IdleFires \/ UserAborts
    BY <2>0, <2>2 DEF Answered, Refused, Keepalive, IdleFires, UserAborts
  <2>3. CASE Unwell \/ LinkFails \/ Interrupted \/ StreamEnds
    BY <2>0, <2>3 DEF Unwell, LinkFails, Interrupted, StreamEnds, Caught
  <2>4. CASE Frame
    BY <2>4 DEF Frame
  <2>5. CASE Tick
    BY <2>0, <2>5 DEF Tick
  <2> QED
    BY <1>1, <2>1, <2>2, <2>3, <2>4, <2>5 DEF Next
<1>2. TypeOK /\ [Next]_vars => [Nearer]_vars
  BY <1>1
<1> QED
  BY <1>2, TypeCorrect, PTL DEF Spec, OnlyFramesBuyTime

(***************************************************************************)
(* TailFrames, for all bodies and all ways to cut them into chunks.  What  *)
(* is cut off is a matter of the text alone: a newline ends a block when   *)
(* an even number of newlines is between it and the first of its row, and  *)
(* the buffer begins behind such an end.  Thus the first blank line of the *)
(* buffer is the next end in the text, wherever the chunks were cut.       *)
(***************************************************************************)
\* How much of the text has been cut off.
Taken == Len(text) - Len(buffer)

\* (The provers are not told that a string is one.)
Units == STRING \cup {Character}

Given == {FrameOf(b) : b \in Seq(Units)}

FrameTypes ==
  /\ body \in Seq(STRING) /\ WellFormed(body)
  /\ carried \in Events
  /\ read \in 0..Len(body)
  /\ text \in Seq(Units) /\ buffer \in Seq(Units)
  /\ frames \in Seq(Given)
  /\ half <=> read > 0 /\ body[read] = "e1"

\* The buffer is the rest of the text after a block's end.
Aligned ==
  /\ Len(buffer) <= Len(text)
  /\ \A i \in 1..Len(buffer) : buffer[i] = text[Taken + i]
  /\ Taken = 0 \/ Taken - 1 \in BlockEnds

Drained == phase \in {"next", "ended", "broken"} => Breaks(buffer) = {}

EndReached == phase = "ended" => read = Len(body)

FramesInv == FrameTypes /\ TextWhole /\ Aligned /\ BlocksWhole /\ Drained /\ EndReached

-----------------------------------------------------------------------------
(* Rows of newlines.                                                       *)

\* There is one row to which a place belongs, and the next place to no other.
LEMMA OneRow ==
  ASSUME NEW i \in Nat, NEW j \in {i, i + 1}, NEW s \in 1..i, NEW t \in 1..j,
         RowFrom(s, i), RowFrom(t, j)
  PROVE  s = t
<1>1. CASE s < t
  <2>1. t - 1 \in s..i /\ t # 1
    BY <1>1
  <2> QED
    BY <2>1 DEF RowFrom
<1>2. CASE t < s
  <2>1. s - 1 \in t..j /\ s # 1
    BY <1>2
  <2> QED
    BY <2>1 DEF RowFrom
<1> QED
  BY <1>1, <1>2

\* No newline ends two blocks.
LEMMA EndsApart ==
  ASSUME text \in Seq(Units), NEW i \in BlockEnds
  PROVE  i + 1 \notin BlockEnds
<1> SUFFICES ASSUME i + 1 \in BlockEnds PROVE FALSE
  OBVIOUS
<1>0. i \in Nat
  BY DEF BlockEnds, Breaks
<1>1. PICK s \in 1..i : RowFrom(s, i) /\ \E k \in 0..i : i = s + 2 * k
  BY DEF BlockEnds
<1>2. PICK t \in 1..(i + 1) : RowFrom(t, i + 1) /\ \E k \in 0..(i + 1) : i + 1 = t + 2 * k
  BY DEF BlockEnds
<1>3. s = t
  BY <1>0, <1>1, <1>2, OneRow
<1> QED
  BY <1>0, <1>1, <1>2, <1>3

\* What ends a block is decided by the text up to there and one place further.
LEMMA EndsStay ==
  ASSUME text \in Seq(Units), NEW c \in Units, text' = Append(text, c)
  PROVE  \A i \in 1..(Len(text) - 1) : i \in BlockEnds' <=> i \in BlockEnds
<1>1. /\ Len(text) \in Nat /\ Len(text') = Len(text) + 1
      /\ \A i \in 1..Len(text) : text'[i] = text[i]
  OBVIOUS
<1> SUFFICES ASSUME NEW i \in 1..(Len(text) - 1) PROVE i \in BlockEnds' <=> i \in BlockEnds
  OBVIOUS
<1>2. i \in Breaks(text)' <=> i \in Breaks(text)
  <2>1. i \in 1..Len(text) /\ i + 1 \in 1..Len(text) /\ i \in 1..(Len(text') - 1)
    BY <1>1
  <2>2. text'[i] = text[i] /\ text'[i + 1] = text[i + 1]
    BY <1>1, <2>1
  <2> QED
    BY <2>1, <2>2 DEF Breaks
<1>3. ASSUME NEW s \in 1..i PROVE RowFrom(s, i)' <=> RowFrom(s, i)
  <2>1. ASSUME NEW j \in s..i PROVE text'[j] = text[j]
    <3>1. j \in 1..Len(text)
      BY <1>1
    <3> QED
      BY <1>1, <3>1
  <2>2. ASSUME s # 1 PROVE text'[s - 1] = text[s - 1]
    <3>1. s - 1 \in 1..Len(text)
      BY <1>1, <2>2
    <3> QED
      BY <1>1, <3>1
  <2> QED
    BY <2>1, <2>2 DEF RowFrom
<1> QED
  BY <1>2, <1>3 DEF BlockEnds

\* The first blank line in the buffer ends the next block.
LEMMA FirstEnds ==
  ASSUME FrameTypes, Aligned, NEW end \in Breaks(buffer), \A i \in Breaks(buffer) : end <= i
  PROVE  /\ Taken + end \in BlockEnds
         /\ \A d \in BlockEnds : d < Taken + end => d < Taken
<1> DEFINE m == Taken + end
<1>1. /\ Len(text) \in Nat /\ Len(buffer) \in Nat /\ Taken \in Nat
      /\ Len(buffer) <= Len(text) /\ Taken + Len(buffer) = Len(text)
      /\ end \in 1..(Len(buffer) - 1)
  BY DEF FrameTypes, Aligned, Taken, Breaks
<1>2. /\ \A i \in 1..Len(buffer) : buffer[i] = text[Taken + i]
      /\ Taken = 0 \/ Taken - 1 \in BlockEnds
      /\ text \in Seq(Units)
  BY DEF Aligned, FrameTypes
<1>3. ASSUME NEW i \in 1..(Len(buffer) - 1)
      PROVE  i \in Breaks(buffer) <=> Taken + i \in Breaks(text)
  <2>1. /\ i \in 1..Len(buffer) /\ i + 1 \in 1..Len(buffer)
        /\ Taken + i \in 1..(Len(text) - 1) /\ Taken + (i + 1) = (Taken + i) + 1
    BY <1>1
  <2>2. buffer[i] = text[Taken + i] /\ buffer[i + 1] = text[(Taken + i) + 1]
    BY <1>2, <2>1
  <2> QED
    BY <2>1, <2>2 DEF Breaks
<1>4. m \in Breaks(text) /\ m \in Nat /\ m >= 1
  BY <1>1, <1>3
<1>5. text[m] = Newline
  BY <1>4 DEF Breaks
<1>6. \E s \in 1..m : RowFrom(s, m) /\ \E k \in 0..m : m = s + 2 * k
  <2>1. CASE m = 1
    BY <1>5, <2>1 DEF RowFrom
  <2>2. CASE end > 1
    <3>1. end - 1 \notin Breaks(buffer) /\ end - 1 \in 1..(Len(buffer) - 1)
      BY <1>1, <2>2
    <3>2. Taken + (end - 1) \notin Breaks(text)
      BY <1>3, <3>1
    <3>3. m - 1 \in 1..(Len(text) - 1) /\ m - 1 \notin Breaks(text)
      BY <1>1, <2>2, <3>2
    <3>4. text[m - 1] # Newline
      BY <1>4, <1>5, <3>3 DEF Breaks
    <3>5. RowFrom(m, m)
      BY <1>4, <1>5, <3>4 DEF RowFrom
    <3>6. m \in 1..m /\ 0 \in 0..m /\ m = m + 2 * 0
      BY <1>4
    <3> QED
      BY <3>5, <3>6
  <2>3. CASE end = 1 /\ Taken > 0
    <3> DEFINE b == Taken - 1
    <3>1. b \in BlockEnds /\ b \in Nat /\ m = b + 2 /\ b + 1 = Taken
      BY <1>1, <1>2, <2>3
    <3>2. text[b + 1] = Newline
      BY <3>1 DEF BlockEnds, Breaks
    <3> HIDE DEF b, m
    <3>3. PICK s \in 1..b : RowFrom(s, b) /\ \E k \in 0..b : b = s + 2 * k
      BY <3>1 DEF BlockEnds
    <3>4. PICK k \in 0..b : b = s + 2 * k
      BY <3>3
    <3>5. RowFrom(s, m)
      BY <1>5, <3>1, <3>2, <3>3 DEF RowFrom
    <3>6. s \in 1..m /\ k + 1 \in 0..m /\ m = s + 2 * (k + 1)
      BY <3>1, <3>4
    <3> QED
      BY <3>5, <3>6
  <2> QED
    BY <1>1, <2>1, <2>2, <2>3
<1>7. m \in BlockEnds
  BY <1>4, <1>6 DEF BlockEnds
<1>8. ASSUME NEW d \in BlockEnds, d < m, d >= Taken PROVE FALSE
  <2>1. d \in Nat /\ d \in Breaks(text)
    BY DEF BlockEnds, Breaks
  <2>2. CASE d = Taken
    <3>1. d # 0 /\ Taken # 0
      BY <2>1, <2>2 DEF Breaks
    <3>2. Taken - 1 \in BlockEnds /\ (Taken - 1) + 1 = d
      BY <1>1, <1>2, <2>2, <3>1
    <3> QED
      BY <1>2, <3>2, EndsApart
  <2>3. CASE d > Taken
    <3>1. d - Taken \in 1..(Len(buffer) - 1) /\ Taken + (d - Taken) = d /\ d - Taken < end
      BY <1>1, <1>8, <2>1, <2>3
    <3>2. d - Taken \in Breaks(buffer)
      BY <1>3, <2>1, <3>1
    <3> QED
      BY <1>1, <3>1, <3>2
  <2> QED
    BY <1>1, <1>8, <2>1, <2>2, <2>3
<1> QED
  BY <1>1, <1>4, <1>7, <1>8 DEF BlockEnds, Breaks


\* What is neither cut off nor in the buffer does not exist.
LEMMA NothingLeft ==
  ASSUME FrameTypes, Aligned, Breaks(buffer) = {}
  PROVE  Cut = BlockEnds
<1>1. /\ Len(text) \in Nat /\ Len(buffer) \in Nat /\ Taken \in Nat
      /\ Taken = Len(text) - Len(buffer) /\ Taken + Len(buffer) = Len(text)
      /\ text \in Seq(Units)
  BY DEF FrameTypes, Aligned, Taken
<1> SUFFICES ASSUME NEW d \in BlockEnds PROVE d < Taken
  BY DEF Cut, Taken
<1>2. d \in Breaks(text) /\ d \in 1..(Len(text) - 1)
  BY DEF BlockEnds, Breaks
<1>3. CASE d = Taken
  <2>1. Taken - 1 \in BlockEnds /\ (Taken - 1) + 1 = d
    BY <1>1, <1>2, <1>3 DEF Aligned
  <2>2. FALSE
    BY <1>1, <2>1, EndsApart
  <2> QED
    BY <2>2
<1>4. CASE d > Taken
  <2> DEFINE i == d - Taken
  <2>1. /\ i \in 1..(Len(buffer) - 1) /\ i \in 1..Len(buffer) /\ i + 1 \in 1..Len(buffer)
        /\ Taken + i = d /\ Taken + (i + 1) = d + 1
    BY <1>1, <1>2, <1>4
  <2>2. buffer[i] = text[d] /\ buffer[i + 1] = text[d + 1]
    BY <2>1 DEF Aligned
  <2> QED
    BY <1>2, <2>1, <2>2 DEF Breaks
<1> QED
  BY <1>1, <1>2, <1>3, <1>4

-----------------------------------------------------------------------------
(* The decoder.                                                            *)

LEMMA CharsFinite ==
  ASSUME NEW n \in Nat
  PROVE  /\ IsFiniteSet(CharEnds(n)) /\ Cardinality(CharEnds(n)) \in Nat
         /\ \A i \in CharEnds(n) : /\ i \in 1..n /\ IsFiniteSet(CharEnds(i))
                                   /\ Cardinality(CharEnds(i)) \in 1..Cardinality(CharEnds(n))
<1>1. ASSUME NEW m \in Nat PROVE IsFiniteSet(CharEnds(m)) /\ Cardinality(CharEnds(m)) \in Nat
  <2>1. IsFiniteSet(1..m) /\ CharEnds(m) \subseteq 1..m
    BY <1>1, FS_Interval DEF CharEnds
  <2> QED
    BY <2>1, FS_Subset, FS_CardinalityType
<1>2. ASSUME NEW i \in CharEnds(n)
      PROVE  i \in 1..n /\ Cardinality(CharEnds(i)) \in 1..Cardinality(CharEnds(n))
  <2>1. i \in 1..n /\ i \in CharEnds(i) /\ CharEnds(i) \subseteq CharEnds(n)
    BY DEF CharEnds
  <2>2. Cardinality(CharEnds(i)) <= Cardinality(CharEnds(n))
    BY <1>1, <2>1, FS_Subset
  <2>3. Cardinality(CharEnds(i)) # 0
    BY <1>1, <2>1, FS_EmptySet
  <2> QED
    BY <1>1, <2>1, <2>2, <2>3
<1> QED
  BY <1>1, <1>2

\* A byte that ends a character ends it as the body spells it.
LEMMA ByteTypes ==
  ASSUME FrameTypes, DecodeByte
  PROVE  /\ read' = read + 1 /\ read' \in 1..Len(body) /\ body' = body
         /\ body[read'] # "e1" =>
              /\ Spelt(read') \in Units
              /\ text' = Append(text, Spelt(read')) /\ buffer' = Append(buffer, Spelt(read'))
         /\ body[read'] = "e1" => text' = text /\ buffer' = buffer
         /\ half' <=> body[read'] = "e1"
         /\ UNCHANGED <<carried, frames, phase>> /\ phase = "decode"
<1>1. /\ read' = read + 1 /\ read' \in 1..Len(body) /\ read \in 0..Len(body) /\ Len(body) \in Nat
      /\ body' = body /\ UNCHANGED <<carried, frames, phase>> /\ phase = "decode"
      /\ half' <=> body[read'] = "e1"
  <2>1. read' = read + 1 /\ read < Len(body) /\ read \in 0..Len(body) /\ Len(body) \in Nat
    BY DEF FrameTypes, DecodeByte
  <2>2. read' \in 1..Len(body)
    BY <2>1
  <2>3. body' = body /\ UNCHANGED <<carried, frames, phase>> /\ phase = "decode"
    BY DEF DecodeByte
  <2>4. half' <=> body[read'] = "e1"
    <3>1. half' = (body[read + 1] = "e1") /\ read' = read + 1
      BY DEF DecodeByte
    <3> QED
      BY <3>1, Zenon
  <2> QED
    BY <2>1, <2>2, <2>3, <2>4
<1>2. text \in Seq(Units) /\ buffer \in Seq(Units) /\ body[read'] \in Units
  BY <1>1 DEF FrameTypes, Units
<1>3. CASE body[read'] = "e1"
  <2>1. text' = text \o <<>> /\ buffer' = buffer \o <<>>
    BY <1>1, <1>3 DEF DecodeByte
  <2>2. text' = text /\ buffer' = buffer
    BY <1>2, <2>1
  <2> QED
    BY <1>1, <1>3, <2>2
<1>4. CASE body[read'] = "e2"
  <2>1. read' > 1 /\ body[read' - 1] = "e1"
    <3>1. read' \in DOMAIN body /\ WellFormed(body)
      BY <1>1 DEF FrameTypes
    <3> QED
      BY <1>4, <3>1 DEF WellFormed
  <2>2. half
    <3>1. read > 0 /\ body[read] = "e1"
      <4>1. read' - 1 = read
        BY <1>1
      <4> QED
        BY <1>1, <2>1, <4>1
    <3> QED
      BY <3>1 DEF FrameTypes
  <2>3. text' = text \o <<Character>> /\ buffer' = buffer \o <<Character>> /\ Spelt(read') = Character
    BY <1>1, <1>4, <2>2 DEF DecodeByte, Spelt
  <2>4. Character \in Units
    BY DEF Units
  <2>5. text' = Append(text, Character) /\ buffer' = Append(buffer, Character)
    BY <1>2, <2>3, <2>4
  <2> QED
    BY <1>1, <1>4, <2>3, <2>4, <2>5
<1>5. CASE body[read'] \notin {"e1", "e2"}
  <2>1. /\ text' = text \o <<body[read']>> /\ buffer' = buffer \o <<body[read']>>
        /\ Spelt(read') = body[read']
    BY <1>1, <1>5 DEF DecodeByte, Spelt
  <2>2. text' = Append(text, body[read']) /\ buffer' = Append(buffer, body[read'])
    BY <1>2, <2>1
  <2> QED
    BY <1>1, <1>2, <1>5, <2>1, <2>2
<1> QED
  BY <1>3, <1>4, <1>5

LEMMA TextGrows ==
  ASSUME FrameTypes, TextWhole, DecodeByte
  PROVE  TextWhole'
<1> DEFINE n == read + 1
           C == CharEnds(read)
<1>1. /\ read \in Nat /\ n \in Nat /\ read' = n /\ body' = body /\ text \in Seq(Units)
      /\ Len(text) = Cardinality(C) /\ \A i \in C : text[Cardinality(CharEnds(i))] = Spelt(i)
  BY ByteTypes DEF FrameTypes, TextWhole
<1>2. \A i : CharEnds(i)' = CharEnds(i) /\ Spelt(i)' = Spelt(i)
  BY <1>1 DEF CharEnds, Spelt
<1>3. CASE body[n] = "e1"
  <2>1. CharEnds(n) = C
    BY <1>1, <1>3 DEF CharEnds
  <2>2. text' = text
    BY <1>1, <1>3, ByteTypes
  <2> QED
    BY <1>1, <1>2, <2>1, <2>2 DEF TextWhole, CharEnds, Spelt
<1>4. CASE body[n] # "e1"
  <2>1. CharEnds(n) = C \cup {n} /\ n \notin C
    BY <1>1, <1>4 DEF CharEnds
  <2>2. Cardinality(CharEnds(n)) = Cardinality(C) + 1
    BY <1>1, <2>1, CharsFinite, FS_AddElement
  <2>3. text' = Append(text, Spelt(n)) /\ Spelt(n) \in Units
    BY <1>1, <1>4, ByteTypes
  <2>4. /\ Len(text') = Len(text) + 1 /\ text'[Len(text) + 1] = Spelt(n)
        /\ \A k \in 1..Len(text) : text'[k] = text[k]
    BY <1>1, <2>3
  <2>5. \A i \in CharEnds(n) : text'[Cardinality(CharEnds(i))] = Spelt(i)
    <3> SUFFICES ASSUME NEW i \in CharEnds(n) PROVE text'[Cardinality(CharEnds(i))] = Spelt(i)
      OBVIOUS
    <3>1. CASE i = n
      BY <1>1, <2>2, <2>4, <3>1
    <3>2. CASE i \in C
      <4>1. Cardinality(CharEnds(i)) \in 1..Len(text)
        BY <1>1, <3>2, CharsFinite
      <4> QED
        BY <1>1, <2>4, <3>2, <4>1
    <3> QED
      BY <2>1, <3>1, <3>2
  <2>6. Len(text') = Cardinality(CharEnds(n))
    BY <1>1, <2>2, <2>4
  <2>7. /\ CharEnds(read)' = CharEnds(n)
        /\ \A i \in CharEnds(n) : CharEnds(i)' = CharEnds(i) /\ Spelt(i)' = Spelt(i)
    BY <1>1 DEF CharEnds, Spelt
  <2> QED
    BY <1>1, <2>5, <2>6, <2>7 DEF TextWhole, CharEnds, Spelt
<1> QED
  BY <1>3, <1>4

LEMMA SameStretch ==
  ASSUME NEW v \in Seq(Units), NEW w \in Seq(Units), NEW s \in Nat, NEW n \in Nat, s >= 1,
         NEW k \in Nat, k >= 1, n <= Len(v), NEW m \in Nat, m <= Len(w), m - k = n - s,
         \A j \in 1..(n - s + 1) : v[s + j - 1] = w[k + j - 1]
  PROVE  SubSeq(v, s, n) = SubSeq(w, k, m)
<1>1. SubSeq(v, s, n) = [j \in 1..(n - s + 1) |-> v[s + j - 1]]
  OBVIOUS
<1>2. SubSeq(w, k, m) = [j \in 1..(m - k + 1) |-> w[k + j - 1]]
  OBVIOUS
<1> QED
  BY <1>1, <1>2

\* What is cut off is not touched by what comes after it.
LEMMA CutStays ==
  ASSUME FrameTypes, Aligned, NEW c \in Units,
         text' = Append(text, c), buffer' = Append(buffer, c)
  PROVE  /\ Taken' = Taken /\ Cut' = Cut /\ Aligned'
         /\ \A i \in Cut : \A s \in 1..i : BlockFrom(s, i)' <=> BlockFrom(s, i)
         /\ \A i \in Cut : \A s \in 1..i : SubSeq(text', s, i - 1) = SubSeq(text, s, i - 1)
<1>1. /\ Len(text) \in Nat /\ Len(buffer) \in Nat /\ Len(buffer) <= Len(text)
      /\ Len(text') = Len(text) + 1 /\ Len(buffer') = Len(buffer) + 1
      /\ \A i \in 1..Len(text) : text'[i] = text[i]
      /\ \A i \in 1..Len(buffer) : buffer'[i] = buffer[i]
      /\ text'[Len(text) + 1] = c /\ buffer'[Len(buffer) + 1] = c
      /\ text \in Seq(Units) /\ text' \in Seq(Units)
  BY DEF FrameTypes, Aligned
<1>2. /\ Taken \in Nat /\ Taken' = Taken /\ Taken + Len(buffer) = Len(text)
      /\ Len(buffer) \in Nat /\ Len(text) \in Nat
      /\ Len(text') = Len(text) + 1 /\ Len(buffer') = Len(buffer) + 1
  BY <1>1 DEF Taken
<1>3. \A i \in 1..(Len(text) - 1) : i \in BlockEnds' <=> i \in BlockEnds
  BY <1>1, EndsStay
<1>4. /\ \A i \in BlockEnds : i \in Nat /\ i >= 1
      /\ \A i \in BlockEnds' : i \in Nat /\ i >= 1
  <2>1. BlockEnds \subseteq Breaks(text) /\ BlockEnds' \subseteq Breaks(text')
    BY DEF BlockEnds
  <2>2. Breaks(text) \subseteq 1..(Len(text) - 1) /\ Breaks(text') \subseteq 1..(Len(text') - 1)
    BY DEF Breaks
  <2> QED
    BY <1>2, <2>1, <2>2
<1>5. \A i \in Nat : i < Taken => (i \in BlockEnds' <=> i \in BlockEnds)
  BY <1>1, <1>2, <1>3, <1>4
<1>6. Cut = {i \in BlockEnds : i < Taken} /\ Cut' = {i \in BlockEnds' : i < Taken}
  BY <1>2 DEF Cut, Taken
<1>7. Cut' = Cut
  BY <1>4, <1>5, <1>6
<1>8. Aligned'
  <2>1. ASSUME NEW i \in 1..Len(buffer') PROVE buffer'[i] = text'[Taken + i]
    <3>1. CASE i \in 1..Len(buffer)
      <4>1. Taken + i \in 1..Len(text) /\ buffer[i] = text[Taken + i]
        BY <1>1, <1>2, <3>1 DEF Aligned
      <4> QED
        BY <1>1, <3>1, <4>1
    <3>2. CASE i = Len(buffer) + 1
      <4>1. Taken + i = Len(text) + 1
        BY <1>2, <3>2
      <4> QED
        BY <1>1, <3>2, <4>1
    <3>3. i \in 1..Len(buffer) \/ i = Len(buffer) + 1
      BY <1>2
    <3> QED
      BY <3>1, <3>2, <3>3
  <2>2. Taken = 0 \/ Taken - 1 \in BlockEnds'
    <3>1. Taken = 0 \/ Taken - 1 \in BlockEnds
      BY DEF Aligned
    <3> QED
      BY <1>2, <1>4, <1>5, <3>1
  <2>3. Len(buffer') <= Len(text')
    BY <1>1
  <2> QED
    BY <1>2, <2>1, <2>2, <2>3 DEF Aligned
<1>9. ASSUME NEW i \in Cut, NEW s \in 1..i PROVE BlockFrom(s, i)' <=> BlockFrom(s, i)
  <2>1. i \in Nat /\ i < Taken
    BY <1>4, <1>6
  <2>2. \A d \in Nat : d < i => (d \in BlockEnds' <=> d \in BlockEnds)
    BY <1>2, <1>5, <2>1
  <2>3. (\A d \in BlockEnds' : d < i => d + 2 <= s) <=> (\A d \in BlockEnds : d < i => d + 2 <= s)
    BY <1>4, <2>2
  <2>4. s = 1 \/ (s - 2 \in Nat /\ s - 2 < Taken)
    BY <1>2, <2>1
  <2>5. s = 1 \/ (s - 2 \in BlockEnds' <=> s - 2 \in BlockEnds)
    BY <1>5, <2>4
  <2> QED
    BY <2>3, <2>5 DEF BlockFrom
<1>10. ASSUME NEW i \in Cut, NEW s \in 1..i PROVE SubSeq(text', s, i - 1) = SubSeq(text, s, i - 1)
  <2>1. i \in Nat /\ i < Taken
    BY <1>4, <1>6
  <2>2. i - 1 \in Nat /\ i - 1 <= Len(text) /\ i - 1 <= Len(text') /\ s \in Nat /\ s >= 1
    BY <1>2, <2>1
  <2>3. ASSUME NEW j \in 1..(i - 1 - s + 1) PROVE text'[s + j - 1] = text[s + j - 1]
    <3>1. s + j - 1 \in 1..Len(text)
      BY <1>2, <2>2
    <3> QED
      BY <1>1, <3>1
  <2>4. text \in Seq(Units) /\ text' \in Seq(Units)
    BY <1>1
  <2> QED
    BY <2>2, <2>3, <2>4, SameStretch
<1> QED
  BY <1>2, <1>7, <1>8, <1>9, <1>10

-----------------------------------------------------------------------------
(* The steps.                                                              *)

LEMMA FrameStays ==
  ASSUME carried' = carried
  PROVE  Given' = Given /\ \A b : FrameOf(b)' = FrameOf(b)
<1>1. \A b : FrameOf(b)' = FrameOf(b)
  BY DEF FrameOf, ToFrame
<1> QED
  BY <1>1 DEF Given

LEMMA BodyStays ==
  ASSUME body' = body
  PROVE  WellFormed(body)' <=> WellFormed(body)
BY DEF WellFormed

\* The blocks cut off are those of the text, the frames, and how far it is cut.
LEMMA BlocksStay ==
  ASSUME UNCHANGED <<carried, text, buffer, frames>>, Aligned, BlocksWhole
  PROVE  Aligned' /\ BlocksWhole'
<1>1. BlockEnds' = BlockEnds
  BY DEF BlockEnds, Breaks, RowFrom
<1>2. Cut' = Cut /\ Taken' = Taken
  BY <1>1 DEF Cut, Taken
<1>3. \A i, s : BlockFrom(s, i)' <=> BlockFrom(s, i)
  BY <1>1 DEF BlockFrom
<1>4. Aligned'
  BY <1>1, <1>2 DEF Aligned
<1>5. \A b : FrameOf(b)' = FrameOf(b)
  BY FrameStays
<1>6. Len(frames') = Cardinality(Cut')
  BY <1>2 DEF BlocksWhole
<1>7. ASSUME NEW i \in Cut
      PROVE  \E s \in 1..i : /\ BlockFrom(s, i)'
                             /\ frames'[Cardinality({d \in Cut' : d <= i})] = FrameOf(SubSeq(text, s, i - 1))'
  BY <1>2, <1>3, <1>5 DEF BlocksWhole
<1> QED
  BY <1>2, <1>4, <1>6, <1>7 DEF BlocksWhole

LEMMA ByteSafe ==
  ASSUME FramesInv, DecodeByte
  PROVE  FramesInv'
<1> USE DEF FramesInv
<1>1. /\ read' = read + 1 /\ read' \in 1..Len(body) /\ body' = body
      /\ half' <=> body[read'] = "e1"
      /\ UNCHANGED <<carried, frames, phase>> /\ phase = "decode"
  BY ByteTypes
<1>2. TextWhole'
  BY TextGrows
<1>5. text' \in Seq(Units) /\ buffer' \in Seq(Units) => FrameTypes'
  <2>1. FrameTypes /\ WellFormed(body)' /\ Given' = Given
    BY <1>1, BodyStays, FrameStays DEF FrameTypes
  <2>2. half' <=> read' > 0 /\ body'[read'] = "e1"
    <3>1. read' > 0
      BY <1>1
    <3> QED
      BY <1>1, <3>1
  <2>3. read' \in 0..Len(body')
    BY <1>1
  <2> QED
    BY <1>1, <2>1, <2>2, <2>3 DEF FrameTypes
<1>3. CASE body[read'] = "e1"
  <2>1. text' = text /\ buffer' = buffer
    BY <1>3, ByteTypes
  <2>2. text' \in Seq(Units) /\ buffer' \in Seq(Units)
    BY <2>1 DEF FrameTypes
  <2>3. Aligned' /\ BlocksWhole'
    BY <1>1, <2>1, BlocksStay
  <2> QED
    BY <1>1, <1>2, <1>5, <2>2, <2>3 DEF Drained, EndReached
<1>4. CASE body[read'] # "e1"
  <2> DEFINE c == Spelt(read')
  <2>1. c \in Units /\ text' = Append(text, c) /\ buffer' = Append(buffer, c)
    BY <1>4, ByteTypes
  <2> HIDE DEF c
  <2>2. text' \in Seq(Units) /\ buffer' \in Seq(Units)
    BY <2>1 DEF FrameTypes
  <2>3. /\ Cut' = Cut /\ Aligned'
        /\ \A i \in Cut : \A s \in 1..i : BlockFrom(s, i)' <=> BlockFrom(s, i)
        /\ \A i \in Cut : \A s \in 1..i : SubSeq(text', s, i - 1) = SubSeq(text, s, i - 1)
    BY <2>1, CutStays
  <2>4. BlocksWhole'
    <3>1. \A b : FrameOf(b)' = FrameOf(b)
      BY <1>1, FrameStays
    <3>2. Len(frames') = Cardinality(Cut')
      BY <1>1, <2>3 DEF BlocksWhole
    <3>3. ASSUME NEW i \in Cut
          PROVE  \E s \in 1..i : /\ BlockFrom(s, i)'
                                 /\ frames'[Cardinality({d \in Cut' : d <= i})] = FrameOf(SubSeq(text, s, i - 1))'
      BY <1>1, <2>3, <3>1 DEF BlocksWhole
    <3> QED
      BY <2>3, <3>2, <3>3 DEF BlocksWhole
  <2> QED
    BY <1>1, <1>2, <1>5, <2>2, <2>3, <2>4 DEF Drained, EndReached
<1> QED
  BY <1>3, <1>4

LEMMA RanksBounded ==
  ASSUME FrameTypes
  PROVE  /\ IsFiniteSet(Cut) /\ Cardinality(Cut) \in Nat
         /\ \A i \in Cut : Cardinality({d \in Cut : d <= i}) \in 1..Cardinality(Cut)
<1>1. Len(text) \in Nat
  BY DEF FrameTypes
<1>2. IsFiniteSet(1..Len(text)) /\ Cut \subseteq 1..Len(text)
  BY <1>1, FS_Interval DEF Cut, BlockEnds, Breaks
<1>3. IsFiniteSet(Cut) /\ Cardinality(Cut) \in Nat
  BY <1>2, FS_Subset, FS_CardinalityType
<1>4. ASSUME NEW i \in Cut PROVE Cardinality({d \in Cut : d <= i}) \in 1..Cardinality(Cut)
  <2> DEFINE D == {d \in Cut : d <= i}
  <2>1. i \in D /\ D \subseteq Cut
    BY <1>2
  <2> HIDE DEF D
  <2>2. IsFiniteSet(D) /\ Cardinality(D) \in Nat /\ Cardinality(D) <= Cardinality(Cut)
    BY <1>3, <2>1, FS_Subset, FS_CardinalityType
  <2>3. Cardinality(D) # 0
    BY <2>1, <2>2, FS_EmptySet
  <2> QED
    BY <1>3, <2>2, <2>3 DEF D
<1> QED
  BY <1>3, <1>4

LEMMA CutSafe ==
  ASSUME FramesInv, CutBlock
  PROVE  FramesInv'
<1> USE DEF FramesInv
<1>1. PICK end \in Breaks(buffer) :
        /\ \A i \in Breaks(buffer) : end <= i
        /\ buffer' = SubSeq(buffer, end + 2, Len(buffer))
        /\ frames' = Append(frames, FrameOf(SubSeq(buffer, 1, end - 1)))
  BY DEF CutBlock
<1>2. phase = "cut" /\ UNCHANGED <<body, carried, read, half, text, phase>>
  BY DEF CutBlock
<1> DEFINE m == Taken + end
           block == SubSeq(buffer, 1, end - 1)
<1>3. m \in BlockEnds /\ \A d \in BlockEnds : d < m => d < Taken
  BY <1>1, FirstEnds
<1>4. /\ Len(text) \in Nat /\ Len(buffer) \in Nat /\ Taken \in Nat
      /\ Len(buffer) <= Len(text) /\ Taken + Len(buffer) = Len(text)
      /\ end \in 1..(Len(buffer) - 1)
      /\ text \in Seq(Units) /\ buffer \in Seq(Units)
  BY DEF FrameTypes, Aligned, Taken, Breaks
<1>5. /\ buffer' \in Seq(Units) /\ Len(buffer') = Len(buffer) - end - 1
      /\ \A i \in 1..Len(buffer') : buffer'[i] = buffer[end + 2 + i - 1]
  BY <1>1, <1>4
<1>6. Taken' = m + 1 /\ Len(buffer') \in Nat
  BY <1>2, <1>4, <1>5 DEF Taken
<1>7. BlockEnds' = BlockEnds /\ \A i, s : BlockFrom(s, i)' <=> BlockFrom(s, i)
  BY <1>2 DEF BlockEnds, Breaks, RowFrom, BlockFrom
<1>8. FrameTypes'
  <2>1. block \in Seq(Units)
    BY <1>4
  <2>2. FrameOf(block) \in Given
    BY <2>1 DEF Given
  <2>3. frames' \in Seq(Given)
    BY <1>1, <2>2 DEF FrameTypes
  <2>4. WellFormed(body)' /\ Given' = Given
    BY <1>2, BodyStays, FrameStays DEF FrameTypes
  <2> QED
    BY <1>2, <1>5, <2>3, <2>4 DEF FrameTypes
<1>9. Aligned'
  <2>1. ASSUME NEW i \in 1..Len(buffer') PROVE buffer'[i] = text'[Taken' + i]
    <3>1. /\ end + 2 + i - 1 \in 1..Len(buffer) /\ Taken + (end + 2 + i - 1) = Taken' + i
      BY <1>4, <1>5, <1>6
    <3>2. buffer[end + 2 + i - 1] = text[Taken + (end + 2 + i - 1)]
      BY <3>1 DEF Aligned
    <3> QED
      BY <1>2, <1>5, <3>1, <3>2
  <2>2. Taken' - 1 \in BlockEnds'
    BY <1>3, <1>4, <1>6, <1>7
  <2>3. Len(buffer') <= Len(text')
    BY <1>2, <1>4, <1>5
  <2> QED
    BY <2>1, <2>2, <2>3 DEF Aligned
<1>10. /\ Cut = {d \in BlockEnds : d < Taken} /\ Cut' = {d \in BlockEnds : d < m + 1}
  BY <1>6, <1>7 DEF Cut, Taken
<1>11. \A d \in BlockEnds : d \in Nat
  BY <1>4 DEF BlockEnds, Breaks
<1> HIDE DEF m
<1>12. m \in Nat /\ m >= Taken + 1 /\ m = Taken + end
  BY <1>4 DEF m
<1>13. Cut' = Cut \cup {m} /\ m \notin Cut
  <2>1. ASSUME NEW d \in BlockEnds PROVE d < m + 1 <=> d < Taken \/ d = m
    <3>1. d < m => d < Taken
      BY <1>3 DEF m
    <3> QED
      BY <1>4, <1>11, <1>12, <3>1
  <2>2. m \in BlockEnds /\ ~(m < Taken)
    BY <1>3, <1>4, <1>12 DEF m
  <2> QED
    BY <1>10, <2>1, <2>2
<1>14. BlocksWhole'
  <2>1. /\ IsFiniteSet(Cut) /\ Cardinality(Cut) \in Nat
        /\ \A i \in Cut : Cardinality({d \in Cut : d <= i}) \in 1..Cardinality(Cut)
    BY RanksBounded
  <2>2. Cardinality(Cut') = Cardinality(Cut) + 1
    BY <1>13, <2>1, FS_AddElement
  <2>3. /\ Len(frames') = Len(frames) + 1 /\ frames'[Len(frames) + 1] = FrameOf(block)
        /\ \A k \in 1..Len(frames) : frames'[k] = frames[k]
    <3>1. block \in Seq(Units)
      BY <1>4
    <3>2. frames \in Seq(Given) /\ FrameOf(block) \in Given
      BY <3>1 DEF FrameTypes, Given
    <3> QED
      BY <1>1, <3>2
  <2>4. Len(frames) = Cardinality(Cut)
    BY DEF BlocksWhole
  <2>5. ASSUME NEW i \in Cut
        PROVE  \E s \in 1..i : /\ BlockFrom(s, i)
                               /\ frames'[Cardinality({d \in Cut' : d <= i})] = FrameOf(SubSeq(text, s, i - 1))
    <3>1. PICK s \in 1..i : /\ BlockFrom(s, i)
                            /\ frames[Cardinality({d \in Cut : d <= i})] = FrameOf(SubSeq(text, s, i - 1))
      BY DEF BlocksWhole
    <3>2. {d \in Cut' : d <= i} = {d \in Cut : d <= i}
      BY <1>4, <1>10, <1>11, <1>12, <1>13
    <3>3. Cardinality({d \in Cut : d <= i}) \in 1..Len(frames)
      BY <2>1, <2>4
    <3> QED
      BY <2>3, <3>1, <3>2, <3>3
  <2>6. \E s \in 1..m : /\ BlockFrom(s, m)
                        /\ frames'[Cardinality({d \in Cut' : d <= m})] = FrameOf(SubSeq(text, s, m - 1))
    <3>1. {d \in Cut' : d <= m} = Cut'
      BY <1>10, <1>11, <1>12
    <3>2. frames'[Cardinality({d \in Cut' : d <= m})] = FrameOf(block)
      BY <2>2, <2>3, <2>4, <3>1
    <3> DEFINE s == Taken + 1
    <3>3. s \in 1..m
      BY <1>4, <1>12
    <3>4. BlockFrom(s, m)
      <4>1. s = 1 \/ s - 2 \in BlockEnds
        <5>1. Taken = 0 \/ Taken - 1 \in BlockEnds
          BY DEF Aligned
        <5>2. s - 2 = Taken - 1
          BY <1>4
        <5> QED
          BY <5>1, <5>2
      <4>2. \A d \in BlockEnds : d < m => d + 2 <= s
        BY <1>3, <1>4, <1>11, <1>12 DEF m
      <4> QED
        BY <4>1, <4>2 DEF BlockFrom
    <3>5. block = SubSeq(text, s, m - 1)
      <4>1. ASSUME NEW j \in 1..(end - 1 - 1 + 1) PROVE buffer[1 + j - 1] = text[s + j - 1]
        <5>1. j \in 1..Len(buffer) /\ 1 + j - 1 = j /\ s + j - 1 = Taken + j
          BY <1>4
        <5> QED
          BY <5>1 DEF Aligned
      <4>2. /\ s \in Nat /\ s >= 1 /\ end - 1 \in Nat /\ end - 1 <= Len(buffer)
            /\ m - 1 \in Nat /\ m - 1 <= Len(text) /\ m - 1 - s = end - 1 - 1
        BY <1>4, <1>12
      <4> HIDE DEF s
      <4> QED
        BY <1>4, <4>1, <4>2, SameStretch
    <3> QED
      BY <3>2, <3>3, <3>4, <3>5
  <2>7. \A i \in Cut' : \E s \in 1..i :
          BlockFrom(s, i) /\ frames'[Cardinality({d \in Cut' : d <= i})] = FrameOf(SubSeq(text, s, i - 1))
    BY <1>13, <2>5, <2>6
  <2>8. \A b : FrameOf(b)' = FrameOf(b)
    BY <1>2, FrameStays
  <2>9. \A i \in Cut' : \E s \in 1..i :
          BlockFrom(s, i)' /\ frames'[Cardinality({d \in Cut' : d <= i})] = FrameOf(SubSeq(text, s, i - 1))'
    BY <1>2, <1>7, <2>7, <2>8
  <2> QED
    BY <2>2, <2>3, <2>4, <2>9 DEF BlocksWhole
<1>15. TextWhole'
  BY <1>2 DEF TextWhole, CharEnds, Spelt
<1> QED
  BY <1>2, <1>8, <1>9, <1>14, <1>15 DEF Drained, EndReached

\* The other steps are those of the loops.
LEMMA LoopSafe ==
  ASSUME FramesInv, ChunkArrives \/ ChunkEnds \/ ChunkDone \/ BodyEnds \/ BodyBreaks \/ UNCHANGED frameVars
  PROVE  FramesInv'
<1> USE DEF FramesInv
<1>1. UNCHANGED <<body, carried, read, half, text, buffer, frames>>
  BY DEF ChunkArrives, ChunkEnds, ChunkDone, BodyEnds, BodyBreaks, frameVars
<1>2. FrameTypes'
  <2>1. WellFormed(body)' /\ Given' = Given
    BY <1>1, BodyStays, FrameStays DEF FrameTypes
  <2> QED
    BY <1>1, <2>1 DEF FrameTypes
<1>3. TextWhole'
  BY <1>1 DEF TextWhole, CharEnds, Spelt
<1>4. Aligned' /\ BlocksWhole'
  BY <1>1, BlocksStay
<1>5. Drained'
  BY <1>1 DEF Drained, Breaks, ChunkArrives, ChunkEnds, ChunkDone, BodyEnds, BodyBreaks, frameVars
<1>6. EndReached'
  BY <1>1 DEF EndReached, ChunkArrives, ChunkEnds, ChunkDone, BodyEnds, BodyBreaks, frameVars
<1> QED
  BY <1>2, <1>3, <1>4, <1>5, <1>6

LEMMA FramesStart ==
  ASSUME FramesInit
  PROVE  FramesInv
<1>1. /\ body \in Body /\ carried \in Events /\ read = 0 /\ half = FALSE
      /\ text = <<>> /\ buffer = <<>> /\ frames = <<>> /\ phase = "next"
  BY DEF FramesInit
<1>2. body \in Seq(STRING) /\ WellFormed(body) /\ Len(body) \in Nat
  BY <1>1, BodyAssumption
<1>3. text \in Seq(Units) /\ buffer \in Seq(Units) /\ frames \in Seq(Given)
  BY <1>1
<1>4. FrameTypes
  BY <1>1, <1>2, <1>3 DEF FrameTypes
<1>5. TextWhole
  <2>1. CharEnds(read) = {}
    BY <1>1 DEF CharEnds
  <2> QED
    BY <1>1, <2>1, FS_EmptySet DEF TextWhole
<1>6. Breaks(text) = {} /\ Breaks(buffer) = {}
  BY <1>1 DEF Breaks
<1>7. Aligned
  BY <1>1 DEF Aligned, Taken
<1>8. BlocksWhole
  <2>1. Cut = {}
    BY <1>6 DEF Cut, BlockEnds
  <2> QED
    BY <1>1, <2>1, FS_EmptySet DEF BlocksWhole
<1> QED
  BY <1>1, <1>4, <1>5, <1>6, <1>7, <1>8 DEF FramesInv, Drained, EndReached

LEMMA FieldsRight ==
  ASSUME NEW v \in Events
  PROVE  EventRight(v, ToEvent(v))
<1>1. CASE v.outcome # "string" \/ v.time # "number"
  BY <1>1 DEF EventRight, ToEvent
<1>2. CASE v.outcome = "string" /\ v.time = "number"
  <2> DEFINE e == [outcome |-> v.outcome, time |-> v.time,
                   status |-> IF v.response = "object" THEN Num(v.status, "zero") ELSE "none",
                   name |-> Str(v.name, "empty"), cpu |-> Num(v.cpu, "null")]
  <2>1. ToEvent(v) = <<e>>
    BY <1>2 DEF ToEvent
  <2>2. e \in ToSet(<<e>>)
    BY DEF ToSet
  <2>3. /\ e.name = IF v.name = "string" THEN "string" ELSE "empty"
        /\ e.cpu = IF v.cpu = "number" THEN "number" ELSE "null"
        /\ e.status = IF v.response # "object" THEN "none"
                      ELSE IF v.status = "number" THEN "number" ELSE "zero"
    BY DEF Str, Num
  <2> HIDE DEF e
  <2>4. /\ e.name = "string" <=> v.name = "string"
        /\ e.cpu = "number" <=> v.cpu = "number"
        /\ e.status = "number" <=> v.status = "number" /\ v.response = "object"
        /\ {e.name, e.cpu, e.status} \cap {"infinite", "object", "absent"} = {}
    BY <2>3
  <2> QED
    BY <1>2, <2>1, <2>2, <2>4 DEF EventRight
<1> QED
  BY <1>1, <1>2

\* The frames that readFrames gives are those of the text's blocks, in their
\* order, wherever the body is cut into chunks, also within a character: none
\* is lost, given twice or put together from two.
THEOREM FramesComeWhole == FramesSpec => []FramesWhole
<1>1. FramesInit => FramesInv
  BY FramesStart
<1>2. FramesInv /\ [FramesNext]_frameVars => FramesInv'
  BY ByteSafe, CutSafe, LoopSafe DEF FramesNext
<1>3. FramesInv => FramesWhole
  <2> SUFFICES ASSUME FramesInv PROVE FramesWhole
    OBVIOUS
  <2>1. TextWhole /\ BlocksWhole /\ FrameTypes /\ Aligned /\ Drained /\ EndReached
    BY DEF FramesInv
  <2>2. phase \in {"next", "ended", "broken"} => Cut = BlockEnds
    BY <2>1, NothingLeft DEF Drained
  <2>3. EventRight(carried, ToEvent(carried))
    BY <2>1, FieldsRight DEF FrameTypes
  <2> QED
    BY <2>1, <2>2, <2>3 DEF FramesWhole, EndReached
<1> QED
  BY <1>1, <1>2, <1>3, PTL DEF FramesSpec

==============================================================================
