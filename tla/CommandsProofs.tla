--------------------------- MODULE CommandsProofs ----------------------------
(***************************************************************************)
(* Theorems about six parts of the program that share nothing: the         *)
(* transaction id of a restore, the loops that ask the network again, the  *)
(* commands that work on the contents of a namespace, the pruning of the   *)
(* directories that Porffor builds in, and the scripts that run a build    *)
(* with the packages of the repository and that deploy a binary.           *)
(***************************************************************************)
EXTENDS RestoreCommand, Retries, KvContents, PorfforBuilds, LocalPackages,
        StandaloneDeploy, FiniteSetTheorems, SequenceTheorems, TLAPS

(***************************************************************************)
(* RestoreCommand, for every width of the counter, every text and every    *)
(* command line.                                                           *)
(***************************************************************************)
\* Where the dispatcher stands determines what it has read.
Standing ==
  /\ argv \in Seq(Argument)
  /\ word \in Nat
  /\ taken \in [Flag -> Argument \cup {Absent}]
  /\ mark \in Nat \ {0}
  /\ value \in 0..MaxTxid /\ exact = value
  /\ dpc \in {"start", "words"} => value = 0 /\ mark = 1
  /\ dpc = "digits" => Complete /\ word > Len(argv) /\ Target # <<>> /\ mark <= Len(Target) + 1

RestoreInv == Standing /\ TargetExact

\* The comparison the code makes is exact: with it the next number fits, and
\* without it it does not.  UINT64_MAX itself is read, what follows is not.
LEMMA DigitFits ==
  ASSUME NEW v \in 0..MaxTxid, NEW d \in 0..9
  PROVE  v <= (MaxTxid - d) \div 10 <=> v * 10 + d <= MaxTxid
<1> DEFINE q == (MaxTxid - d) \div 10
<1>1. MaxTxid - d \in Nat
  BY MaxAssumption, SMT
<1>2. q \in Nat /\ q * 10 <= MaxTxid - d /\ MaxTxid - d < (q + 1) * 10
  BY <1>1, SMT
<1> HIDE DEF q
<1>3. v <= q <=> v * 10 + d <= MaxTxid
  BY <1>1, <1>2, MaxAssumption, SMT
<1> QED
  BY <1>3 DEF q

\* A number that fits is not changed by the width of the counter.
LEMMA FitsUnchanged ==
  ASSUME NEW n \in 0..MaxTxid
  PROVE  n % (MaxTxid + 1) = n
  BY MaxAssumption, SMT

\* The texts of arguments are numbers.
LEMMA TextIsNumbers ==
  ASSUME NEW a \in Argument \cup {Absent}
  PROVE  a.text \in Seq(Nat)
<1>1. <<10>> \in Seq(Nat) /\ <<>> \in Seq(Nat)
  OBVIOUS
<1>2. CASE a \in Argument
  <2>1. a.text \in Texts \cup {<<10>>}
    BY <1>2 DEF Argument
  <2> QED
    BY <1>1, <2>1, TextsAssumption, Zenon
<1>3. CASE a = Absent
  BY <1>1, <1>3 DEF Absent
<1> QED
  BY <1>2, <1>3

LEMMA TargetIsNumbers == Standing => Target \in Seq(Nat)
  BY TextIsNumbers DEF Standing, Target, Flag

LEMMA RestoreStarts == RestoreInit => RestoreInv
<1> SUFFICES ASSUME RestoreInit PROVE RestoreInv
  OBVIOUS
<1>1. argv \in Seq(Argument)
  BY LinesAssumption DEF RestoreInit
<1>2. Standing
  BY <1>1, MaxAssumption DEF RestoreInit, Standing
<1>3. TargetExact
  BY DEF RestoreInit, TargetExact
<1> QED
  BY <1>2, <1>3 DEF RestoreInv

\* Steps that read no digit keep the number and what is known of it.
LEMMA OtherSteps ==
  ASSUME RestoreInv,
         \/ Application \/ Help \/ Dispatches \/ NoPair \/ WordsEnd \/ RefuseDigit
             \/ DigitsEnd \/ Restore
  PROVE  RestoreInv'
<1> USE DEF RestoreInv, Goes
<1>1. UNCHANGED <<argv, word, taken, mark, value, exact>>
  BY DEF Application, Help, Dispatches, NoPair, WordsEnd, RefuseDigit, DigitsEnd, Restore
<1>2. Complete' = Complete /\ Target' = Target
  BY <1>1 DEF Complete, Target
<1>3. Target \in Seq(Nat)
  BY TargetIsNumbers
<1>4. CASE Application \/ Help
  BY <1>1, <1>2, <1>4 DEF Application, Help, Standing, TargetExact
<1>5. CASE Dispatches
  BY <1>1, <1>2, <1>5 DEF Dispatches, Standing, TargetExact
<1>6. CASE NoPair
  <2>1. ~(word > Len(argv))
    BY <1>6 DEF NoPair, Standing
  <2> QED
    BY <1>1, <1>2, <1>6, <2>1 DEF NoPair, Standing, TargetExact
<1>7. CASE WordsEnd
  <2>1. mark = 1 /\ value = 0
    BY <1>7 DEF WordsEnd, Standing
  <2>2. Standing'
    BY <1>1, <1>2, <1>3, <1>7, <2>1 DEF WordsEnd, Standing, Target
  <2>3. TargetExact'
    BY <1>1, <1>2, <1>7, <2>1 DEF WordsEnd, Standing, TargetExact, Target
  <2> QED
    BY <2>2, <2>3
<1>8. CASE RefuseDigit
  <2>1. mark \in 1..Len(Target) /\ Target[mark] \in Nat
    BY <1>3, <1>8 DEF RefuseDigit, Standing
  <2>2. Target[mark] > 9 \/ exact * 10 + Target[mark] > MaxTxid
    <3>1. CASE Target[mark] > 9
      BY <3>1
    <3>2. CASE ~(Target[mark] > 9)
      <4>1. Target[mark] \in 0..9
        BY <2>1, <3>2
      <4>2. value \in 0..MaxTxid /\ ~(value <= (MaxTxid - Target[mark]) \div 10)
        BY <1>8, <4>1 DEF RefuseDigit, Fits, Standing
      <4>3. ~(value * 10 + Target[mark] <= MaxTxid)
        BY <4>1, <4>2, DigitFits, Zenon
      <4> QED
        <5>1. \A v \in 0..MaxTxid, d \in 0..9 : ~(v * 10 + d <= MaxTxid) => v * 10 + d > MaxTxid
          BY MaxAssumption
        <5>2. value * 10 + Target[mark] > MaxTxid
          BY <4>1, <4>2, <4>3, <5>1, Zenon
        <5>3. exact = value
          BY DEF Standing
        <5> QED
          BY <5>2, <5>3, Zenon
    <3> QED
      BY <3>1, <3>2
  <2> QED
    BY <1>1, <1>2, <1>8, <2>1, <2>2 DEF RefuseDigit, Standing, TargetExact
<1>9. CASE DigitsEnd
  <2>1. mark > Len(Target) /\ Complete /\ Target # <<>>
    BY <1>9 DEF DigitsEnd, Standing
  <2>2. value # 0 => exact \in 1..MaxTxid
    BY MaxAssumption DEF Standing
  <2> QED
    BY <1>1, <1>2, <1>9, <2>1, <2>2 DEF DigitsEnd, Standing, TargetExact
<1>10. CASE Restore
  BY <1>1, <1>2, <1>10 DEF Restore, Standing, TargetExact
<1> QED
  BY <1>4, <1>5, <1>6, <1>7, <1>8, <1>9, <1>10

LEMMA PairStep ==
  ASSUME RestoreInv, TakePair
  PROVE  RestoreInv'
<1> USE DEF RestoreInv, TakePair, Goes, Standing
<1>1. argv[word + 1] \in Argument /\ argv[word].name \in Flag
  BY DEF IsPair
<1>2. taken' \in [Flag -> Argument \cup {Absent}] /\ word' \in Nat
  BY <1>1
<1> QED
  BY <1>2 DEF TargetExact

LEMMA DigitStep ==
  ASSUME RestoreInv, TakeDigit
  PROVE  RestoreInv'
<1> DEFINE d == Target[mark]
<1>1. mark \in 1..Len(Target) /\ d \in 0..9
  <2>1. Target \in Seq(Nat)
    BY TargetIsNumbers DEF RestoreInv
  <2>2. mark \in 1..Len(Target) /\ d \in Nat
    BY <2>1 DEF TakeDigit, RestoreInv, Standing
  <2> QED
    BY <2>2 DEF TakeDigit, Fits
<1>2. Len(Target) \in Nat
  BY TargetIsNumbers DEF RestoreInv
<1>3. value \in 0..MaxTxid /\ exact = value /\ mark \in Nat \ {0}
  BY DEF RestoreInv, Standing
<1>4. value * 10 + d <= MaxTxid
  BY <1>1, <1>3, DigitFits DEF TakeDigit, Fits
<1>5. value * 10 + d \in 0..MaxTxid
  BY <1>1, <1>3, <1>4, MaxAssumption
<1>6. value' = value * 10 + d /\ exact' = value'
  BY <1>3, <1>5, FitsUnchanged DEF TakeDigit
<1>7. dpc = "digits" /\ dpc' = "digits" /\ mark' = mark + 1 /\ UNCHANGED <<argv, word, taken>>
  BY DEF TakeDigit, Goes
<1>8. Complete' = Complete /\ Target' = Target
  BY <1>7 DEF Complete, Target
<1>9. mark' \in Nat \ {0} /\ mark' <= Len(Target) + 1
  BY <1>1, <1>2, <1>7
<1>10. Standing'
  BY <1>5, <1>6, <1>7, <1>8, <1>9 DEF RestoreInv, Standing
<1>11. TargetExact'
  BY <1>6, <1>7 DEF TargetExact
<1> QED
  BY <1>10, <1>11 DEF RestoreInv

\* The transaction id that the restore uses is the number that was written.
\* However long the text, the 64-bit counter never wraps around, and what does
\* not fit is refused (native-restore.ts, the loop over target).
THEOREM TransactionIdExact == RestoreSpec => []TargetExact
<1>1. RestoreInit => RestoreInv
  BY RestoreStarts
<1>2. RestoreInv /\ [RestoreNext]_restoreVars => RestoreInv'
  <2> SUFFICES ASSUME RestoreInv, [RestoreNext]_restoreVars PROVE RestoreInv'
    OBVIOUS
  <2>1. CASE UNCHANGED restoreVars
    BY <2>1 DEF restoreVars, RestoreInv, Standing, TargetExact, Complete, Target
  <2>2. CASE TakePair
    BY <2>2, PairStep
  <2>3. CASE TakeDigit
    BY <2>3, DigitStep
  <2>4. CASE ~TakePair /\ ~TakeDigit /\ RestoreNext
    BY <2>4, OtherSteps DEF RestoreNext
  <2> QED
    BY <2>1, <2>2, <2>3, <2>4
<1>3. RestoreInv => TargetExact
  BY DEF RestoreInv
<1> QED
  BY <1>1, <1>2, <1>3, PTL DEF RestoreSpec

(***************************************************************************)
(* Retries, for any mirrors, any number of attempts, any answers and any   *)
(* times.  That a good source suffices is about the end of a call; the     *)
(* invariant is about its middle: which sources have been asked how often, *)
(* and that the ones that were passed over are not the good one.           *)
(***************************************************************************)
RetryTypes ==
  /\ call \in {"pinned", "archive", "healthy"}
  /\ sources \in Seq(Source) /\ nth \in Nat \ {0}
  /\ asked \in [Source -> Seq(Answer)]
  /\ vendored \in Copy /\ kept \in Copy /\ keeps \in BOOLEAN
  /\ steady \in Source \cup {NoSource}
  /\ clock \in Nat /\ pause \in Nat /\ upAt \in Nat

\* Which call is at which place, and that it has an outcome when it is done.
Placed ==
  /\ rpc \in {"vendored", "kept", "list", "ask", "store", "poll", "sleep", "done"}
  /\ outcome = None <=> rpc # "done"
  /\ rpc = "vendored" => call = "pinned"
  /\ rpc \in {"kept", "ask", "store"} => call # "healthy"
  /\ rpc = "list" => call = "archive"
  /\ rpc \in {"poll", "sleep"} => call = "healthy"

\* No source is listed twice.
Distinct == \A i, j \in 1..Len(sources) : sources[i] = sources[j] => i = j

\* What has been asked: nothing before the list is there, nothing of the later
\* sources, of the present one less than is allowed.
Bounded ==
  \A s \in Source :
    /\ Len(asked[s]) <= AttemptsPer
    /\ call = "pinned" => \A i \in 1..(Len(asked[s]) - 1) : asked[s][i] \notin Final

Questioned ==
  /\ rpc \in {"vendored", "kept", "list"} => nth = 1 /\ \A s \in Source : asked[s] = <<>>
  /\ rpc \in {"ask", "store"} => \A i \in 1..Len(sources) : i > nth => asked[sources[i]] = <<>>
  /\ rpc = "ask" /\ nth <= Len(sources) =>
       /\ Len(asked[sources[nth]]) < AttemptsPer
       /\ call = "pinned" =>
            \A i \in 1..Len(asked[sources[nth]]) : asked[sources[nth]][i] \notin Final
  /\ rpc = "store" =>
       /\ nth <= Len(sources) /\ asked[sources[nth]] # <<>>
       /\ Last(asked[sources[nth]]) \in {"right", "wrong"}
       /\ call = "pinned" => Last(asked[sources[nth]]) = "right"

\* A source that always answers rightly is never passed over.
Trusted ==
  /\ rpc \in {"ask", "store"} => \A i \in 1..Len(sources) : i < nth => sources[i] # steady
  /\ rpc = "store" /\ sources[nth] = steady => Last(asked[sources[nth]]) = "right"
  /\ rpc \in {"kept", "list"} /\ call = "archive" => sources = <<>>

\* What is on disk when the network is asked is of no use.
Copies ==
  /\ rpc \in {"kept", "list", "ask", "store"} => vendored # "right"
  /\ rpc \in {"list", "ask", "store"} => kept # "right"
  /\ rpc \in {"ask", "store"} /\ call = "pinned" => kept = "absent"

\* How long waitForHealthy has waited for a deployment that does not serve.
Timed ==
  /\ pause <= HealthWait
  /\ rpc = "sleep" => \E d \in PollTime : clock < upAt + d
  /\ rpc = "poll" => clock = 0 \/ \E d \in PollTime : clock < upAt + HealthWait + d

\* How a call ends.
Settled ==
  /\ outcome = "failed" =>
       /\ vendored # "right" /\ kept # "right"
       /\ steady \in ToSet(sources) => call = "archive" /\ \E s \in Source : "wrong" \in ToSet(asked[s])
  /\ outcome = "bytes" => "right" \in {vendored,
      kept} \cup UNION {ToSet(asked[s]) : s \in Source}
  /\ outcome # None /\ call = "pinned" => kept # "wrong" \/ vendored = "right"
  /\ outcome = "serving" => clock >= upAt
  /\ outcome = "not serving" => \E d \in PollTime : upAt + HealthWait + d > HealthLimit

RetryInv ==
  /\ RetryTypes /\ Placed /\ Distinct /\ Questioned /\ Trusted /\ Copies /\ Timed /\ Settled
  /\ call # "healthy" => Bounded

\* A list of mirrors in any order, the official source last, names none twice.
LEMMA ListedOnce ==
  ASSUME NEW listed \in SUBSET Mirror, NEW order \in SetToSeqs(listed),
         sources' = Append(order, Official)
  PROVE  sources' \in Seq(Source) /\ Distinct'
<1> DEFINE n == Cardinality(listed)
<1>1. n \in Nat
  <2>1. IsFiniteSet(listed)
    BY RetryAssumption, FS_Subset
  <2> QED
    BY <2>1, FS_CardinalityType
<1>2. /\ order \in [1..n -> listed]
      /\ \A i, j \in 1..n : i # j => order[i] # order[j]
  BY DEF SetToSeqs
<1> HIDE DEF n
<1>3. order \in Seq(Source) /\ Len(order) = n
  BY <1>1, <1>2 DEF Source
<1>4. /\ sources' \in Seq(Source) /\ Len(sources') = n + 1
      /\ sources'[n + 1] = Official
      /\ \A i \in 1..n : sources'[i] = order[i] /\ sources'[i] \in Mirror
  BY <1>1, <1>2, <1>3 DEF Source
<1>5. ASSUME NEW i \in 1..(n + 1), NEW j \in 1..(n + 1), sources'[i] = sources'[j] PROVE i = j
  <2>1. i = n + 1 <=> sources'[i] = Official
    BY <1>1, <1>4, RetryAssumption
  <2>2. j = n + 1 <=> sources'[j] = Official
    BY <1>1, <1>4, RetryAssumption
  <2>3. CASE i # n + 1 /\ j # n + 1
    BY <1>1, <1>2, <1>4, <1>5, <2>3
  <2> QED
    BY <1>5, <2>1, <2>2, <2>3
<1> QED
  BY <1>4, <1>5 DEF Distinct

\* Whom to ask next: the same source or the next one.
LEMMA NextIs ==
  ASSUME NEW tries, NEW answer
  PROVE  \/ /\ NextSource(tries, answer) = nth
            /\ tries < AttemptsPer /\ ~(call = "pinned" /\ answer \in {"refused", "wrong"})
         \/ NextSource(tries, answer) = nth + 1
  BY DEF NextSource

LEMMA AttemptsPositive == AttemptsPer \in Nat \ {0}
  BY RetryAssumption DEF AttemptsPer

LEMMA RetryStarts == RetryInit => RetryInv
<1> SUFFICES ASSUME RetryInit PROVE RetryInv
  OBVIOUS
<1>1. sources \in Seq(Source) /\ Distinct
  <2>1. CASE sources = <<>>
    BY <2>1 DEF Distinct
  <2>2. CASE sources = <<Official>>
    BY <2>2 DEF Source, Distinct
  <2>3. ASSUME NEW m \in Mirror, sources = <<m, Official>>
               PROVE sources \in Seq(Source) /\ Distinct
    <3>1. m # Official
      BY RetryAssumption
    <3> QED
      BY <2>3, <3>1 DEF Source, Distinct
  <2> QED
    BY <2>1, <2>2, <2>3 DEF RetryInit
<1>2. asked = [s \in Source |-> <<>>] /\ asked \in [Source -> Seq(Answer)]
  BY DEF RetryInit
<1>3. RetryTypes
  <2>1. upAt \in Nat /\ clock \in Nat /\ pause \in Nat /\ nth \in Nat \ {0}
    BY RetryAssumption DEF RetryInit
  <2>2. call \in {"pinned", "archive", "healthy"} /\ keeps \in BOOLEAN
    BY DEF RetryInit
  <2>3. vendored \in Copy /\ kept \in Copy /\ steady \in Source \cup {NoSource}
    BY DEF RetryInit, Copy
  <2> QED
    BY <1>1, <1>2, <2>1, <2>2, <2>3 DEF RetryTypes
<1>4. Placed /\ Copies
  BY DEF RetryInit, Placed, Copies, None
<1>5. Questioned /\ Trusted
  BY <1>2 DEF RetryInit, Questioned, Trusted
<1>6. Bounded
  BY <1>2, AttemptsPositive DEF Bounded
<1>7. Timed
  BY RetryAssumption DEF RetryInit, Timed
<1>8. Settled
  BY DEF RetryInit, Settled, None
<1> QED
  BY <1>1, <1>3, <1>4, <1>5, <1>6, <1>7, <1>8 DEF RetryInv

\* The copies on disk are looked at, and the list is made: nothing is asked yet.
LEMMA LookKeeps ==
  ASSUME RetryInv, TakeVendored \/ TakeKept \/ ListSources
  PROVE  RetryInv'
<1> USE DEF RetryInv, Here, Return, Proceed
<1>1. CASE TakeVendored
  <2>1. RetryTypes' /\ Distinct' /\ Placed' /\ Copies'
    BY <1>1 DEF TakeVendored, RetryTypes, Distinct, Placed, Copies, None
  <2>2. Questioned' /\ Trusted' /\ (call' # "healthy" => Bounded')
    BY <1>1 DEF TakeVendored, Questioned, Trusted, Bounded, AttemptsPer, Placed
  <2>3. Timed' /\ Settled'
    BY <1>1 DEF TakeVendored, Timed, Settled, Placed, None
  <2> QED
    BY <2>1, <2>2, <2>3
<1>2. CASE TakeKept
  <2>1. RetryTypes' /\ Distinct' /\ Placed'
    BY <1>2 DEF TakeKept, RetryTypes, Distinct, Placed, None, Copy
  <2>2. Copies'
    BY <1>2 DEF TakeKept, Copies, RetryTypes, Copy
  <2>3. \A s \in Source : asked[s] = <<>>
    BY <1>2 DEF TakeKept, Questioned
  <2>4. \A i \in 1..Len(sources) : sources[i] \in Source
    BY DEF RetryTypes
  <2>5. Questioned'
    BY <1>2, <2>3, <2>4, AttemptsPositive DEF TakeKept, Questioned, AttemptsPer
  <2>6. Trusted'
    BY <1>2 DEF TakeKept, Trusted, Questioned, Placed
  <2>7. call' # "healthy" => Bounded'
    BY <1>2 DEF TakeKept, Bounded, AttemptsPer
  <2>8. Timed' /\ Settled'
    BY <1>2 DEF TakeKept, Timed, Settled, Placed, None, Copies
  <2> QED
    BY <2>1, <2>2, <2>5, <2>6, <2>7, <2>8
<1>3. CASE ListSources
  <2>1. sources' \in Seq(Source) /\ Distinct'
    BY <1>3, ListedOnce DEF ListSources
  <2>2. RetryTypes' /\ Placed' /\ Copies'
    BY <1>3, <2>1 DEF ListSources, RetryTypes, Placed, Copies
  <2>3. nth' = 1 /\ \A s \in Source : asked'[s] = <<>>
    BY <1>3 DEF ListSources, Questioned
  <2>4. \A i \in 1..Len(sources') : sources'[i] \in Source
    BY <2>1
  <2>5. AttemptsPer' \in Nat \ {0}
    BY RetryAssumption DEF AttemptsPer
  <2>6. Questioned'
    BY <1>3, <2>3, <2>4, <2>5 DEF ListSources, Questioned
  <2>7. Trusted'
    BY <1>3, <2>3, <2>4 DEF ListSources, Trusted
  <2>8. Bounded'
    BY <2>3, <2>5 DEF Bounded
  <2>9. Timed' /\ Settled'
    BY <1>3 DEF ListSources, Timed, Settled, Placed, None
  <2> QED
    BY <2>1, <2>2, <2>6, <2>7, <2>8, <2>9
<1> QED
  BY <1>1, <1>2, <1>3

LEMMA TooLate ==
  ASSUME Timed, rpc = "poll", clock \in Nat, upAt \in Nat, clock >= HealthLimit
  PROVE  \E d \in PollTime : upAt + HealthWait + d > HealthLimit
<1>1. HealthLimit \in Nat \ {0} /\ HealthWait \in Nat \ {0} /\ PollTime \subseteq Nat
  BY RetryAssumption
<1>2. PICK d \in PollTime : clock < upAt + HealthWait + d
  BY <1>1 DEF Timed
<1> QED
  BY <1>1, <1>2

LEMMA HealthKeeps ==
  ASSUME RetryInv, (\E d \in PollTime : Poll(d)) \/ Sleep \/ NotServing
  PROVE  RetryInv'
<1> USE DEF RetryInv, Here, Return, Proceed
<1>0. rpc \in {"poll", "sleep"} /\ call = "healthy"
  BY DEF Poll, Sleep, NotServing, Placed
<1>1. /\ UNCHANGED <<call, sources, nth, asked, vendored, kept, keeps, steady, upAt>>
      /\ rpc' \in {"poll", "sleep", "done"}
  BY DEF Poll, Sleep, NotServing
<1>2. Distinct' /\ Questioned' /\ Trusted' /\ Copies'
  BY <1>1 DEF Distinct, Questioned, Trusted, Copies
<1>3. clock \in Nat /\ pause \in Nat /\ upAt \in Nat
      /\ HealthLimit \in Nat \ {0} /\ HealthWait \in Nat \ {0}
  BY RetryAssumption DEF RetryTypes
<1>4. ASSUME NEW d \in PollTime, Poll(d) PROVE RetryInv'
  <2>1. clock' = clock + d /\ pause' = pause /\ d \in Nat
    BY <1>4, RetryAssumption DEF Poll
  <2>2. RetryTypes' /\ Placed'
    BY <1>1, <1>3, <1>4, <2>1 DEF Poll, RetryTypes, Placed, None
  <2>3. Timed'
    BY <1>1, <1>3, <1>4, <2>1 DEF Poll, Timed
  <2>4. \/ rpc' = "sleep" /\ outcome' = outcome /\ outcome = None
        \/ rpc' = "done" /\ outcome' = "serving" /\ clock >= upAt
    BY <1>0, <1>4 DEF Poll, Placed
  <2>5. clock >= upAt => clock' >= upAt'
    BY <1>1, <1>3, <2>1
  <2>6. Settled'
    BY <1>0, <1>1, <2>4, <2>5 DEF Settled, None
  <2> QED
    BY <1>0, <1>1, <1>2, <2>2, <2>3, <2>6
<1>5. CASE Sleep
  <2>1. clock' \in Nat /\ clock' <= clock + HealthWait /\ pause' \in Nat /\ pause' <= HealthWait
    BY <1>3, <1>5 DEF Sleep, Timed
  <2>2. RetryTypes' /\ Placed'
    BY <1>1, <1>5, <2>1 DEF Sleep, RetryTypes, Placed
  <2>3. Timed'
    <3>1. PICK d \in PollTime : clock < upAt + d
      BY <1>5 DEF Sleep, Timed
    <3>2. d \in Nat
      BY RetryAssumption
    <3>3. clock' < upAt' + HealthWait + d
      BY <1>1, <1>3, <2>1, <3>1, <3>2
    <3>4. rpc' = "poll"
      BY <1>5 DEF Sleep
    <3> QED
      BY <2>1, <3>3, <3>4 DEF Timed
  <2>4. Settled'
    BY <1>0, <1>1, <1>5 DEF Sleep, Settled, Placed, None
  <2> QED
    BY <1>0, <1>1, <1>2, <2>2, <2>3, <2>4
<1>6. CASE NotServing
  <2>1. rpc' = "done" /\ outcome' = "not serving" /\ UNCHANGED <<clock, pause>> /\ rpc = "poll"
        /\ clock >= HealthLimit
    BY <1>6 DEF NotServing
  <2>2. RetryTypes' /\ Placed' /\ Timed'
    BY <1>1, <2>1 DEF RetryTypes, Placed, Timed, None
  <2>5. \E d \in PollTime : upAt + HealthWait + d > HealthLimit
    BY <1>3, <2>1, TooLate
  <2>6. Settled'
    BY <1>0, <1>1, <2>1, <2>5 DEF Settled, None
  <2> QED
    BY <1>0, <1>1, <1>2, <2>2, <2>6
<1> QED
  BY <1>4, <1>5, <1>6

\* One more answer, and the last answer replaced.
LEMMA Appended ==
  ASSUME NEW q \in Seq(Answer), NEW a \in Answer
  PROVE  /\ Append(q, a) \in Seq(Answer) /\ Append(q, a) # <<>>
         /\ Len(Append(q, a)) = Len(q) + 1 /\ Last(Append(q, a)) = a
         /\ \A i \in 1..Len(q) : Append(q, a)[i] = q[i]
  BY DEF Last

LEMMA Replaced ==
  ASSUME NEW q \in Seq(Answer), q # <<>>, NEW a \in Answer
  PROVE  /\ Append(Front(q), a) \in Seq(Answer)
         /\ Len(Append(Front(q), a)) = Len(q)
         /\ Append(Front(q), a)[Len(q)] = a
         /\ \A i \in 1..(Len(q) - 1) : Append(Front(q), a)[i] = q[i]
<1>1. Len(q) \in Nat \ {0}
  OBVIOUS
<1>2. /\ Front(q) \in Seq(Answer) /\ Len(Front(q)) = Len(q) - 1
      /\ \A i \in 1..(Len(q) - 1) : Front(q)[i] = q[i]
  <2>1. \A i \in 1..(Len(q) - 1) : q[i] \in Answer
    BY <1>1
  <2> DEFINE m == Len(q) - 1
  <2>2. m \in Int /\ 1 \in Int /\ (1 <= m \/ m = 0) /\ m - 1 + 1 = m
    BY <1>1
  <2>3. /\ SubSeq(q, 1, m) \in Seq(Answer)
        /\ Len(SubSeq(q, 1, m)) = IF 1 <= m THEN m - 1 + 1 ELSE 0
        /\ \A i \in 1..(m - 1 + 1) : SubSeq(q, 1, m)[i] = q[1 + i - 1]
    BY <2>1, <2>2, SubSeqProperties
  <2> QED
    BY <1>1, <2>2, <2>3 DEF Front
<1> QED
  BY <1>1, <1>2

\* What one source has answered changes: the later ones are still unasked.
LEMMA OneSource ==
  ASSUME RetryTypes, Distinct, Bounded, UNCHANGED <<call, sources>>,
         NEW n \in 1..Len(sources), NEW q \in Seq(Answer),
         asked' = [asked EXCEPT ![sources[n]] = q],
         \A i \in 1..Len(sources) : i > n => asked[sources[i]] = <<>>,
         Len(q) <= AttemptsPer,
         call = "pinned" => \A i \in 1..(Len(q) - 1) : q[i] \notin Final
  PROVE  /\ Distinct' /\ Bounded' /\ AttemptsPer' = AttemptsPer
         /\ asked' \in [Source -> Seq(Answer)] /\ asked'[sources[n]] = q
         /\ \A i \in 1..Len(sources) : i > n => asked'[sources[i]] = <<>>
<1>1. sources[n] \in Source /\ \A i \in 1..Len(sources) : sources[i] \in Source
  BY DEF RetryTypes
<1>2. asked' \in [Source -> Seq(Answer)] /\ asked'[sources[n]] = q
  BY <1>1 DEF RetryTypes
<1>3. \A s \in Source \ {sources[n]} : asked'[s] = asked[s]
  BY DEF RetryTypes
<1>4. \A i \in 1..Len(sources) : i > n => sources[i] # sources[n]
  BY DEF Distinct
<1>5. \A i \in 1..Len(sources) : i > n => asked'[sources[i]] = <<>>
  BY <1>1, <1>3, <1>4
<1>6. AttemptsPer' = AttemptsPer
  BY DEF AttemptsPer
<1>7. Bounded'
  BY <1>2, <1>3, <1>6 DEF Bounded
<1>8. Distinct'
  BY DEF Distinct
<1> QED
  BY <1>2, <1>5, <1>6, <1>7, <1>8

\* After an answer that was not right the same source is asked again, if it may
\* be, or the next one.
LEMMA GoesOn ==
  ASSUME RetryTypes, UNCHANGED <<call, sources>>, rpc' = "ask",
         AttemptsPer' = AttemptsPer,
         NEW n \in 1..Len(sources), n = nth,
         \A i \in 1..Len(sources) : i > n => asked'[sources[i]] = <<>>,
         NEW a, a \notin {"right"}, nth' = NextSource(Len(asked'[sources[n]]), a),
         call = "pinned" /\ a \notin {"refused", "wrong"} =>
           \A i \in 1..Len(asked'[sources[n]]) : asked'[sources[n]][i] \notin Final
  PROVE  Questioned' /\ nth' \in {n, n + 1}
<1>1. Len(sources) \in Nat
  BY DEF RetryTypes
<1>2. CASE /\ nth' = n
           /\ Len(asked'[sources[n]]) < AttemptsPer
           /\ ~(call = "pinned" /\ a \in {"refused", "wrong"})
  BY <1>1, <1>2 DEF Questioned
<1>3. CASE nth' = n + 1
  <2>1. n + 1 <= Len(sources) => asked'[sources[n + 1]] = <<>>
    BY <1>1
  <2>2. \A i \in 1..Len(sources) : i > nth' => asked'[sources[i]] = <<>>
    BY <1>1, <1>3
  <2>3. nth' <= Len(sources) => asked'[sources[nth']] = <<>>
    BY <1>3, <2>1
  <2> QED
    BY <1>1, <1>3, <2>2, <2>3, AttemptsPositive DEF Questioned
<1> QED
  BY <1>2, <1>3, NextIs

LEMMA AskKeeps ==
  ASSUME RetryInv, NEW answer \in Answer, Ask(answer)
  PROVE  RetryInv'
<1>0. RetryTypes /\ Placed /\ Distinct /\ Questioned /\ Trusted /\ Copies /\ Timed
  BY DEF RetryInv
<1>1. /\ rpc = "ask" /\ nth <= Len(sources)
      /\ UNCHANGED <<call, sources, vendored, kept, keeps, steady, clock, pause, upAt, outcome>>
      /\ rpc' \in {"ask", "store"} /\ outcome = None /\ call # "healthy"
  BY <1>0 DEF Ask, Here, Proceed, Placed
<1>2. nth \in 1..Len(sources) /\ sources[nth] \in Source
  BY <1>0, <1>1 DEF RetryTypes
<1> DEFINE q == Append(asked[sources[nth]], answer)
<1>3. asked' = [asked EXCEPT ![sources[nth]] = q]
  BY DEF Ask
<1>4. asked[sources[nth]] \in Seq(Answer)
  BY <1>0, <1>2 DEF RetryTypes
<1>5. /\ Len(asked[sources[nth]]) < AttemptsPer
      /\ call = "pinned" =>
           \A i \in 1..Len(asked[sources[nth]]) : asked[sources[nth]][i] \notin Final
      /\ \A i \in 1..Len(sources) : i > nth => asked[sources[i]] = <<>>
  BY <1>0, <1>1 DEF Questioned
<1>6. /\ q \in Seq(Answer) /\ q # <<>> /\ Len(q) = Len(asked[sources[nth]]) + 1
      /\ Last(q) = answer /\ \A i \in 1..Len(asked[sources[nth]]) : q[i] = asked[sources[nth]][i]
      /\ q[Len(q)] = answer
  BY <1>4, Appended DEF Last
<1>7. Bounded
  BY <1>1 DEF RetryInv
<1> HIDE DEF q
<1>8. /\ Distinct' /\ Bounded' /\ AttemptsPer' = AttemptsPer
      /\ asked' \in [Source -> Seq(Answer)] /\ asked'[sources[nth]] = q
      /\ \A i \in 1..Len(sources) : i > nth => asked'[sources[i]] = <<>>
  <2>1. Len(q) <= AttemptsPer
    BY <1>4, <1>5, <1>6, AttemptsPositive
  <2>2. call = "pinned" => \A i \in 1..(Len(q) - 1) : q[i] \notin Final
    BY <1>4, <1>5, <1>6
  <2> QED
    BY <1>0, <1>1, <1>2, <1>3, <1>5, <1>6, <1>7, <2>1, <2>2, OneSource
<1>9. sources[nth] = steady => answer = "right"
  BY DEF Ask
<1>10. Copies' /\ Settled' /\ Timed' /\ Placed'
  <2>1. Copies'
    BY <1>0, <1>1 DEF Copies
  <2>2. Settled'
    BY <1>1 DEF Settled, None
  <2>3. Timed'
    BY <1>0, <1>1 DEF Timed
  <2>4. Placed'
    BY <1>0, <1>1 DEF Placed
  <2> QED
    BY <2>1, <2>2, <2>3, <2>4
<1>11. CASE answer = "right" \/ (answer = "wrong" /\ call = "archive")
  <2>1. rpc' = "store" /\ nth' = nth
    BY <1>11 DEF Ask, Proceed
  <2>2. Questioned'
    BY <1>0, <1>1, <1>2, <1>6, <1>8, <1>11, <2>1 DEF Questioned
  <2>3. Trusted'
    BY <1>0, <1>1, <1>2, <1>6, <1>8, <1>9, <2>1 DEF Trusted
  <2>4. RetryTypes'
    BY <1>0, <1>1, <1>8, <2>1 DEF RetryTypes
  <2> QED
    BY <1>8, <1>10, <2>2, <2>3, <2>4 DEF RetryInv
<1>12. CASE ~(answer = "right" \/ (answer = "wrong" /\ call = "archive"))
  <2>1. rpc' = "ask" /\ nth' = NextSource(Len(q), answer)
    BY <1>6, <1>12 DEF Ask, Proceed
  <2>2. call = "pinned" /\ answer \notin {"refused",
      "wrong"} => \A i \in 1..Len(q) : q[i] \notin Final
    BY <1>4, <1>5, <1>6, <1>12 DEF Final
  <2>3. Questioned' /\ nth' \in {nth, nth + 1}
    <3>1. PICK n \in 1..Len(sources) : n = nth
      BY <1>2
    <3>2. asked'[sources[n]] = q
      BY <1>8, <3>1
    <3> QED
      BY <1>0, <1>1, <1>8, <1>12, <2>1, <2>2, <3>1, <3>2, GoesOn
  <2>4. sources[nth] # steady
    BY <1>9, <1>12
  <2>5. Trusted'
    BY <1>0, <1>1, <1>2, <2>1, <2>3, <2>4 DEF Trusted
  <2>6. RetryTypes'
    BY <1>0, <1>1, <1>2, <1>8, <2>3 DEF RetryTypes
  <2> QED
    BY <1>8, <1>10, <2>3, <2>5, <2>6 DEF RetryInv
<1> QED
  BY <1>11, <1>12

LEMMA StoreKeeps ==
  ASSUME RetryInv, Store \/ NoneLeft
  PROVE  RetryInv'
<1>0. RetryTypes /\ Placed /\ Distinct /\ Questioned /\ Trusted /\ Copies /\ Timed /\ Settled
  BY DEF RetryInv
<1>1. /\ UNCHANGED <<call, sources, nth, asked, vendored, keeps, steady, clock, pause, upAt>>
      /\ rpc' = "done" /\ call # "healthy" /\ rpc \in {"ask", "store"}
      /\ outcome' \in {"bytes", "failed"}
  BY <1>0 DEF Store, NoneLeft, Here, Return, Placed
<1>2. Distinct' /\ Questioned' /\ Trusted' /\ Copies' /\ Timed'
  BY <1>0, <1>1 DEF Distinct, Questioned, Trusted, Copies, Timed
<1>3. Bounded'
  BY <1>1 DEF RetryInv, Bounded, AttemptsPer
<1>4. Placed'
  BY <1>0, <1>1 DEF Placed, None
<1>5. CASE Store
  <2>1. /\ nth \in 1..Len(sources) /\ sources[nth] \in Source
        /\ asked[sources[nth]] \in Seq(Answer) /\ asked[sources[nth]] # <<>>
    BY <1>0, <1>5 DEF Store, Here, Questioned, RetryTypes
  <2>2. Last(asked[sources[nth]]) \in ToSet(asked[sources[nth]])
    BY <2>1 DEF Last, ToSet
  <2>3. RetryTypes'
    BY <1>0, <1>1, <1>5 DEF Store, RetryTypes, Copy
  <2>4. CASE Last(asked[sources[nth]]) = "right"
    <3>1. outcome' = "bytes" /\ kept' \in {"right", kept}
      BY <1>5, <2>4 DEF Store, Return
    <3>2. "right" \in UNION {ToSet(asked[s]) : s \in Source}
      BY <2>1, <2>2, <2>4
    <3>3. call = "pinned" => kept' # "wrong"
      BY <1>0, <1>1, <3>1 DEF Copies
    <3>4. Settled'
      BY <1>1, <3>1, <3>2, <3>3 DEF Settled
    <3> QED
      BY <1>2, <1>3, <1>4, <2>3, <3>4 DEF RetryInv
  <2>5. CASE Last(asked[sources[nth]]) # "right"
    <3>1. outcome' = "failed" /\ kept' = kept
      BY <1>5, <2>5 DEF Store, Return
    <3>2. Last(asked[sources[nth]]) = "wrong" /\ call = "archive"
      BY <1>0, <1>1, <1>5, <2>5 DEF Store, Here, Questioned, RetryTypes
    <3>3. \E s \in Source : "wrong" \in ToSet(asked[s])
      BY <2>1, <2>2, <3>2
    <3>4. vendored # "right" /\ kept # "right"
      BY <1>0, <1>1 DEF Copies
    <3>5. Settled'
      BY <1>1, <3>1, <3>2, <3>3, <3>4 DEF Settled
    <3> QED
      BY <1>2, <1>3, <1>4, <2>3, <3>5 DEF RetryInv
  <2> QED
    BY <2>4, <2>5
<1>6. CASE NoneLeft
  <2>1. rpc = "ask" /\ nth > Len(sources) /\ outcome' = "failed" /\ kept' = kept
    BY <1>6 DEF NoneLeft, Here, Return
  <2>2. RetryTypes'
    BY <1>0, <1>1, <2>1 DEF RetryTypes
  <2>3. steady \notin ToSet(sources)
    <3>1. \A i \in 1..Len(sources) : sources[i] # steady
      BY <1>0, <2>1 DEF Trusted, RetryTypes
    <3>2. DOMAIN sources = 1..Len(sources)
      BY <1>0 DEF RetryTypes
    <3> QED
      BY <3>1, <3>2 DEF ToSet
  <2>4. vendored # "right" /\ kept # "right" /\ (call = "pinned" => kept # "wrong")
    BY <1>0, <2>1 DEF Copies
  <2>5. Settled'
    BY <1>1, <2>1, <2>3, <2>4 DEF Settled
  <2> QED
    BY <1>2, <1>3, <1>4, <2>2, <2>5 DEF RetryInv
<1> QED
  BY <1>5, <1>6

LEMMA StoreFailsKeeps ==
  ASSUME RetryInv, StoreFails
  PROVE  RetryInv'
<1>0. RetryTypes /\ Placed /\ Distinct /\ Questioned /\ Trusted /\ Copies /\ Timed /\ Settled
  BY DEF RetryInv
<1>1. /\ rpc = "store" /\ steady' = NoSource
      /\ UNCHANGED <<call, sources, vendored, kept, keeps, clock, pause, upAt>>
      /\ outcome = None /\ call # "healthy"
  BY <1>0 DEF StoreFails, Here, Placed
<1>2. /\ nth \in 1..Len(sources) /\ sources[nth] \in Source
      /\ asked[sources[nth]] \in Seq(Answer) /\ asked[sources[nth]] # <<>>
      /\ \A i \in 1..Len(sources) : i > nth => asked[sources[i]] = <<>>
  BY <1>0, <1>1 DEF Questioned, RetryTypes
<1> DEFINE q == Append(Front(asked[sources[nth]]), "lost")
<1>3. asked' = [asked EXCEPT ![sources[nth]] = q]
  BY DEF StoreFails
<1>4. /\ q \in Seq(Answer) /\ Len(q) = Len(asked[sources[nth]]) /\ q[Len(q)] = "lost"
      /\ \A i \in 1..(Len(q) - 1) : q[i] = asked[sources[nth]][i]
      /\ Len(q) \in Nat
  <2>1. PICK a \in Seq(Answer) : a = asked[sources[nth]] /\ a # <<>>
    BY <1>2
  <2>2. "lost" \in Answer
    BY DEF Answer
  <2> DEFINE b == Append(Front(a), "lost")
  <2>3. /\ b \in Seq(Answer) /\ Len(b) = Len(a) /\ b[Len(a)] = "lost"
        /\ \A i \in 1..(Len(a) - 1) : b[i] = a[i]
    BY <2>1, <2>2, Replaced
  <2>4. q = b
    BY <2>1
  <2> HIDE DEF b, q
  <2>5. Len(b) \in Nat
    BY <2>3
  <2> QED
    BY <2>1, <2>3, <2>4, <2>5
<1>5. Bounded
  BY <1>1 DEF RetryInv
<1>6. /\ Len(q) <= AttemptsPer
      /\ call = "pinned" => \A i \in 1..(Len(q) - 1) : q[i] \notin Final
  BY <1>2, <1>4, <1>5 DEF Bounded
<1> HIDE DEF q
<1>7. /\ Distinct' /\ Bounded' /\ AttemptsPer' = AttemptsPer
      /\ asked' \in [Source -> Seq(Answer)] /\ asked'[sources[nth]] = q
      /\ \A i \in 1..Len(sources) : i > nth => asked'[sources[i]] = <<>>
  BY <1>0, <1>1, <1>2, <1>3, <1>4, <1>5, <1>6, OneSource
<1>8. \A i \in 1..Len(sources) : sources[i] # steady'
  BY <1>0, <1>1, RetryAssumption DEF RetryTypes
<1>9. Copies' /\ Timed'
  <2>1. rpc' \in {"ask", "done"}
    BY DEF StoreFails, Proceed, Return
  <2> QED
    BY <1>0, <1>1, <2>1 DEF Copies, Timed
<1>10. Trusted'
  <2>1. rpc' \in {"ask", "done"} /\ Len(sources) \in Nat
    BY <1>0 DEF StoreFails, Proceed, Return, RetryTypes
  <2> QED
    BY <1>1, <1>8, <2>1 DEF Trusted
<1>11. CASE rpc' = "ask" /\ outcome' = outcome /\ nth' = NextSource(Len(asked[sources[nth]]),
            "lost")
  <2>1. q[Len(q)] \notin Final
    BY <1>4 DEF Final
  <2>2. call = "pinned" => \A i \in 1..Len(q) : q[i] \notin Final
    <3> SUFFICES ASSUME call = "pinned", NEW i \in 1..Len(q)
                 PROVE  q[i] \notin Final
      OBVIOUS
    <3>1. i = Len(q) \/ i \in 1..(Len(q) - 1)
      BY <1>4
    <3> QED
      BY <2>1, <3>1, <1>6
  <2>3. Questioned' /\ nth' \in {nth, nth + 1}
    <3>1. PICK n \in 1..Len(sources) : n = nth
      BY <1>2
    <3>2. asked'[sources[n]] = q /\ nth' = NextSource(Len(q), "lost")
      BY <1>4, <1>7, <1>11, <3>1
    <3>3. "lost" \notin {"right"}
      OBVIOUS
    <3> QED
      BY <1>0, <1>1, <1>7, <1>11, <2>2, <3>1, <3>2, <3>3, GoesOn
  <2>4. RetryTypes'
    BY <1>0, <1>1, <1>2, <1>7, <2>3 DEF RetryTypes
  <2>5. Placed' /\ Settled'
    BY <1>0, <1>1, <1>11 DEF Placed, Settled, None
  <2> QED
    BY <1>7, <1>9, <1>10, <2>3, <2>4, <2>5 DEF RetryInv
<1>12. CASE call = "archive" /\ rpc' = "done" /\ outcome' = "failed" /\ nth' = nth
  <2>1. RetryTypes' /\ Placed' /\ Questioned'
    BY <1>0, <1>1, <1>7, <1>12 DEF RetryTypes, Placed, Questioned, None
  <2>2. steady' \notin ToSet(sources')
    <3>1. DOMAIN sources = 1..Len(sources)
      BY <1>0 DEF RetryTypes
    <3> QED
      BY <1>1, <1>8, <3>1 DEF ToSet
  <2>3. vendored # "right" /\ kept # "right"
    BY <1>0, <1>1 DEF Copies
  <2>4. Settled'
    BY <1>1, <1>12, <2>2, <2>3 DEF Settled
  <2> QED
    BY <1>7, <1>9, <1>10, <2>1, <2>4 DEF RetryInv
<1> QED
  BY <1>11, <1>12 DEF StoreFails, Proceed, Return

\* Whatever the sources answer and however often the disk refuses: a pinned
\* download ends with the right bytes or with nothing that was right left to
\* try, and a deployment that serves in time is seen to (fetch-pinned.ts,
\* toolchain.ts, main.ts waitForHealthy).
THEOREM GoodSourceSuffices == RetrySpec => []SourcesSuffice
<1>1. RetryInv /\ [RetryNext]_retryVars => RetryInv'
  <2> SUFFICES ASSUME RetryInv, [RetryNext]_retryVars PROVE RetryInv'
    OBVIOUS
  <2>1. CASE UNCHANGED retryVars
    <3>1. UNCHANGED <<call, rpc, sources, nth, asked, vendored, kept, keeps, outcome, steady,
                      clock, pause, upAt>>
      BY <2>1 DEF retryVars
    <3>2. RetryTypes' /\ Placed' /\ Distinct' /\ Questioned' /\ Trusted'
      BY <3>1 DEF RetryInv, RetryTypes, Placed, Distinct, Questioned, Trusted, AttemptsPer
    <3>3. Copies' /\ Timed' /\ Settled' /\ (call' # "healthy" => Bounded')
      BY <3>1 DEF RetryInv, Copies, Timed, Settled, Bounded, AttemptsPer
    <3> QED
      BY <3>2, <3>3 DEF RetryInv
  <2> QED
    BY <2>1, LookKeeps, HealthKeeps, AskKeeps, StoreKeeps, StoreFailsKeeps DEF RetryNext
<1>2. RetryInv => SourcesSuffice
  BY DEF RetryInv, Settled, Bounded, SourcesSuffice
<1> QED
  BY <1>1, <1>2, RetryStarts, PTL DEF RetrySpec

(***************************************************************************)
(* KvContents, for any commands, any namespaces, keys and values, and any  *)
(* size of a page.  The walk of an export is about what it has read and what*)
(* was there; the invariant says of each command how its temporary file, its*)
(* page and its cursor stand to what its namespace ever and always had.    *)
(***************************************************************************)
\* What a namespace holds.
Holds(data, ns) == {<<k, data[ns][k]>> : k \in {k \in KvKey : data[ns][k] # NoValue}}

Verb == {"create", "rename", "delete", "list", "info", "keyGet", "keyPut", "keyDelete",
         "keyList", "bulkGet", "bulkPut", "bulkDelete", "export"}

\* A command, of which what it has received was in its namespace some time.
Command(ever) ==
  [pc : {"idle", "lookUp", "act", "check", "list", "read", "write", "publish", "done",
         "failed", "killed"},
   verb : Verb, name : NsName \cup {NoValue}, id : Namespace \cup {NoValue},
   force : BOOLEAN, file : BOOLEAN, input : Seq(KvKey \X KvValue), at : Nat,
   page : SUBSET KvKey, cursor : 0..NKeys, got : Seq(SUBSET ever),
   missed : BOOLEAN]

NoId == {"idle", "lookUp", "done", "failed", "killed"}
Staging == {"list", "read", "write", "publish"}

\* No key is in the file twice.
OnceOnly(file) ==
  \A i, j \in DOMAIN file : \A x \in file[i], y \in file[j] : x[1] = y[1] => i = j /\ x = y

\* A dump: what is in the file comes before what is still to be read, and if every
\* answer was whole, then of what was always there nothing is missing that comes
\* before the cursor.
Dump(r, file, always) ==
  /\ OnceOnly(file)
  /\ r.pc = "list" =>
       /\ \A x \in Pairs(file) : x[1] <= r.cursor
       /\ ~r.missed => \A x \in always : x[1] <= r.cursor => x \in Pairs(file)
  /\ r.pc = "read" =>
       /\ \A x \in Pairs(file) : \A k \in r.page : x[1] < k
       /\ r.cursor # 0 => /\ \A x \in Pairs(file) : x[1] <= r.cursor
                          /\ \A k \in r.page : k <= r.cursor
       /\ ~r.missed => \A x \in always : r.cursor = 0 \/ x[1] <= r.cursor =>
                         x \in Pairs(file) \/ x[1] \in r.page
  /\ r.pc = "publish" /\ ~r.missed => always \subseteq Pairs(file)

\* A command with its file and what it could see, in a namespace that holds now.
Fit(r, file, ever, always, now) ==
  /\ r \in Command(ever)
  /\ r.id = NoValue <=> r.pc \in NoId
  /\ r.id = NoValue => r.got = <<>>
  /\ r.id # NoValue => /\ always \subseteq now /\ now \subseteq ever
                       /\ \A x \in ever : x[1] \in KvKey
  /\ r.pc \in Staging => file \in Seq(SUBSET ever)
  /\ r.pc \notin Staging \cup {"killed"} => file = NoValue
  /\ r.pc \in {"list", "read"} => r.verb = "export"
  /\ r.pc = "write" => r.verb # "export"
  /\ r.pc \in {"lookUp", "act", "check"} => r.cursor = 0
  /\ r.verb = "export" /\ r.pc \in Staging => Dump(r, file, always)

KvInv ==
  /\ DOMAIN kv = KvClient /\ DOMAIN staged = KvClient
  /\ \A c \in KvClient :
       Fit(kv[c], staged[c], seen[c].ever, seen[c].always, Holds(contents, kv[c].id))

LEMMA PresentHolds ==
  ASSUME NEW ns, NEW keys \in SUBSET KvKey
  PROVE  /\ Present(ns, KvKey) = Holds(contents, ns)
         /\ Present(ns, keys) = {x \in Holds(contents, ns) : x[1] \in keys}
  BY DEF Present, Holds

LEMMA HeldKeys ==
  ASSUME NEW data, NEW ns, NEW x \in Holds(data, ns)
  PROVE  x[1] \in KvKey /\ x = <<x[1], data[ns][x[1]]>> /\ data[ns][x[1]] # NoValue
  BY DEF Holds

LEMMA MoreSeq ==
  ASSUME NEW A, NEW B, A \subseteq B, NEW s \in Seq(SUBSET A)
  PROVE  s \in Seq(SUBSET B)
<1>1. Len(s) \in Nat /\ s \in [1..Len(s) -> SUBSET A]
  OBVIOUS
<1>2. s \in [1..Len(s) -> SUBSET B]
  BY <1>1
<1> QED
  BY <1>1, <1>2

LEMMA SeqSteps ==
  ASSUME NEW S, NEW x \in S, NEW s \in Seq(S)
  PROVE  /\ <<>> \in Seq(S) /\ <<x>> \in Seq(S) /\ Append(s, x) \in Seq(S)
         /\ Len(s) \in Nat /\ Len(Append(s, x)) = Len(s) + 1 /\ Append(s, x)[Len(s) + 1] = x
         /\ \A i \in 1..Len(s) : Append(s, x)[i] = s[i]
  OBVIOUS

LEMMA MoreCommand ==
  ASSUME NEW A, NEW B, A \subseteq B, NEW r \in Command(A)
  PROVE  r \in Command(B)
<1>1. r.got \in Seq(SUBSET B)
  BY MoreSeq DEF Command
<1> QED
  BY <1>1 DEF Command

\* What a command sees as time goes by.
LEMMA SeenGrows ==
  ASSUME Witness, NEW c \in KvClient, kv'[c].id = kv[c].id, kv[c].id # NoValue
  PROVE  /\ seen'[c].ever = seen[c].ever \cup Holds(contents', kv[c].id)
         /\ seen'[c].always = seen[c].always \cap Holds(contents', kv[c].id)
<1>1. Present(kv[c].id, KvKey)' = Holds(contents', kv[c].id)
  BY DEF Present, Holds
<1> QED
  BY <1>1 DEF Witness

LEMMA SeenStarts ==
  ASSUME Witness, NEW c \in KvClient, kv'[c].id # NoValue, kv[c].id = NoValue
  PROVE  /\ seen'[c].ever = Holds(contents', kv'[c].id)
         /\ seen'[c].always = Holds(contents', kv'[c].id)
<1>1. Present(kv[c].id, KvKey)' = Holds(contents', kv'[c].id)
  BY DEF Present, Holds
<1> QED
  BY <1>1 DEF Witness

LEMMA SeenNothing ==
  ASSUME Witness, NEW c \in KvClient, kv'[c].id = NoValue
  PROVE  seen'[c].ever = {} /\ seen'[c].always = {}
  BY DEF Witness

\* Others may do to the namespace what they like.
LEMMA OthersFit ==
  ASSUME KvInv, Witness, NEW d \in KvClient, kv'[d] = kv[d], staged'[d] = staged[d]
  PROVE  Fit(kv'[d], staged'[d], seen'[d].ever, seen'[d].always, Holds(contents', kv'[d].id))
<1> DEFINE r == kv[d]
           f == staged[d]
<1>1. Fit(r, f, seen[d].ever, seen[d].always, Holds(contents, r.id))
  BY DEF KvInv
<1>2. CASE r.id = NoValue
  <2>1. seen'[d].ever = {} /\ seen'[d].always = {}
    BY <1>2, SeenNothing
  <2>2. r.pc \in NoId /\ r.got = <<>>
    BY <1>1, <1>2 DEF Fit
  <2>3. r \in Command({})
    BY <1>1, <2>2 DEF Fit, Command
  <2>4. r.pc \notin Staging
    BY <2>2 DEF NoId, Staging
  <2> QED
    BY <1>1, <1>2, <2>1, <2>2, <2>3, <2>4 DEF Fit
<1>3. CASE r.id # NoValue
  <2> DEFINE E == seen'[d].ever
             A == seen'[d].always
  <2>1. /\ E = seen[d].ever \cup Holds(contents', r.id)
        /\ A = seen[d].always \cap Holds(contents', r.id)
    BY <1>3, SeenGrows
  <2> HIDE DEF E, A
  <2>2. seen[d].ever \subseteq E /\ A \subseteq seen[d].always
    BY <2>1
  <2>3. A \subseteq Holds(contents', r.id) /\ Holds(contents', r.id) \subseteq E
    BY <2>1
  <2>4. \A x \in E : x[1] \in KvKey
    BY <1>1, <1>3, <2>1, HeldKeys DEF Fit
  <2>5. r \in Command(E)
    BY <1>1, <2>2, MoreCommand DEF Fit
  <2>6. r.pc \in Staging => f \in Seq(SUBSET E)
    BY <1>1, <2>2, MoreSeq DEF Fit
  <2>7. r.verb = "export" /\ r.pc \in Staging => Dump(r, f, A)
    BY <1>1, <2>2 DEF Fit, Dump
  <2> HIDE DEF r, f
  <2>8. Fit(r, f, E, A, Holds(contents', r.id))
    BY <1>1, <1>3, <2>3, <2>4, <2>5, <2>6, <2>7 DEF Fit
  <2> QED
    BY <2>8 DEF r, f, E, A
<1> QED
  BY <1>2, <1>3

\* So a step only has to show that who makes it still fits.
LEMMA OneSteps ==
  ASSUME KvInv, Witness, NEW c \in KvClient, NEW t,
         kv' = [kv EXCEPT ![c] = t],
         DOMAIN staged' = KvClient, \A d \in KvClient : d # c => staged'[d] = staged[d],
         Fit(t, staged'[c], seen'[c].ever, seen'[c].always, Holds(contents', t.id))
  PROVE  KvInv'
<1>1. DOMAIN kv' = KvClient /\ kv'[c] = t /\ \A d \in KvClient : d # c => kv'[d] = kv[d]
  BY DEF KvInv
<1>2. \A d \in KvClient : d # c =>
        Fit(kv'[d], staged'[d], seen'[d].ever, seen'[d].always, Holds(contents', kv'[d].id))
  BY <1>1, OthersFit
<1> QED
  BY <1>1, <1>2 DEF KvInv

LEMMA UnstartedCommand ==
  /\ Unstarted \in Command({}) /\ Unstarted.pc = "idle" /\ Unstarted.verb = "list"
  /\ Unstarted.id = NoValue /\ Unstarted.got = <<>> /\ Unstarted.cursor = 0
  BY KvAssumption DEF Unstarted, Command, Verb

\* A command that has ended knows nothing and leaves no file, but when killed.
LEMMA UnstartedFits ==
  ASSUME NEW pc \in {"done", "failed", "killed"}, NEW now, NEW file,
         pc # "killed" => file = NoValue
  PROVE  LET t == [Unstarted EXCEPT !.pc = pc] IN
         t.id = NoValue /\ t.pc = pc /\ Fit(t, file, {}, {}, now)
<1> DEFINE t == [Unstarted EXCEPT !.pc = pc]
<1>1. PICK s \in Command({}) : s = Unstarted /\ s.id = NoValue /\ s.got = <<>> /\ s.verb = "list"
  BY UnstartedCommand
<1>2. t \in Command({})
  BY <1>1 DEF Command
<1>3. t.id = NoValue /\ t.pc = pc /\ t.got = <<>> /\ t.verb = "list"
  BY <1>1 DEF Command
<1> HIDE DEF t
<1>4. Fit(t, file, {}, {}, now)
  BY <1>2, <1>3 DEF Fit, NoId, Staging
<1> QED
  BY <1>3, <1>4 DEF t

LEMMA FinishInv ==
  ASSUME KvInv, Witness, NEW c \in KvClient, NEW pc \in {"done", "failed"}, Finish(c, pc)
  PROVE  KvInv'
<1> DEFINE t == [Unstarted EXCEPT !.pc = pc]
<1>1. kv' = [kv EXCEPT ![c] = t] /\ staged' = [staged EXCEPT ![c] = NoValue]
  BY DEF Finish, Becomes
<1>2. /\ DOMAIN staged' = KvClient /\ staged'[c] = NoValue
      /\ \A d \in KvClient : d # c => staged'[d] = staged[d]
      /\ kv'[c] = t
  BY <1>1 DEF KvInv
<1>3. t.id = NoValue /\ Fit(t, staged'[c], {}, {}, Holds(contents', t.id))
  BY <1>2, UnstartedFits
<1>4. seen'[c].ever = {} /\ seen'[c].always = {}
  BY <1>2, <1>3, SeenNothing
<1> HIDE DEF t
<1> QED
  BY <1>1, <1>2, <1>3, <1>4, OneSteps

LEMMA KvKillInv ==
  ASSUME KvInv, Witness, NEW c \in KvClient, KvKill(c)
  PROVE  KvInv'
<1> DEFINE t == [Unstarted EXCEPT !.pc = "killed"]
<1>1. kv' = [kv EXCEPT ![c] = t] /\ staged' = staged
  BY DEF KvKill, Becomes
<1>2. DOMAIN staged' = KvClient /\ kv'[c] = t
  BY <1>1 DEF KvInv
<1>3. t.id = NoValue /\ Fit(t, staged'[c], {}, {}, Holds(contents', t.id))
  BY UnstartedFits
<1>4. seen'[c].ever = {} /\ seen'[c].always = {}
  BY <1>2, <1>3, SeenNothing
<1> HIDE DEF t
<1> QED
  BY <1>1, <1>2, <1>3, <1>4, OneSteps

\* A step of a command in its namespace that leaves the contents alone.
LEMMA SeenStays ==
  ASSUME KvInv, Witness, contents' = contents, NEW c \in KvClient,
         kv'[c].id = kv[c].id, kv[c].id # NoValue
  PROVE  seen'[c].ever = seen[c].ever /\ seen'[c].always = seen[c].always
<1>1. /\ seen[c].always \subseteq Holds(contents, kv[c].id)
      /\ Holds(contents, kv[c].id) \subseteq seen[c].ever
  BY DEF KvInv, Fit
<1> QED
  BY <1>1, SeenGrows

LEMMA Own ==
  ASSUME KvInv, NEW c \in KvClient
  PROVE  Fit(kv[c], staged[c], seen[c].ever, seen[c].always, Holds(contents, kv[c].id))
  BY DEF KvInv

LEMMA BeginInv ==
  ASSUME KvInv, Witness, NEW c \in KvClient, NEW verb \in Duty[c], NEW n \in NsName,
         NEW file \in BOOLEAN, NEW force \in BOOLEAN,
         NEW input \in Inputs \cup {<<>>}, Begin(c, verb, n, file, force, input)
  PROVE  KvInv'
<1> DEFINE t == [Unstarted EXCEPT !.pc = "lookUp", !.verb = verb, !.name = n, !.file = file,
                                  !.force = force, !.input = input]
<1>1. kv' = [kv EXCEPT ![c] = t] /\ staged' = staged /\ kv[c].pc = "idle"
  BY DEF Begin, Becomes, At
<1>2. verb \in Verb /\ input \in Seq(KvKey \X KvValue)
  <2>1. Duty[c] \subseteq Verb
    BY KvAssumption DEF Verb
  <2>2. <<>> \in Seq(KvKey \X KvValue) /\ Inputs \subseteq Seq(KvKey \X KvValue)
    BY KvAssumption DEF KvKey
  <2> QED
    BY <2>1, <2>2
<1>3. PICK s \in Command({}) : s = Unstarted /\ s.id = NoValue /\ s.got = <<>> /\ s.cursor = 0
  BY UnstartedCommand
<1>4. t \in Command({}) /\ t.pc = "lookUp" /\ t.id = NoValue /\ t.got = <<>> /\ t.cursor = 0
  BY <1>2, <1>3 DEF Command
<1> HIDE DEF t
<1>5. DOMAIN staged' = KvClient /\ kv'[c] = t /\ staged'[c] = NoValue
  BY <1>1 DEF KvInv, Fit, Staging
<1>6. seen'[c].ever = {} /\ seen'[c].always = {}
  BY <1>4, <1>5, SeenNothing
<1>7. Fit(t, NoValue, {}, {}, Holds(contents', t.id))
  BY <1>4 DEF Fit, NoId, Staging
<1> QED
  BY <1>1, <1>5, <1>6, <1>7, OneSteps

LEMMA LookUpInv ==
  ASSUME KvInv, Witness, NEW c \in KvClient, LookUp(c)
  PROVE  KvInv'
<1>1. PICK ns \in Namespace, pc \in {"check", "act"} :
        kv' = [kv EXCEPT ![c] = [kv[c] EXCEPT !.id = ns, !.pc = pc]]
  BY DEF LookUp, Becomes
<1>2. PICK s : s = kv[c] /\ s.pc = "lookUp" /\ s \in Command(seen[c].ever) /\ s.got = <<>>
               /\ s.id = NoValue /\ s.cursor = 0 /\ staged[c] = NoValue
  BY Own DEF LookUp, At, Fit, NoId, Staging
<1>3. staged' = staged /\ contents' = contents
  BY DEF LookUp
<1> DEFINE now == Holds(contents, ns)
           t == [s EXCEPT !.id = ns, !.pc = pc]
<1>4. /\ t \in Command(now) /\ t.pc = pc /\ t.id = ns /\ t.got = <<>> /\ ns # NoValue
      /\ t.cursor = 0
  <2>1. <<>> \in Seq(SUBSET now) /\ ns # NoValue
    BY KvAssumption
  <2> HIDE DEF now
  <2> QED
    BY <1>2, <2>1 DEF Command
<1>5. kv' = [kv EXCEPT ![c] = t] /\ DOMAIN staged' = KvClient /\ staged'[c] = NoValue
  BY <1>1, <1>2, <1>3 DEF KvInv
<1> HIDE DEF t, now
<1>6. kv'[c] = t
  BY <1>5 DEF KvInv
<1>7. seen'[c].ever = now /\ seen'[c].always = now
  BY <1>2, <1>3, <1>4, <1>6, SeenStarts DEF now
<1>8. \A x \in now : x[1] \in KvKey
  BY HeldKeys DEF now
<1>9. Fit(t, NoValue, now, now, now)
  BY <1>4, <1>8 DEF Fit, NoId, Staging
<1> QED
  BY <1>3, <1>4, <1>5, <1>7, <1>9, OneSteps DEF now

LEMMA KeyGetInv ==
  ASSUME KvInv, Witness, NEW c \in KvClient, NEW k \in KvKey, KeyGet(c, k)
  PROVE  KvInv'
<1>1. CASE ~kv[c].file
  BY <1>1, FinishInv DEF KeyGet
<1>2. CASE kv[c].file
  <2>1. PICK s : s = kv[c]
    OBVIOUS
  <2>2. /\ s.pc = "act" /\ s.verb = "keyGet"
        /\ Fit(s, staged[c], seen[c].ever, seen[c].always, Holds(contents, s.id))
    BY <2>1, Own DEF KeyGet, Acts, At
  <2> DEFINE g == <<Present(s.id, {k})>>
             t == [s EXCEPT !.pc = "check", !.got = g]
  <2>3. kv' = [kv EXCEPT ![c] = t] /\ staged' = staged /\ contents' = contents
    BY <1>2, <2>1 DEF KeyGet, Becomes
  <2>4. s \in Command(seen[c].ever) /\ s.id # NoValue
    BY <2>2 DEF Fit, NoId
  <2>5. Present(s.id, {k}) \subseteq Holds(contents, s.id)
    BY PresentHolds
  <2>6. g \in Seq(SUBSET seen[c].ever)
    <3>1. PICK x \in SUBSET seen[c].ever : x = Present(s.id, {k})
      BY <2>2, <2>4, <2>5 DEF Fit
    <3>2. <<x>> \in Seq(SUBSET seen[c].ever)
      BY <2>4, <3>1, SeqSteps DEF Command
    <3> QED
      BY <3>1, <3>2
  <2> HIDE DEF g
  <2>7. t \in Command(seen[c].ever) /\ t.pc = "check" /\ t.id = s.id /\ t.cursor = s.cursor
    BY <2>4, <2>6 DEF Command
  <2> HIDE DEF t
  <2>8. kv'[c] = t /\ DOMAIN staged' = KvClient
    BY <2>3 DEF KvInv
  <2>9. seen'[c].ever = seen[c].ever /\ seen'[c].always = seen[c].always
    BY <2>1, <2>3, <2>4, <2>7, <2>8, SeenStays
  <2>10. Fit(t, staged[c], seen[c].ever, seen[c].always, Holds(contents, t.id))
    BY <2>2, <2>4, <2>7 DEF Fit, NoId, Staging
  <2> QED
    BY <2>3, <2>8, <2>9, <2>10, OneSteps
<1> QED
  BY <1>1, <1>2

LEMMA BulkInv ==
  ASSUME KvInv, Witness, NEW c \in KvClient, Bulk(c)
  PROVE  KvInv'
<1> DEFINE s == kv[c]
           q == Slice(s)
           keys == {q[i][1] : i \in DOMAIN q}
<1>1. s = kv[c]
  OBVIOUS
<1>17. PICK answer \in {{}, Present(s.id, keys)} :
         kv' = [kv EXCEPT ![c] = [s EXCEPT !.at = s.at + Len(q), !.got =
                   IF s.verb = "bulkGet" THEN Append(s.got, answer) ELSE <<>>]]
  BY DEF Bulk, Becomes
<1> HIDE DEF s
<1>2. /\ s.pc = "act" /\ s.verb \in {"bulkGet", "bulkPut", "bulkDelete"}
      /\ s.at < Len(s.input)
      /\ Fit(s, staged[c], seen[c].ever, seen[c].always, Holds(contents, s.id))
  BY <1>1, Own DEF Bulk, Acts, At
<1>3. s \in Command(seen[c].ever) /\ s.id # NoValue /\ s.got \in Seq(SUBSET seen[c].ever)
  BY <1>2 DEF Fit, NoId, Command
<1> DEFINE g == IF s.verb = "bulkGet" THEN Append(s.got, answer) ELSE <<>>
           t == [s EXCEPT !.at = s.at + Len(q), !.got = g]
<1>4. kv' = [kv EXCEPT ![c] = t] /\ staged' = staged
  BY <1>17 DEF Bulk
<1>5. s.verb = "bulkGet" => contents' = contents
  BY <1>1 DEF Bulk
<1>6. q \in Seq(KvKey \X KvValue) /\ Len(q) \in Nat
  <2>1. s.input \in Seq(KvKey \X KvValue) /\ s.at \in Nat /\ Len(s.input) \in Nat
    BY <1>3 DEF Command
  <2> DEFINE m == s.at + 1
             n == Least(s.at + BatchLimit, Len(s.input))
  <2>2. m \in 1..Len(s.input) /\ n \in Nat /\ n <= Len(s.input)
    BY <1>2, <2>1, KvAssumption DEF Least
  <2>3. \A i \in m..n : s.input[i] \in KvKey \X KvValue
    BY <2>1, <2>2
  <2>4. q = SubSeq(s.input, m, n)
    BY DEF Slice
  <2> HIDE DEF m, n, q
  <2>5. SubSeq(s.input, m, n) \in Seq(KvKey \X KvValue)
    BY <2>2, <2>3, SubSeqProperties
  <2> QED
    BY <2>4, <2>5
<1> HIDE DEF q
<1>7. keys \subseteq KvKey
  BY <1>6
<1> HIDE DEF keys
<1>8. answer \subseteq seen[c].ever
  BY <1>2, <1>3, <1>7, PresentHolds DEF Fit
<1>9. g \in Seq(SUBSET seen[c].ever)
  <2>1. PICK x \in SUBSET seen[c].ever : x = answer
    BY <1>8
  <2>2. Append(s.got, x) \in Seq(SUBSET seen[c].ever) /\ <<>> \in Seq(SUBSET seen[c].ever)
    BY <1>3, <2>1, SeqSteps
  <2> QED
    BY <2>1, <2>2
<1> HIDE DEF g
<1>10. /\ t \in Command(seen[c].ever) /\ t.id = s.id /\ t.pc = "act" /\ t.got = g
       /\ t.cursor = s.cursor
  <2>1. s.at + Len(q) \in Nat
    BY <1>3, <1>6 DEF Command
  <2> QED
    BY <1>2, <1>3, <1>9, <2>1 DEF Command
<1> HIDE DEF t
<1>11. kv'[c] = t /\ DOMAIN staged' = KvClient
  BY <1>4 DEF KvInv
<1> DEFINE E == seen'[c].ever
           A == seen'[c].always
<1>12. /\ E = seen[c].ever \cup Holds(contents', s.id)
       /\ A = seen[c].always \cap Holds(contents', s.id)
  BY <1>1, <1>3, <1>10, <1>11, SeenGrows
<1> HIDE DEF E, A
<1>13. t \in Command(E) /\ A \subseteq Holds(contents', t.id) /\ Holds(contents',
    t.id) \subseteq E
  BY <1>10, <1>12, MoreCommand
<1>14. \A x \in E : x[1] \in KvKey
  BY <1>2, <1>3, <1>12, HeldKeys DEF Fit
<1>15. staged[c] = NoValue
  BY <1>2 DEF Fit, Staging
<1>16. Fit(t, staged[c], E, A, Holds(contents', t.id))
  BY <1>2, <1>3, <1>10, <1>13, <1>14, <1>15 DEF Fit, NoId, Staging
<1> QED
  BY <1>4, <1>11, <1>16, OneSteps DEF E, A

LEMMA BulkEndsInv ==
  ASSUME KvInv, Witness, NEW c \in KvClient, BulkEnds(c)
  PROVE  KvInv'
<1>1. CASE ~kv[c].file
  BY <1>1, FinishInv DEF BulkEnds
<1>2. CASE kv[c].file
  <2>1. PICK s : s = kv[c]
    OBVIOUS
  <2>2. s.pc = "act" /\ Fit(s, staged[c], seen[c].ever, seen[c].always, Holds(contents, s.id))
    BY <2>1, Own DEF BulkEnds, At
  <2> DEFINE t == [s EXCEPT !.pc = "check"]
  <2>3. kv' = [kv EXCEPT ![c] = t] /\ staged' = staged /\ contents' = contents
    BY <1>2, <2>1 DEF BulkEnds, Becomes
  <2>4. s \in Command(seen[c].ever) /\ s.id # NoValue
    BY <2>2 DEF Fit, NoId
  <2>5. t \in Command(seen[c].ever) /\ t.pc = "check" /\ t.id = s.id /\ t.cursor = s.cursor
    BY <2>4 DEF Command
  <2> HIDE DEF t
  <2>6. kv'[c] = t /\ DOMAIN staged' = KvClient
    BY <2>3 DEF KvInv
  <2>7. seen'[c].ever = seen[c].ever /\ seen'[c].always = seen[c].always
    BY <2>1, <2>3, <2>4, <2>5, <2>6, SeenStays
  <2>8. Fit(t, staged[c], seen[c].ever, seen[c].always, Holds(contents, t.id))
    BY <2>2, <2>4, <2>5 DEF Fit, NoId, Staging
  <2> QED
    BY <2>3, <2>6, <2>7, <2>8, OneSteps
<1> QED
  BY <1>1, <1>2

LEMMA OpensInv ==
  ASSUME KvInv, Witness, NEW c \in KvClient, Opens(c)
  PROVE  KvInv'
<1>1. PICK s : s = kv[c]
  OBVIOUS
<1>2. s.pc = "check" /\ Fit(s, staged[c], seen[c].ever, seen[c].always, Holds(contents, s.id))
  BY <1>1, Own DEF Opens, At
<1>3. s \in Command(seen[c].ever) /\ s.id # NoValue
  BY <1>2 DEF Fit, NoId
<1>4. PICK pc \in {"list", "write"} : /\ pc = "list" => s.verb = "export"
                                      /\ kv' = [kv EXCEPT ![c] = [s EXCEPT !.pc = pc]]
                                      /\ pc = "list" <=> s.verb = "export"
  BY <1>1 DEF Opens, Becomes
<1> DEFINE t == [s EXCEPT !.pc = pc]
<1>5. t \in Command(seen[c].ever) /\ t.pc = pc /\ t.id = s.id /\ t.verb = s.verb /\ t.cursor = s.cursor
  BY <1>3 DEF Command
<1> HIDE DEF t
<1>6. /\ staged'[c] = <<>> /\ DOMAIN staged' = KvClient /\ contents' = contents
      /\ \A d \in KvClient : d # c => staged'[d] = staged[d]
  BY DEF Opens, KvInv
<1>7. kv'[c] = t
  BY <1>4 DEF KvInv, t
<1>8. seen'[c].ever = seen[c].ever /\ seen'[c].always = seen[c].always
  BY <1>1, <1>3, <1>5, <1>6, <1>7, SeenStays
<1>9. s.cursor = 0 /\ \A x \in seen[c].always : x[1] \in KvKey
  BY <1>2, <1>3 DEF Fit
<1>10. pc = "list" => Dump(t, <<>>, seen[c].always)
  <2>1. OnceOnly(<<>>) /\ Pairs(<<>>) = {}
    BY DEF OnceOnly, Pairs
  <2>2. \A x \in seen[c].always : ~(x[1] <= 0)
    BY <1>9, KvAssumption DEF KvKey
  <2> QED
    BY <1>5, <1>9, <2>1, <2>2 DEF Dump
<1>11. <<>> \in Seq(SUBSET seen[c].ever)
  OBVIOUS
<1>12. Fit(t, <<>>, seen[c].ever, seen[c].always, Holds(contents, t.id))
  BY <1>2, <1>3, <1>4, <1>5, <1>10, <1>11 DEF Fit, NoId, Staging
<1> QED
  BY <1>4, <1>6, <1>8, <1>12, OneSteps DEF t

\* Every key that is listed and comes before one of the page is in the page.
LEMMA FirstDown ==
  ASSUME NEW K \in SUBSET KvKey, NEW last \in FirstOf(K), NEW k \in K, k <= last
  PROVE  k \in FirstOf(K)
<1> DEFINE Before(n) == {j \in K : j < n}
<1>1. IsFiniteSet(KvKey)
  BY KvAssumption, FS_Interval DEF KvKey
<1>2. last \in K /\ Cardinality(Before(last)) < PageLimit
  BY DEF FirstOf
<1>3. k \in Nat /\ last \in Nat /\ K \subseteq Nat
  BY <1>2, KvAssumption DEF KvKey
<1>4. Before(k) \subseteq Before(last)
  <2> SUFFICES ASSUME NEW j \in K, j < k PROVE j < last
    OBVIOUS
  <2> QED
    BY <1>3
<1>5. IsFiniteSet(Before(last)) /\ IsFiniteSet(Before(k))
  BY <1>1, FS_Subset
<1>6. Cardinality(Before(k)) <= Cardinality(Before(last))
  BY <1>4, <1>5, FS_Subset
<1>7. Cardinality(Before(k)) \in Nat /\ Cardinality(Before(last)) \in Nat
  BY <1>5, FS_CardinalityType
<1>8. Cardinality(Before(k)) < PageLimit
  <2> HIDE DEF Before
  <2> QED
    BY <1>2, <1>6, <1>7, KvAssumption
<1> QED
  BY <1>8 DEF FirstOf

\* The file with one more answer.
LEMMA MorePairs ==
  ASSUME NEW E, NEW file \in Seq(SUBSET E), NEW P \in SUBSET E
  PROVE  /\ Append(file, P) \in Seq(SUBSET E)
         /\ Pairs(Append(file, P)) = Pairs(file) \cup P
         /\ Pairs(file) \subseteq E
<1>1. /\ Append(file, P) \in Seq(SUBSET E) /\ Len(file) \in Nat
      /\ Len(Append(file, P)) = Len(file) + 1 /\ Append(file, P)[Len(file) + 1] = P
      /\ \A i \in 1..Len(file) : Append(file, P)[i] = file[i]
  BY SeqSteps
<1> DEFINE q == Append(file, P)
           n == Len(file)
<1>2. DOMAIN file = 1..n /\ DOMAIN q = 1..(n + 1) /\ \A i \in 1..n : file[i] \in SUBSET E
  BY <1>1
<1> HIDE DEF q, n
<1>3. n \in Nat /\ q[n + 1] = P /\ \A i \in 1..n : q[i] = file[i]
  BY <1>1 DEF q, n
<1>4. \A i : i \in 1..(n + 1) <=> i \in 1..n \/ i = n + 1
  BY <1>3
<1>5. \A x : (\E i \in DOMAIN q : x \in q[i]) <=> (\E i \in DOMAIN file : x \in file[i])
    \/ x \in P
  BY <1>2, <1>3, <1>4
<1>6. Pairs(q) = Pairs(file) \cup P
  BY <1>5 DEF Pairs
<1>7. Pairs(file) \subseteq E
  BY <1>2 DEF Pairs
<1> QED
  BY <1>1, <1>6, <1>7 DEF q

LEMMA MoreDistinct ==
  ASSUME NEW E, NEW file \in Seq(SUBSET E), NEW P \in SUBSET E, OnceOnly(file),
         \A x, y \in P : x[1] = y[1] => x = y,
         \A x \in Pairs(file), y \in P : x[1] # y[1]
  PROVE  OnceOnly(Append(file, P))
<1>1. /\ Append(file, P) \in Seq(SUBSET E) /\ Len(file) \in Nat
      /\ Len(Append(file, P)) = Len(file) + 1 /\ Append(file, P)[Len(file) + 1] = P
      /\ \A i \in 1..Len(file) : Append(file, P)[i] = file[i]
  BY SeqSteps
<1> DEFINE q == Append(file, P)
           n == Len(file)
<1>2. DOMAIN file = 1..n /\ DOMAIN q = 1..(n + 1)
  BY <1>1
<1> HIDE DEF q, n
<1>3. n \in Nat /\ q[n + 1] = P /\ \A i \in 1..n : q[i] = file[i]
  BY <1>1 DEF q, n
<1>4. \A i : i \in 1..(n + 1) <=> i \in 1..n \/ i = n + 1
  BY <1>3
<1>5. \A i \in 1..n : \A x \in q[i], y \in P : x[1] # y[1]
  BY <1>2, <1>3 DEF Pairs
<1>6. ASSUME NEW i \in DOMAIN q, NEW j \in DOMAIN q, NEW x \in q[i], NEW y \in q[j], x[1] = y[1]
      PROVE  i = j /\ x = y
  <2>1. CASE i \in 1..n /\ j \in 1..n
    BY <1>2, <1>3, <1>6, <2>1 DEF OnceOnly
  <2>2. CASE i \in 1..n /\ j = n + 1
    BY <1>3, <1>5, <1>6, <2>2
  <2>3. CASE i = n + 1 /\ j \in 1..n
    BY <1>3, <1>5, <1>6, <2>3
  <2>4. CASE i = n + 1 /\ j = n + 1
    BY <1>3, <1>6, <2>4
  <2> QED
    BY <1>2, <1>4, <2>1, <2>2, <2>3, <2>4
<1> QED
  BY <1>6 DEF OnceOnly, q

\* The facts of a walk that the three steps of a listing share.
LEMMA Walk ==
  ASSUME NEW s, NEW file, NEW E, NEW A, NEW now, Fit(s, file, E, A, now),
         s.pc \in {"list", "read"}
  PROVE  /\ s \in Command(E) /\ s.id # NoValue /\ s.verb = "export"
         /\ file \in Seq(SUBSET E) /\ Dump(s, file, A)
         /\ A \subseteq now /\ now \subseteq E /\ s.cursor \in Nat /\ s.page \subseteq KvKey
         /\ Pairs(file) \subseteq E /\ \A x \in E : x[1] \in KvKey
<1>1. s \in Command(E) /\ s.id # NoValue /\ s.verb = "export" /\ file \in Seq(SUBSET E)
  BY DEF Fit, NoId, Staging
<1>2. Pairs(file) \subseteq E
  BY <1>1, MorePairs
<1>3. s.cursor \in Nat /\ s.page \subseteq KvKey
  BY <1>1, KvAssumption DEF Command
<1> QED
  BY <1>1, <1>2, <1>3 DEF Fit, Staging

\* A step of the walk: what has to be shown of it.
LEMMA WalkFits ==
  ASSUME NEW s, NEW e, NEW E, NEW A, NEW now, Fit(s, e, E, A, now), s.pc \in {"list", "read"},
         NEW t \in Command(E), t.pc \in {"list", "read", "publish"}, t.id = s.id,
         t.verb = s.verb, NEW f \in Seq(SUBSET E), Dump(t, f, A)
  PROVE  Fit(t, f, E, A, now)
<1>1. s.id # NoValue /\ s.verb = "export"
  BY Walk
<1> QED
  BY <1>1 DEF Fit, NoId, Staging

LEMMA ListEndsInv ==
  ASSUME KvInv, Witness, NEW c \in KvClient, ListEnds(c)
  PROVE  KvInv'
<1> DEFINE E == seen[c].ever
           A == seen[c].always
           f == staged[c]
<1>1. PICK s : s = kv[c]
  OBVIOUS
<1> DEFINE now == Holds(contents, s.id)
<1>2. s.pc = "list" /\ s.pc \in {"list", "read"} /\ Fit(s, f, E, A, now)
  BY <1>1, Own DEF ListEnds, At
<1> HIDE DEF E, A, f, now
<1>3. /\ s \in Command(E) /\ f \in Seq(SUBSET E) /\ Dump(s, f, A)
      /\ A \subseteq now /\ s.cursor \in Nat
  BY <1>2, Walk
<1> DEFINE t == [s EXCEPT !.pc = "publish", !.cursor = 0]
<1>4. /\ t \in Command(E) /\ t.pc = "publish" /\ t.id = s.id /\ t.verb = s.verb
      /\ t.missed = s.missed
  <2>1. 0 \in 0..NKeys
    BY KvAssumption
  <2> QED
    BY <1>3, <2>1 DEF Command
<1>5. kv' = [kv EXCEPT ![c] = t] /\ staged' = staged /\ contents' = contents /\ Listed(c) = {}
  BY <1>1 DEF ListEnds, Becomes
<1> HIDE DEF t
<1>6. ~s.missed => A \subseteq Pairs(f)
  <2> SUFFICES ASSUME ~s.missed, NEW x \in A PROVE x \in Pairs(f)
    OBVIOUS
  <2>1. x[1] \in KvKey /\ contents[s.id][x[1]] # NoValue
    BY <1>3, HeldKeys DEF now
  <2>2. ~(x[1] > s.cursor)
    BY <1>1, <1>5, <2>1 DEF Listed
  <2>3. x[1] <= s.cursor
    BY <1>3, <2>1, <2>2, KvAssumption DEF KvKey
  <2> QED
    BY <1>2, <1>3, <2>3 DEF Dump
<1>7. Dump(t, f, A)
  BY <1>3, <1>4, <1>6 DEF Dump
<1>8. /\ DOMAIN staged' = KvClient /\ staged'[c] = f
      /\ \A d \in KvClient : d # c => staged'[d] = staged[d]
  BY <1>5 DEF KvInv, f
<1>9. Fit(t, f, E, A, Holds(contents, t.id))
  BY <1>2, <1>3, <1>4, <1>7, WalkFits DEF now
<1>10. kv'[c] = t /\ s.id # NoValue
  BY <1>2, <1>5, Walk DEF KvInv
<1>11. seen'[c].ever = E /\ seen'[c].always = A
  BY <1>1, <1>4, <1>5, <1>10, SeenStays DEF E, A
<1> QED
  BY <1>5, <1>8, <1>9, <1>11, OneSteps

LEMMA ListPageInv ==
  ASSUME KvInv, Witness, NEW c \in KvClient, ListPage(c)
  PROVE  KvInv'
<1> DEFINE E == seen[c].ever
           A == seen[c].always
           f == staged[c]
           K == Listed(c)
           P == FirstOf(K)
<1>1. PICK s : s = kv[c]
  OBVIOUS
<1> DEFINE now == Holds(contents, s.id)
<1>2. s.pc = "list" /\ s.pc \in {"list", "read"} /\ Fit(s, f, E, A, now)
  BY <1>1, Own DEF ListPage, At
<1> HIDE DEF E, A, f, now
<1>3. /\ s \in Command(E) /\ f \in Seq(SUBSET E) /\ Dump(s, f, A)
      /\ A \subseteq now /\ s.cursor \in Nat
      /\ Pairs(f) \subseteq E /\ \A x \in E : x[1] \in KvKey
  BY <1>2, Walk
<1>4. PICK last \in P : /\ \A k \in P : k <= last
                        /\ kv' = [kv EXCEPT ![c] = [s EXCEPT !.pc = "read", !.page = P,
                                                    !.cursor = IF P = K THEN 0 ELSE last]]
  BY <1>1 DEF ListPage, Becomes
<1>5. K \subseteq KvKey /\ \A k \in KvKey : k \in K <=> k > s.cursor /\ contents[s.id][k] # NoValue
  BY <1>1 DEF Listed
<1> HIDE DEF K
<1>6. P \subseteq K /\ \A k \in K : k <= last => k \in P
  <2>1. P \subseteq K
    BY DEF FirstOf
  <2> QED
    BY <1>5, <2>1, FirstDown
<1> HIDE DEF P
<1>7. KvKey \subseteq Nat \ {0} /\ last \in KvKey /\ last \in 0..NKeys
  BY <1>5, <1>6, KvAssumption DEF KvKey
<1> DEFINE cur == IF P = K THEN 0 ELSE last
           t == [s EXCEPT !.pc = "read", !.page = P, !.cursor = cur]
<1>8. /\ t \in Command(E) /\ t.pc = "read" /\ t.id = s.id /\ t.verb = s.verb
      /\ t.page = P /\ t.cursor = cur /\ t.missed = s.missed
  <2>1. cur \in 0..NKeys /\ P \in SUBSET KvKey
    BY <1>5, <1>6, <1>7, KvAssumption
  <2> HIDE DEF cur
  <2> QED
    BY <1>3, <2>1 DEF Command
<1> HIDE DEF t
<1>9. \A x \in Pairs(f) : x[1] \in Nat /\ x[1] <= s.cursor
  BY <1>2, <1>3, <1>7 DEF Dump
<1>10. \A k \in P : k \in Nat /\ s.cursor < k
  BY <1>3, <1>5, <1>6, <1>7
<1>11. \A x \in Pairs(f) : \A k \in P : x[1] < k /\ x[1] <= last
  BY <1>3, <1>9, <1>10
<1>12. ASSUME ~s.missed, NEW x \in A, cur = 0 \/ x[1] <= cur PROVE x \in Pairs(f) \/ x[1] \in P
  <2>1. x[1] \in KvKey /\ contents[s.id][x[1]] # NoValue
    BY <1>3, HeldKeys DEF now
  <2>2. CASE x[1] <= s.cursor
    BY <1>2, <1>3, <1>12, <2>2 DEF Dump
  <2>3. CASE ~(x[1] <= s.cursor)
    <3>1. x[1] \in K
      <4>1. x[1] \in Nat /\ s.cursor \in Nat
        BY <1>3, <1>7, <2>1
      <4>2. x[1] > s.cursor
        BY <2>3, <4>1
      <4> QED
        BY <1>5, <2>1, <4>2
    <3>2. P = K \/ x[1] <= last
      BY <1>7, <1>12
    <3> QED
      BY <1>6, <3>1, <3>2
  <2> QED
    BY <2>2, <2>3
<1>13. OnceOnly(f)
  BY <1>3 DEF Dump
<1>14. cur # 0 => cur = last
  OBVIOUS
<1> HIDE DEF cur
<1>15. Dump(t, f, A)
  BY <1>4, <1>8, <1>11, <1>12, <1>13, <1>14 DEF Dump
<1>16. /\ contents' = contents /\ DOMAIN staged' = KvClient /\ staged'[c] = f
       /\ \A d \in KvClient : d # c => staged'[d] = staged[d]
  BY DEF ListPage, KvInv, f
<1>17. kv' = [kv EXCEPT ![c] = t]
  BY <1>4 DEF t, cur
<1>18. Fit(t, f, E, A, Holds(contents, t.id))
  BY <1>2, <1>3, <1>8, <1>15, WalkFits DEF now
<1>19. kv'[c] = t /\ s.id # NoValue
  BY <1>2, <1>17, Walk DEF KvInv
<1>20. seen'[c].ever = E /\ seen'[c].always = A
  BY <1>1, <1>8, <1>16, <1>19, SeenStays DEF E, A
<1> QED
  BY <1>16, <1>17, <1>18, <1>20, OneSteps

\* What a short listing leaves out may be missing in the dump; what it has is
\* still new.
LEMMA ListShortInv ==
  ASSUME KvInv, Witness, NEW c \in KvClient, ListShort(c)
  PROVE  KvInv'
<1> DEFINE E == seen[c].ever
           A == seen[c].always
           f == staged[c]
           K == Listed(c)
           P == FirstOf(K)
<1>1. PICK s : s = kv[c]
  OBVIOUS
<1> DEFINE now == Holds(contents, s.id)
<1>2. s.pc = "list" /\ s.pc \in {"list", "read"} /\ Fit(s, f, E, A, now)
  BY <1>1, Own DEF ListShort, At
<1> HIDE DEF E, A, f, now
<1>3. /\ s \in Command(E) /\ f \in Seq(SUBSET E) /\ Dump(s, f, A)
      /\ s.cursor \in Nat /\ Pairs(f) \subseteq E /\ \A x \in E : x[1] \in KvKey
  BY <1>2, Walk
<1>4. PICK last \in P, keys \in SUBSET P :
        /\ \A k \in P : k <= last
        /\ \E next \in {0, last} :
             kv' = [kv EXCEPT ![c] = [s EXCEPT !.page = keys, !.cursor = next, !.missed = TRUE,
               !.pc = IF keys # {} THEN "read" ELSE IF next # 0 THEN "list" ELSE "publish"]]
  BY <1>1 DEF ListShort, Becomes
<1>5. PICK next \in {0, last} :
        kv' = [kv EXCEPT ![c] = [s EXCEPT !.page = keys, !.cursor = next, !.missed = TRUE,
               !.pc = IF keys # {} THEN "read" ELSE IF next # 0 THEN "list" ELSE "publish"]]
  BY <1>4
<1>6. P \subseteq K /\ K \subseteq KvKey /\ \A k \in K : k > s.cursor
  BY <1>1 DEF Listed, FirstOf
<1> HIDE DEF P, K
<1>7. KvKey \subseteq Nat \ {0} /\ next \in 0..NKeys /\ last \in KvKey
  BY <1>6, KvAssumption DEF KvKey
<1> DEFINE pc == IF keys # {} THEN "read" ELSE IF next # 0 THEN "list" ELSE "publish"
           t == [s EXCEPT !.page = keys, !.cursor = next, !.missed = TRUE, !.pc = pc]
<1>8. /\ t \in Command(E) /\ t.pc = pc /\ t.id = s.id /\ t.verb = s.verb
      /\ t.page = keys /\ t.cursor = next /\ t.missed
  <2>1. keys \in SUBSET KvKey
    BY <1>6
  <2>2. pc \in {"read", "list", "publish"}
    OBVIOUS
  <2> HIDE DEF pc
  <2> QED
    BY <1>3, <1>7, <2>1, <2>2 DEF Command
<1>9. pc \in {"read", "list", "publish"} /\ (pc = "list" => next # 0)
  OBVIOUS
<1> HIDE DEF t, pc
<1>10. \A x \in Pairs(f) : x[1] \in Nat /\ x[1] <= s.cursor
  BY <1>2, <1>3, <1>7 DEF Dump
<1>11. \A k \in P : k \in Nat /\ s.cursor < k /\ k <= last
  BY <1>3, <1>4, <1>6, <1>7
<1>12. \A x \in Pairs(f) : x[1] <= last /\ \A k \in P : x[1] < k
  BY <1>3, <1>7, <1>10, <1>11
<1>13. next # 0 => next = last
  OBVIOUS
<1>14. Dump(t, f, A)
  <2>1. OnceOnly(f)
    BY <1>3 DEF Dump
  <2> QED
    BY <1>8, <1>9, <1>11, <1>12, <1>13, <2>1 DEF Dump
<1>15. /\ contents' = contents /\ DOMAIN staged' = KvClient /\ staged'[c] = f
       /\ \A d \in KvClient : d # c => staged'[d] = staged[d]
  BY DEF ListShort, KvInv, f
<1>16. kv' = [kv EXCEPT ![c] = t]
  BY <1>5 DEF t, pc
<1>17. Fit(t, f, E, A, Holds(contents, t.id))
  BY <1>2, <1>3, <1>8, <1>9, <1>14, WalkFits DEF now
<1>18. kv'[c] = t /\ s.id # NoValue
  BY <1>2, <1>16, Walk DEF KvInv
<1>19. seen'[c].ever = E /\ seen'[c].always = A
  BY <1>1, <1>8, <1>15, <1>18, SeenStays DEF E, A
<1> QED
  BY <1>15, <1>16, <1>17, <1>19, OneSteps

LEMMA ReadPageInv ==
  ASSUME KvInv, Witness, NEW c \in KvClient, ReadPage(c)
  PROVE  KvInv'
<1> DEFINE E == seen[c].ever
           A == seen[c].always
           f == staged[c]
<1>1. PICK s : s = kv[c]
  OBVIOUS
<1> DEFINE now == Holds(contents, s.id)
           P == Present(s.id, s.page)
<1>2. s.pc = "read" /\ s.pc \in {"list", "read"} /\ Fit(s, f, E, A, now)
  BY <1>1, Own DEF ReadPage, At
<1>22. PICK V :
         /\ V \subseteq P
         /\ staged' = [staged EXCEPT ![c] = Append(f, V)]
         /\ kv' = [kv EXCEPT ![c] = [s EXCEPT !.page = {}, !.missed = s.missed \/ V # P,
                                     !.pc = IF s.cursor = 0 THEN "publish" ELSE "list"]]
  BY <1>1 DEF ReadPage, Becomes
<1> DEFINE g == Append(f, V)
<1>3. staged' = [staged EXCEPT ![c] = g] /\ contents' = contents
  BY <1>22 DEF ReadPage
<1>23. PICK pc \in {"publish", "list"} : pc = IF s.cursor = 0 THEN "publish" ELSE "list"
  OBVIOUS
<1>4. /\ pc = "publish" <=> s.cursor = 0
      /\ kv' = [kv EXCEPT ![c] = [s EXCEPT !.page = {}, !.missed = s.missed \/ V # P, !.pc = pc]]
  BY <1>22, <1>23
<1> HIDE DEF E, A, f, now, P
<1>5. s.page \subseteq KvKey
  BY <1>2, Walk
<1>6. P = {x \in now : x[1] \in s.page}
  BY <1>5, PresentHolds DEF now, P
<1>7. \A x \in now : x[1] \in KvKey /\ x = <<x[1], contents[s.id][x[1]]>>
  BY HeldKeys DEF now
<1>8. /\ s \in Command(E) /\ f \in Seq(SUBSET E) /\ Dump(s, f, A)
      /\ A \subseteq now /\ now \subseteq E /\ s.cursor \in Nat
      /\ Pairs(f) \subseteq E /\ \A x \in E : x[1] \in KvKey
  BY <1>2, Walk
<1>9. KvKey \subseteq Nat \ {0}
  BY KvAssumption DEF KvKey
<1>10. g \in Seq(SUBSET E) /\ Pairs(g) = Pairs(f) \cup V
  <2>1. V \in SUBSET E
    BY <1>6, <1>8, <1>22
  <2> QED
    BY <1>8, <2>1, MorePairs
<1>11. OnceOnly(g)
  <2>1. \A x, y \in V : x[1] = y[1] => x = y
    BY <1>6, <1>7, <1>22
  <2>2. \A x \in Pairs(f), y \in V : x[1] # y[1]
    <3>1. \A x \in Pairs(f), k \in s.page : x[1] < k
      BY <1>2, <1>8 DEF Dump
    <3>2. \A x \in Pairs(f) : x[1] \in Nat
      BY <1>8, <1>9
    <3>3. \A x \in Pairs(f), k \in s.page : x[1] # k
      BY <1>5, <1>9, <3>1, <3>2
    <3> QED
      BY <1>6, <1>22, <3>3
  <2>3. OnceOnly(f) /\ V \in SUBSET E
    BY <1>6, <1>8, <1>22 DEF Dump
  <2> QED
    BY <1>8, <2>1, <2>2, <2>3, MoreDistinct
<1> HIDE DEF g
<1> DEFINE t == [s EXCEPT !.page = {}, !.missed = s.missed \/ V # P, !.pc = pc]
<1>12. /\ t \in Command(E) /\ t.pc = pc /\ t.id = s.id /\ t.verb = s.verb
       /\ t.cursor = s.cursor /\ (t.missed <=> s.missed \/ V # P)
  BY <1>8 DEF Command
<1>13. kv' = [kv EXCEPT ![c] = t]
  BY <1>4
<1> HIDE DEF t
<1>14. ~t.missed => \A x \in A : s.cursor = 0 \/ x[1] <= s.cursor => x \in Pairs(g)
  BY <1>2, <1>6, <1>8, <1>10, <1>12 DEF Dump
<1>15. s.cursor # 0 => \A x \in Pairs(g) : x[1] <= s.cursor
  BY <1>2, <1>6, <1>8, <1>10, <1>22 DEF Dump
<1>16. Dump(t, g, A)
  BY <1>4, <1>11, <1>12, <1>14, <1>15 DEF Dump
<1>17. /\ DOMAIN staged' = KvClient /\ staged'[c] = g
       /\ \A d \in KvClient : d # c => staged'[d] = staged[d]
  BY <1>3 DEF KvInv
<1>18. t.pc \in {"list", "read", "publish"}
  BY <1>4, <1>12
<1>19. Fit(t, g, E, A, Holds(contents, t.id))
  BY <1>2, <1>10, <1>12, <1>16, <1>18, WalkFits DEF now
<1>20. kv'[c] = t /\ s.id # NoValue
  BY <1>2, <1>13, Walk DEF KvInv
<1>21. seen'[c].ever = E /\ seen'[c].always = A
  BY <1>1, <1>3, <1>12, <1>20, SeenStays DEF E, A
<1> QED
  BY <1>3, <1>13, <1>17, <1>19, <1>21, OneSteps

LEMMA WriteInv ==
  ASSUME KvInv, Witness, NEW c \in KvClient, Write(c)
  PROVE  KvInv'
<1>1. PICK s : s = kv[c]
  OBVIOUS
<1>2. s.pc = "write" /\ Fit(s, staged[c], seen[c].ever, seen[c].always, Holds(contents, s.id))
  BY <1>1, Own DEF Write, At
<1>3. s \in Command(seen[c].ever) /\ s.id # NoValue /\ s.verb # "export"
  BY <1>2 DEF Fit, NoId
<1> DEFINE t == [s EXCEPT !.pc = "publish"]
<1>4. /\ kv' = [kv EXCEPT ![c] = t] /\ contents' = contents
      /\ staged' = [staged EXCEPT ![c] = s.got]
  BY <1>1 DEF Write, Becomes
<1>5. t \in Command(seen[c].ever) /\ t.pc = "publish" /\ t.id = s.id /\ t.verb = s.verb
  BY <1>3 DEF Command
<1> HIDE DEF t
<1>6. /\ kv'[c] = t /\ DOMAIN staged' = KvClient /\ staged'[c] = s.got
      /\ \A d \in KvClient : d # c => staged'[d] = staged[d]
  BY <1>4 DEF KvInv
<1>7. seen'[c].ever = seen[c].ever /\ seen'[c].always = seen[c].always
  BY <1>1, <1>3, <1>4, <1>5, <1>6, SeenStays
<1>8. s.got \in Seq(SUBSET seen[c].ever)
  BY <1>3 DEF Command
<1>9. Fit(t, s.got, seen[c].ever, seen[c].always, Holds(contents, t.id))
  BY <1>2, <1>3, <1>5, <1>8 DEF Fit, NoId, Staging
<1> QED
  BY <1>4, <1>6, <1>7, <1>9, OneSteps

LEMMA KvInvStart == KvInit => KvInv
<1> SUFFICES ASSUME KvInit PROVE KvInv
  OBVIOUS
<1>1. DOMAIN kv = KvClient /\ DOMAIN staged = KvClient
  BY DEF KvInit
<1>2. ASSUME NEW c \in KvClient
      PROVE  Fit(kv[c], staged[c], seen[c].ever, seen[c].always, Holds(contents, kv[c].id))
  <2>1. kv[c] = Unstarted /\ staged[c] = NoValue /\ seen[c].ever = {} /\ seen[c].always = {}
    BY DEF KvInit
  <2>2. PICK s \in Command({}) : /\ s = Unstarted /\ s.pc = "idle" /\ s.id = NoValue
                                 /\ s.got = <<>>
    BY UnstartedCommand
  <2>3. Fit(s, NoValue, {}, {}, Holds(contents, s.id))
    BY <2>2 DEF Fit, NoId, Staging
  <2> QED
    BY <2>1, <2>2, <2>3
<1> QED
  BY <1>1, <1>2 DEF KvInv

LEMMA KvInductive ==
  ASSUME KvInv, [KvNext]_kvVars
  PROVE  KvInv'
<1>1. CASE UNCHANGED kvVars
  BY <1>1 DEF kvVars, KvInv
<1>2. ASSUME Witness, NEW c \in KvClient, KvStep(c)
      PROVE  KvInv'
  <2>1. CASE Starts(c)
    <3>1. PICK verb \in Duty[c], n \in NsName, file \in BOOLEAN, force \in BOOLEAN,
               input \in Inputs \cup {<<>>} : Begin(c, verb, n, file, force, input)
      BY <2>1 DEF Starts
    <3> QED
      BY <1>2, <3>1, BeginInv
  <2>2. CASE LookUp(c)
    BY <1>2, <2>2, LookUpInv
  <2>3. CASE \E k \in KvKey : KeyGet(c, k)
    BY <1>2, <2>3, KeyGetInv
  <2>4. CASE Bulk(c) \/ BulkEnds(c)
    BY <1>2, <2>4, BulkInv, BulkEndsInv
  <2>5. CASE Opens(c) \/ Write(c)
    BY <1>2, <2>5, OpensInv, WriteInv
  <2>6. CASE ListEnds(c) \/ ListPage(c) \/ ListShort(c) \/ ReadPage(c)
    BY <1>2, <2>6, ListEndsInv, ListPageInv, ListShortInv, ReadPageInv
  <2>7. CASE KvKill(c)
    BY <1>2, <2>7, KvKillInv
  <2>8. CASE \/ Fails(c) \/ Create(c) \/ NoSuchName(c) \/ Delete(c) \/ Show(c)
             \/ \E n \in NsName : Rename(c, n)
             \/ \E k \in KvKey : KeyDelete(c, k) \/ \E v \in KvValue : KeyPut(c, k, v)
             \/ Refuses(c) \/ Publish(c)
    <3>1. \E pc \in {"done", "failed"} : Finish(c, pc)
      BY <2>8 DEF Fails, Create, NoSuchName, Delete, Show, Rename, KeyDelete, KeyPut, Refuses,
                  Publish
    <3> QED
      BY <1>2, <3>1, FinishInv
  <2> QED
    BY <1>2, <2>1, <2>2, <2>3, <2>4, <2>5, <2>6, <2>7, <2>8 DEF KvStep
<1> QED
  BY <1>1, <1>2 DEF KvNext

\* Only the end of a command that has written its file replaces the output.
LEMMA OnlyPublish ==
  ASSUME NEW c \in KvClient, KvStep(c), dest' # dest
  PROVE  Publish(c)
<1> USE DEF KvStep
<1>1. CASE Starts(c)
  BY <1>1 DEF Starts, Begin
<1>2. CASE \/ Fails(c) \/ Create(c) \/ LookUp(c) \/ NoSuchName(c) \/ Delete(c) \/ Show(c)
           \/ \E n \in NsName : Rename(c, n)
  BY <1>2 DEF Fails, Create, LookUp, NoSuchName, Delete, Show, Rename
<1>3. CASE \E k \in KvKey : KeyGet(c, k) \/ KeyDelete(c, k) \/ \E v \in KvValue : KeyPut(c, k,
           v)
  BY <1>3 DEF KeyGet, KeyDelete, KeyPut
<1>4. CASE Bulk(c) \/ BulkEnds(c) \/ Refuses(c) \/ Opens(c)
  BY <1>4 DEF Bulk, BulkEnds, Refuses, Opens
<1>5. CASE ListEnds(c) \/ ListPage(c) \/ ListShort(c) \/ ReadPage(c) \/ Write(c) \/ KvKill(c)
  BY <1>5 DEF ListEnds, ListPage, ListShort, ReadPage, Write, KvKill
<1> QED
  BY <1>1, <1>2, <1>3, <1>4, <1>5

\* What it replaces it with.
LEMMA Published ==
  ASSUME KvInv, NEW c \in KvClient, Publish(c)
  PROVE  /\ kv[c].pc = "publish" /\ kv'[c].pc = "done"
         /\ IF kv[c].verb = "export" THEN Faithful(c, dest')
            ELSE Pairs(dest') \subseteq seen[c].ever
<1>1. kv[c].pc = "publish" /\ dest' = staged[c] /\ Finish(c, "done")
  BY DEF Publish, At
<1>2. kv'[c].pc = "done"
  <2>1. kv'[c] = [Unstarted EXCEPT !.pc = "done"]
    BY <1>1 DEF Finish, Becomes, KvInv
  <2> QED
    BY <2>1 DEF Unstarted
<1>3. /\ staged[c] \in Seq(SUBSET seen[c].ever)
      /\ kv[c].verb = "export" => Dump(kv[c], staged[c], seen[c].always)
  BY <1>1, Own DEF Fit, Staging
<1>4. Pairs(staged[c]) \subseteq seen[c].ever
  BY <1>3, MorePairs
<1>5. CASE kv[c].verb = "export"
  <2>1. /\ OnceOnly(staged[c])
        /\ kv[c].missed \/ seen[c].always \subseteq Pairs(staged[c])
    BY <1>1, <1>3, <1>5 DEF Dump
  <2> QED
    BY <1>1, <1>2, <1>4, <1>5, <2>1 DEF Faithful, OnceOnly
<1> QED
  BY <1>1, <1>2, <1>4, <1>5

\* For any number of commands, keys, namespaces and values, and any size of a page:
\* a file that is replaced gets a faithful dump, short only where an answer lacked a
\* part, or what the keys once held, and a command that ends otherwise than by a kill
\* leaves no temporary file (kvContents and writeAtomic, main.ts).
THEOREM ExportsAreFaithful == KvSpec => OutputFaithful
<1> DEFINE Step ==
      /\ dest' # dest =>
           \E c \in KvClient :
             /\ kv[c].pc = "publish" /\ kv'[c].pc = "done"
             /\ IF kv[c].verb = "export" THEN Faithful(c, dest')
                ELSE Pairs(dest') \subseteq seen[c].ever
      /\ \A c \in KvClient : kv'[c].pc \in {"done", "failed"} => staged'[c] = NoValue
<1>1. KvInit => KvInv
  BY KvInvStart
<1>2. KvInv /\ [KvNext]_kvVars => KvInv'
  BY KvInductive
<1>3. KvInv /\ KvInv' /\ [KvNext]_kvVars => [Step]_kvVars
  <2> SUFFICES ASSUME KvInv, KvInv', KvNext PROVE Step
    OBVIOUS
  <2>1. ASSUME NEW c \in KvClient, kv'[c].pc \in {"done", "failed"}
        PROVE  staged'[c] = NoValue
    <3>1. Fit(kv'[c], staged'[c], seen'[c].ever, seen'[c].always, Holds(contents', kv'[c].id))
      BY DEF KvInv
    <3> QED
      BY <2>1, <3>1 DEF Fit, Staging
  <2>2. ASSUME dest' # dest
        PROVE  \E c \in KvClient :
                 /\ kv[c].pc = "publish" /\ kv'[c].pc = "done"
                 /\ IF kv[c].verb = "export" THEN Faithful(c, dest')
                    ELSE Pairs(dest') \subseteq seen[c].ever
    <3>1. PICK c \in KvClient : KvStep(c)
      BY DEF KvNext
    <3>2. Publish(c)
      BY <2>2, <3>1, OnlyPublish
    <3> QED
      BY <3>2, Published
  <2> QED
    BY <2>1, <2>2
<1> QED
  BY <1>1, <1>2, <1>3, PTL DEF KvSpec, OutputFaithful

(***************************************************************************)
(* PorfforBuilds, for any directories, any number of processes that prune  *)
(* while others compile, any number of kept directories and any times.     *)
(***************************************************************************)
PruneTypes ==
  /\ day \in Nat \ {0}
  /\ used \in [BuildDir -> Nat] /\ lastUse \in [BuildDir -> Nat]
  /\ pruning \in [Pruner -> {"before", "looks", "removes"}]
  /\ entries \in [Pruner -> SUBSET BuildDir]
  /\ dirs \in [Pruner -> Seq(BuildDir \X (Nat \ {0}))]
  /\ index \in [Pruner -> Nat] /\ since \in [Pruner -> Nat]

\* The history keeps up with the flags, and no clock is ahead.
Stamped ==
  /\ \A d \in BuildDir : used[d] <= lastUse[d] /\ lastUse[d] <= day
  /\ \A p \in Pruner : since[p] <= day

\* What was found is there once and not to be looked at again, and was used then
\* or later.
Found(found, ahead, use) ==
  /\ \A i, j \in DOMAIN found : found[i][1] = found[j][1] => i = j
  /\ \A i \in DOMAIN found : found[i][1] \notin ahead /\ found[i][2] <= use[found[i][1]]

Ordered(found) == \A i, j \in DOMAIN found : i < j => found[i][2] >= found[j][2]

PruneInv ==
  /\ PruneTypes /\ Stamped
  /\ \A p \in Pruner :
       /\ Found(dirs[p], entries[p], lastUse)
       /\ pruning[p] = "before" => dirs[p] = <<>>
       /\ pruning[p] = "removes" => Ordered(dirs[p])

LEMMA PruneStarts == PruneInit => PruneInv
<1> SUFFICES ASSUME PruneInit PROVE PruneInv
  OBVIOUS
<1>1. day \in Nat \ {0} /\ used \in [BuildDir -> 0..day] /\ lastUse = used
  BY PruneAssumption DEF PruneInit
<1>2. PruneTypes /\ Stamped
  BY <1>1 DEF PruneInit, PruneTypes, Stamped
<1>3. ASSUME NEW p \in Pruner PROVE Found(dirs[p], entries[p],
             lastUse) /\ dirs[p] = <<>> /\ pruning[p] = "before"
  BY DEF PruneInit, Found
<1> QED
  BY <1>2, <1>3 DEF PruneInv

\* Time passes and directories are used: what was seen of them does not change.
LEMMA UseKeeps ==
  ASSUME PruneInv, UNCHANGED <<pruning, entries, dirs, index, since>>,
         day' \in Nat, day' >= day, used' \in [BuildDir -> Nat], lastUse' \in [BuildDir -> Nat],
         \A d \in BuildDir : /\ used'[d] <= lastUse'[d] /\ lastUse'[d] <= day'
                             /\ lastUse'[d] >= lastUse[d]
  PROVE  PruneInv'
<1>1. PruneTypes'
  BY DEF PruneInv, PruneTypes
<1>2. Stamped'
  BY <1>1 DEF PruneInv, PruneTypes, Stamped
<1>3. ASSUME NEW p \in Pruner, Found(dirs[p], entries[p], lastUse)
      PROVE  Found(dirs[p], entries[p], lastUse')
  <2>1. dirs[p] \in Seq(BuildDir \X (Nat \ {0}))
    BY DEF PruneInv, PruneTypes
  <2>2. \A i \in DOMAIN dirs[p] : dirs[p][i][1] \in BuildDir /\ dirs[p][i][2] \in Nat
    BY <2>1
  <2>3. \A d \in BuildDir : lastUse[d] \in Nat /\ lastUse'[d] \in Nat /\ lastUse[d] <= lastUse'[d]
    BY <1>1 DEF PruneInv, PruneTypes
  <2>4. ASSUME NEW i \in DOMAIN dirs[p] PROVE dirs[p][i][2] <= lastUse'[dirs[p][i][1]]
    <3>1. dirs[p][i][2] <= lastUse[dirs[p][i][1]]
      BY <1>3 DEF Found
    <3> QED
      BY <2>2, <2>3, <3>1
  <2> QED
    BY <1>3, <2>4 DEF Found
<1> QED
  BY <1>1, <1>2, <1>3 DEF PruneInv

LEMMA DayPassesInv == PruneInv /\ DayPasses => PruneInv'
<1> SUFFICES ASSUME PruneInv, DayPasses PROVE PruneInv'
  OBVIOUS
<1>1. /\ day \in Nat /\ day' = day + 1 /\ used' = used /\ lastUse' = lastUse
      /\ used \in [BuildDir -> Nat] /\ lastUse \in [BuildDir -> Nat]
      /\ \A d \in BuildDir : used[d] <= lastUse[d] /\ lastUse[d] <= day
  BY DEF PruneInv, PruneTypes, Stamped, DayPasses
<1>2. \A d \in BuildDir : lastUse'[d] <= day' /\ lastUse'[d] >= lastUse[d]
  BY <1>1
<1> QED
  BY <1>1, <1>2, UseKeeps DEF DayPasses

LEMMA CompileInv ==
  ASSUME PruneInv, NEW d \in BuildDir, Compile(d)
  PROVE  PruneInv'
<1>1. /\ day \in Nat /\ day' = day /\ used' = [used EXCEPT ![d] = day]
      /\ lastUse' = [lastUse EXCEPT ![d] = day]
      /\ used \in [BuildDir -> Nat] /\ lastUse \in [BuildDir -> Nat]
      /\ \A e \in BuildDir : used[e] <= lastUse[e] /\ lastUse[e] <= day
  BY DEF PruneInv, PruneTypes, Stamped, Compile
<1>2. /\ used' \in [BuildDir -> Nat] /\ lastUse' \in [BuildDir -> Nat]
      /\ \A e \in BuildDir : /\ used'[e] <= lastUse'[e] /\ lastUse'[e] <= day'
                             /\ lastUse'[e] >= lastUse[e]
  BY <1>1
<1> QED
  BY <1>1, <1>2, UseKeeps DEF Compile

LEMMA ListInv ==
  ASSUME PruneInv, NEW p \in Pruner, List(p)
  PROVE  PruneInv'
<1>1. PruneTypes'
  BY DEF PruneInv, PruneTypes, List
<1>2. Stamped'
  BY DEF PruneInv, PruneTypes, Stamped, List
<1>3. ASSUME NEW q \in Pruner
      PROVE  /\ Found(dirs'[q], entries'[q], lastUse')
             /\ pruning'[q] = "before" => dirs'[q] = <<>>
             /\ pruning'[q] = "removes" => Ordered(dirs'[q])
  <2>1. CASE q = p
    <3>1. dirs'[q] = <<>> /\ pruning'[q] = "looks"
      BY <2>1 DEF PruneInv, PruneTypes, List
    <3> QED
      BY <3>1 DEF Found
  <2>2. CASE q # p
    <3>1. dirs'[q] = dirs[q] /\ pruning'[q] = pruning[q] /\ entries'[q] = entries[q] /\ lastUse' = lastUse
      BY <2>2 DEF PruneInv, PruneTypes, List
    <3> QED
      BY <3>1 DEF PruneInv
  <2> QED
    BY <2>1, <2>2
<1> QED
  BY <1>1, <1>2, <1>3 DEF PruneInv

LEMMA MoreFound ==
  ASSUME NEW found \in Seq(BuildDir \X (Nat \ {0})), NEW ahead, NEW use, NEW d \in ahead,
         Found(found, ahead, use), NEW t \in Nat \ {0}, t <= use[d]
  PROVE  Found(Append(found, <<d, t>>), ahead \ {d}, use)
<1> DEFINE q == Append(found, <<d, t>>)
           n == Len(found)
<1>1. /\ n \in Nat /\ DOMAIN found = 1..n /\ DOMAIN q = 1..(n + 1)
      /\ q[n + 1] = <<d, t>> /\ \A i \in 1..n : q[i] = found[i]
  OBVIOUS
<1> HIDE DEF q, n
<1>2. q[n + 1][1] = d /\ q[n + 1][2] = t
  BY <1>1
<1>3. \A i \in 1..n : q[i][1] # d
  BY <1>1 DEF Found
<1>4. ASSUME NEW i \in 1..(n + 1), NEW j \in 1..(n + 1), q[i][1] = q[j][1] PROVE i = j
  <2>1. CASE i \in 1..n /\ j \in 1..n
    BY <1>1, <1>4, <2>1 DEF Found
  <2>2. CASE i = n + 1 \/ j = n + 1
    BY <1>1, <1>2, <1>3, <1>4, <2>2
  <2> QED
    BY <1>1, <2>1, <2>2
<1>5. ASSUME NEW i \in 1..(n + 1) PROVE q[i][1] \notin ahead \ {d} /\ q[i][2] <= use[q[i][1]]
  <2>1. CASE i \in 1..n
    BY <1>1, <2>1 DEF Found
  <2>2. CASE i = n + 1
    BY <1>2, <2>2
  <2> QED
    BY <1>1, <2>1, <2>2
<1>6. Found(q, ahead \ {d}, use)
  BY <1>1, <1>4, <1>5 DEF Found
<1> QED
  BY <1>6 DEF q

LEMMA StatInv ==
  ASSUME PruneInv, NEW p \in Pruner, NEW d \in BuildDir, Stat(p, d)
  PROVE  PruneInv'
<1> DEFINE more == IF used[d] = 0 THEN dirs[p] ELSE Append(dirs[p], <<d, used[d]>>)
<1>1. /\ dirs[p] \in Seq(BuildDir \X (Nat \ {0})) /\ used[d] \in Nat /\ used[d] <= lastUse[d]
      /\ d \in entries[p] /\ Found(dirs[p], entries[p], lastUse) /\ pruning[p] = "looks"
  BY DEF PruneInv, PruneTypes, Stamped, Stat
<1>2. more \in Seq(BuildDir \X (Nat \ {0}))
  <2>1. CASE used[d] = 0
    BY <1>1, <2>1
  <2>2. CASE used[d] # 0
    <3>1. <<d, used[d]>> \in BuildDir \X (Nat \ {0})
      BY <1>1, <2>2
    <3> QED
      BY <1>1, <2>2, <3>1
  <2> QED
    BY <2>1, <2>2
<1>3. Found(more, entries[p] \ {d}, lastUse)
  <2>1. CASE used[d] = 0
    BY <1>1, <2>1 DEF Found
  <2>2. CASE used[d] # 0
    BY <1>1, <2>2, MoreFound
  <2> QED
    BY <2>1, <2>2
<1>4. /\ dirs' = [dirs EXCEPT ![p] = more] /\ entries' = [entries EXCEPT ![p] = @ \ {d}]
      /\ UNCHANGED <<day, used, lastUse, pruning, index, since>>
  BY DEF Stat
<1> HIDE DEF more
<1>5. PruneTypes' /\ Stamped'
  BY <1>2, <1>4 DEF PruneInv, PruneTypes, Stamped
<1>6. ASSUME NEW q \in Pruner
      PROVE  /\ Found(dirs'[q], entries'[q], lastUse')
             /\ pruning'[q] = "before" => dirs'[q] = <<>>
             /\ pruning'[q] = "removes" => Ordered(dirs'[q])
  <2>1. CASE q = p
    <3>1. dirs'[q] = more /\ entries'[q] = entries[p] \ {d} /\ pruning'[q] = "looks" /\ lastUse' = lastUse
      BY <1>1, <1>4, <2>1 DEF PruneInv, PruneTypes
    <3> QED
      BY <1>3, <3>1
  <2>2. CASE q # p
    <3>1. dirs'[q] = dirs[q] /\ pruning'[q] = pruning[q] /\ entries'[q] = entries[q] /\ lastUse' = lastUse
      BY <1>4, <2>2 DEF PruneInv, PruneTypes
    <3> QED
      BY <3>1 DEF PruneInv
  <2> QED
    BY <2>1, <2>2
<1> QED
  BY <1>5, <1>6 DEF PruneInv

LEMMA SortInv ==
  ASSUME PruneInv, NEW p \in Pruner, Sort(p)
  PROVE  PruneInv'
<1> DEFINE found == dirs[p]
           D == DOMAIN found
<1>1. PICK order \in Bijection(D, D) :
        /\ Sorting(order, found)
        /\ dirs' = [dirs EXCEPT ![p] = [i \in D |-> found[order[i]]]]
  BY DEF Sort
<1> DEFINE sorted == [i \in D |-> found[order[i]]]
<1>2. /\ found \in Seq(BuildDir \X (Nat \ {0})) /\ Found(found, entries[p], lastUse)
  BY DEF PruneInv, PruneTypes
<1>3. order \in [D -> D] /\ \A i, j \in D : order[i] = order[j] => i = j
  BY <1>1 DEF Bijection, Injection, IsInjective
<1>4. sorted \in Seq(BuildDir \X (Nat \ {0})) /\ DOMAIN sorted = D
  <2>1. Len(found) \in Nat /\ D = 1..Len(found) /\ \A i \in D : found[i] \in BuildDir \X (Nat \ {0})
    BY <1>2
  <2>2. sorted \in [1..Len(found) -> BuildDir \X (Nat \ {0})]
    BY <1>3, <2>1
  <2> QED
    BY <2>1, <2>2
<1>5. Ordered(sorted)
  <2>1. \A i \in D : found[i][2] \in Nat /\ i \in Nat
    BY <1>2
  <2>2. ASSUME NEW i \in D, NEW j \in D, i < j PROVE found[order[i]][2] >= found[order[j]][2]
    BY <1>1, <1>3, <2>1, <2>2 DEF Sorting, Later
  <2> QED
    BY <1>4, <2>2 DEF Ordered
<1>6. Found(sorted, entries[p], lastUse)
  <2>1. \A i \in D : order[i] \in D /\ sorted[i] = found[order[i]]
    BY <1>3
  <2> HIDE DEF sorted
  <2>2. ASSUME NEW i \in D, NEW j \in D, sorted[i][1] = sorted[j][1] PROVE i = j
    <3>1. found[order[i]][1] = found[order[j]][1] /\ order[i] \in D /\ order[j] \in D
      BY <2>1, <2>2
    <3>2. order[i] = order[j]
      BY <1>2, <3>1 DEF Found
    <3> QED
      BY <1>3, <3>2
  <2>3. ASSUME NEW i \in D
        PROVE  sorted[i][1] \notin entries[p] /\ sorted[i][2] <= lastUse[sorted[i][1]]
    BY <1>2, <2>1 DEF Found
  <2> QED
    BY <1>4, <2>2, <2>3 DEF Found
<1>7. /\ dirs' = [dirs EXCEPT ![p] = sorted] /\ pruning' = [pruning EXCEPT ![p] = "removes"]
      /\ UNCHANGED <<day, used, lastUse, entries, index, since>>
  BY <1>1 DEF Sort
<1> HIDE DEF sorted
<1>8. PruneTypes' /\ Stamped'
  BY <1>4, <1>7 DEF PruneInv, PruneTypes, Stamped
<1>9. ASSUME NEW q \in Pruner
      PROVE  /\ Found(dirs'[q], entries'[q], lastUse')
             /\ pruning'[q] = "before" => dirs'[q] = <<>>
             /\ pruning'[q] = "removes" => Ordered(dirs'[q])
  <2>1. CASE q = p
    <3>1. /\ dirs'[q] = sorted /\ entries'[q] = entries[p] /\ pruning'[q] = "removes"
          /\ lastUse' = lastUse
      BY <1>7, <2>1 DEF PruneInv, PruneTypes
    <3> QED
      BY <1>5, <1>6, <3>1
  <2>2. CASE q # p
    <3>1. dirs'[q] = dirs[q] /\ pruning'[q] = pruning[q] /\ entries'[q] = entries[q] /\ lastUse' = lastUse
      BY <1>7, <2>2 DEF PruneInv, PruneTypes
    <3> QED
      BY <3>1 DEF PruneInv
  <2> QED
    BY <2>1, <2>2
<1> QED
  BY <1>8, <1>9 DEF PruneInv

LEMMA VisitInv ==
  ASSUME PruneInv, NEW p \in Pruner, Visit(p)
  PROVE  PruneInv'
<1>1. /\ index' = [index EXCEPT ![p] = index[p] + 1]
      /\ UNCHANGED <<day, lastUse, pruning, entries, dirs, since>>
      /\ \E d : used' = [used EXCEPT ![d] = 0] \/ used' = used
  BY DEF Visit
<1>2. used' \in [BuildDir -> Nat] /\ \A d \in BuildDir : used'[d] = used[d] \/ used'[d] = 0
  <2>1. PICK d : used' = [used EXCEPT ![d] = 0] \/ used' = used
    BY <1>1
  <2>2. used \in [BuildDir -> Nat]
    BY DEF PruneInv, PruneTypes
  <2> QED
    BY <2>1, <2>2
<1>3. PruneTypes'
  BY <1>1, <1>2 DEF PruneInv, PruneTypes
<1>4. Stamped'
  BY <1>1, <1>2 DEF PruneInv, PruneTypes, Stamped
<1> QED
  BY <1>1, <1>3, <1>4 DEF PruneInv

LEMMA PruneInductive == PruneInv /\ [PruneNext]_pruneVars => PruneInv'
<1> SUFFICES ASSUME PruneInv, [PruneNext]_pruneVars PROVE PruneInv'
  OBVIOUS
<1>1. CASE UNCHANGED pruneVars
  BY <1>1 DEF pruneVars, PruneInv, PruneTypes, Stamped
<1>2. CASE PruneNext
  BY <1>2, DayPassesInv, CompileInv, StatInv, ListInv, SortInv, VisitInv DEF PruneNext
<1> QED
  BY <1>1, <1>2

\* What a process takes away it has found behind as many others as are kept, or old.
LEMMA TakesTheOld ==
  ASSUME PruneInv, NEW p \in Pruner, Visit(p), NEW d \in BuildDir, NEW t \in Nat \ {0},
         <<d, t>> = dirs[p][index[p] + 1], used[d] = t, used'[d] = 0
  PROVE  \/ t + Week < day
         \/ Cardinality({e \in BuildDir \ {d} : lastUse[e] >= t}) >= Keep
<1> DEFINE n == index[p]
           found == dirs[p]
           T == {e \in BuildDir \ {d} : lastUse[e] >= t}
           f == [i \in 1..n |-> found[i][1]]
<1>1. /\ n \in Nat /\ found \in Seq(BuildDir \X (Nat \ {0})) /\ n < Len(found)
      /\ since[p] \in Nat /\ since[p] <= day /\ day \in Nat /\ lastUse \in [BuildDir -> Nat]
  BY DEF PruneInv, PruneTypes, Stamped, Visit
<1>2. found[n + 1][1] = d /\ found[n + 1][2] = t
  <2>1. <<d, t>>[1] = d /\ <<d, t>>[2] = t
    OBVIOUS
  <2> QED
    BY <2>1
<1>3. t + Week < since[p] \/ n >= Keep
  <2>1. used' # used
    BY DEF PruneInv, PruneTypes
  <2> QED
    BY <1>2, <2>1 DEF Visit
<1>4. CASE t + Week < since[p]
  BY <1>1, <1>4, PruneAssumption
<1>5. CASE n >= Keep
  <2>1. Found(found, entries[p], lastUse) /\ Ordered(found)
    BY DEF PruneInv, Visit
  <2>2. \A i \in 1..n : /\ i \in DOMAIN found /\ i < n + 1 /\ i # n + 1
                        /\ found[i][1] \in BuildDir /\ found[i][2] \in Nat
    <3>1. ASSUME NEW i \in 1..n PROVE i \in 1..Len(found) /\ i < n + 1 /\ i # n + 1
      <4>1. n \in Nat /\ Len(found) \in Nat /\ n < Len(found)
        BY <1>1
      <4> HIDE DEF n, found
      <4> QED
        BY <4>1
    <3>2. ASSUME NEW i \in 1..Len(found)
          PROVE  i \in DOMAIN found /\ found[i][1] \in BuildDir /\ found[i][2] \in Nat
      <4>1. found[i] \in BuildDir \X (Nat \ {0}) /\ i \in DOMAIN found
        BY <1>1
      <4> QED
        BY <4>1
    <3> QED
      BY <3>1, <3>2
  <2>3. n + 1 \in DOMAIN found
    BY <1>1
  <2> HIDE DEF found, n
  <2>4. ASSUME NEW i \in 1..n PROVE found[i][1] \in T
    <3>1. found[i][1] # d
      BY <1>2, <2>1, <2>2, <2>3 DEF Found
    <3>2. found[i][2] >= t
      BY <1>2, <2>1, <2>2, <2>3 DEF Ordered
    <3>3. lastUse[found[i][1]] \in Nat /\ found[i][2] <= lastUse[found[i][1]]
      BY <1>1, <2>1, <2>2 DEF Found
    <3> QED
      BY <2>2, <3>1, <3>2, <3>3
  <2>5. f \in Injection(1..n, T)
    <3>1. f \in [1..n -> T]
      BY <2>4
    <3>2. \A i, j \in 1..n : f[i] = f[j] => i = j
      BY <2>1, <2>2 DEF Found
    <3> QED
      BY <3>1, <3>2 DEF Injection, IsInjective
  <2>6. IsFiniteSet(T) /\ Cardinality(T) \in Nat
    <3>1. IsFiniteSet(T)
      BY PruneAssumption, FS_Subset
    <3> QED
      BY <3>1, FS_CardinalityType
  <2> HIDE DEF T, f
  <2>7. Cardinality(1..n) = n
    BY <1>1, FS_Interval
  <2>8. Cardinality(1..n) <= Cardinality(T)
    BY <2>5, <2>6, FS_Injection
  <2>9. Cardinality(T) >= Keep
    BY <1>1, <1>5, <2>6, <2>7, <2>8, PruneAssumption DEF n
  <2> QED
    BY <2>9 DEF T
<1> QED
  BY <1>3, <1>4, <1>5

\* For any number of directories and of processes that prune and compile at once:
\* a directory that is taken away was not used for a week, or at least as many as
\* are kept were used since, unless it was used after it was looked at
\* (prunePorfforBuilds, compile.ts).
THEOREM BuildsAreKept == PruneSpec => RecentBuildsKept
<1>1. PruneInv /\ PruneInv' /\ [PruneNext]_pruneVars =>
        [\A p \in Pruner : index'[p] # index[p] =>
           LET x == dirs[p][index'[p]]  d == x[1] IN
           used[d] = x[2] /\ used'[d] = 0 =>
             \/ used[d] + Week < day
             \/ Cardinality({e \in BuildDir \ {d} : lastUse[e] >= used[d]}) >= Keep]_pruneVars
  <2> SUFFICES ASSUME PruneInv, PruneNext, NEW p \in Pruner, index'[p] # index[p],
                      NEW x, x = dirs[p][index'[p]], used[x[1]] = x[2], used'[x[1]] = 0
               PROVE  \/ used[x[1]] + Week < day
                      \/ Cardinality({e \in BuildDir \ {x[1]} : lastUse[e] >= used[x[1]]}) >= Keep
    OBVIOUS
  <2>1. PICK q \in Pruner : Visit(q)
    BY DEF PruneNext, DayPasses, Compile, Stat, List, Sort
  <2>2. q = p /\ index'[p] = index[p] + 1
    BY <2>1 DEF Visit, PruneInv, PruneTypes
  <2>3. x \in BuildDir \X (Nat \ {0})
    <3>1. dirs[p] \in Seq(BuildDir \X (Nat \ {0})) /\ index[p] \in Nat /\ index[p] < Len(dirs[p])
      BY <2>1, <2>2 DEF Visit, PruneInv, PruneTypes
    <3> QED
      BY <2>2, <3>1
  <2>4. x = <<x[1], x[2]>> /\ x[1] \in BuildDir /\ x[2] \in Nat \ {0}
    BY <2>3
  <2> QED
    BY <2>1, <2>2, <2>4, TakesTheOld
<1> QED
  BY <1>1, PruneStarts, PruneInductive, PTL DEF PruneSpec, RecentBuildsKept

(***************************************************************************)
(* LocalPackages, for any packages, any requests and any number of         *)
(* overlapping runs.                                                       *)
(***************************************************************************)
\* NeverLost needs no more than the kinds of what is at a place: a link at the
\* entry means that the directory is aside.
Kept == PlacesOK /\ NeverLost

LEMMA KeptAtStart == PackagesInit => Kept
  BY DEF PackagesInit, Kept, PlacesOK, NeverLost, Kinds

\* One package's places change, to something that still holds its directory.
LEMMA OneChange ==
  ASSUME Kept, NEW q, NEW e, NEW b,
         entry' = [entry EXCEPT ![q] = e],
         backup' = [backup EXCEPT ![q] = b],
         q \in Package => e \in Kinds /\ b \in Kinds /\ (e = "dir" \/ b = "dir")
  PROVE  Kept'
<1>1. PlacesOK'
  BY DEF Kept, PlacesOK
<1>2. ASSUME NEW p \in Package PROVE entry'[p] = "dir" \/ backup'[p] = "dir"
  BY DEF Kept, PlacesOK, NeverLost
<1> QED
  BY <1>1, <1>2 DEF Kept, NeverLost

\* A change of the entry alone.
LEMMA EntryChange ==
  ASSUME Kept, NEW q, NEW e,
         entry' = [entry EXCEPT ![q] = e],
         backup' = backup,
         q \in Package => e \in Kinds /\ (e = "dir" \/ backup[q] = "dir")
  PROVE  Kept'
<1>1. PlacesOK'
  BY DEF Kept, PlacesOK
<1>2. ASSUME NEW p \in Package PROVE entry'[p] = "dir" \/ backup'[p] = "dir"
  BY DEF Kept, PlacesOK, NeverLost
<1> QED
  BY <1>1, <1>2 DEF Kept, NeverLost

LEMMA NoChange ==
  ASSUME Kept, UNCHANGED <<entry, backup>>
  PROVE  Kept'
  BY DEF Kept, PlacesOK, NeverLost

\* rmSync takes a link, whose directory is then aside.
LEMMA RemoveKeeps ==
  ASSUME Kept, NEW r \in Run, RemoveLink(r)
  PROVE  Kept'
<1> DEFINE p == Head(run[r].todo)
<1>1. CASE entry[p] = "link"
  <2>1. entry' = [entry EXCEPT ![p] = "none"] /\ backup' = backup
    BY <1>1 DEF RemoveLink
  <2>2. p \in Package => backup[p] = "dir"
    BY <1>1 DEF Kept, NeverLost
  <2> HIDE DEF p
  <2> QED
    BY <2>1, <2>2, EntryChange DEF Kinds
<1>2. CASE entry[p] # "link"
  BY <1>2, NoChange DEF RemoveLink
<1> QED
  BY <1>1, <1>2

\* What is moved back is the directory: nothing is at the entry, so it is aside.
LEMMA MoveBackKeeps ==
  ASSUME Kept, NEW r \in Run, MoveBack(r)
  PROVE  Kept'
<1> DEFINE p == Head(run[r].todo)
<1>1. CASE CanRename(backup[p], entry[p])
  <2>1. entry' = [entry EXCEPT ![p] = backup[p]] /\ backup' = [backup EXCEPT ![p] = "none"]
    BY <1>1 DEF MoveBack
  <2>2. p \in Package => backup[p] = "dir"
    BY <1>1 DEF Kept, NeverLost, CanRename
  <2> HIDE DEF p
  <2> QED
    BY <2>1, <2>2, OneChange DEF Kinds
<1>2. CASE ~CanRename(backup[p], entry[p])
  BY <1>2, NoChange DEF MoveBack
<1> QED
  BY <1>1, <1>2

\* What is moved aside is the directory: nothing is aside, so it is the entry.
LEMMA MoveAsideKeeps ==
  ASSUME Kept, NEW r \in Run, MoveAside(r)
  PROVE  Kept'
<1> DEFINE p == Head(run[r].todo)
<1>1. CASE CanRename(entry[p], backup[p])
  <2>1. entry' = [entry EXCEPT ![p] = "none"] /\ backup' = [backup EXCEPT ![p] = entry[p]]
    BY <1>1 DEF MoveAside
  <2>2. p \in Package => entry[p] = "dir"
    BY <1>1 DEF Kept, NeverLost, CanRename
  <2> HIDE DEF p
  <2> QED
    BY <2>1, <2>2, OneChange DEF Kinds
<1>2. CASE ~CanRename(entry[p], backup[p])
  BY <1>2, NoChange DEF MoveAside
<1> QED
  BY <1>1, <1>2

\* A link is made where nothing is, so the directory is aside.
LEMMA LinkKeeps ==
  ASSUME Kept, NEW r \in Run, Link(r)
  PROVE  Kept'
<1> DEFINE p == Head(run[r].todo)
<1>1. entry' = [entry EXCEPT ![p] = "link"] /\ backup' = backup /\ entry[p] = "none"
  BY DEF Link
<1>2. p \in Package => backup[p] = "dir"
  BY <1>1 DEF Kept, NeverLost
<1> HIDE DEF p
<1> QED
  BY <1>1, <1>2, EntryChange DEF Kinds

LEMMA ReinstallKeeps ==
  ASSUME Kept, NEW p \in Package, Reinstall(p)
  PROVE  Kept'
  BY EntryChange DEF Reinstall, Kinds

LEMMA KeptInductive ==
  ASSUME Kept, [PackagesNext]_packageVars
  PROVE  Kept'
<1>1. CASE UNCHANGED packageVars
  BY <1>1, NoChange DEF packageVars
<1>2. ASSUME NEW p \in Package, Reinstall(p) PROVE Kept'
  BY <1>2, ReinstallKeeps
<1>3. ASSUME NEW r \in Run, RunStep(r) PROVE Kept'
  <2>1. CASE RemoveLink(r)
    BY <2>1, RemoveKeeps
  <2>2. CASE MoveBack(r)
    BY <2>2, MoveBackKeeps
  <2>3. CASE MoveAside(r)
    BY <2>3, MoveAsideKeeps
  <2>4. CASE Link(r)
    BY <2>4, LinkKeeps
  <2>5. CASE \/ Launch(r) \/ LookBackup(r) \/ LookEntry(r) \/ LinkFails(r) \/ Signal(r)
             \/ CommandEnds(r) \/ Exit(r) \/ RunKilled(r)
             \/ \E wanted \in Requests : Request(r, wanted)
    <3>1. UNCHANGED <<entry, backup>>
      BY <2>5 DEF Launch, LookBackup, LookEntry, LinkFails, Signal, CommandEnds, Exit,
                  RunKilled, Request
    <3> QED
      BY <3>1, NoChange
  <2> QED
    BY <1>3, <2>1, <2>2, <2>3, <2>4, <2>5 DEF RunStep
<1> QED
  BY <1>1, <1>2, <1>3 DEF PackagesNext

\* Overlapping runs, kills, failing links and `bun install` at any time: the
\* directory of an installed package is at its place or moved aside
\* (with-local-packages.ts, restore and the loop that links).
THEOREM PackagesNeverLost == PackagesSpec => []NeverLost
<1>1. Kept => NeverLost
  BY DEF Kept
<1> QED
  BY <1>1, KeptAtStart, KeptInductive, PTL DEF PackagesSpec

\* What Restored needs on top: who will put a package back that is not at its
\* place, and what a run alone knows.
\* In memory a run has its phase and the two lists.
RunState ==
  [at : {"idle", "look", "lookEntry", "remove", "moveBack", "moveAside", "link", "command",
         "done", "killed"},
   todo : Seq(Package), linked : Seq(Package), signals : Nat, undoing : BOOLEAN]

In(p, s) == \E i \in 1..Len(s) : s[i] = p

Restores(s) == s.at \in {"look", "lookEntry", "remove", "moveBack"}
Alive(s) == s.at \notin {"idle", "done", "killed"}
Links(s) == s.at \in {"moveAside", "link", "command"}
On(s, p) == s.todo # <<>> /\ Head(s.todo) = p

\* At each place of a run, what its lists must hold.
Sits(s) ==
  /\ s.at \in {"lookEntry", "remove", "moveBack", "link"} => s.todo # <<>>
  /\ s.at = "link" => In(Head(s.todo), s.linked)
  /\ s.undoing => Restores(s)

\* A run that will still put p back: it has noted it, or it has it before it in
\* restoreAll.  Of a link, the run that stands before the rename will not, for
\* the rename fails; of a gap, the one that stands before the removal will not,
\* but the one before the rename will, in the repair too.
OwnsLink(s, p) ==
  \/ Links(s) /\ In(p, s.linked)
  \/ s.undoing /\ In(p, s.todo) /\ ~(s.at = "moveBack" /\ On(s, p))

OwnsGap(s, p) ==
  \/ Links(s) /\ In(p, s.linked)
  \/ s.undoing /\ In(p, s.todo) /\ ~(s.at = "remove" /\ On(s, p))
  \/ s.at = "moveBack" /\ On(s, p)

\* As long as no run was killed, whatever is not a directory is some run's.
Cared ==
  (\A r \in Run : run[r].at # "killed") =>
     \A p \in Package : /\ entry[p] = "link" => \E r \in Run : OwnsLink(run[r], p)
                        /\ entry[p] = "none" => \E r \in Run : OwnsGap(run[r], p)

\* Two directories of one package come only from `bun install`.
Doubled == \A p \in Package : entry[p] = "dir" /\ backup[p] # "none" => p \in reinstalled

\* A run alone, in state s: what is not at home is before it or noted, and what
\* it has seen of a package is still so.
AtHome(p, e, b, back) == e[p] = "dir" /\ (b[p] = "none" \/ p \in back)

SoleAt(s, e, b, back) ==
  /\ Restores(s) => \A p \in Package : AtHome(p, e, b, back) \/ In(p, s.todo)
  /\ Links(s) => \A p \in Package : AtHome(p, e, b, back) \/ In(p, s.linked)
  /\ s.at = "lookEntry" => b[Head(s.todo)] # "none"
  /\ s.at = "remove" => e[Head(s.todo)] = "link"
  /\ s.at = "moveBack" => e[Head(s.todo)] = "none"
  /\ s.at = "done" => \A p \in Package : AtHome(p, e, b, back)

Alone ==
  \A r \in sole : /\ SoleAt(run[r], entry, backup, reinstalled)
                  /\ \A q \in Run \ {r} : run[q].at \in {"idle", "done", "killed"}

Seated == run \in [Run -> RunState] /\ (\A r \in Run : Sits(run[r])) /\ sole \subseteq Run

PackageInv == Kept /\ Seated /\ Cared /\ Doubled /\ Alone

LEMMA InTail ==
  ASSUME NEW s \in Seq(Package), s # <<>>
  PROVE  /\ Tail(s) \in Seq(Package) /\ Head(s) \in Package
         /\ \A p : In(p, s) <=> p = Head(s) \/ In(p, Tail(s))
<1>1. /\ Len(s) \in Nat \ {0} /\ Tail(s) \in Seq(Package) /\ Len(Tail(s)) = Len(s) - 1
      /\ Head(s) = s[1] /\ s[1] \in Package
      /\ \A i \in 1..(Len(s) - 1) : Tail(s)[i] = s[i + 1]
  OBVIOUS
<1>2. ASSUME NEW p, In(p, s) PROVE p = Head(s) \/ In(p, Tail(s))
  <2>1. PICK i \in 1..Len(s) : s[i] = p
    BY <1>2 DEF In
  <2>2. CASE i = 1
    BY <1>1, <2>1, <2>2
  <2>3. CASE i # 1
    <3>1. i - 1 \in 1..(Len(s) - 1) /\ (i - 1) + 1 = i
      BY <1>1, <2>1, <2>3
    <3>2. Tail(s)[i - 1] = p
      BY <1>1, <2>1, <3>1
    <3> QED
      BY <1>1, <3>1, <3>2 DEF In
  <2> QED
    BY <2>2, <2>3
<1>3. ASSUME NEW p, p = Head(s) \/ In(p, Tail(s)) PROVE In(p, s)
  <2>1. CASE p = Head(s)
    <3>1. 1 \in 1..Len(s) /\ s[1] = p
      BY <1>1, <2>1
    <3> QED
      BY <3>1 DEF In
  <2>2. CASE In(p, Tail(s))
    <3>1. PICK i \in 1..(Len(s) - 1) : Tail(s)[i] = p
      BY <1>1, <2>2 DEF In
    <3>2. i + 1 \in 1..Len(s) /\ s[i + 1] = p
      BY <1>1, <3>1
    <3> QED
      BY <3>2 DEF In
  <2> QED
    BY <1>3, <2>1, <2>2
<1> QED
  BY <1>1, <1>2, <1>3

LEMMA InAppend ==
  ASSUME NEW s \in Seq(Package), NEW x \in Package
  PROVE  /\ Append(s, x) \in Seq(Package)
         /\ In(x, Append(s, x))
         /\ \A p : In(p, s) => In(p, Append(s, x))
<1>1. /\ Len(s) \in Nat /\ Append(s, x) \in Seq(Package) /\ Len(Append(s, x)) = Len(s) + 1
      /\ Append(s, x)[Len(s) + 1] = x
      /\ \A i \in 1..Len(s) : Append(s, x)[i] = s[i]
  OBVIOUS
<1>2. In(x, Append(s, x))
  <2>1. Len(s) + 1 \in 1..Len(Append(s, x))
    BY <1>1
  <2> QED
    BY <1>1, <2>1 DEF In
<1>3. ASSUME NEW p, In(p, s) PROVE In(p, Append(s, x))
  <2>1. PICK i \in 1..Len(s) : s[i] = p
    BY <1>3 DEF In
  <2>2. i \in 1..Len(Append(s, x)) /\ Append(s, x)[i] = p
    BY <1>1, <2>1
  <2> QED
    BY <2>2 DEF In
<1> QED
  BY <1>1, <1>2, <1>3

\* restoreAll has before it what the run had noted.
LEMMA UndoTurns ==
  ASSUME NEW r, NEW s \in RunState
  PROVE  /\ Undo(r, s) \in RunState
         /\ Undo(r, s).at = "look" /\ Undo(r, s).undoing
         /\ \A p : In(p, s.linked) => In(p, Undo(r, s).todo)
<1> DEFINE l == s.linked
           t == [i \in DOMAIN l |-> l[Len(l) + 1 - i]]
<1>1. l \in Seq(Package) /\ Len(l) \in Nat /\ DOMAIN l = 1..Len(l)
  BY DEF RunState
<1>2. \A i \in 1..Len(l) : Len(l) + 1 - i \in 1..Len(l) /\ l[Len(l) + 1 - i] \in Package
  BY <1>1
<1>3. t \in Seq(Package) /\ Len(t) = Len(l)
  <2>1. t \in [1..Len(l) -> Package]
    BY <1>1, <1>2
  <2> HIDE DEF t, l
  <2> QED
    BY <1>1, <2>1
<1>4. ASSUME NEW p, In(p, l) PROVE In(p, t)
  <2>1. PICK i \in 1..Len(l) : l[i] = p
    BY <1>4 DEF In
  <2>2. Len(l) + 1 - i \in 1..Len(l) /\ Len(l) + 1 - (Len(l) + 1 - i) = i
    BY <1>1, <2>1
  <2>3. t[Len(l) + 1 - i] = p
    BY <1>1, <2>1, <2>2
  <2> QED
    BY <1>3, <2>2, <2>3 DEF In
<1>5. Undo(r, s) = [s EXCEPT !.at = "look", !.undoing = TRUE, !.todo = t]
  BY DEF Undo
<1> HIDE DEF t
<1>6. Undo(r, s) \in RunState /\ Undo(r, s).at = "look" /\ Undo(r, s).undoing /\ Undo(r,
    s).todo = t
  BY <1>3, <1>5 DEF RunState
<1> QED
  BY <1>4, <1>6

\* restore has done with the first package.
LEMMA SkipOne ==
  ASSUME NEW r, run[r] \in RunState, run[r].todo # <<>>
  PROVE  /\ Skip(r) \in RunState
         /\ Skip(r).at = "look" /\ Skip(r).undoing = run[r].undoing
         /\ \A p : In(p, run[r].todo) => p = Head(run[r].todo) \/ In(p, Skip(r).todo)
<1>1. PICK s \in RunState : s = run[r]
  OBVIOUS
<1>2. s.todo \in Seq(Package) /\ s.todo # <<>>
  BY <1>1 DEF RunState
<1>3. Skip(r) = [s EXCEPT !.at = "look", !.todo = Tail(s.todo)]
  BY <1>1 DEF Skip
<1>4. Tail(s.todo) \in Seq(Package) /\ \A p : In(p, s.todo) => p = Head(s.todo) \/ In(p,
    Tail(s.todo))
  BY <1>2, InTail
<1>5. /\ Skip(r) \in RunState /\ Skip(r).at = "look" /\ Skip(r).undoing = s.undoing
      /\ Skip(r).todo = Tail(s.todo)
  BY <1>3, <1>4 DEF RunState
<1> QED
  BY <1>1, <1>4, <1>5

LEMMA IdleState == Idle \in RunState /\ Idle.todo = <<>> /\ Idle.linked = <<>> /\ ~Idle.undoing
  BY DEF Idle, RunState

\* A run that begins, or begins anew with what it was asked for.
LEMMA Begun ==
  ASSUME NEW q \in Seq(Package), NEW place \in {"look", "moveAside"}
  PROVE  LET t == [Idle EXCEPT !.at = place, !.todo = q] IN
         t \in RunState /\ t.at = place /\ t.todo = q /\ ~t.undoing
<1>1. PICK s \in RunState : s = Idle /\ ~s.undoing
  BY IdleState
<1> QED
  BY <1>1 DEF RunState

LEMMA NoneIn == \A p : ~In(p, <<>>)
  BY DEF In

LEMMA Phase ==
  ASSUME NEW s \in RunState,
         NEW place \in {"look", "lookEntry", "remove", "moveBack", "moveAside", "link",
             "command",
                        "done", "killed"}
  PROVE  LET t == [s EXCEPT !.at = place] IN
         /\ t \in RunState /\ t.at = place
         /\ t.todo = s.todo /\ t.linked = s.linked /\ t.undoing = s.undoing
  BY DEF RunState

\* A step of one run keeps the invariant if the run keeps its duties, or what it
\* owed is a directory now.
LEMMA OneMoves ==
  ASSUME PackageInv, Kept', Doubled',
         NEW r \in Run, NEW t \in RunState, run' = [run EXCEPT ![r] = t], sole' = sole,
         Alive(run[r]), Sits(t), t.at # "killed",
         \A p \in Package : entry'[p] = "link" /\ (entry[p] = "link" => OwnsLink(run[r], p))
           => OwnsLink(t, p),
         \A p \in Package : entry'[p] = "none" /\ (entry[p] = "none" => OwnsGap(run[r], p))
           => OwnsGap(t, p),
         r \in sole => SoleAt(t, entry', backup', reinstalled')
  PROVE  PackageInv'
<1>1. Seated /\ Cared /\ Alone
  BY DEF PackageInv
<1>2. /\ run' \in [Run -> RunState] /\ run'[r] = t
      /\ \A q \in Run : q # r => run'[q] = run[q]
  BY <1>1 DEF Seated
<1>3. Seated'
  BY <1>1, <1>2 DEF Seated
<1>4. Cared'
  <2> SUFFICES ASSUME \A q \in Run : run'[q].at # "killed", NEW p \in Package
               PROVE  /\ entry'[p] = "link" => \E q \in Run : OwnsLink(run'[q], p)
                      /\ entry'[p] = "none" => \E q \in Run : OwnsGap(run'[q], p)
    BY DEF Cared
  <2>1. \A q \in Run : run[q].at # "killed"
    BY <1>2 DEF Alive
  <2>2. /\ entry[p] = "link" => \E q \in Run : OwnsLink(run[q], p)
        /\ entry[p] = "none" => \E q \in Run : OwnsGap(run[q], p)
    BY <1>1, <2>1 DEF Cared
  <2>3. ASSUME entry'[p] = "link" PROVE \E q \in Run : OwnsLink(run'[q], p)
    <3>1. CASE OwnsLink(t, p)
      BY <1>2, <3>1
    <3>2. CASE entry[p] = "link" /\ ~OwnsLink(run[r], p)
      BY <1>2, <2>2, <3>2
    <3> QED
      BY <2>3, <3>1, <3>2
  <2>4. ASSUME entry'[p] = "none" PROVE \E q \in Run : OwnsGap(run'[q], p)
    <3>1. CASE OwnsGap(t, p)
      BY <1>2, <3>1
    <3>2. CASE entry[p] = "none" /\ ~OwnsGap(run[r], p)
      BY <1>2, <2>2, <3>2
    <3> QED
      BY <2>4, <3>1, <3>2
  <2> QED
    BY <2>3, <2>4
<1>5. Alone'
  <2> SUFFICES ASSUME NEW q \in sole
               PROVE  /\ SoleAt(run'[q], entry', backup', reinstalled')
                      /\ \A o \in Run \ {q} : run'[o].at \in {"idle", "done", "killed"}
    BY DEF Alone
  <2>1. q = r
    BY <1>1 DEF Alone, Alive
  <2>2. \A o \in Run \ {q} : run[o].at \in {"idle", "done", "killed"}
    BY <1>1 DEF Alone
  <2> QED
    BY <1>2, <2>1, <2>2
<1> QED
  BY <1>3, <1>4, <1>5 DEF PackageInv

\* The same for a step that touches no package.
LEMMA OneLooks ==
  ASSUME PackageInv, UNCHANGED <<entry, backup, reinstalled>>,
         NEW r \in Run, NEW t \in RunState, run' = [run EXCEPT ![r] = t], sole' = sole,
         Alive(run[r]), Sits(t), t.at # "killed",
         \A p \in Package : entry[p] = "link" /\ OwnsLink(run[r], p) => OwnsLink(t, p),
         \A p \in Package : entry[p] = "none" /\ OwnsGap(run[r], p) => OwnsGap(t, p),
         r \in sole => SoleAt(t, entry, backup, reinstalled)
  PROVE  PackageInv'
<1>1. Kept' /\ Doubled'
  BY DEF PackageInv, Kept, PlacesOK, NeverLost, Doubled
<1>2. entry' = entry /\ backup' = backup /\ reinstalled' = reinstalled
  OBVIOUS
<1>3. \A p \in Package : entry'[p] = "link" /\ (entry[p] = "link" => OwnsLink(run[r], p))
        => OwnsLink(t, p)
  BY <1>2
<1>4. \A p \in Package : entry'[p] = "none" /\ (entry[p] = "none" => OwnsGap(run[r], p))
        => OwnsGap(t, p)
  BY <1>2
<1>5. r \in sole => SoleAt(t, entry', backup', reinstalled')
  BY <1>2
<1> QED
  BY <1>1, <1>3, <1>4, <1>5, OneMoves

\* The run of a step, by itself.
LEMMA OneRun ==
  ASSUME PackageInv, NEW r \in Run
  PROVE  /\ run[r] \in RunState /\ Sits(run[r])
         /\ run[r].todo # <<>> => Head(run[r].todo) \in Package
         /\ r \in sole => SoleAt(run[r], entry, backup, reinstalled)
  BY InTail DEF PackageInv, Seated, RunState, Alone

LEMMA LookBackupInv ==
  ASSUME PackageInv, NEW r \in Run, LookBackup(r)
  PROVE  PackageInv'
<1> DEFINE h == Head(run[r].todo)
<1>1. PICK s \in RunState : s = run[r]
  BY OneRun
<1>2. /\ s.at = "look" /\ s.todo # <<>> /\ h = Head(s.todo) /\ h \in Package /\ Sits(s)
      /\ r \in sole => SoleAt(s, entry, backup, reinstalled)
  BY <1>1, OneRun DEF LookBackup, Stands
<1>3. Alive(run[r])
  BY <1>1, <1>2 DEF Alive
<1>4. CASE backup[h] = "none"
  <2>1. run' = [run EXCEPT ![r] = Skip(r)]
    BY <1>4 DEF LookBackup, Moves
  <2>2. PICK t \in RunState : t = Skip(r)
    BY <1>1, <1>2, SkipOne
  <2>3. /\ t.at = "look" /\ t.undoing = s.undoing
        /\ \A p : In(p, s.todo) => p = h \/ In(p, t.todo)
    BY <1>1, <1>2, <2>2, SkipOne
  <2>4. entry[h] = "dir" /\ AtHome(h, entry, backup, reinstalled)
    BY <1>2, <1>4 DEF PackageInv, Kept, NeverLost, AtHome
  <2> HIDE DEF h
  <2>5. Sits(t)
    BY <2>3 DEF Sits, Restores
  <2>6. \A p \in Package : entry[p] = "link" /\ OwnsLink(s, p) => OwnsLink(t, p)
    BY <1>2, <2>3, <2>4 DEF OwnsLink, Links
  <2>7. \A p \in Package : entry[p] = "none" /\ OwnsGap(s, p) => OwnsGap(t, p)
    BY <1>2, <2>3, <2>4 DEF OwnsGap, Links
  <2>8. r \in sole => SoleAt(t, entry, backup, reinstalled)
    BY <1>2, <2>3, <2>4 DEF SoleAt, Restores, Links
  <2> QED
    BY <1>1, <1>3, <2>1, <2>2, <2>3, <2>5, <2>6, <2>7, <2>8, OneLooks DEF LookBackup
<1>5. CASE backup[h] # "none"
  <2>1. run' = [run EXCEPT ![r] = [run[r] EXCEPT !.at = "lookEntry"]]
    BY <1>5 DEF LookBackup, Moves
  <2>2. PICK t \in RunState : t = [s EXCEPT !.at = "lookEntry"]
    BY Phase
  <2>3. t.at = "lookEntry" /\ t.todo = s.todo /\ t.undoing = s.undoing
    BY <2>2, Phase
  <2>4. Sits(t)
    BY <1>2, <2>3 DEF Sits, Restores
  <2>5. \A p \in Package : OwnsLink(s, p) => OwnsLink(t, p)
    BY <1>2, <2>3 DEF OwnsLink, Links
  <2>6. \A p \in Package : OwnsGap(s, p) => OwnsGap(t, p)
    BY <1>2, <2>3 DEF OwnsGap, Links
  <2>7. r \in sole => SoleAt(t, entry, backup, reinstalled)
    BY <1>2, <1>5, <2>3 DEF SoleAt, Restores, Links
  <2> QED
    BY <1>1, <1>3, <2>1, <2>2, <2>3, <2>4, <2>5, <2>6, <2>7, OneLooks DEF LookBackup
<1> QED
  BY <1>4, <1>5

LEMMA LookEntryInv ==
  ASSUME PackageInv, NEW r \in Run, LookEntry(r)
  PROVE  PackageInv'
<1> DEFINE h == Head(run[r].todo)
<1>1. PICK s \in RunState : s = run[r]
  BY OneRun
<1>2. /\ s.at = "lookEntry" /\ s.todo # <<>> /\ h = Head(s.todo) /\ h \in Package /\ Sits(s)
      /\ r \in sole => SoleAt(s, entry, backup, reinstalled)
  BY <1>1, OneRun DEF LookEntry, Stands
<1>3. Alive(run[r])
  BY <1>1, <1>2 DEF Alive
<1>4. CASE entry[h] \in {"none", "link"}
  <2>1. PICK place \in {"moveBack", "remove"} :
          /\ place = "moveBack" <=> entry[h] = "none"
          /\ place = "remove" <=> entry[h] = "link"
          /\ run' = [run EXCEPT ![r] = [run[r] EXCEPT !.at = place]]
    BY <1>4 DEF LookEntry, Moves
  <2>2. PICK t \in RunState : t = [s EXCEPT !.at = place]
    BY Phase
  <2>3. t.at = place /\ t.todo = s.todo /\ t.undoing = s.undoing
    BY <2>2, Phase
  <2> HIDE DEF h
  <2>4. Sits(t)
    BY <1>2, <2>3 DEF Sits, Restores
  <2>5. \A p \in Package : entry[p] = "link" /\ OwnsLink(s, p) => OwnsLink(t, p)
    BY <1>2, <2>1, <2>3 DEF OwnsLink, Links, On
  <2>6. \A p \in Package : entry[p] = "none" /\ OwnsGap(s, p) => OwnsGap(t, p)
    BY <1>2, <2>1, <2>3 DEF OwnsGap, Links, On
  <2>7. r \in sole => SoleAt(t, entry, backup, reinstalled)
    BY <1>2, <2>1, <2>3 DEF SoleAt, Restores, Links
  <2> QED
    BY <1>1, <1>3, <2>1, <2>2, <2>3, <2>4, <2>5, <2>6, <2>7, OneLooks DEF LookEntry
<1>5. CASE entry[h] \notin {"none", "link"}
  <2>1. run' = [run EXCEPT ![r] = Skip(r)]
    BY <1>5 DEF LookEntry, Moves
  <2>2. PICK t \in RunState : t = Skip(r)
    BY <1>1, <1>2, SkipOne
  <2>3. /\ t.at = "look" /\ t.undoing = s.undoing
        /\ \A p : In(p, s.todo) => p = h \/ In(p, t.todo)
    BY <1>1, <1>2, <2>2, SkipOne
  <2>4. entry[h] = "dir"
    BY <1>2, <1>5 DEF PackageInv, Kept, PlacesOK, Kinds
  <2>5. r \in sole => AtHome(h, entry, backup, reinstalled)
    BY <1>2, <2>4 DEF PackageInv, Doubled, AtHome
  <2> HIDE DEF h
  <2>6. Sits(t)
    BY <2>3 DEF Sits, Restores
  <2>7. \A p \in Package : entry[p] = "link" /\ OwnsLink(s, p) => OwnsLink(t, p)
    BY <1>2, <2>3, <2>4 DEF OwnsLink, Links
  <2>8. \A p \in Package : entry[p] = "none" /\ OwnsGap(s, p) => OwnsGap(t, p)
    BY <1>2, <2>3, <2>4 DEF OwnsGap, Links
  <2>9. r \in sole => SoleAt(t, entry, backup, reinstalled)
    BY <1>2, <2>3, <2>5 DEF SoleAt, Restores, Links
  <2> QED
    BY <1>1, <1>3, <2>1, <2>2, <2>3, <2>6, <2>7, <2>8, <2>9, OneLooks DEF LookEntry
<1> QED
  BY <1>4, <1>5

\* Throws: restoreAll goes on, the repair ends the run.
LEMMA Thrown ==
  ASSUME NEW r, run[r] \in RunState, run[r].todo # <<>>
  PROVE  /\ Throws(r) \in RunState
         /\ run[r].undoing => Throws(r) = Skip(r)
         /\ ~run[r].undoing => Throws(r).at = "done" /\ ~Throws(r).undoing
  BY IdleState, Phase, SkipOne DEF Throws

LEMMA RemoveLinkInv ==
  ASSUME PackageInv, NEW r \in Run, RemoveLink(r), Kept'
  PROVE  PackageInv'
<1> DEFINE h == Head(run[r].todo)
<1>1. PICK s \in RunState : s = run[r]
  BY OneRun
<1>2. /\ s.at = "remove" /\ s.todo # <<>> /\ h = Head(s.todo) /\ h \in Package /\ Sits(s)
      /\ r \in sole => SoleAt(s, entry, backup, reinstalled)
  BY <1>1, OneRun DEF RemoveLink, Stands
<1>3. Alive(run[r])
  BY <1>1, <1>2 DEF Alive
<1>4. entry \in [Package -> Kinds]
  BY DEF PackageInv, Kept, PlacesOK
<1>5. CASE entry[h] = "link"
  <2>1. /\ run' = [run EXCEPT ![r] = [run[r] EXCEPT !.at = "moveBack"]]
        /\ entry' = [entry EXCEPT ![h] = "none"] /\ UNCHANGED <<backup, reinstalled, sole>>
    BY <1>5 DEF RemoveLink, Moves
  <2>2. PICK t \in RunState : t = [s EXCEPT !.at = "moveBack"]
    BY Phase
  <2>3. t.at = "moveBack" /\ t.todo = s.todo /\ t.undoing = s.undoing
    BY <2>2, Phase
  <2> HIDE DEF h
  <2>4. entry'[h] = "none" /\ \A p \in Package : p # h => entry'[p] = entry[p]
    BY <1>2, <1>4, <2>1
  <2>5. Sits(t)
    BY <1>2, <2>3 DEF Sits, Restores
  <2>6. \A p \in Package : entry'[p] = "link" /\ (entry[p] = "link" => OwnsLink(s, p))
          => OwnsLink(t, p)
    BY <1>2, <2>3, <2>4 DEF OwnsLink, Links, On
  <2>7. \A p \in Package : entry'[p] = "none" /\ (entry[p] = "none" => OwnsGap(s, p))
          => OwnsGap(t, p)
    BY <1>2, <2>3, <2>4 DEF OwnsGap, Links, On
  <2>8. r \in sole => SoleAt(t, entry', backup', reinstalled')
    <3>1. \A p \in Package : p # h /\ AtHome(p, entry, backup, reinstalled)
            => AtHome(p, entry', backup', reinstalled')
      BY <2>1, <2>4 DEF AtHome
    <3>2. In(h, s.todo)
      BY <1>2, InTail DEF RunState
    <3> QED
      BY <1>2, <2>3, <2>4, <3>1, <3>2 DEF SoleAt, Restores, Links
  <2>9. Doubled'
    BY <1>2, <2>1, <2>4 DEF PackageInv, Doubled
  <2> QED
    BY <1>1, <1>3, <2>1, <2>2, <2>3, <2>5, <2>6, <2>7, <2>8, <2>9, OneMoves
<1>6. CASE entry[h] # "link"
  <2>1. run' = [run EXCEPT ![r] = Throws(r)] /\ UNCHANGED <<entry, backup, reinstalled, sole>>
    BY <1>6 DEF RemoveLink, Moves
  <2>2. PICK t \in RunState : t = Throws(r)
    BY <1>1, <1>2, Thrown
  <2>3. ~(r \in sole)
    BY <1>2, <1>6 DEF SoleAt
  <2>4. CASE s.undoing
    <3>1. /\ t.at = "look" /\ t.undoing
          /\ \A p : In(p, s.todo) => p = h \/ In(p, t.todo)
      BY <1>1, <1>2, <2>2, <2>4, SkipOne, Thrown
    <3> HIDE DEF h
    <3>2. Sits(t)
      BY <3>1 DEF Sits, Restores
    <3>3. \A p \in Package : entry[p] = "link" /\ OwnsLink(s, p) => OwnsLink(t, p)
      BY <1>2, <1>6, <3>1 DEF OwnsLink, Links
    <3>4. \A p \in Package : entry[p] = "none" /\ OwnsGap(s, p) => OwnsGap(t, p)
      BY <1>2, <3>1 DEF OwnsGap, Links, On
    <3> QED
      BY <1>1, <1>3, <2>1, <2>2, <2>3, <3>1, <3>2, <3>3, <3>4, OneLooks
  <2>5. CASE ~s.undoing
    <3>1. t.at = "done" /\ ~t.undoing
      BY <1>1, <1>2, <2>2, <2>5, Thrown
    <3>2. Sits(t)
      BY <3>1 DEF Sits
    <3>3. \A p \in Package : ~OwnsLink(s, p) /\ ~OwnsGap(s, p)
      BY <1>2, <2>5 DEF OwnsLink, OwnsGap, Links
    <3> QED
      BY <1>1, <1>3, <2>1, <2>2, <2>3, <3>1, <3>2, <3>3, OneLooks
  <2> QED
    BY <2>4, <2>5
<1> QED
  BY <1>5, <1>6

LEMMA MoveBackInv ==
  ASSUME PackageInv, NEW r \in Run, MoveBack(r), Kept'
  PROVE  PackageInv'
<1> DEFINE h == Head(run[r].todo)
<1>1. PICK s \in RunState : s = run[r]
  BY OneRun
<1>2. /\ s.at = "moveBack" /\ s.todo # <<>> /\ h = Head(s.todo) /\ h \in Package /\ Sits(s)
      /\ r \in sole => SoleAt(s, entry, backup, reinstalled)
  BY <1>1, OneRun DEF MoveBack, Stands
<1>3. Alive(run[r])
  BY <1>1, <1>2 DEF Alive
<1>4. entry \in [Package -> Kinds] /\ backup \in [Package -> Kinds]
  BY DEF PackageInv, Kept, PlacesOK
<1>5. entry[h] = "dir" \/ backup[h] = "dir"
  BY <1>2 DEF PackageInv, Kept, NeverLost
<1>6. CASE CanRename(backup[h], entry[h])
  <2>1. /\ run' = [run EXCEPT ![r] = Skip(r)]
        /\ entry' = [entry EXCEPT ![h] = backup[h]] /\ backup' = [backup EXCEPT ![h] = "none"]
        /\ UNCHANGED <<reinstalled, sole>>
    BY <1>6 DEF MoveBack, Moves
  <2>2. PICK t \in RunState : t = Skip(r)
    BY <1>1, <1>2, SkipOne
  <2>3. /\ t.at = "look" /\ t.undoing = s.undoing
        /\ \A p : In(p, s.todo) => p = h \/ In(p, t.todo)
    BY <1>1, <1>2, <2>2, SkipOne
  <2>4. backup[h] = "dir"
    BY <1>5, <1>6 DEF CanRename
  <2> HIDE DEF h
  <2>5. /\ entry'[h] = "dir" /\ backup'[h] = "none"
        /\ \A p \in Package : p # h => entry'[p] = entry[p] /\ backup'[p] = backup[p]
    BY <1>2, <1>4, <2>1, <2>4
  <2>6. Sits(t)
    BY <2>3 DEF Sits, Restores
  <2>7. \A p \in Package : entry'[p] = "link" /\ (entry[p] = "link" => OwnsLink(s, p))
          => OwnsLink(t, p)
    BY <1>2, <2>3, <2>5 DEF OwnsLink, Links
  <2>8. \A p \in Package : entry'[p] = "none" /\ (entry[p] = "none" => OwnsGap(s, p))
          => OwnsGap(t, p)
    BY <1>2, <2>3, <2>5 DEF OwnsGap, Links, On
  <2>9. r \in sole => SoleAt(t, entry', backup', reinstalled')
    <3>1. \A p \in Package : p = h \/ AtHome(p, entry, backup, reinstalled)
            => AtHome(p, entry', backup', reinstalled')
      BY <2>1, <2>5 DEF AtHome
    <3> QED
      BY <1>2, <2>3, <3>1 DEF SoleAt, Restores, Links
  <2>10. Doubled'
    BY <1>2, <2>1, <2>5 DEF PackageInv, Doubled
  <2> QED
    BY <1>1, <1>3, <2>1, <2>2, <2>3, <2>6, <2>7, <2>8, <2>9, <2>10, OneMoves
<1>7. CASE ~CanRename(backup[h], entry[h])
  <2>1. run' = [run EXCEPT ![r] = Throws(r)] /\ UNCHANGED <<entry, backup, reinstalled, sole>>
    BY <1>7 DEF MoveBack, Moves
  <2>2. PICK t \in RunState : t = Throws(r)
    BY <1>1, <1>2, Thrown
  <2>3. entry[h] # "none"
    BY <1>5, <1>7 DEF CanRename
  <2>4. ~(r \in sole)
    BY <1>2, <2>3 DEF SoleAt
  <2>5. CASE s.undoing
    <3>1. /\ t.at = "look" /\ t.undoing
          /\ \A p : In(p, s.todo) => p = h \/ In(p, t.todo)
      BY <1>1, <1>2, <2>2, <2>5, SkipOne, Thrown
    <3> HIDE DEF h
    <3>2. Sits(t)
      BY <3>1 DEF Sits, Restores
    <3>3. \A p \in Package : entry[p] = "link" /\ OwnsLink(s, p) => OwnsLink(t, p)
      BY <1>2, <3>1 DEF OwnsLink, Links, On
    <3>4. \A p \in Package : entry[p] = "none" /\ OwnsGap(s, p) => OwnsGap(t, p)
      BY <1>2, <2>3, <3>1 DEF OwnsGap, Links, On
    <3> QED
      BY <1>1, <1>3, <2>1, <2>2, <2>4, <3>1, <3>2, <3>3, <3>4, OneLooks
  <2>6. CASE ~s.undoing
    <3>1. t.at = "done" /\ ~t.undoing
      BY <1>1, <1>2, <2>2, <2>6, Thrown
    <3>2. Sits(t)
      BY <3>1 DEF Sits
    <3> HIDE DEF h
    <3>3. \A p \in Package : ~OwnsLink(s, p) /\ (OwnsGap(s, p) => entry[p] # "none")
      BY <1>2, <2>3, <2>6 DEF OwnsLink, OwnsGap, Links, On
    <3> QED
      BY <1>1, <1>3, <2>1, <2>2, <2>4, <3>1, <3>2, <3>3, OneLooks
  <2> QED
    BY <2>5, <2>6
<1> QED
  BY <1>6, <1>7

\* Whatever went wrong or ended, restoreAll has before it all that was noted.
LEMMA UndoInv ==
  ASSUME PackageInv, UNCHANGED <<entry, backup, reinstalled, sole>>,
         NEW r \in Run, Links(run[r]), run' = [run EXCEPT ![r] = Undo(r, run[r])]
  PROVE  PackageInv'
<1>1. PICK s \in RunState : s = run[r]
  BY OneRun
<1>2. /\ Links(s) /\ Sits(s) /\ ~s.undoing
      /\ r \in sole => SoleAt(s, entry, backup, reinstalled)
  BY <1>1, OneRun DEF Sits, Links, Restores
<1>3. PICK t \in RunState : t = Undo(r, s)
  BY UndoTurns
<1>4. t.at = "look" /\ t.undoing /\ \A p : In(p, s.linked) => In(p, t.todo)
  BY <1>3, UndoTurns
<1>5. Alive(run[r]) /\ Sits(t)
  BY <1>1, <1>2, <1>4 DEF Alive, Links, Sits, Restores
<1>6. \A p \in Package : OwnsLink(s, p) => OwnsLink(t, p)
  BY <1>2, <1>4 DEF OwnsLink
<1>7. \A p \in Package : OwnsGap(s, p) => OwnsGap(t, p)
  BY <1>2, <1>4 DEF OwnsGap, Links
<1>8. r \in sole => SoleAt(t, entry, backup, reinstalled)
  BY <1>2, <1>4 DEF SoleAt, Restores, Links
<1> QED
  BY <1>1, <1>3, <1>4, <1>5, <1>6, <1>7, <1>8, OneLooks

LEMMA RequestInv ==
  ASSUME PackageInv, NEW r \in Run, NEW wanted \in Requests, Request(r, wanted)
  PROVE  PackageInv'
<1>1. PICK s \in RunState : s = run[r]
  BY OneRun
<1>2. /\ s.at = "look" /\ s.todo = <<>> /\ ~s.undoing
      /\ r \in sole => SoleAt(s, entry, backup, reinstalled)
  BY <1>1, OneRun DEF Request
<1>3. r \in sole => \A p \in Package : AtHome(p, entry, backup, reinstalled)
  BY <1>2, NoneIn DEF SoleAt, Restores
<1>4. Alive(run[r])
  BY <1>1, <1>2 DEF Alive
<1>5. \A p \in Package : ~OwnsLink(s, p) /\ ~OwnsGap(s, p)
  BY <1>2 DEF OwnsLink, OwnsGap, Links
<1>6. PICK t \in RunState : /\ run' = [run EXCEPT ![r] = t]
                            /\ t.at \in {"done", "moveAside"} /\ ~t.undoing
  <2>1. wanted \in Seq(Package)
    BY PackageAssumption
  <2>2. [Idle EXCEPT !.at = "done"] \in RunState
    BY IdleState, Phase
  <2>3. [Idle EXCEPT !.at = "moveAside", !.todo = wanted] \in RunState
    BY <2>1, Begun
  <2>4. /\ [Idle EXCEPT !.at = "done"].at = "done" /\ ~[Idle EXCEPT !.at = "done"].undoing
        /\ [Idle EXCEPT !.at = "moveAside", !.todo = wanted].at = "moveAside"
        /\ ~[Idle EXCEPT !.at = "moveAside", !.todo = wanted].undoing
    BY DEF Idle
  <2>5. CASE \E i \in DOMAIN wanted : entry[wanted[i]] = "none"
    BY <2>2, <2>4, <2>5 DEF Request, Moves
  <2>6. CASE ~\E i \in DOMAIN wanted : entry[wanted[i]] = "none"
    BY <2>3, <2>4, <2>6 DEF Request, Moves
  <2> QED
    BY <2>5, <2>6
<1>7. Sits(t)
  BY <1>6 DEF Sits
<1>8. r \in sole => SoleAt(t, entry, backup, reinstalled)
  BY <1>3, <1>6 DEF SoleAt, Restores
<1> QED
  BY <1>1, <1>4, <1>5, <1>6, <1>7, <1>8, OneLooks DEF Request

LEMMA MoveAsideInv ==
  ASSUME PackageInv, NEW r \in Run, MoveAside(r), Kept'
  PROVE  PackageInv'
<1> DEFINE h == Head(run[r].todo)
<1>1. PICK s \in RunState : s = run[r]
  BY OneRun
<1>2. /\ s.at = "moveAside" /\ s.todo # <<>> /\ h = Head(s.todo) /\ h \in Package /\ Sits(s)
      /\ r \in sole => SoleAt(s, entry, backup, reinstalled)
  BY <1>1, OneRun DEF MoveAside, Stands
<1>3. CASE CanRename(entry[h], backup[h])
  <2>1. /\ run' = [run EXCEPT ![r] = [s EXCEPT !.at = "link", !.linked = Append(s.linked, h)]]
        /\ entry' = [entry EXCEPT ![h] = "none"] /\ backup' = [backup EXCEPT ![h] = entry[h]]
        /\ UNCHANGED <<reinstalled, sole>>
    BY <1>1, <1>3 DEF MoveAside, Moves
  <2>2. s.linked \in Seq(Package)
    BY DEF RunState
  <2>3. /\ Append(s.linked, h) \in Seq(Package) /\ In(h, Append(s.linked, h))
        /\ \A p : In(p, s.linked) => In(p, Append(s.linked, h))
    BY <1>2, <2>2, InAppend
  <2>4. PICK t \in RunState : t = [s EXCEPT !.at = "link", !.linked = Append(s.linked, h)]
    BY <2>3 DEF RunState
  <2>5. /\ t.at = "link" /\ t.todo = s.todo /\ t.undoing = s.undoing
        /\ t.linked = Append(s.linked, h)
    BY <2>4 DEF RunState
  <2>6. entry \in [Package -> Kinds] /\ backup \in [Package -> Kinds]
    BY DEF PackageInv, Kept, PlacesOK
  <2>7. Alive(run[r]) /\ Sits(t) /\ Links(t) /\ Links(s) /\ ~s.undoing
    BY <1>1, <1>2, <2>3, <2>5 DEF Alive, Sits, Links, Restores
  <2>8. In(h, t.linked) /\ \A p : In(p, s.linked) => In(p, t.linked)
    BY <2>3, <2>5
  <2> HIDE DEF h
  <2>9. /\ entry'[h] = "none"
        /\ \A p \in Package : p # h => entry'[p] = entry[p] /\ backup'[p] = backup[p]
    BY <1>2, <2>1, <2>6
  <2>10. \A p \in Package : entry'[p] = "link" /\ (entry[p] = "link" => OwnsLink(s, p))
           => OwnsLink(t, p)
    BY <2>7, <2>8, <2>9 DEF OwnsLink
  <2>11. \A p \in Package : entry'[p] = "none" /\ (entry[p] = "none" => OwnsGap(s, p))
           => OwnsGap(t, p)
    BY <1>2, <2>7, <2>8, <2>9 DEF OwnsGap
  <2>12. r \in sole => SoleAt(t, entry', backup', reinstalled')
    <3>1. \A p \in Package : p # h /\ AtHome(p, entry, backup, reinstalled)
            => AtHome(p, entry', backup', reinstalled')
      BY <2>1, <2>9 DEF AtHome
    <3> QED
      BY <1>2, <2>5, <2>7, <2>8, <3>1 DEF SoleAt, Restores
  <2>13. Doubled'
    BY <1>2, <2>1, <2>9 DEF PackageInv, Doubled
  <2> QED
    BY <1>1, <2>1, <2>4, <2>5, <2>7, <2>10, <2>11, <2>12, <2>13, OneMoves
<1>4. CASE ~CanRename(entry[h], backup[h])
  BY <1>1, <1>2, <1>4, UndoInv DEF MoveAside, Moves, Links
<1> QED
  BY <1>3, <1>4

LEMMA LinkInv ==
  ASSUME PackageInv, NEW r \in Run, Link(r), Kept'
  PROVE  PackageInv'
<1> DEFINE h == Head(run[r].todo)
<1>1. PICK s \in RunState : s = run[r]
  BY OneRun
<1>2. /\ s.at = "link" /\ s.todo # <<>> /\ h = Head(s.todo) /\ h \in Package /\ Sits(s)
      /\ r \in sole => SoleAt(s, entry, backup, reinstalled)
  BY <1>1, OneRun DEF Link, Stands
<1>3. PICK place \in {"command", "moveAside"} :
        run' = [run EXCEPT ![r] = [s EXCEPT !.at = place, !.todo = Tail(s.todo)]]
  BY <1>1 DEF Link, Moves
<1>4. entry[h] = "none" /\ entry' = [entry EXCEPT ![h] = "link"] /\ UNCHANGED <<backup,
    reinstalled, sole>>
  BY DEF Link
<1>5. s.todo \in Seq(Package) /\ Tail(s.todo) \in Seq(Package)
  BY <1>2, InTail DEF RunState
<1>6. PICK t \in RunState : t = [s EXCEPT !.at = place, !.todo = Tail(s.todo)]
  BY <1>5 DEF RunState
<1>7. t.at = place /\ t.linked = s.linked /\ t.undoing = s.undoing
  BY <1>6 DEF RunState
<1>8. Alive(run[r]) /\ Sits(t) /\ Links(t) /\ Links(s) /\ ~s.undoing /\ In(h,
    t.linked) /\ t.at # "killed"
  BY <1>1, <1>2, <1>7 DEF Alive, Sits, Links, Restores
<1> HIDE DEF h
<1>9. entry'[h] = "link" /\ \A p \in Package : p # h => entry'[p] = entry[p]
  BY <1>2, <1>4 DEF PackageInv, Kept, PlacesOK
<1>10. \A p \in Package : entry'[p] = "link" /\ (entry[p] = "link" => OwnsLink(s, p))
         => OwnsLink(t, p)
  BY <1>7, <1>8, <1>9 DEF OwnsLink
<1>11. \A p \in Package : entry'[p] = "none" /\ (entry[p] = "none" => OwnsGap(s, p))
         => OwnsGap(t, p)
  BY <1>2, <1>7, <1>8, <1>9 DEF OwnsGap, Links
<1>12. r \in sole => SoleAt(t, entry', backup', reinstalled')
  <2>1. \A p \in Package : p # h /\ AtHome(p, entry, backup, reinstalled)
          => AtHome(p, entry', backup', reinstalled')
    BY <1>4, <1>9 DEF AtHome
  <2> QED
    BY <1>2, <1>3, <1>7, <1>8, <2>1 DEF SoleAt, Restores
<1>13. Doubled'
  BY <1>2, <1>4, <1>9 DEF PackageInv, Doubled
<1> QED
  BY <1>1, <1>3, <1>4, <1>6, <1>8, <1>10, <1>11, <1>12, <1>13, OneMoves

LEMMA SignalInv ==
  ASSUME PackageInv, NEW r \in Run, Signal(r)
  PROVE  PackageInv'
<1>1. PICK s \in RunState : s = run[r]
  BY OneRun
<1>2. /\ s.at = "command" /\ Sits(s)
      /\ r \in sole => SoleAt(s, entry, backup, reinstalled)
  BY <1>1, OneRun DEF Signal
<1>3. run' = [run EXCEPT ![r] = [s EXCEPT !.signals = s.signals + 1]]
  BY <1>1 DEF Signal, Moves
<1>4. PICK t \in RunState : t = [s EXCEPT !.signals = s.signals + 1]
  <2>1. s.signals + 1 \in Nat
    BY DEF RunState
  <2> QED
    BY <2>1 DEF RunState
<1>5. t.at = s.at /\ t.todo = s.todo /\ t.linked = s.linked /\ t.undoing = s.undoing
  BY <1>4 DEF RunState
<1>6. Alive(run[r]) /\ Sits(t) /\ t.at # "killed"
  BY <1>1, <1>2, <1>5 DEF Alive, Sits, Restores
<1>7. \A p \in Package : (OwnsLink(s, p) => OwnsLink(t, p)) /\ (OwnsGap(s, p) => OwnsGap(t, p))
  BY <1>5 DEF OwnsLink, OwnsGap, Links, On
<1>8. r \in sole => SoleAt(t, entry, backup, reinstalled)
  BY <1>2, <1>5 DEF SoleAt, Restores, Links
<1> QED
  BY <1>1, <1>3, <1>4, <1>6, <1>7, <1>8, OneLooks DEF Signal

LEMMA ExitInv ==
  ASSUME PackageInv, NEW r \in Run, Exit(r)
  PROVE  PackageInv'
<1>1. PICK s \in RunState : s = run[r]
  BY OneRun
<1>2. /\ s.at = "look" /\ s.todo = <<>>
      /\ r \in sole => SoleAt(s, entry, backup, reinstalled)
  BY <1>1, OneRun DEF Exit
<1>3. PICK t \in RunState : t = [Idle EXCEPT !.at = "done"]
  BY Phase, IdleState
<1>4. t.at = "done" /\ ~t.undoing
  BY <1>3, Phase, IdleState
<1>5. Alive(run[r]) /\ Sits(t) /\ t.at # "killed"
  BY <1>1, <1>2, <1>4 DEF Alive, Sits
<1>6. \A p \in Package : ~OwnsLink(s, p) /\ ~OwnsGap(s, p)
  BY <1>2, NoneIn DEF OwnsLink, OwnsGap, Links
<1>7. r \in sole => SoleAt(t, entry, backup, reinstalled)
  BY <1>2, <1>4, NoneIn DEF SoleAt, Restores, Links
<1> QED
  BY <1>1, <1>3, <1>5, <1>6, <1>7, OneLooks DEF Exit, Moves

\* Nothing is asked of a run that was killed, and of the others only who is alone.
LEMMA KilledInv ==
  ASSUME PackageInv, NEW r \in Run, RunKilled(r)
  PROVE  PackageInv'
<1>1. Kept' /\ Doubled'
  BY DEF RunKilled, PackageInv, Kept, PlacesOK, NeverLost, Doubled
<1>2. PICK t \in RunState : t = [Idle EXCEPT !.at = "killed"]
  BY Phase, IdleState
<1>3. t.at = "killed" /\ ~t.undoing
  BY <1>2, Phase, IdleState
<1>4. Seated /\ Alone
  BY DEF PackageInv
<1>5. /\ run' \in [Run -> RunState] /\ run'[r] = t
      /\ \A q \in Run : q # r => run'[q] = run[q]
  BY <1>2, <1>4 DEF RunKilled, Moves, Seated
<1>6. Seated'
  BY <1>3, <1>4, <1>5 DEF Seated, Sits, RunKilled
<1>7. Cared'
  BY <1>3, <1>5 DEF Cared
<1>8. Alone'
  <2> SUFFICES ASSUME NEW q \in sole
               PROVE  /\ SoleAt(run'[q], entry, backup, reinstalled)
                      /\ \A o \in Run \ {q} : run'[o].at \in {"idle", "done", "killed"}
    BY DEF Alone, RunKilled
  <2>1. q = r
    BY <1>4 DEF Alone, RunKilled, Live
  <2>2. SoleAt(t, entry, backup, reinstalled)
    BY <1>3 DEF SoleAt, Restores, Links
  <2> QED
    BY <1>4, <1>5, <2>1, <2>2 DEF Alone
<1> QED
  BY <1>1, <1>6, <1>7, <1>8 DEF PackageInv

\* The repair has all packages before it.
LEMMA LaunchInv ==
  ASSUME PackageInv, NEW r \in Run, Launch(r)
  PROVE  PackageInv'
<1>1. Kept' /\ Doubled'
  BY DEF Launch, PackageInv, Kept, PlacesOK, NeverLost, Doubled
<1>2. PICK t \in RunState : t = [Idle EXCEPT !.at = "look", !.todo = PackageOrder]
  BY PackageAssumption, Begun
<1>3. t.at = "look" /\ ~t.undoing /\ t.todo = PackageOrder
  BY <1>2, PackageAssumption, Begun
<1>4. Seated /\ Cared
  BY DEF PackageInv
<1>5. /\ run' \in [Run -> RunState] /\ run'[r] = t
      /\ \A q \in Run : q # r => run'[q] = run[q]
  BY <1>2, <1>4 DEF Launch, Moves, Seated
<1>6. Seated'
  BY <1>3, <1>4, <1>5 DEF Seated, Sits, Restores, Launch
<1>7. Cared'
  <2>1. run[r].at = "idle" /\ ~run[r].undoing
    BY <1>4 DEF Launch, Seated, Sits, Restores
  <2>2. \A p \in Package : ~OwnsLink(run[r], p) /\ ~OwnsGap(run[r], p)
    BY <2>1 DEF OwnsLink, OwnsGap, Links
  <2> SUFFICES ASSUME \A q \in Run : run'[q].at # "killed", NEW p \in Package
               PROVE  /\ entry[p] = "link" => \E q \in Run : OwnsLink(run'[q], p)
                      /\ entry[p] = "none" => \E q \in Run : OwnsGap(run'[q], p)
    BY DEF Cared, Launch
  <2>3. \A q \in Run : run[q].at # "killed"
    BY <1>5, <2>1
  <2>4. /\ entry[p] = "link" => \E q \in Run \ {r} : OwnsLink(run[q], p)
        /\ entry[p] = "none" => \E q \in Run \ {r} : OwnsGap(run[q], p)
    BY <1>4, <2>2, <2>3 DEF Cared
  <2> QED
    BY <1>5, <2>4
<1>8. Alone'
  <2>1. CASE \E q \in Run : Live(q)
    BY <2>1 DEF Alone, Launch
  <2>2. CASE ~\E q \in Run : Live(q)
    <3>1. sole' = {r} /\ UNCHANGED <<entry, backup, reinstalled>>
      BY <2>2 DEF Launch
    <3>2. \A q \in Run \ {r} : run'[q].at \in {"idle", "done", "killed"}
      BY <1>5, <2>2 DEF Live
    <3>3. \A p \in Package : In(p, t.todo)
      BY <1>3, PackageAssumption DEF In
    <3>4. SoleAt(t, entry, backup, reinstalled)
      BY <1>3, <3>3 DEF SoleAt, Restores, Links
    <3> QED
      BY <1>5, <3>1, <3>2, <3>4 DEF Alone
  <2> QED
    BY <2>1, <2>2
<1> QED
  BY <1>1, <1>6, <1>7, <1>8 DEF PackageInv

LEMMA ReinstallInv ==
  ASSUME PackageInv, NEW p \in Package, Reinstall(p), Kept'
  PROVE  PackageInv'
<1>1. /\ entry' = [entry EXCEPT ![p] = "dir"] /\ reinstalled' = reinstalled \cup {p}
      /\ backup' = backup /\ run' = run /\ sole' \subseteq sole
      /\ \A r \in sole' : Live(r) => run[r].at = "command"
  BY DEF Reinstall
<1>2. entry \in [Package -> Kinds] /\ Seated /\ Cared /\ Alone
  BY DEF PackageInv, Kept, PlacesOK
<1>3. entry'[p] = "dir" /\ \A q \in Package : q # p => entry'[q] = entry[q]
  BY <1>1, <1>2
<1>4. Seated'
  BY <1>1, <1>2 DEF Seated
<1>5. Cared'
  BY <1>1, <1>2, <1>3 DEF Cared
<1>6. Doubled'
  BY <1>1, <1>3 DEF PackageInv, Doubled
<1>7. Alone'
  <2> SUFFICES ASSUME NEW r \in sole'
               PROVE  /\ SoleAt(run[r], entry', backup', reinstalled')
                      /\ \A q \in Run \ {r} : run[q].at \in {"idle", "done", "killed"}
    BY <1>1 DEF Alone
  <2>1. /\ SoleAt(run[r], entry, backup, reinstalled)
        /\ \A q \in Run \ {r} : run[q].at \in {"idle", "done", "killed"}
    BY <1>1, <1>2 DEF Alone
  <2>2. run[r].at \in {"idle", "done", "killed", "command"}
    BY <1>1 DEF Live
  <2>3. \A q \in Package : AtHome(q, entry, backup, reinstalled)
          => AtHome(q, entry', backup', reinstalled')
    BY <1>1, <1>3 DEF AtHome
  <2>4. SoleAt(run[r], entry', backup', reinstalled')
    BY <2>1, <2>2, <2>3 DEF SoleAt, Restores, Links
  <2> QED
    BY <2>1, <2>4
<1> QED
  BY <1>4, <1>5, <1>6, <1>7 DEF PackageInv

LEMMA PackageInvStart == PackagesInit => PackageInv
<1> SUFFICES ASSUME PackagesInit PROVE PackageInv
  OBVIOUS
<1>1. Kept
  BY DEF PackagesInit, Kept, PlacesOK, NeverLost, Kinds
<1>2. Idle \in RunState /\ Sits(Idle)
  BY IdleState DEF Sits, Idle
<1>3. Seated /\ Alone /\ Doubled /\ Cared
  BY <1>2 DEF PackagesInit, Seated, Alone, Doubled, Cared
<1> QED
  BY <1>1, <1>3 DEF PackageInv

LEMMA PackageInvHome == PackageInv => Restored
<1> SUFFICES ASSUME PackageInv PROVE Restored
  OBVIOUS
<1>1. ASSUME NEW r \in sole,
             \/ run[r].at = "done"
             \/ run[r].at = "moveAside" /\ run[r].linked = <<>>,
             NEW p \in Package
      PROVE  Home(p)
  <2>1. SoleAt(run[r], entry, backup, reinstalled)
    BY DEF PackageInv, Alone
  <2>2. AtHome(p, entry, backup, reinstalled)
    BY <1>1, <2>1, NoneIn DEF SoleAt, Links
  <2> QED
    BY <2>2 DEF AtHome, Home
<1>2. ASSUME \A r \in Run : run[r].at \in {"idle", "done"}, NEW p \in Package
      PROVE  Home(p)
  <2>1. \A r \in Run : ~OwnsLink(run[r], p) /\ ~OwnsGap(run[r], p)
    BY <1>2 DEF PackageInv, Seated, Sits, OwnsLink, OwnsGap, Links, Restores
  <2>2. entry[p] # "link" /\ entry[p] # "none"
    BY <1>2, <2>1 DEF PackageInv, Cared
  <2>3. entry[p] = "dir"
    BY <2>2 DEF PackageInv, Kept, PlacesOK, Kinds
  <2> QED
    BY <2>3 DEF PackageInv, Doubled, Home
<1>3. ASSUME NEW r \in sole
      PROVE  (\/ run[r].at = "done"
              \/ run[r].at = "moveAside" /\ run[r].linked = <<>>)
             => \A p \in Package : Home(p)
  BY <1>1
<1>4. (\A r \in Run : run[r].at \in {"idle", "done"}) => \A p \in Package : Home(p)
  BY <1>2
<1> HIDE DEF Home
<1>5. \A r \in sole :
        (\/ run[r].at = "done"
         \/ run[r].at = "moveAside" /\ run[r].linked = <<>>)
        => \A p \in Package : Home(p)
  BY <1>3
<1> QED
  BY <1>4, <1>5 DEF Restored

\* A run that no other overlaps leaves every package at its place and finds it
\* there after its repair, and runs that overlap do so once all are over, if none
\* was killed (with-local-packages.ts, its opening comment and restoreAll).
THEOREM PackagesRestored == PackagesSpec => []Restored
<1>1. PackageInv /\ [PackagesNext]_packageVars => PackageInv'
  <2> SUFFICES ASSUME PackageInv, [PackagesNext]_packageVars PROVE PackageInv'
    OBVIOUS
  <2>1. Kept'
    BY KeptInductive DEF PackageInv
  <2>2. CASE UNCHANGED packageVars
    BY <2>1, <2>2 DEF packageVars, PackageInv, Seated, Cared, Doubled, Alone
  <2>3. ASSUME NEW p \in Package, Reinstall(p) PROVE PackageInv'
    BY <2>1, <2>3, ReinstallInv
  <2>4. ASSUME NEW r \in Run, RunStep(r) PROVE PackageInv'
    <3>1. CASE Launch(r)
      BY <3>1, LaunchInv
    <3>2. CASE LookBackup(r) \/ LookEntry(r)
      BY <3>2, LookBackupInv, LookEntryInv
    <3>3. CASE RemoveLink(r) \/ MoveBack(r)
      BY <2>1, <3>3, RemoveLinkInv, MoveBackInv
    <3>4. CASE \E wanted \in Requests : Request(r, wanted)
      BY <3>4, RequestInv
    <3>5. CASE MoveAside(r) \/ Link(r)
      BY <2>1, <3>5, MoveAsideInv, LinkInv
    <3>6. CASE LinkFails(r) \/ CommandEnds(r)
      BY <3>6, UndoInv DEF LinkFails, CommandEnds, Stands, Moves, Links
    <3>7. CASE Signal(r) \/ Exit(r) \/ RunKilled(r)
      BY <3>7, SignalInv, ExitInv, KilledInv
    <3> QED
      BY <2>4, <3>1, <3>2, <3>3, <3>4, <3>5, <3>6, <3>7 DEF RunStep
  <2> QED
    BY <2>2, <2>3, <2>4 DEF PackagesNext
<1> QED
  BY <1>1, PackageInvStart, PackageInvHome, PTL DEF PackagesSpec

(***************************************************************************)
(* StandaloneDeploy, for any number of connections, any times that requests*)
(* take and any number of builds: what runs is whole and no older than what*)
(* was deployed, and what can be answered in time is not reset.            *)
(***************************************************************************)
File == Nat \X {"none", "part", "whole"}

Types ==
  /\ recipe \in Recipes /\ newest \in Nat /\ deployed \in Nat
  /\ folder \in File /\ copied \in File /\ besides \in File
  /\ program \in File /\ image \in File
  /\ service \in {"off", "running", "draining", "failed"}
  /\ waited \in Nat
  /\ client \in [Client -> {"new", "queued", "served", "answered", "reset", "lost"}]
  /\ left \in [Client -> Nat]

\* Along the script the newest version is handed on, and what was complete when
\* it was handed on still is.
Handed ==
  /\ folder # NoFile => folder[1] = newest
  /\ step = "writing" => folder[1] = newest
  /\ step = "copying" => folder = <<newest, "whole">>
  /\ step \in {"install", "installing"} => copied = <<newest, "whole">>
  /\ step = "move" => besides = <<newest, "whole">>

\* What may be started is complete, and deployed versions are built versions.
Startable ==
  /\ program # NoFile => program[2] = "whole"
  /\ deployed <= program[1] /\ program[1] <= newest

\* Only a process serves, and whom it has not answered while it drains needs
\* more time than has passed.
Serving ==
  /\ \A c \in Client : client[c] = "served" => service \in {"running", "draining"}
  /\ service = "draining" =>
       \A c \in Client : client[c] = "served" => waited = 0 \/ left[c] > waited

StandaloneInv == Types /\ Handed /\ Startable /\ Serving /\ DeployedServes

\* Every recipe gives the binary the time that it takes to drain, some, and
\* keeps its data.
LEMMA RecipesDrain ==
  ASSUME NEW r \in Recipes
  PROVE  /\ r.drain \in Nat /\ r.stop \in Nat /\ r.drain > 0 /\ r.stop >= r.drain
         /\ r.data = r.kept
  BY DEF Recipes, Systemd, Docker, Fly

LEMMA StandaloneStarts == StandaloneInit => StandaloneInv
<1> SUFFICES ASSUME StandaloneInit PROVE StandaloneInv
  OBVIOUS
<1> USE DEF StandaloneInit, NoFile
<1>1. Types
  BY DEF Types, File
<1>2. Handed /\ Startable
  BY DEF Handed, Startable
<1>3. Serving
  BY DEF Serving
<1>4. DeployedServes
  BY DEF DeployedServes, RunsWhole, NoneReset
<1> QED
  BY <1>1, <1>2, <1>3, <1>4 DEF StandaloneInv

\* What build and script do to files before there is a new program.
LEMMA FileSteps ==
  ASSUME StandaloneInv,
         \/ WriteDeployFiles \/ FilesWritten \/ Scp \/ ScpEnds \/ Install \/ Installed
         \/ EnableSocket \/ BreakOff
  PROVE  StandaloneInv'
<1> USE DEF StandaloneInv, runVars, clientVars, fileVars
<1>1. UNCHANGED <<recipe, program, deployed, service, image, waited, client, left, stored>>
  BY DEF WriteDeployFiles, FilesWritten, Scp, ScpEnds, Install, Installed, EnableSocket,
     BreakOff
<1>2. Serving' /\ DeployedServes'
  BY <1>1 DEF Serving, DeployedServes, RunsWhole, NoneReset
<1>3. newest' \in Nat /\ newest' >= newest
  BY DEF Types, WriteDeployFiles, FilesWritten, Scp, ScpEnds, Install, Installed, EnableSocket,
     BreakOff
<1>4. Startable'
  BY <1>1, <1>3 DEF Startable, Types, File
<1>5. folder' \in File /\ copied' \in File /\ besides' \in File
  BY DEF Types, File, WriteDeployFiles, FilesWritten, Scp, ScpEnds, Install, Installed,
     EnableSocket, BreakOff
<1>6. Types'
  BY <1>1, <1>3, <1>5 DEF Types
<1>7. Handed'
  <2>1. CASE WriteDeployFiles
    BY <2>1 DEF WriteDeployFiles, Handed, NoFile
  <2>2. CASE FilesWritten
    BY <2>2 DEF FilesWritten, Handed, NoFile, Types, File
  <2>3. CASE Scp
    <3>1. folder = <<folder[1], "whole">> /\ folder # NoFile
      BY <2>3 DEF Scp, Types, File, NoFile
    <3> QED
      BY <2>3, <3>1 DEF Scp, Handed
  <2>4. CASE ScpEnds
    BY <2>4 DEF ScpEnds, Handed
  <2>5. CASE Install
    BY <2>5 DEF Install, Handed
  <2>6. CASE Installed
    BY <2>6 DEF Installed, Handed
  <2>7. CASE EnableSocket
    BY <2>7 DEF EnableSocket, Handed
  <2>8. CASE BreakOff
    BY <2>8 DEF BreakOff, Handed
  <2> QED
    BY <2>1, <2>2, <2>3, <2>4, <2>5, <2>6, <2>7, <2>8
<1> QED
  BY <1>2, <1>4, <1>6, <1>7

\* The program is replaced in one step, by a complete one.
LEMMA MoveStep ==
  ASSUME StandaloneInv, Move
  PROVE  StandaloneInv'
<1> USE DEF StandaloneInv, Move, runVars, clientVars
<1>1. program' = <<newest, "whole">>
  BY DEF Handed
<1>2. Types'
  BY <1>1 DEF Types, File, NoFile
<1>3. Handed'
  BY DEF Handed
<1>4. Startable'
  BY <1>1 DEF Startable, Types, File
<1>5. Serving' /\ DeployedServes'
  BY DEF Serving, DeployedServes, RunsWhole, NoneReset
<1> QED
  BY <1>2, <1>3, <1>4, <1>5

\* A SIGTERM: nobody has waited yet.
LEMMA Terminated ==
  ASSUME Types, Serving, DeployedServes, Terminate,
         UNCHANGED <<recipe, deployed, client, left, stored>>
  PROVE  /\ Serving' /\ DeployedServes'
         /\ service' \in {"off", "draining"} /\ waited' \in Nat /\ image' = image
<1>1. service' \in {"off", "draining"} /\ waited' \in Nat /\ image' = image
  BY DEF Terminate, Types
<1>2. Serving'
  BY DEF Terminate, Serving, Types
<1>3. DeployedServes'
  BY DEF Terminate, DeployedServes, RunsWhole, NoneReset, Types
<1> QED
  BY <1>1, <1>2, <1>3

LEMMA RestartStep ==
  ASSUME StandaloneInv, Restart
  PROVE  StandaloneInv'
<1> USE DEF StandaloneInv, Restart, clientVars, fileVars
<1>1. /\ Serving' /\ DeployedServes'
      /\ service' \in {"off", "draining"} /\ waited' \in Nat /\ image' = image
  BY Terminated
<1>2. Types'
  BY <1>1 DEF Types
<1>3. Handed' /\ Startable'
  BY DEF Handed, Startable
<1> QED
  BY <1>1, <1>2, <1>3

LEMMA ShipStep ==
  ASSUME StandaloneInv, Ship
  PROVE  StandaloneInv'
<1> USE DEF StandaloneInv, Ship, clientVars
<1>1. /\ Serving' /\ DeployedServes'
      /\ service' \in {"off", "draining"} /\ waited' \in Nat /\ image' = image
  BY Terminated
<1>2. program' = <<newest, "whole">>
  BY DEF Handed, Types, File, NoFile
<1>3. Types'
  BY <1>1 DEF Types
<1>4. Handed'
  BY DEF Handed
<1>5. Startable'
  BY <1>2 DEF Startable, Types, File
<1> QED
  BY <1>1, <1>3, <1>4, <1>5

LEMMA StartStep ==
  ASSUME StandaloneInv, Start
  PROVE  StandaloneInv'
<1> USE DEF StandaloneInv, Start, fileVars
<1>1. Types'
  BY DEF Types, File
<1>2. Handed'
  BY DEF Handed
<1>3. deployed' <= program[1]
  BY DEF Startable, Types, File
<1>4. Startable'
  BY <1>3 DEF Startable
<1>5. Serving'
  BY DEF Serving
<1>6. DeployedServes'
  <2>1. stored' = stored
    BY RecipesDrain DEF Types
  <2> QED
    BY <1>3, <2>1 DEF DeployedServes, RunsWhole, NoneReset, Startable, Types, File
<1> QED
  BY <1>1, <1>2, <1>4, <1>5, <1>6

\* The end of a process.
LEMMA EndStep ==
  ASSUME StandaloneInv, Drained \/ Crash \/ Reboot
  PROVE  StandaloneInv'
<1> USE DEF StandaloneInv, Drained, Crash, Reboot, NoProcess
<1>1. /\ service' \in {"off", "failed"} /\ image' = NoFile /\ waited' = 0
      /\ UNCHANGED <<recipe, newest, folder, besides, program, deployed, left, stored>>
  BY DEF fileVars
<1>2. copied' \in {copied, NoFile} /\ step' \in {step, "idle"}
      /\ (copied' = copied \/ step' \in {"idle", "writing"})
  BY DEF fileVars
<1>3. \A c \in Client :
        /\ client'[c] \in {"new", "queued", "answered", "reset", "lost"}
        /\ client'[c] = "answered" => client[c] = "answered"
        /\ client'[c] = "reset" => client[c] = "reset" \/ left[c] > recipe.drain
  <2> SUFFICES ASSUME NEW c \in Client
               PROVE  /\ client'[c] \in {"new", "queued", "answered", "reset", "lost"}
                      /\ client'[c] = "answered" => client[c] = "answered"
                      /\ client'[c] = "reset" => client[c] = "reset" \/ left[c] > recipe.drain
    OBVIOUS
  <2>1. client[c] \in {"new", "queued", "served", "answered", "reset", "lost"}
    BY DEF Types
  <2>2. CASE Drained
    <3>1. client[c] = "served" => left[c] > recipe.drain
      <4>1. /\ recipe.drain \in Nat /\ recipe.stop \in Nat
             /\ recipe.drain > 0 /\ recipe.stop >= recipe.drain
        BY RecipesDrain DEF Types
      <4>2. client[c] = "served" => waited >= recipe.drain
        BY <2>2, <4>1 DEF Types
      <4>3. client[c] = "served" => waited = 0 \/ left[c] > waited
        BY <2>2 DEF Serving
      <4>4. left[c] \in Nat /\ waited \in Nat
        BY DEF Types
      <4> QED
        BY <4>1, <4>2, <4>3, <4>4
    <3> QED
      BY <2>1, <2>2, <3>1 DEF Ends
  <2>3. CASE Crash
    BY <2>1, <2>3 DEF Ends
  <2>4. CASE Reboot
    BY <2>1, <2>4
  <2> QED
    BY <2>2, <2>3, <2>4
<1>4. client' = [c \in Client |-> client'[c]]
  BY DEF Ends
<1>5. Types'
  <2>1. client' \in [Client -> {"new", "queued", "served", "answered", "reset", "lost"}]
    BY <1>3, <1>4
  <2>2. NoFile \in File
    BY DEF NoFile, File
  <2> QED
    BY <1>1, <1>2, <2>1, <2>2 DEF Types
<1>6. Handed'
  BY <1>1, <1>2 DEF Handed
<1>7. Startable'
  BY <1>1 DEF Startable
<1>8. Serving'
  BY <1>1, <1>3 DEF Serving
<1>9. DeployedServes'
  BY <1>1, <1>3 DEF DeployedServes, RunsWhole, NoneReset
<1> QED
  BY <1>5, <1>6, <1>7, <1>8, <1>9

\* A moment of draining: who is not answered needs more.
LEMMA TickStep ==
  ASSUME StandaloneInv, Tick
  PROVE  StandaloneInv'
<1> USE DEF StandaloneInv, Tick, fileVars
<1>1. \A c \in Client :
        /\ client'[c] \in {"answered", client[c]}
        /\ client'[c] = "served" => client[c] = "served" /\ left[c] > waited'
        /\ client'[c] = "answered" => c \in stored'
  <2> SUFFICES ASSUME NEW c \in Client
               PROVE  /\ client'[c] \in {"answered", client[c]}
                      /\ client'[c] = "served" => client[c] = "served" /\ left[c] > waited'
                      /\ client'[c] = "answered" => c \in stored'
    OBVIOUS
  <2>1. left[c] \in Nat /\ waited \in Nat
    BY DEF Types
  <2> QED
    BY <2>1
<1>2. client' \in [Client -> {"new", "queued", "served", "answered", "reset", "lost"}]
  BY DEF Types
<1>3. Types'
  BY <1>2 DEF Types
<1>4. Handed' /\ Startable'
  BY DEF Handed, Startable
<1>5. Serving'
  BY <1>1 DEF Serving
<1>6. DeployedServes'
  BY <1>1 DEF DeployedServes, RunsWhole, NoneReset
<1> QED
  BY <1>3, <1>4, <1>5, <1>6

LEMMA ClientStep ==
  ASSUME StandaloneInv, NEW c \in Client, Connect(c) \/ Accept(c) \/ Respond(c)
  PROVE  StandaloneInv'
<1> USE DEF StandaloneInv, Connect, Accept, Respond, fileVars, runVars
<1>1. UNCHANGED <<recipe, newest, step, folder, copied, besides, program, deployed, service,
    image, waited>>
  OBVIOUS
<1>2. /\ left' \in [Client -> Nat]
      /\ \A k \in Client : k # c => left'[k] = left[k] /\ client'[k] = client[k]
  BY DeployBounds DEF Types
<1>3. /\ client' \in [Client -> {"new", "queued", "served", "answered", "reset", "lost"}]
      /\ client'[c] \in {"queued", "served", "answered"}
      /\ client'[c] = "served" => service = "running"
      /\ client'[c] = "answered" => c \in stored'
      /\ stored \subseteq stored'
  BY DEF Types
<1>4. Types'
  BY <1>1, <1>2, <1>3 DEF Types
<1>5. Handed' /\ Startable'
  BY <1>1 DEF Handed, Startable
<1>6. Serving'
  <2>1. \A k \in Client : client'[k] = "served" => service \in {"running", "draining"}
    BY <1>2, <1>3 DEF Serving
  <2>2. ASSUME service = "draining", NEW k \in Client, client'[k] = "served"
        PROVE  waited = 0 \/ left'[k] > waited
    BY <1>2, <1>3, <2>2 DEF Serving
  <2> QED
    BY <1>1, <2>1, <2>2 DEF Serving
<1>7. DeployedServes'
  BY <1>1, <1>2, <1>3 DEF DeployedServes, RunsWhole, NoneReset
<1> QED
  BY <1>4, <1>5, <1>6, <1>7

LEMMA StandaloneKept == StandaloneInv /\ [StandaloneNext]_standaloneVars => StandaloneInv'
<1> SUFFICES ASSUME StandaloneInv, [StandaloneNext]_standaloneVars PROVE StandaloneInv'
  OBVIOUS
<1>1. CASE StandaloneNext
  BY <1>1, FileSteps, MoveStep, RestartStep, ShipStep, StartStep, EndStep, TickStep,
     ClientStep, Zenon
     DEF StandaloneNext
<1>2. CASE UNCHANGED standaloneVars
  BY <1>2 DEF standaloneVars, fileVars, runVars, clientVars, StandaloneInv, Types, Handed,
     Startable,
              Serving, DeployedServes, RunsWhole, NoneReset
<1> QED
  BY <1>1, <1>2

\* Whatever breaks off and whenever the host starts again, what runs is whole and
\* no older than what was deployed, and no request is reset that could be answered
\* in the time of its recipe: standalone-deploy.ts.
THEOREM DeploymentsServe == StandaloneSpec => []DeployedServes
<1>1. StandaloneInv => DeployedServes
  BY DEF StandaloneInv
<1> QED
  BY <1>1, StandaloneStarts, StandaloneKept, PTL DEF StandaloneSpec

==============================================================================
