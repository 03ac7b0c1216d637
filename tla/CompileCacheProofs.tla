-------------------------- MODULE CompileCacheProofs --------------------------
(***************************************************************************)
(* What holds of the compile cache for any number of builds and keys.      *)
(***************************************************************************)
EXTENDS CompileCache, TLAPS

USE StaleAgeAssumption, CacheAssumption

-----------------------------------------------------------------------------
(* Lemmas about the lock's age.                                            *)

LEMMA LockStates ==
  /\ Free \in Lock
  /\ Fresh \in Lock
  /\ \A a \in Lock : Aged(a) \in Lock
  /\ \A a \in Lock : Aged(a) = Free <=> a = Free
BY SMT DEF Lock, Free, Fresh, Aged

-----------------------------------------------------------------------------
(* Every variable keeps its type: in particular no more entries, stages or *)
(* results appear than compileCached can make.                             *)

LEMMA TypeInductive == TypeOK /\ [Next]_vars => TypeOK'
<1> SUFFICES ASSUME TypeOK, [Next]_vars PROVE TypeOK'
  OBVIOUS
<1> USE DEF TypeOK, Go
<1>1. ASSUME NEW p \in Process, Start(p) PROVE TypeOK'
  BY <1>1 DEF Start, PC
<1>2. ASSUME NEW p \in Process, Reading(p) PROVE TypeOK'
  <2>1. CASE ReadRecord(p)
    BY <2>1 DEF ReadRecord, Entry
  <2>2. CASE VerifiedHit(p)
    BY <2>2 DEF VerifiedHit, Entry, PC, Result
  <2>3. CASE RecheckMiss(p)
    BY <2>3 DEF RecheckMiss, PC
  <2> QED BY <1>2, <2>1, <2>2, <2>3 DEF Reading
<1>3. ASSUME NEW p \in Process, Waiting(p) PROVE TypeOK'
  <2>1. CASE FastMiss(p)
    BY <2>1 DEF FastMiss, PC
  <2>2. CASE TakeLock(p)
    BY <2>2, LockStates DEF TakeLock, PC
  <2>3. CASE LockBusy(p)
    BY <2>3 DEF LockBusy, PC
  <2>4. CASE PollMiss(p)
    BY <2>4 DEF PollMiss, PC
  <2>5. CASE GiveUp(p)
    BY <2>5 DEF GiveUp, PC, Result
  <2>6. CASE StatFresh(p)
    BY <2>6 DEF StatFresh, PC
  <2>7. CASE StatStale(p)
    BY <2>7 DEF StatStale, PC
  <2>8. CASE BreakLock(p)
    BY <2>8, LockStates DEF BreakLock, PC
  <2> QED BY <1>3, <2>1, <2>2, <2>3, <2>4, <2>5, <2>6, <2>7, <2>8 DEF Waiting
<1>4. ASSUME NEW p \in Process, Producing(p) PROVE TypeOK'
  <2>1. CASE Clear(p)
    BY <2>1 DEF Clear, PC, Entry, Absent
  <2>2. CASE Install(p)
    BY <2>2 DEF Install, PC, Entry, Result
  <2>3. CASE InstallFails(p)
    BY <2>3 DEF InstallFails, PC, Result
  <2>4. CASE Publish(p)
    BY <2>4 DEF Publish, PC, Result
  <2>5. CASE PublishFails(p)
    BY <2>5 DEF PublishFails, PC, Result
  <2>6. CASE Release(p)
    BY <2>6, LockStates DEF Release, PC
  <2> QED BY <1>4, <2>1, <2>2, <2>3, <2>4, <2>5, <2>6 DEF Producing
<1>5. ASSUME NEW p \in Process, Compile(p) PROVE TypeOK'
  BY <1>5 DEF Compile, CompileTo, PC, Binary
<1>6. ASSUME NEW p \in Process, CompileFails(p) PROVE TypeOK'
  BY <1>6 DEF CompileFails, PC, Result
<1>7. ASSUME NEW p \in Process, Kill(p) PROVE TypeOK'
  BY <1>7 DEF Kill, PC
<1>8. ASSUME NEW k \in Key, Damage(k) PROVE TypeOK'
  <2>1. /\ entry[k].record \in Binary \cup {None}
        /\ entry[k].bytes \in Binary \cup {None, Damaged}
    BY DEF Entry
  <2>2. entry' \in [Key -> Entry]
    BY <1>8, <2>1 DEF Damage, Entry
  <2>3. damages' \in 0 .. MaxDamage
    BY <1>8 DEF Damage
  <2> QED BY <1>8, <2>2, <2>3 DEF Damage
<1>9. CASE Tick
  BY <1>9, LockStates DEF Tick
<1>10. CASE UNCHANGED vars
  BY <1>10 DEF vars
<1> QED
  BY <1>1, <1>2, <1>3, <1>4, <1>5, <1>6, <1>7, <1>8, <1>9, <1>10 DEF Next, Step

\* Every variable keeps its type, whoever is killed and whatever is stolen.
THEOREM TypeCorrect == Spec => []TypeOK
<1>1. Init => TypeOK
  BY LockStates DEF Init, TypeOK, Entry, Absent, PC, Result
<1> QED BY <1>1, TypeInductive, PTL DEF Spec

-----------------------------------------------------------------------------
(***************************************************************************)
(* No damaged and no foreign bytes are published.  The inductive invariant *)
(* follows a binary from the compiler to the output path: what an entry    *)
(* records, what verified() has read, what a process holds in memory and   *)
(* what it has published all belong to the key in question; only the bytes *)
(* of an entry may be damaged, and those are compared before they are kept.*)
(***************************************************************************)
For(k, b) == b = None \/ (b \in Binary /\ b.key = k)

SoundInv ==
  /\ \A k \in Key : For(k, entry[k].record)
  /\ \A k \in Key : entry[k].bytes = Damaged \/ For(k, entry[k].bytes)
  /\ \A p \in Process : For(key[p], seen[p]) /\ For(key[p], bin[p]) /\ For(key[p], out[p])

LEMMA SoundInductive == TypeOK /\ SoundInv /\ [Next]_vars => SoundInv'
<1> SUFFICES ASSUME TypeOK, SoundInv, [Next]_vars PROVE SoundInv'
  OBVIOUS
<1> USE DEF SoundInv, Go, TypeOK, For
<1>1. ASSUME NEW p \in Process, Start(p) PROVE SoundInv'
  BY <1>1 DEF Start
<1>2. ASSUME NEW p \in Process, Reading(p) PROVE SoundInv'
  <2>1. CASE ReadRecord(p)
    BY <2>1 DEF ReadRecord
  <2>2. CASE VerifiedHit(p)
    BY <2>2 DEF VerifiedHit
  <2>3. CASE RecheckMiss(p)
    BY <2>3 DEF RecheckMiss
  <2> QED BY <1>2, <2>1, <2>2, <2>3 DEF Reading
<1>3. ASSUME NEW p \in Process, Waiting(p) PROVE SoundInv'
  BY <1>3 DEF Waiting, FastMiss, TakeLock, LockBusy, PollMiss, GiveUp, StatFresh, StatStale,
     BreakLock
<1>4. ASSUME NEW p \in Process, Producing(p) PROVE SoundInv'
  <2>1. CASE Clear(p)
    BY <2>1 DEF Clear, Absent
  <2>2. CASE Install(p)
    BY <2>2 DEF Install
  <2>3. CASE Publish(p)
    BY <2>3 DEF Publish
  <2>4. CASE InstallFails(p) \/ PublishFails(p) \/ Release(p)
    BY <2>4 DEF InstallFails, PublishFails, Release
  <2> QED BY <1>4, <2>1, <2>2, <2>3, <2>4 DEF Producing
<1>5. ASSUME NEW p \in Process, Compile(p) PROVE SoundInv'
  BY <1>5 DEF Compile, CompileTo, Binary
<1>6. ASSUME NEW p \in Process, CompileFails(p) \/ Kill(p) PROVE SoundInv'
  BY <1>6 DEF CompileFails, Kill
<1>7. ASSUME NEW k \in Key, Damage(k) PROVE SoundInv'
  BY <1>7 DEF Damage, Entry
<1>8. CASE Tick
  BY <1>8 DEF Tick
<1>9. CASE UNCHANGED vars
  BY <1>9 DEF vars
<1> QED
  BY <1>1, <1>2, <1>3, <1>4, <1>5, <1>6, <1>7, <1>8, <1>9 DEF Next, Step

\* Whatever a build publishes was compiled in full for its own key: whoever is
\* killed, however long a lock is held, whatever is stolen or damaged.
THEOREM OutputIsSound == Spec => []OutputSound
<1>1. Init => SoundInv
  BY DEF Init, SoundInv, For, Absent
<1>2. SoundInv => OutputSound
  BY DEF SoundInv, For, OutputSound
<1> QED BY <1>1, <1>2, SoundInductive, TypeCorrect, PTL DEF Spec

-----------------------------------------------------------------------------
(***************************************************************************)
(* Mutual exclusion, when no build is killed and none keeps a lock past    *)
(* StaleAge.  The directory does not say whose it is, so the invariant has *)
(* to: a lock exists exactly while some process holds it, is as old as     *)
(* that process's hold, and hence is never stale to a waiter.              *)
(***************************************************************************)
Undisturbed == Mortal = {} /\ HoldMax <= StaleAge

\* How the call ends is not decided before the process leaves these places.
Undecided == PC \ {"publish", "release", "done"}

LockInv ==
  /\ \A p \in Process : Holds(p) => lock[key[p]] = timer[p] /\ timer[p] <= HoldMax
  /\ \A k \in Key : lock[k] # Free => \E p \in Process : Holds(p) /\ key[p] = k
  /\ \A p \in Process : pc[p] # "break"
  /\ \A p \in Process : pc[p] \in Undecided => result[p] = "none"
  /\ MutualExclusion

\* Under the lock the entry stays out of the way between rm and rename.
ClearInv ==
  \A p \in Process : pc[p] \in {"compile", "install"} => entry[key[p]] = Absent

LEMMA NeverStale ==
  ASSUME Undisturbed, TypeOK, LockInv, NEW k \in Key
  PROVE  ~IsStale(lock[k])
BY DEF Undisturbed, TypeOK, LockInv, IsStale, Free, Lock

\* A step that changes no lock and neither starts nor ends a hold.
LEMMA HoldsKept ==
  ASSUME LockInv,
         key' = key, lock' = lock,
         \A q \in Process : Holds(q)' = Holds(q),
         \A q \in Process : Holds(q) => timer'[q] = timer[q],
         \A q \in Process : pc'[q] # "break",
         \A q \in Process : pc'[q] \in Undecided => result'[q] = "none"
  PROVE  LockInv'
BY DEF LockInv, MutualExclusion, Undecided, PC, Free

LEMMA LockInductive ==
  ASSUME Undisturbed, TypeOK, LockInv, [Next]_vars
  PROVE  LockInv'
<1> USE DEF TypeOK, Go
<1> DEFINE U == {"idle", "fast", "mkdir", "poll", "stat", "break", "recheck",
                 "clear", "compile", "install"}
<1>u. Undecided = U
  BY DEF Undecided, PC
<1>0. \A q \in Process : pc[q] # "break" /\ (pc[q] \in Undecided => result[q] = "none")
  BY DEF LockInv
<1>1. ASSUME NEW p \in Process, Start(p) PROVE LockInv'
  BY <1>1, <1>0, <1>u, HoldsKept DEF Start, Holds, Holding
<1>2. ASSUME NEW p \in Process, Reading(p) PROVE LockInv'
  <2>1. CASE ReadRecord(p)
    BY <2>1, <1>0, HoldsKept DEF ReadRecord, Holds, Holding
  <2>2. CASE VerifiedHit(p)
    BY <2>2, <1>0, <1>u, HoldsKept DEF VerifiedHit, Holds, Holding
  <2>3. CASE RecheckMiss(p)
    BY <2>3, <1>0, <1>u, HoldsKept DEF RecheckMiss, Holds, Holding
  <2> QED BY <1>2, <2>1, <2>2, <2>3 DEF Reading
<1>3. ASSUME NEW p \in Process, Waiting(p) PROVE LockInv'
  <2>1. CASE TakeLock(p)
    <3>1. \A q \in Process : Holds(q) => key[q] # key[p]
      BY <2>1 DEF TakeLock, CanMake, LockInv, Free
    <3>2. \A q \in Process : Holds(q)' <=> Holds(q) \/ q = p
      BY <2>1 DEF TakeLock, Holds, Holding
    <3>3. \A q \in Process : q # p => key'[q] = key[q] /\ timer'[q] = timer[q]
      BY <2>1 DEF TakeLock
    <3>4. key' = key /\ lock'[key[p]] = Fresh /\ timer'[p] = 0
      BY <2>1 DEF TakeLock
    <3>5. \A k \in Key \ {key[p]} : lock'[k] = lock[k]
      BY <2>1 DEF TakeLock
    <3>6. ~Holds(p)
      BY <2>1 DEF TakeLock, Holds, Holding
    <3>7. \A q \in Process : pc'[q] # "break" /\ (pc'[q] \in Undecided => result'[q] = "none")
      BY <2>1, <1>0, <1>u DEF TakeLock
    <3>8. MutualExclusion'
      BY <3>1, <3>2, <3>4 DEF LockInv, MutualExclusion
    <3>9. \A q \in Process : Holds(q)' => lock'[key'[q]] = timer'[q] /\ timer'[q] <= HoldMax
      BY <3>1, <3>2, <3>3, <3>4, <3>5 DEF LockInv, Fresh
    <3>10. \A k \in Key : lock'[k] # Free => \E q \in Process : Holds(q)' /\ key'[q] = k
      BY <3>2, <3>4, <3>5 DEF LockInv
    <3> QED BY <3>7, <3>8, <3>9, <3>10 DEF LockInv
  <2>2. CASE FastMiss(p)
    BY <2>2, <1>0, <1>u, HoldsKept DEF FastMiss, Holds, Holding
  <2>3. CASE LockBusy(p)
    BY <2>3, <1>0, <1>u, HoldsKept DEF LockBusy, Holds, Holding
  <2>4. CASE PollMiss(p)
    BY <2>4, <1>0, <1>u, HoldsKept DEF PollMiss, Holds, Holding
  <2>5. CASE GiveUp(p)
    BY <2>5, <1>0, <1>u, HoldsKept DEF GiveUp, Holds, Holding
  <2>6. CASE StatFresh(p)
    BY <2>6, <1>0, <1>u, HoldsKept DEF StatFresh, Holds, Holding
  <2>7. CASE StatStale(p)
    BY <2>7, NeverStale DEF StatStale
  <2>8. CASE BreakLock(p)
    BY <2>8, <1>0 DEF BreakLock
  <2> QED BY <1>3, <2>1, <2>2, <2>3, <2>4, <2>5, <2>6, <2>7, <2>8 DEF Waiting
<1>4. ASSUME NEW p \in Process, Producing(p) PROVE LockInv'
  <2>1. CASE Clear(p)
    BY <2>1, <1>0, <1>u, HoldsKept DEF Clear, Holds, Holding
  <2>2. CASE Install(p)
    BY <2>2, <1>0, <1>u, HoldsKept DEF Install, Holds, Holding
  <2>3. CASE InstallFails(p)
    BY <2>3, <1>0, <1>u, HoldsKept DEF InstallFails, Holds, Holding
  <2>4. CASE Publish(p)
    BY <2>4, <1>0, <1>u, HoldsKept DEF Publish, Holds, Holding
  <2>5. CASE PublishFails(p)
    BY <2>5, <1>0, <1>u, HoldsKept DEF PublishFails, Holds, Holding
  <2>6. CASE Release(p)
    <3>1. Holds(p)
      BY <2>6 DEF Release, Holds, Holding
    <3>2. \A q \in Process : Holds(q)' <=> Holds(q) /\ q # p
      BY <2>6 DEF Release, Holds, Holding
    <3>3. \A q \in Process \ {p} : Holds(q) => key[q] # key[p]
      BY <3>1 DEF LockInv, MutualExclusion
    <3>4. key' = key /\ \A q \in Process \ {p} : timer'[q] = timer[q]
      BY <2>6 DEF Release
    <3>5. lock'[key[p]] = Free /\ \A k \in Key \ {key[p]} : lock'[k] = lock[k]
      BY <2>6 DEF Release
    <3>6. \A q \in Process : pc'[q] # "break" /\ (pc'[q] \in Undecided => result'[q] = "none")
      BY <2>6, <1>0, <1>u DEF Release
    <3>7. MutualExclusion'
      BY <3>2, <3>4 DEF LockInv, MutualExclusion
    <3>8. \A q \in Process : Holds(q)' => lock'[key'[q]] = timer'[q] /\ timer'[q] <= HoldMax
      BY <3>2, <3>3, <3>4, <3>5 DEF LockInv
    <3>9. \A k \in Key : lock'[k] # Free => \E q \in Process : Holds(q)' /\ key'[q] = k
      BY <3>2, <3>4, <3>5 DEF LockInv
    <3> QED BY <3>6, <3>7, <3>8, <3>9 DEF LockInv
  <2> QED BY <1>4, <2>1, <2>2, <2>3, <2>4, <2>5, <2>6 DEF Producing
<1>5. ASSUME NEW p \in Process, Compile(p) PROVE LockInv'
  BY <1>5, <1>0, <1>u, HoldsKept DEF Compile, CompileTo, Holds, Holding
<1>6. ASSUME NEW p \in Process, CompileFails(p) PROVE LockInv'
  BY <1>6, <1>0, <1>u, HoldsKept DEF CompileFails, Holds, Holding
<1>7. ASSUME NEW p \in Process, Kill(p) PROVE LockInv'
  BY <1>7 DEF Kill, Undisturbed
<1>8. ASSUME NEW k \in Key, Damage(k) PROVE LockInv'
  BY <1>8, <1>0, HoldsKept DEF Damage, Holds, Holding
<1>9. CASE Tick
  <2>1. \A q \in Process : Holds(q)' = Holds(q)
    BY <1>9 DEF Tick, Holds
  <2>2. \A q \in Process : Holds(q) => timer[q] < HoldMax /\ timer'[q] = timer[q] + 1
    BY <1>9 DEF Tick
  <2>3. \A q \in Process : Holds(q) => lock'[key[q]] = lock[key[q]] + 1
    BY <1>9, <2>2, LockStates DEF Tick, LockInv, Aged, Undisturbed, Free
  <2>4. \A k \in Key : lock'[k] = Free <=> lock[k] = Free
    BY <1>9, LockStates DEF Tick
  <2>5. key' = key /\ pc' = pc /\ result' = result
    BY <1>9 DEF Tick
  <2>6. \A q \in Process : Holds(q)' => lock'[key'[q]] = timer'[q] /\ timer'[q] <= HoldMax
    BY <2>1, <2>2, <2>3, <2>5 DEF LockInv
  <2>7. \A k \in Key : lock'[k] # Free => \E q \in Process : Holds(q)' /\ key'[q] = k
    BY <2>1, <2>4, <2>5 DEF LockInv
  <2>8. MutualExclusion'
    BY <2>1, <2>5 DEF LockInv, MutualExclusion
  <2> QED BY <2>5, <2>6, <2>7, <2>8, <1>u DEF LockInv, Undecided, PC
<1>10. CASE UNCHANGED vars
  BY <1>10, <1>0, HoldsKept DEF vars, Holds, Holding
<1> QED
  BY <1>1, <1>2, <1>3, <1>4, <1>5, <1>6, <1>7, <1>8, <1>9, <1>10 DEF Next, Step

\* Two builds of one key are never both between the mkdir and the rm of its
\* lock, provided that no build is killed and none keeps a lock too long.
THEOREM Mutex ==
  ASSUME Undisturbed
  PROVE  Spec => []MutualExclusion
<1>1. Init => LockInv
  BY DEF Init, LockInv, Holds, Holding, MutualExclusion
<1>2. LockInv => MutualExclusion
  BY DEF LockInv
<1>3. TypeOK /\ LockInv /\ [Next]_vars => LockInv'
  BY LockInductive
<1> QED BY <1>1, <1>2, <1>3, TypeCorrect, PTL DEF Spec

-----------------------------------------------------------------------------
\* What the lock is for: between the rm of a bad entry and the rename of the
\* new one nobody else writes the entry.
LEMMA ClearInductive ==
  ASSUME TypeOK, LockInv, ClearInv, [Next]_vars
  PROVE  ClearInv'
<1> USE DEF ClearInv, TypeOK, Go
<1>0. \A p, q \in Process :
        /\ p # q
        /\ pc[p] \in {"clear", "compile", "install"}
        /\ pc[q] \in {"clear", "compile", "install"}
        => key[p] # key[q]
  BY DEF LockInv, MutualExclusion, Holds, Holding
<1>1. ASSUME NEW p \in Process, Start(p) PROVE ClearInv'
  BY <1>1 DEF Start
<1>2. ASSUME NEW p \in Process, Reading(p) PROVE ClearInv'
  BY <1>2 DEF Reading, ReadRecord, VerifiedHit, RecheckMiss
<1>3. ASSUME NEW p \in Process, Waiting(p) PROVE ClearInv'
  BY <1>3 DEF Waiting, FastMiss, TakeLock, LockBusy, PollMiss, GiveUp, StatFresh, StatStale,
     BreakLock
<1>4. ASSUME NEW p \in Process, Producing(p) PROVE ClearInv'
  <2>1. CASE Clear(p)
    BY <2>1 DEF Clear
  <2>2. CASE Install(p)
    BY <2>2, <1>0 DEF Install
  <2>3. CASE InstallFails(p) \/ Publish(p) \/ PublishFails(p) \/ Release(p)
    BY <2>3 DEF InstallFails, Publish, PublishFails, Release
  <2> QED BY <1>4, <2>1, <2>2, <2>3 DEF Producing
<1>5. ASSUME NEW p \in Process, Compile(p) PROVE ClearInv'
  BY <1>5 DEF Compile, CompileTo
<1>6. ASSUME NEW p \in Process, CompileFails(p) \/ Kill(p) PROVE ClearInv'
  BY <1>6 DEF CompileFails, Kill
<1>7. ASSUME NEW k \in Key, Damage(k) PROVE ClearInv'
  BY <1>7 DEF Damage
<1>8. CASE Tick
  BY <1>8 DEF Tick
<1>9. CASE UNCHANGED vars
  BY <1>9 DEF vars
<1> QED
  BY <1>1, <1>2, <1>3, <1>4, <1>5, <1>6, <1>7, <1>8, <1>9 DEF Next, Step

\* The rename of a finished compile always finds the entry's place free, so no
\* build fails with ENOTEMPTY after minutes of compiling.
THEOREM NoCompileWasted ==
  ASSUME Undisturbed
  PROVE  Spec => []CompileNotWasted
<1>1. Init => LockInv /\ ClearInv
  BY DEF Init, LockInv, ClearInv, Holds, Holding, MutualExclusion
<1>2. ClearInv => CompileNotWasted
  BY DEF ClearInv, CompileNotWasted
<1>3. TypeOK /\ LockInv /\ ClearInv /\ [Next]_vars => LockInv' /\ ClearInv'
  BY LockInductive, ClearInductive
<1> QED BY <1>1, <1>2, <1>3, TypeCorrect, PTL DEF Spec

-----------------------------------------------------------------------------
(***************************************************************************)
(* Nothing is left behind, whatever was stolen: a lock directory is always *)
(* one that some running process will remove, though perhaps not the one   *)
(* that made it; a stage is always its own process's.                      *)
(***************************************************************************)
CleanInv ==
  killed = {} =>
    /\ \A k \in Key : lock[k] # Free => \E p \in Process : Holds(p) /\ key[p] = k
    /\ \A p \in staged : pc[p] \in {"compile", "install", "release"}

\* While the lock is held the entry does not get better: what was read and is
\* not yet compared is still the record or is gone, and what was refused stays
\* refused.
RecheckInv ==
  \A p \in Process :
    /\ pc[p] \in {"mkdir", "stat", "break", "clear"} => seen[p] = None
    /\ pc[p] = "recheck" /\ seen[p] # None => entry[key[p]].record \in {seen[p], None}
    /\ pc[p] = "clear" => ~Valid(key[p])

\* A process holds bytes from its compile or its hit on, and every binary there
\* is, in an entry too, is one that a process holds.
MadeInv ==
  /\ \A p \in Process :
       /\ pc[p] \in Undecided \ {"install"} => bin[p] = None
       /\ pc[p] = "install" => bin[p] = [key |-> key[p], by |-> p]
       /\ pc[p] = "publish" => bin[p] # None
       /\ pc[p] \in Undecided \cup {"publish"} => out[p] = None
  /\ \A k \in Key :
       /\ entry[k].record # None => \E p \in Process : bin[p] = entry[k].record
       /\ entry[k].bytes \notin {None, Damaged} => \E p \in Process : bin[p] = entry[k].bytes

LEMMA CleanInductive ==
  ASSUME TypeOK, CleanInv, [Next]_vars
  PROVE  CleanInv'
<1> USE DEF TypeOK, CleanInv, Go
\* A step after which every hold and every stage there was is still accounted for.
<1>0. ASSUME key' = key, lock' = lock, staged' = staged, killed' = killed,
             \A q \in Process : Holds(q) => Holds(q)',
             \A q \in Process : pc[q] \in {"compile", "install", "release"}
                                  => pc'[q] \in {"compile", "install", "release"}
      PROVE  CleanInv'
  BY <1>0
<1>1. ASSUME NEW p \in Process, Start(p) PROVE CleanInv'
  BY <1>1, <1>0 DEF Start, Holds, Holding
<1>2. ASSUME NEW p \in Process, Reading(p) PROVE CleanInv'
  <2>1. CASE ReadRecord(p)
    BY <2>1, <1>0 DEF ReadRecord, Holds, Holding
  <2>2. CASE VerifiedHit(p)
    BY <2>2, <1>0 DEF VerifiedHit, Holds, Holding
  <2>3. CASE RecheckMiss(p)
    BY <2>3, <1>0 DEF RecheckMiss, Holds, Holding
  <2> QED BY <1>2, <2>1, <2>2, <2>3 DEF Reading
<1>3. ASSUME NEW p \in Process, Waiting(p) PROVE CleanInv'
  <2>1. CASE TakeLock(p)
    <3>1. \A q \in Process : Holds(q)' <=> Holds(q) \/ q = p
      BY <2>1 DEF TakeLock, Holds, Holding
    <3>2. \A k \in Key \ {key[p]} : lock'[k] = lock[k]
      BY <2>1 DEF TakeLock
    <3>3. \A q \in staged : pc[q] \in {"compile", "install", "release"} => pc'[q] = pc[q]
      BY <2>1 DEF TakeLock
    <3> QED BY <2>1, <3>1, <3>2, <3>3 DEF TakeLock
  <2>2. CASE BreakLock(p)
    <3>1. \A q \in Process : Holds(q)' <=> Holds(q)
      BY <2>2 DEF BreakLock, Holds, Holding
    <3>2. \A k \in Key : lock'[k] # Free => lock[k] # Free
      BY <2>2 DEF BreakLock
    <3> QED BY <2>2, <3>1, <3>2 DEF BreakLock
  <2>3. CASE FastMiss(p) \/ LockBusy(p) \/ PollMiss(p) \/ GiveUp(p) \/ StatFresh(p)
             \/ StatStale(p)
    BY <2>3, <1>0 DEF FastMiss, LockBusy, PollMiss, GiveUp, StatFresh, StatStale, Holds, Holding
  <2> QED BY <1>3, <2>1, <2>2, <2>3 DEF Waiting
<1>4. ASSUME NEW p \in Process, Producing(p) PROVE CleanInv'
  <2>1. CASE Clear(p)
    BY <2>1 DEF Clear, Holds, Holding
  <2>2. CASE Install(p)
    BY <2>2 DEF Install, Holds, Holding
  <2>3. CASE InstallFails(p)
    BY <2>3, <1>0 DEF InstallFails, Holds, Holding
  <2>4. CASE Publish(p) \/ PublishFails(p)
    BY <2>4, <1>0 DEF Publish, PublishFails, Holds, Holding
  <2>5. CASE Release(p)
    <3>1. \A q \in Process \ {p} : Holds(q)' <=> Holds(q)
      BY <2>5 DEF Release, Holds, Holding
    <3>2. lock'[key[p]] = Free /\ \A k \in Key \ {key[p]} : lock'[k] = lock[k]
      BY <2>5 DEF Release
    <3> QED BY <2>5, <3>1, <3>2 DEF Release
  <2> QED BY <1>4, <2>1, <2>2, <2>3, <2>4, <2>5 DEF Producing
<1>5. ASSUME NEW p \in Process, Compile(p) PROVE CleanInv'
  BY <1>5, <1>0 DEF Compile, CompileTo, Holds, Holding
<1>6. ASSUME NEW p \in Process, CompileFails(p) PROVE CleanInv'
  BY <1>6, <1>0 DEF CompileFails, Holds, Holding
<1>7. ASSUME NEW p \in Process, Kill(p) PROVE CleanInv'
  BY <1>7 DEF Kill
<1>8. ASSUME NEW k \in Key, Damage(k) PROVE CleanInv'
  BY <1>8, <1>0 DEF Damage, Holds, Holding
<1>9. CASE Tick
  <2>1. \A k \in Key : lock'[k] = Free <=> lock[k] = Free
    BY <1>9, LockStates DEF Tick
  <2>2. \A q \in Process : Holds(q)' <=> Holds(q)
    BY <1>9 DEF Tick, Holds
  <2> QED BY <1>9, <2>1, <2>2 DEF Tick
<1>10. CASE UNCHANGED vars
  BY <1>10, <1>0 DEF vars, Holds, Holding
<1> QED
  BY <1>1, <1>2, <1>3, <1>4, <1>5, <1>6, <1>7, <1>8, <1>9, <1>10 DEF Next, Step

\* When every call has returned and none was killed, no lock and no stage is
\* left, however long a lock was held and whoever took it over meanwhile.
THEOREM NothingLeft == Spec => []CleanExit
<1>1. Init => CleanInv
  BY DEF Init, CleanInv
<1>2. TypeOK /\ CleanInv => CleanExit
  BY DEF TypeOK, CleanInv, CleanExit, Holds, Holding
<1> QED BY <1>1, <1>2, CleanInductive, TypeCorrect, PTL DEF Spec

-----------------------------------------------------------------------------
\* Damage makes no entry valid, and changes no other.
LEMMA DamageSpoils ==
  ASSUME TypeOK, NEW k \in Key, Damage(k)
  PROVE  ~Valid(k)' /\ \A j \in Key \ {k} : entry'[j] = entry[j]
<1>1. entry[k].record \in Binary \cup {None}
  BY DEF TypeOK, Entry
<1>2. CASE entry' = [entry EXCEPT ![k] = [record |-> @.record, bytes |-> Damaged]]
  BY <1>1, <1>2 DEF TypeOK, Valid
<1>3. CASE entry' = [entry EXCEPT ![k] = [record |-> None, bytes |-> @.bytes]]
  BY <1>3 DEF TypeOK, Valid
<1> QED BY <1>2, <1>3 DEF Damage

LEMMA RecheckInductive ==
  ASSUME TypeOK, LockInv, RecheckInv, [Next]_vars
  PROVE  RecheckInv'
<1> USE DEF TypeOK, RecheckInv, Valid, Go
<1>0. \A p, q \in Process :
        p # q /\ pc[p] \in {"clear", "install"} /\ pc[q] \in {"recheck",
            "clear"} => key[p] # key[q]
  BY DEF LockInv, MutualExclusion, Holds, Holding
<1>1. ASSUME NEW p \in Process, Start(p) PROVE RecheckInv'
  BY <1>1 DEF Start
<1>2. ASSUME NEW p \in Process, Reading(p) PROVE RecheckInv'
  <2>1. CASE ReadRecord(p)
    BY <2>1 DEF ReadRecord
  <2>2. CASE VerifiedHit(p)
    BY <2>2 DEF VerifiedHit
  <2>3. CASE RecheckMiss(p)
    <3>1. ~Valid(key[p])
      BY <2>3 DEF RecheckMiss, Missed
    <3> QED BY <2>3, <3>1 DEF RecheckMiss
  <2> QED BY <1>2, <2>1, <2>2, <2>3 DEF Reading
<1>3. ASSUME NEW p \in Process, Waiting(p) PROVE RecheckInv'
  <2>1. CASE TakeLock(p)
    BY <2>1 DEF TakeLock
  <2>2. CASE FastMiss(p) \/ PollMiss(p) \/ GiveUp(p)
    BY <2>2 DEF FastMiss, PollMiss, GiveUp
  <2>3. CASE LockBusy(p) \/ StatFresh(p) \/ StatStale(p) \/ BreakLock(p)
    BY <2>3 DEF LockBusy, StatFresh, StatStale, BreakLock
  <2> QED BY <1>3, <2>1, <2>2, <2>3 DEF Waiting
<1>4. ASSUME NEW p \in Process, Producing(p) PROVE RecheckInv'
  <2>1. CASE Clear(p)
    BY <2>1, <1>0 DEF Clear
  <2>2. CASE Install(p)
    BY <2>2, <1>0 DEF Install
  <2>3. CASE InstallFails(p) \/ Publish(p) \/ PublishFails(p) \/ Release(p)
    BY <2>3 DEF InstallFails, Publish, PublishFails, Release
  <2> QED BY <1>4, <2>1, <2>2, <2>3 DEF Producing
<1>5. ASSUME NEW p \in Process, Compile(p) PROVE RecheckInv'
  BY <1>5 DEF Compile, CompileTo
<1>6. ASSUME NEW p \in Process, CompileFails(p) \/ Kill(p) PROVE RecheckInv'
  BY <1>6 DEF CompileFails, Kill
<1>7. ASSUME NEW k \in Key, Damage(k) PROVE RecheckInv'
  <2>1. \A j \in Key : entry'[j].record \in {entry[j].record, None}
    BY <1>7 DEF Damage, Entry
  <2>2. \A j \in Key : Valid(j)' => Valid(j)
    BY <1>7, DamageSpoils DEF Damage
  <2> QED BY <1>7, <2>1, <2>2 DEF Damage
<1>8. CASE Tick
  BY <1>8 DEF Tick
<1>9. CASE UNCHANGED vars
  BY <1>9 DEF vars
<1> QED
  BY <1>1, <1>2, <1>3, <1>4, <1>5, <1>6, <1>7, <1>8, <1>9 DEF Next, Step

-----------------------------------------------------------------------------
LEMMA MadeInductive ==
  ASSUME TypeOK, MadeInv, [Next]_vars
  PROVE  MadeInv'
<1> DEFINE U == {"idle", "fast", "mkdir", "poll", "stat", "break", "recheck", "clear",
    "compile"}
<1>u. Undecided \ {"install"} = U /\ Undecided \cup {"publish"} = U \cup {"install", "publish"}
  BY DEF Undecided, PC
<1> DEFINE Places ==
      \A p \in Process :
        /\ pc[p] \in U => bin[p] = None
        /\ pc[p] = "install" => bin[p] = [key |-> key[p], by |-> p]
        /\ pc[p] = "publish" => bin[p] # None
        /\ pc[p] \in U \cup {"install", "publish"} => out[p] = None
<1> DEFINE Held ==
      \A k \in Key :
        /\ entry[k].record # None => \E p \in Process : bin[p] = entry[k].record
        /\ entry[k].bytes \notin {None, Damaged} => \E p \in Process : bin[p] = entry[k].bytes
<1>0. /\ MadeInv <=> Places /\ Held
      /\ MadeInv' <=> Places' /\ Held'
  BY <1>u DEF MadeInv
<1> HIDE DEF U
<1>a. Places /\ Held
  BY <1>0
\* A step that makes no binary and installs none.
<1>b. ASSUME bin' = bin, entry' = entry PROVE Held'
  BY <1>a, <1>b
<1> USE DEF TypeOK, Go, U
<1>1. ASSUME NEW p \in Process, Start(p) PROVE MadeInv'
  BY <1>0, <1>a, <1>1 DEF Start
<1>2. ASSUME NEW p \in Process, Reading(p) PROVE MadeInv'
  <2>1. CASE ReadRecord(p)
    BY <1>0, <1>a, <2>1 DEF ReadRecord
  <2>2. CASE VerifiedHit(p)
    <3>1. bin[p] = None /\ bin' = [bin EXCEPT ![p] = seen[p]] /\ seen[p] # None
      BY <1>a, <2>2 DEF VerifiedHit
    <3>2. Places'
      BY <1>a, <2>2, <3>1 DEF VerifiedHit
    <3>3. \A q \in Process : bin[q] # None => bin'[q] = bin[q]
      BY <3>1
    <3>4. \A b : b # None /\ (\E q \in Process : bin[q] = b) => \E q \in Process : bin'[q] = b
      BY <3>3
    <3>5. entry' = entry
      BY <2>2 DEF VerifiedHit
    <3> QED BY <1>0, <1>a, <3>2, <3>4, <3>5
  <2>3. CASE RecheckMiss(p)
    BY <1>0, <1>a, <2>3 DEF RecheckMiss
  <2> QED BY <1>2, <2>1, <2>2, <2>3 DEF Reading
<1>3. ASSUME NEW p \in Process, Waiting(p) PROVE MadeInv'
  <2>1. bin' = bin /\ entry' = entry /\ key' = key /\ out' = out
    BY <1>3 DEF Waiting, FastMiss, TakeLock, LockBusy, PollMiss, GiveUp, StatFresh, StatStale,
       BreakLock
  <2>2. pc[p] \in U /\ pc' = [pc EXCEPT ![p] = pc'[p]] /\ pc'[p] \in U \cup {"done"}
    BY <1>3 DEF Waiting, FastMiss, TakeLock, LockBusy, PollMiss, GiveUp, StatFresh, StatStale,
       BreakLock
  <2>3. Places'
    BY <1>a, <2>1, <2>2
  <2> QED BY <1>0, <1>b, <2>1, <2>3
<1>4. ASSUME NEW p \in Process, Producing(p) PROVE MadeInv'
  <2>1. CASE Clear(p)
    BY <1>0, <1>a, <2>1 DEF Clear, Absent
  <2>2. CASE Install(p)
    <3>0. bin[p] # None
      BY <1>a, <2>2 DEF Install, Binary
    <3>1. Places' /\ bin' = bin
      BY <1>a, <2>2, <3>0 DEF Install
    <3>2. \A k \in Key \ {key[p]} : entry'[k] = entry[k]
      BY <2>2 DEF Install
    <3>3. entry'[key[p]] = [record |-> bin[p], bytes |-> bin[p]]
      BY <2>2 DEF Install
    <3> QED BY <1>0, <1>a, <3>1, <3>2, <3>3
  <2>3. CASE InstallFails(p)
    BY <1>0, <1>a, <2>3 DEF InstallFails
  <2>4. CASE Publish(p)
    BY <1>0, <1>a, <2>4 DEF Publish
  <2>5. CASE PublishFails(p)
    BY <1>0, <1>a, <2>5 DEF PublishFails
  <2>6. CASE Release(p)
    BY <1>0, <1>a, <2>6 DEF Release
  <2> QED BY <1>4, <2>1, <2>2, <2>3, <2>4, <2>5, <2>6 DEF Producing
<1>5. ASSUME NEW p \in Process, Compile(p) PROVE MadeInv'
  <2>1. bin[p] = None /\ bin' = [bin EXCEPT ![p] = [key |-> key[p], by |-> p]]
    BY <1>a, <1>5 DEF Compile, CompileTo
  <2>2. Places'
    BY <1>a, <1>5, <2>1 DEF Compile, CompileTo
  <2>3. \A b : b # None /\ (\E q \in Process : bin[q] = b) => \E q \in Process : bin'[q] = b
    BY <2>1
  <2>4. entry' = entry
    BY <1>5 DEF Compile, CompileTo
  <2> QED BY <1>0, <1>a, <2>2, <2>3, <2>4
<1>6. ASSUME NEW p \in Process, CompileFails(p) \/ Kill(p) PROVE MadeInv'
  BY <1>0, <1>a, <1>6 DEF CompileFails, Kill
<1>7. ASSUME NEW k \in Key, Damage(k) PROVE MadeInv'
  <2>1. Places'
    BY <1>a, <1>7 DEF Damage
  <2>2. \A j \in Key : /\ entry'[j].record \in {entry[j].record, None}
                       /\ entry'[j].bytes \in {entry[j].bytes, Damaged}
    <3>1. CASE entry' = [entry EXCEPT ![k] = [record |-> @.record, bytes |-> Damaged]]
      BY <3>1
    <3>2. CASE entry' = [entry EXCEPT ![k] = [record |-> None, bytes |-> @.bytes]]
      BY <3>2
    <3> QED BY <1>7, <3>1, <3>2 DEF Damage
  <2>3. bin' = bin
    BY <1>7 DEF Damage
  <2> QED BY <1>0, <1>a, <2>1, <2>2, <2>3
<1>8. CASE Tick
  BY <1>0, <1>a, <1>8 DEF Tick
<1>9. CASE UNCHANGED vars
  BY <1>0, <1>a, <1>9 DEF vars
<1> QED
  BY <1>1, <1>2, <1>3, <1>4, <1>5, <1>6, <1>7, <1>8, <1>9 DEF Next, Step

\* What an undisturbed cache keeps, together.
CacheInv == TypeOK /\ SoundInv /\ LockInv /\ ClearInv /\ RecheckInv /\ MadeInv

LEMMA CacheInvHolds ==
  ASSUME Undisturbed
  PROVE  Spec => []CacheInv
<1>1. Init => SoundInv /\ LockInv /\ ClearInv /\ RecheckInv /\ MadeInv
  <2>1. Init => SoundInv
    BY DEF Init, SoundInv, For, Absent
  <2>2. Init => LockInv
    BY DEF Init, LockInv, Holds, Holding, MutualExclusion
  <2>3. Init => ClearInv /\ RecheckInv
    BY DEF Init, ClearInv, RecheckInv
  <2>4. Init => MadeInv
    BY DEF Init, MadeInv, Undecided, PC, Absent
  <2> QED BY <2>1, <2>2, <2>3, <2>4
<1>2. TypeOK /\ SoundInv /\ LockInv /\ ClearInv /\ RecheckInv /\ MadeInv /\ [Next]_vars
        => SoundInv' /\ LockInv' /\ ClearInv' /\ RecheckInv' /\ MadeInv'
  BY SoundInductive, LockInductive, ClearInductive, RecheckInductive, MadeInductive
<1> QED BY <1>1, <1>2, TypeCorrect, PTL DEF Spec, CacheInv

\* No build removes an entry that would verify: the rm before a compile only
\* meets an entry that was refused under the same lock, and the rename none.
THEOREM ValidEntriesStay ==
  ASSUME Undisturbed
  PROVE  Spec => ValidEntryKept
<1>1. CacheInv /\ [Next]_vars
        => [\A k \in Key : Valid(k) /\ damages' = damages => Valid(k)']_vars
  <2> SUFFICES ASSUME CacheInv, [Next]_vars, NEW k \in Key, Valid(k), damages' = damages
               PROVE  Valid(k)'
    OBVIOUS
  <2>0. CASE entry' = entry
    BY <2>0 DEF Valid
  <2>1. ASSUME NEW p \in Process, Clear(p) PROVE Valid(k)'
    BY <2>1 DEF Clear, Go, CacheInv, TypeOK, RecheckInv, Valid
  <2>2. ASSUME NEW p \in Process, Install(p) PROVE Valid(k)'
    BY <2>2 DEF Install, Go, CacheInv, TypeOK, Valid, Absent
  <2>3. ASSUME NEW j \in Key, Damage(j) PROVE FALSE
    BY <2>3 DEF Damage, CacheInv, TypeOK
  <2>4. ASSUME NEW p \in Process, Start(p) \/ Step(p) \/ Kill(p), ~Clear(p), ~Install(p)
        PROVE  entry' = entry
    <3>1. CASE Reading(p) \/ Start(p)
      BY <3>1 DEF Reading, ReadRecord, VerifiedHit, RecheckMiss, Start
    <3>2. CASE Waiting(p)
      BY <3>2 DEF Waiting, FastMiss, TakeLock, LockBusy, PollMiss, GiveUp, StatFresh,
         StatStale, BreakLock
    <3>3. CASE Producing(p)
      BY <2>4, <3>3 DEF Producing, InstallFails, Publish, PublishFails, Release
    <3>4. CASE Compile(p) \/ CompileFails(p) \/ Kill(p)
      BY <3>4 DEF Compile, CompileTo, CompileFails, Kill
    <3> QED BY <2>4, <3>1, <3>2, <3>3, <3>4 DEF Step
  <2>5. CASE Tick \/ UNCHANGED vars
    BY <2>0, <2>5 DEF Tick, vars
  <2> QED BY <2>0, <2>1, <2>2, <2>3, <2>4, <2>5 DEF Next
<1> QED BY <1>1, CacheInvHolds, PTL DEF Spec, ValidEntryKept

-----------------------------------------------------------------------------
(***************************************************************************)
(* The refinement: seen through who compiles, which entries verify and     *)
(* what is held and published, every step of the cache is a step of        *)
(* SingleFlight or leaves it alone.                                        *)
(***************************************************************************)
Compiling(k) == {p \in Process : pc[p] \in {"compile", "install"} /\ key[p] = k}
Ready(k) == IF Valid(k) THEN entry[k].bytes ELSE None
Made == {bin[p] : p \in Process} \ {None}

\* Flight, before and after a step, in terms of who compiles.
LEMMA FlightIs ==
  ASSUME NEW k
  PROVE  /\ Flight(k) = IF Compiling(k) = {} THEN None ELSE CHOOSE p \in Compiling(k) : TRUE
         /\ Flight(k)' = IF Compiling(k)' = {} THEN None ELSE CHOOSE p \in Compiling(k)' : TRUE
BY DEF Flight, Compiling

\* At most one process compiles for a key: it is the flight.
LEMMA Flies ==
  ASSUME CacheInv, NEW p \in Process, pc[p] \in {"compile", "install"}
  PROVE  Compiling(key[p]) = {p} /\ Flight(key[p]) = p
<1>1. Compiling(key[p]) = {p}
  BY DEF Compiling, CacheInv, LockInv, MutualExclusion, Holds, Holding
<1> QED BY <1>1, FlightIs

LEMMA FliesAfter ==
  ASSUME CacheInv', NEW p \in Process, pc'[p] \in {"compile", "install"}, key' = key
  PROVE  Flight(key[p])' = p
<1>1. Compiling(key[p])' = {p}
  BY DEF Compiling, CacheInv, LockInv, MutualExclusion, Holds, Holding
<1> QED BY <1>1, FlightIs

\* The flights that a step does not concern.
LEMMA SameFlight ==
  ASSUME key' = key, NEW k,
         \A p \in Process : key[p] = k =>
            (pc'[p] \in {"compile", "install"} <=> pc[p] \in {"compile", "install"})
  PROVE  Flight(k)' = Flight(k)
<1>1. Compiling(k)' = Compiling(k)
  BY DEF Compiling
<1> QED BY <1>1, FlightIs

\* What SingleFlight sees of a step that begins, ends and makes nothing.
LEMMA SameView ==
  ASSUME key' = key, entry' = entry, out' = out, Made' = Made,
         \A p \in Process : pc'[p] \in {"compile", "install"} <=> pc[p] \in {"compile",
             "install"}
  PROVE  UNCHANGED SF!flightVars
<1>1. \A k \in Key : Flight(k)' = Flight(k)
  BY SameFlight
<1>2. \A k \in Key : Valid(k)' <=> Valid(k)
  BY DEF Valid
<1> QED BY <1>1, <1>2 DEF SF!flightVars, Made

\* When one process stops or starts to compile its key, no other flight changes.
LEMMA OtherFlights ==
  ASSUME NEW p \in Process, key' = key, \A q \in Process \ {p} : pc'[q] = pc[q]
  PROVE  \A k \in Key \ {key[p]} : Flight(k)' = Flight(k)
BY SameFlight

\* A compile that ends leaves nobody compiling its key.
LEMMA Lands ==
  ASSUME CacheInv, key' = key, NEW p \in Process, pc[p] \in {"compile", "install"},
         pc'[p] \notin {"compile", "install"}, \A q \in Process \ {p} : pc'[q] = pc[q]
  PROVE  Flight(key[p])' = None
<1>1. Compiling(key[p])' = {}
  BY Flies DEF Compiling
<1> QED BY <1>1, FlightIs

LEMMA StepRefines ==
  ASSUME Undisturbed, CacheInv, CacheInv', [Next]_vars
  PROVE  [SF!Next]_SF!flightVars
<1> USE DEF Go
<1>t. TypeOK /\ SoundInv /\ RecheckInv /\ MadeInv
  BY DEF CacheInv
<1>1. ASSUME NEW p \in Process, Start(p) PROVE UNCHANGED SF!flightVars
  BY <1>1, <1>t, SameView DEF Start, TypeOK, Made
<1>2. ASSUME NEW p \in Process, Reading(p) PROVE UNCHANGED SF!flightVars
  <2>1. CASE ReadRecord(p)
    BY <2>1, <1>t, SameView DEF ReadRecord, TypeOK, Made
  <2>2. CASE VerifiedHit(p)
    <3>1. bin[p] = None /\ bin' = [bin EXCEPT ![p] = seen[p]] /\ seen[p] # None
      BY <1>t, <2>2 DEF VerifiedHit, TypeOK, MadeInv, Undecided, PC
    <3>2. \E q \in Process : bin[q] = seen[p]
      BY <1>t, <2>2, <3>1 DEF VerifiedHit, TypeOK, MadeInv
    <3>3. Made' = Made
      BY <1>t, <3>1, <3>2 DEF Made, TypeOK
    <3> QED BY <2>2, <1>t, <3>3, SameView DEF VerifiedHit, TypeOK
  <2>3. CASE RecheckMiss(p)
    BY <2>3, <1>t, SameView DEF RecheckMiss, TypeOK, Made
  <2> QED BY <1>2, <2>1, <2>2, <2>3 DEF Reading
<1>3. ASSUME NEW p \in Process, Waiting(p) PROVE UNCHANGED SF!flightVars
  <2>1. key' = key /\ entry' = entry /\ out' = out /\ bin' = bin
    BY <1>3 DEF Waiting, FastMiss, TakeLock, LockBusy, PollMiss, GiveUp, StatFresh, StatStale,
       BreakLock
  <2>2. /\ pc[p] \notin {"compile", "install"} /\ pc'[p] \notin {"compile", "install"}
        /\ \A q \in Process \ {p} : pc'[q] = pc[q]
    BY <1>3, <1>t
       DEF Waiting, FastMiss, TakeLock, LockBusy, PollMiss, GiveUp, StatFresh, StatStale,
           BreakLock, TypeOK
  <2> QED BY <2>1, <2>2, SameView DEF Made
\* The entry was refused under the lock, nobody else compiles: the key is ready
\* for a flight.
<1>4. ASSUME NEW p \in Process, NEW j \in Key, key[p] = j, Clear(p)
      PROVE  SF!Begin(p, j)
  <2>1. Compiling(key[p]) = {}
    BY <1>4 DEF Compiling, Clear, CacheInv, LockInv, MutualExclusion, Holds, Holding
  <2>2. Flight(key[p]) = None
    BY <2>1, FlightIs
  <2>3. /\ key' = key /\ out' = out /\ bin' = bin /\ pc'[p] = "compile"
        /\ \A q \in Process \ {p} : pc'[q] = pc[q]
    BY <1>4, <1>t DEF Clear, TypeOK
  <2>4. Flight(key[p])' = p
    BY <2>3, FliesAfter
  <2>5. \A k \in Key : ~(k = key[p] /\ Valid(k)) /\ (Valid(k)' <=> k # key[p] /\ Valid(k))
    BY <1>4, <1>t DEF Clear, RecheckInv, Valid, TypeOK, Absent
  <2>6. \A k \in Key : Valid(k) => entry'[k] = entry[k]
    BY <1>4, <2>5, <1>t DEF Clear, TypeOK
  <2>7. key[p] \in Key
    BY <1>t DEF TypeOK
  <2>8. [k \in Key |-> Flight(k)]' = [[k \in Key |-> Flight(k)] EXCEPT ![key[p]] = p]
    BY <2>3, <2>4, <2>7, OtherFlights
  <2> QED BY <2>2, <2>3, <2>5, <2>6, <2>7, <2>8, <1>4 DEF SF!Begin
<1>5. ASSUME NEW p \in Process, NEW j \in Key, key[p] = j, Compile(p)
      PROVE  SF!Produce(p, j)
  <2>1. /\ bin[p] = None
        /\ bin' = [bin EXCEPT ![p] = [key |-> key[p], by |-> p]]
        /\ [key |-> key[p], by |-> p] # None
    BY <1>5, <1>t DEF Compile, CompileTo, TypeOK, MadeInv, Undecided, PC, Binary
  <2>2. Made' = Made \cup {[key |-> key[p], by |-> p]}
    BY <2>1, <1>t DEF Made, TypeOK
  <2>3. /\ key' = key /\ entry' = entry /\ out' = out /\ pc[p] = "compile" /\ pc'[p] = "install"
        /\ \A q \in Process \ {p} : pc'[q] = pc[q]
    BY <1>5, <1>t DEF Compile, CompileTo, TypeOK
  <2>4. \A k \in Key : Flight(k)' = Flight(k)
    BY <2>3, SameFlight
  <2>5. key[p] \in Key /\ Flight(key[p]) = p
    BY <1>t, <2>3, Flies DEF TypeOK
  <2>6. \A k \in Key : Valid(k)' <=> Valid(k)
    BY <2>3 DEF Valid
  <2> QED BY <2>2, <2>3, <2>4, <2>5, <2>6, <1>5 DEF SF!Produce, Made
<1>6. ASSUME NEW p \in Process, NEW j \in Key, key[p] = j, Install(p)
      PROVE  SF!Finish(p, j)
  <2>1. /\ key' = key /\ out' = out /\ bin' = bin /\ pc[p] = "install" /\ pc'[p] = "publish"
        /\ \A q \in Process \ {p} : pc'[q] = pc[q]
    BY <1>6, <1>t DEF Install, TypeOK
  <2>2. bin[p] = [key |-> key[p], by |-> p] /\ bin[p] # None
    BY <1>t, <2>1 DEF MadeInv, Binary, TypeOK
  <2>3. key[p] \in Key /\ Flight(key[p]) = p /\ Flight(key[p])' = None
    BY <1>t, <2>1, Flies, Lands DEF TypeOK
  <2>4. [k \in Key |-> Flight(k)]' = [[k \in Key |-> Flight(k)] EXCEPT ![key[p]] = None]
    BY <2>1, <2>3, OtherFlights
  <2>5. /\ Valid(key[p])' /\ entry'[key[p]].bytes = bin[p]
        /\ \A k \in Key \ {key[p]} : entry'[k] = entry[k] /\ (Valid(k)' <=> Valid(k))
    BY <1>6, <1>t, <2>2 DEF Install, Valid, TypeOK
  <2>6. [key |-> key[p], by |-> p] \in Made
    BY <2>2 DEF Made
  <2>7. [k \in Key |-> Ready(k)]' = [[k \in Key |-> Ready(k)] EXCEPT ![j] = bin[p]]
    <3>1. Ready(j)' = bin[p] /\ \A k \in Key \ {j} : Ready(k)' = Ready(k)
      BY <1>6, <2>1, <2>5 DEF Ready
    <3> QED BY <3>1
  <2>8. Made' = Made /\ [k \in Key |-> Flight(k)][key[p]] = p
    BY <2>1, <2>3 DEF Made
  <2> QED BY <2>1, <2>2, <2>4, <2>6, <2>7, <2>8, <1>6 DEF SF!Finish, Made, Ready
<1>7. ASSUME NEW p \in Process, NEW j \in Key, key[p] = j, CompileFails(p) \/ InstallFails(p)
      PROVE  SF!Abandon(p, j)
  <2>1. /\ key' = key /\ out' = out /\ bin' = bin /\ entry' = entry
        /\ pc[p] \in {"compile", "install"} /\ pc'[p] = "release"
        /\ \A q \in Process \ {p} : pc'[q] = pc[q]
    BY <1>7, <1>t DEF CompileFails, InstallFails, TypeOK
  <2>2. key[p] \in Key /\ Flight(key[p]) = p /\ Flight(key[p])' = None
    BY <1>t, <2>1, Flies, Lands DEF TypeOK
  <2>3. [k \in Key |-> Flight(k)]' = [[k \in Key |-> Flight(k)] EXCEPT ![key[p]] = None]
    BY <2>1, <2>2, OtherFlights
  <2>4. \A k \in Key : Valid(k)' <=> Valid(k)
    BY <2>1 DEF Valid
  <2> QED BY <2>1, <2>2, <2>3, <2>4, <1>7 DEF SF!Abandon
<1>8. ASSUME NEW p \in Process, Publish(p) PROVE SF!Answer(p)
  <2>1. /\ key' = key /\ bin' = bin /\ entry' = entry
        /\ pc[p] = "publish" /\ pc'[p] \in {"release", "done"}
        /\ out' = [out EXCEPT ![p] = bin[p]]
        /\ \A q \in Process \ {p} : pc'[q] = pc[q]
    BY <1>8, <1>t DEF Publish, TypeOK
  <2>2. out[p] = None /\ bin[p] # None
    BY <1>t, <2>1 DEF MadeInv
  <2>3. bin[p] \in Made /\ bin[p].key = key[p]
    BY <1>t, <2>2 DEF Made, SoundInv, For
  <2>4. \A k \in Key : Flight(k)' = Flight(k) /\ (Valid(k)' <=> Valid(k))
    BY <2>1, SameFlight DEF Valid
  <2> QED BY <2>1, <2>2, <2>3, <2>4 DEF SF!Answer, Made
<1>9. ASSUME NEW p \in Process, PublishFails(p) \/ Release(p) PROVE UNCHANGED SF!flightVars
  BY <1>9, <1>t, SameView DEF PublishFails, Release, TypeOK, Made
<1>10. ASSUME NEW p \in Process, Kill(p) PROVE FALSE
  BY <1>10 DEF Kill, Undisturbed
<1>11. ASSUME NEW k \in Key, Damage(k) PROVE SF!Spoil(k) \/ UNCHANGED SF!flightVars
  <2>1. key' = key /\ bin' = bin /\ out' = out /\ pc' = pc
    BY <1>11 DEF Damage
  <2>2. ~Valid(k)' /\ \A j \in Key \ {k} : entry'[j] = entry[j] /\ (Valid(j)' <=> Valid(j))
    BY <1>11, <1>t, DamageSpoils DEF Valid
  <2>3. \A j \in Key : Flight(j)' = Flight(j)
    BY <2>1, SameFlight
  <2>4. CASE Valid(k)
    <3>1. entry[k].bytes # None
      BY <2>4 DEF Valid
    <3> QED BY <2>1, <2>2, <2>3, <2>4, <3>1 DEF SF!Spoil
  <2>5. CASE ~Valid(k)
    BY <2>1, <2>2, <2>3, <2>5 DEF SF!flightVars
  <2> QED BY <2>4, <2>5
<1>12. CASE Tick \/ UNCHANGED vars
  BY <1>12, SameView DEF Tick, vars, Made
<1>13. ASSUME NEW p \in Process, Start(p) \/ Step(p) \/ Kill(p)
       PROVE  SF!Next \/ UNCHANGED SF!flightVars
  <2>1. PICK k \in Key : key[p] = k
    BY <1>t DEF TypeOK
  <2>2. CASE Clear(p)
    BY <2>1, <2>2, <1>4 DEF SF!Next
  <2>3. CASE Compile(p)
    BY <2>1, <2>3, <1>5 DEF SF!Next
  <2>4. CASE Install(p)
    BY <2>1, <2>4, <1>6 DEF SF!Next
  <2>5. CASE CompileFails(p) \/ InstallFails(p)
    BY <2>1, <2>5, <1>7 DEF SF!Next
  <2>6. CASE Publish(p)
    BY <2>6, <1>8 DEF SF!Next
  <2> QED
    BY <1>13, <1>1, <1>2, <1>3, <1>9, <1>10, <2>2, <2>3, <2>4, <2>5, <2>6 DEF Step, Producing
<1>14. ASSUME NEW k \in Key, Damage(k) PROVE SF!Next \/ UNCHANGED SF!flightVars
  BY <1>11, <1>14 DEF SF!Next
<1> QED BY <1>12, <1>13, <1>14 DEF Next

\* The cache as a whole is one compile in flight per key, and answers that were
\* compiled for the key asked for: files, lock, polling and retries do not show.
THEOREM CacheIsSingleFlight ==
  ASSUME Undisturbed
  PROVE  Spec => ImplementsSingleFlight
<1>1. Init => SF!Init
  <2> SUFFICES ASSUME Init PROVE SF!Init
    OBVIOUS
  <2>1. \A k \in Key : Compiling(k) = {} /\ ~Valid(k)
    BY DEF Init, Compiling, Valid, Absent
  <2>2. \A k \in Key : Flight(k) = None
    BY <2>1, FlightIs
  <2>3. Made = {}
    BY DEF Init, Made
  <2> QED BY <2>1, <2>2, <2>3 DEF Init, SF!Init, Made
<1>2. CacheInv /\ CacheInv' /\ [Next]_vars => [SF!Next]_SF!flightVars
  BY StepRefines
<1> QED BY <1>1, <1>2, CacheInvHolds, PTL DEF Spec, ImplementsSingleFlight, SF!Spec

=============================================================================
