------------------------- MODULE ToolchainCacheProofs -------------------------
(***************************************************************************)
(* What holds of every shared tree, for any number of calls, compilers and *)
(* damages.  The argument has two halves: what is at the path and in the   *)
(* manifest is right as long as no live holder was robbed of its lock; and *)
(* nobody is, when no call is killed and none keeps a lock past StaleAge.  *)
(***************************************************************************)
EXTENDS ToolchainCache, FiniteSetTheorems, TLAPS

USE StaleAgeAssumption, ToolchainAssumption

Outside == {"idle", "check", "mkdir", "poll", "exists", "stat", "break", "use", "done"}
Inside == {"recheck", "clear", "make", "put", "unpack", "plain", "strip", "compile", "seal",
           "release"}

Content == {None, Pinned, Raw, Spoilt} \cup Process \cup Command

Types ==
  /\ tree \in Tree
  /\ cmd \in [Process -> Command]
  /\ pc \in [Process -> Outside \cup Inside]
  /\ timer \in [Process -> Nat]
  /\ files \in Content
  /\ manifest \in [of : Content, command : Command \cup {None}]
  /\ stages \subseteq Process /\ built \subseteq Process
  /\ lock \in Lock
  /\ result \in [Process -> {"none", "ok", "timeout", "enoent", "failed"}]
  /\ killed \subseteq Process /\ robbed \subseteq Process
  /\ damages \in Nat

\* Which trees pass which places.
Where ==
  \A p \in Process :
    /\ pc[p] \in {"make", "put"} => tree \notin Filled
    /\ pc[p] \in {"unpack", "plain"} => tree \in {"uws musl", "uws compiled"}
    /\ pc[p] = "strip" => tree = "uws compiled"
    /\ pc[p] = "compile" => tree \in {"uws compiled", "bearssl objects"}
    /\ pc[p] = "seal" => tree \in Paired \cup {"uws compiled", "bearssl objects"}

\* As long as nobody is robbed the lock has at most one holder.
Alone ==
  robbed = {} =>
    /\ \A p, q \in Process : Holds(p) /\ Holds(q) => p = q
    /\ \A p \in Process : Holds(p) => lock # Free

RawManifest == [of |-> Raw, command |-> None]

\* ... and what that holder finds is what it left there itself, while the tree
\* that it refused stays refused.
Owns(p) ==
  /\ pc[p] = "clear" => ~Verified(p)
  /\ pc[p] \in {"make", "put"} => IF tree \in Staged THEN files = None /\ manifest = NoManifest
                                                    ELSE ~Verified(p)
  /\ pc[p] = "unpack" => files = p /\ manifest = NoManifest
  /\ pc[p] = "plain" =>
       files = (IF tree = "uws musl" THEN Pinned ELSE Raw) /\ manifest = NoManifest
  /\ pc[p] = "strip" => files = Raw /\ manifest = RawManifest
  /\ pc[p] = "compile" => files = p /\ manifest \in {NoManifest, RawManifest}
  /\ pc[p] = "seal" => files = Product(p)

Owned == robbed = {} => \A p \in Process : Owns(p)

\* A manifest names what the archive or the compiler it records gives ...
Certified ==
  tree \notin Filled \/ robbed = {} =>
    \/ manifest = NoManifest
    \/ tree \notin Keyed /\ manifest = [of |-> Pinned, command |-> None]
    \/ tree \in Keyed /\ \E c \in Command : manifest = [of |-> c, command |-> c]
    \/ tree = "uws compiled" /\ manifest = RawManifest

\* ... also where it is hashed at the path between two renames.
Sealing ==
  tree = "trust anchors" => \A p \in Process : pc[p] = "seal" => files = Pinned

\* With nobody killed a lock has a holder, is as old as the hold and, when no
\* hold is longer than StaleAge, is never taken for an abandoned one.
Timely ==
  killed = {} =>
    /\ robbed = {}
    /\ \A p \in Process : Holds(p) => lock = timer[p] /\ timer[p] <= HoldMax
    /\ \A p \in Process : pc[p] # "break"

\* A lock and a stage belong to a call that will remove them.
Tended ==
  killed = {} =>
    /\ lock # Free => \E p \in Process : Holds(p)
    /\ tree \in Tidy => \A p \in stages : pc[p] \in {"make", "put", "release"}

\* Who has made the tree is about to put it in its place, or it is there.
Whole == \A p \in Process : Verified(p)

MadeOnce ==
  killed = {} /\ damages = 0 /\ Alike =>
    /\ \A p, q \in built : p = q
    /\ \A p \in built :
         pc[p] \in {"put", "seal"} \/ (pc[p] = "plain" /\ tree = "uws musl") \/ Whole

ToolchainInv ==
  /\ Types /\ Where /\ Alone /\ Tended
  /\ Owned /\ Certified /\ Sealing

-----------------------------------------------------------------------------
\* Contents are what they are called, and no manifest is one of none.
LEMMA Contents ==
  /\ {None, Pinned, Raw, Spoilt} \subseteq Content
  /\ Process \subseteq Content /\ Command \subseteq Content
  /\ NoManifest \in [of : Content, command : Command \cup {None}]
  /\ RawManifest \in [of : Content, command : Command \cup {None}]
  /\ \A c \in Command : c \notin {None, Pinned, Raw, Spoilt} /\ c \notin Process
  /\ \A p \in Process : p \notin {None, Pinned, Raw, Spoilt}
BY DEF Content, NoManifest, RawManifest

\* The lock's age.
LEMMA Ages ==
  /\ Free \in Lock /\ Fresh \in Lock /\ Fresh # Free
  /\ \A a \in Lock : Aged(a) \in Lock /\ (Aged(a) = Free <=> a = Free)
  /\ \A a \in Lock : a # Free /\ a <= StaleAge => Aged(a) = a + 1
BY SMT DEF Lock, Free, Fresh, Aged

\* Every variable keeps its type.
LEMMA TypesKept == Types /\ [Next]_vars => Types'
<1> SUFFICES ASSUME Types, [Next]_vars PROVE Types'
  OBVIOUS
<1> USE Contents, Ages DEF Types, Outside, Inside
<1>1. ASSUME NEW p \in Process, Start(p) PROVE Types'
  BY <1>1 DEF Start, Go, fixed, disk, fate
<1>2. ASSUME NEW p \in Process, Step(p) PROVE Types'
  <2>1. CASE Wait(p)
    <3>1. CASE Hit(p)
      BY <3>1 DEF Hit, Restart, Ends, fixed, disk, fate
    <3>2. CASE Miss(p)
      BY <3>2 DEF Miss, Go, fixed, disk, fate
    <3>3. CASE TakeLock(p)
      BY <3>3 DEF TakeLock, Go, Restart, fixed, disk, fate
    <3>4. CASE LockBusy(p)
      BY <3>4 DEF LockBusy, Go, Restart, fixed, disk, fate
    <3>5. CASE GiveUp(p)
      BY <3>5 DEF GiveUp, Go, Restart, Ends, fixed, disk, fate
    <3>6. CASE PollMiss(p)
      BY <3>6 DEF PollMiss, Go, fixed, disk, fate
    <3>7. CASE LockGone(p)
      BY <3>7 DEF LockGone, Go, Restart, fixed, disk, fate
    <3>8. CASE LockThere(p)
      BY <3>8 DEF LockThere, Go, fixed, disk, fate
    <3>9. CASE StatThrows(p)
      BY <3>9 DEF StatThrows, Go, Restart, Ends, fixed, disk, fate
    <3>10. CASE StatFresh(p)
      BY <3>10 DEF StatFresh, Go, fixed, disk, fate
    <3>11. CASE StatStale(p)
      BY <3>11 DEF StatStale, Go, fixed, disk, fate
    <3>12. CASE BreakLock(p)
      BY <3>12 DEF BreakLock, Go, Restart, RemoveLock, fixed, disk, fate
    <3> QED BY <2>1, <3>1, <3>2, <3>3, <3>4, <3>5, <3>6, <3>7, <3>8, <3>9, <3>10, <3>11,
               <3>12 DEF Wait
  <2>2. CASE UnderLock(p)
    <3>1. CASE RecheckHit(p)
      BY <3>1 DEF RecheckHit, Go, Ends, fixed, disk, fate
    <3>2. CASE RecheckMiss(p)
      BY <3>2 DEF RecheckMiss, Go, fixed, disk, fate
    <3>3. CASE Clear(p)
      BY <3>3 DEF Clear, Go, fixed, disk, fate
    <3>4. CASE NoArchive(p)
      BY <3>4 DEF NoArchive, Go, Fails, Ends, fixed, disk, fate
    <3>5. CASE Make(p)
      BY <3>5 DEF Make, Go, fixed, disk, fate
    <3>6. CASE MakeFails(p)
      BY <3>6 DEF MakeFails, Go, Fails, Ends, fixed, disk, fate
    <3>7. CASE Put(p)
      BY <3>7 DEF Put, Go, Ends, fixed, disk, fate
    <3>8. CASE PutFails(p)
      BY <3>8 DEF PutFails, Go, Fails, Ends, fixed, disk, fate
    <3>9. CASE PutFile(p)
      BY <3>9 DEF PutFile, Go, Product, fixed, fate
    <3>10. CASE Unpack(p)
      BY <3>10 DEF Unpack, Go, fixed, disk, fate
    <3>11. CASE UnpackFails(p)
      BY <3>11 DEF UnpackFails, Go, Fails, Ends, fixed, disk, fate
    <3>12. CASE Plain(p)
      BY <3>12 DEF Plain, Go, fixed, disk, fate
    <3>13. CASE PlainFails(p)
      BY <3>13 DEF PlainFails, Go, Fails, Ends, fixed, disk, fate
    <3>14. CASE Strip(p)
      BY <3>14 DEF Strip, Go, fixed, disk, fate
    <3>15. CASE Compile(p)
      BY <3>15 DEF Compile, Go, fixed, disk, fate
    <3>16. CASE CompileFails(p)
      BY <3>16 DEF CompileFails, Go, Fails, Ends, fixed, disk, fate
    <3>17. CASE Seal(p)
      <4>1. Product(p) \in Content /\ cmd[p] \in Command
        BY DEF Product
      <4> QED BY <3>17, <4>1 DEF Seal, Go, Ends, fixed, fate
    <3>18. CASE SealFails(p)
      BY <3>18 DEF SealFails, Go, Fails, Ends, fixed, disk, fate
    <3>19. CASE Release(p)
      BY <3>19 DEF Release, Go, RemoveLock, Restart, fixed, disk, fate
    <3> QED BY <2>2, <3>1, <3>2, <3>3, <3>4, <3>5, <3>6, <3>7, <3>8, <3>9, <3>10, <3>11, <3>12,
               <3>13, <3>14, <3>15, <3>16, <3>17, <3>18, <3>19 DEF UnderLock
  <2>3. CASE UseEnds(p)
    BY <2>3 DEF UseEnds, Go, fixed, disk, fate
  <2> QED BY <1>2, <2>1, <2>2, <2>3 DEF Step
<1>3. ASSUME NEW p \in Process, Kill(p) PROVE Types'
  BY <1>3 DEF Kill, Restart, fixed, disk
<1>4. CASE Damage
  BY <1>4 DEF Damage, fixed
<1>5. CASE Tick
  BY <1>5 DEF Tick, fixed, disk, fate
<1>6. CASE UNCHANGED vars
  BY <1>6 DEF vars, fixed, disk, fate
<1> QED BY <1>1, <1>2, <1>3, <1>4, <1>5, <1>6 DEF Next, Over

-----------------------------------------------------------------------------
\* A step that is not under the lock touches neither the path nor the manifest,
\* and leads at most to the look that comes after the mkdir.
LEMMA Quiet ==
  ASSUME Types, NEW p \in Process, Start(p) \/ Wait(p) \/ UseEnds(p) \/ Kill(p)
  PROVE  /\ UNCHANGED <<tree, cmd, files, manifest, stages, built>>
         /\ \A q \in Process \ {p} : pc'[q] = pc[q]
         /\ pc'[p] \in Outside \cup {"recheck"}
         /\ robbed \subseteq robbed'
<1> USE DEF Types, Outside, Inside
<1>1. CASE Start(p) \/ UseEnds(p)
  BY <1>1 DEF Start, UseEnds, Go, fixed, disk, fate
<1>2. CASE Wait(p)
  <2>1. CASE Hit(p)
    BY <2>1 DEF Hit, Restart, Ends, fixed, disk, fate
  <2>2. CASE Miss(p)
    BY <2>2 DEF Miss, Go, fixed, disk, fate
  <2>3. CASE TakeLock(p)
    BY <2>3 DEF TakeLock, Go, Restart, fixed, disk, fate
  <2>4. CASE LockBusy(p)
    BY <2>4 DEF LockBusy, Go, Restart, fixed, disk, fate
  <2>5. CASE GiveUp(p)
    BY <2>5 DEF GiveUp, Go, Restart, Ends, fixed, disk, fate
  <2>6. CASE PollMiss(p)
    BY <2>6 DEF PollMiss, Go, fixed, disk, fate
  <2>7. CASE LockGone(p)
    BY <2>7 DEF LockGone, Go, Restart, fixed, disk, fate
  <2>8. CASE LockThere(p)
    BY <2>8 DEF LockThere, Go, fixed, disk, fate
  <2>9. CASE StatThrows(p)
    BY <2>9 DEF StatThrows, Go, Restart, Ends, fixed, disk, fate
  <2>10. CASE StatFresh(p)
    BY <2>10 DEF StatFresh, Go, fixed, disk, fate
  <2>11. CASE StatStale(p)
    BY <2>11 DEF StatStale, Go, fixed, disk, fate
  <2>12. CASE BreakLock(p)
    BY <2>12 DEF BreakLock, Go, Restart, RemoveLock, fixed, disk, fate
  <2> QED BY <1>2, <2>1, <2>2, <2>3, <2>4, <2>5, <2>6, <2>7, <2>8, <2>9, <2>10, <2>11,
             <2>12 DEF Wait
<1>3. CASE Kill(p)
  BY <1>3 DEF Kill, Restart, fixed, disk
<1> QED BY <1>1, <1>2, <1>3

\* What neither the passing of time nor the environment moves.
LEMMA Still ==
  ASSUME Damage \/ Tick \/ UNCHANGED vars
  PROVE  UNCHANGED <<tree, cmd, pc, manifest, stages, built, robbed, killed>>
BY DEF Damage, Tick, vars, fixed, disk, fate

\* Each kind of tree takes its own way from the look under the lock.
LEMMA WhereKept ==
  ASSUME Types, Where, [Next]_vars
  PROVE  Where'
<1> USE DEF Outside, Inside, Where
<1>1. ASSUME NEW p \in Process, Start(p) \/ Wait(p) \/ UseEnds(p) \/ Kill(p) PROVE Where'
  BY <1>1, Quiet
<1>2. ASSUME NEW p \in Process, UnderLock(p) PROVE Where'
  <2>1. CASE RecheckHit(p)
    BY <2>1 DEF RecheckHit, Go, Ends, fixed, disk, fate, Types
  <2>2. CASE RecheckMiss(p)
    BY <2>2 DEF RecheckMiss, Go, fixed, disk, fate, Types
  <2>3. CASE Clear(p)
    BY <2>3 DEF Clear, Go, fixed, Types, Tree, Staged, Paired, Filled
  <2>4. CASE NoArchive(p)
    BY <2>4 DEF NoArchive, Go, Fails, Ends, fixed, disk, fate, Types
  <2>5. CASE Make(p)
    BY <2>5 DEF Make, Go, fixed, disk, fate, Types
  <2>6. CASE MakeFails(p)
    BY <2>6 DEF MakeFails, Go, Fails, Ends, fixed, disk, fate, Types
  <2>7. CASE Put(p)
    BY <2>7 DEF Put, Go, Ends, fixed, disk, fate, Types
  <2>8. CASE PutFails(p)
    BY <2>8 DEF PutFails, Go, Fails, Ends, fixed, disk, fate, Types
  <2>9. CASE PutFile(p)
    BY <2>9 DEF PutFile, Go, fixed, disk, fate, Types
  <2>10. CASE Unpack(p)
    BY <2>10 DEF Unpack, Go, fixed, disk, fate, Types
  <2>11. CASE UnpackFails(p)
    BY <2>11 DEF UnpackFails, Go, Fails, Ends, fixed, disk, fate, Types
  <2>12. CASE Plain(p)
    BY <2>12 DEF Plain, Go, fixed, disk, fate, Types
  <2>13. CASE PlainFails(p)
    BY <2>13 DEF PlainFails, Go, Fails, Ends, fixed, disk, fate, Types
  <2>14. CASE Strip(p)
    BY <2>14 DEF Strip, Go, fixed, disk, fate, Types
  <2>15. CASE Compile(p)
    BY <2>15 DEF Compile, Go, fixed, disk, fate, Types
  <2>16. CASE CompileFails(p)
    BY <2>16 DEF CompileFails, Go, Fails, Ends, fixed, disk, fate, Types
  <2>17. CASE Seal(p)
    BY <2>17 DEF Seal, Go, Ends, fixed, disk, fate, Types
  <2>18. CASE SealFails(p)
    BY <2>18 DEF SealFails, Go, Fails, Ends, fixed, disk, fate, Types
  <2>19. CASE Release(p)
    BY <2>19 DEF Release, Go, RemoveLock, Restart, fixed, disk, fate, Types
  <2> QED BY <1>2, <2>1, <2>2, <2>3, <2>4, <2>5, <2>6, <2>7, <2>8, <2>9, <2>10, <2>11, <2>12,
             <2>13, <2>14, <2>15, <2>16, <2>17, <2>18, <2>19 DEF UnderLock
<1>3. CASE Damage
  BY <1>3, Still
<1>4. CASE Tick \/ UNCHANGED vars
  BY <1>4, Still
<1> QED BY <1>1, <1>2, <1>3, <1>4 DEF Next, Step, Over

-----------------------------------------------------------------------------
\* Waiting gives nobody the lock and takes it from nobody, unless the mkdir
\* succeeds or an old lock is removed.
LEMMA Looking ==
  ASSUME Types, NEW p \in Process, Start(p) \/ Wait(p) \/ UseEnds(p), ~TakeLock(p),
         ~BreakLock(p)
  PROVE  /\ UNCHANGED <<lock, robbed, killed, stages>>
         /\ \A q \in Process : (Holds(q)' <=> Holds(q)) /\ (Holds(q) => timer'[q] = timer[q])
         /\ \A q \in Process \ {p} : pc'[q] = pc[q]
<1> USE DEF Types, Outside, Inside, Holds
<1>1. CASE Start(p) \/ UseEnds(p)
  BY <1>1 DEF Start, UseEnds, Go, fixed, disk, fate
<1>2. CASE Wait(p)
  <2>1. CASE Hit(p)
    BY <2>1 DEF Hit, Restart, Ends, fixed, disk, fate
  <2>2. CASE Miss(p)
    BY <2>2 DEF Miss, Go, fixed, disk, fate
  <2>3. CASE LockBusy(p)
    BY <2>3 DEF LockBusy, Go, Restart, fixed, disk, fate
  <2>4. CASE GiveUp(p)
    BY <2>4 DEF GiveUp, Go, Restart, Ends, fixed, disk, fate
  <2>5. CASE PollMiss(p)
    BY <2>5 DEF PollMiss, Go, fixed, disk, fate
  <2>6. CASE LockGone(p)
    BY <2>6 DEF LockGone, Go, Restart, fixed, disk, fate
  <2>7. CASE LockThere(p)
    BY <2>7 DEF LockThere, Go, fixed, disk, fate
  <2>8. CASE StatThrows(p)
    BY <2>8 DEF StatThrows, Go, Restart, Ends, fixed, disk, fate
  <2>9. CASE StatFresh(p)
    BY <2>9 DEF StatFresh, Go, fixed, disk, fate
  <2>10. CASE StatStale(p)
    BY <2>10 DEF StatStale, Go, fixed, disk, fate
  <2> QED BY <1>2, <2>1, <2>2, <2>3, <2>4, <2>5, <2>6, <2>7, <2>8, <2>9, <2>10 DEF Wait
<1> QED BY <1>1, <1>2

\* Work under the lock leaves it to its holder.
LEMMA Working ==
  ASSUME Types, NEW p \in Process, UnderLock(p), ~Release(p)
  PROVE  /\ UNCHANGED <<lock, timer, robbed, killed, tree, cmd, damages>>
         /\ Holds(p) /\ \A q \in Process : Holds(q)' <=> Holds(q)
         /\ \A q \in Process : pc'[q] = "break" => pc[q] = "break"
<1> USE DEF Types, Outside, Inside, Holds
<1>1. CASE RecheckHit(p)
  BY <1>1 DEF RecheckHit, Go, Ends, fixed, fate
<1>2. CASE RecheckMiss(p)
  BY <1>2 DEF RecheckMiss, Go, fixed, fate
<1>3. CASE Clear(p)
  BY <1>3 DEF Clear, Go, fixed, fate
<1>4. CASE NoArchive(p)
  BY <1>4 DEF NoArchive, Go, Fails, Ends, fixed, fate
<1>5. CASE Make(p)
  BY <1>5 DEF Make, Go, fixed, fate
<1>6. CASE MakeFails(p)
  BY <1>6 DEF MakeFails, Go, Fails, Ends, fixed, fate
<1>7. CASE Put(p)
  BY <1>7 DEF Put, Go, Ends, fixed, fate
<1>8. CASE PutFails(p)
  BY <1>8 DEF PutFails, Go, Fails, Ends, fixed, fate
<1>9. CASE PutFile(p)
  BY <1>9 DEF PutFile, Go, fixed, fate
<1>10. CASE Unpack(p)
  BY <1>10 DEF Unpack, Go, fixed, fate
<1>11. CASE UnpackFails(p)
  BY <1>11 DEF UnpackFails, Go, Fails, Ends, fixed, fate
<1>12. CASE Plain(p)
  BY <1>12 DEF Plain, Go, fixed, fate
<1>13. CASE PlainFails(p)
  BY <1>13 DEF PlainFails, Go, Fails, Ends, fixed, fate
<1>14. CASE Strip(p)
  BY <1>14 DEF Strip, Go, fixed, fate
<1>15. CASE Compile(p)
  BY <1>15 DEF Compile, Go, fixed, fate
<1>16. CASE CompileFails(p)
  BY <1>16 DEF CompileFails, Go, Fails, Ends, fixed, fate
<1>17. CASE Seal(p)
  BY <1>17 DEF Seal, Go, Ends, fixed, fate
<1>18. CASE SealFails(p)
  BY <1>18 DEF SealFails, Go, Fails, Ends, fixed, fate
<1> QED BY <1>1, <1>2, <1>3, <1>4, <1>5, <1>6, <1>7, <1>8, <1>9, <1>10, <1>11, <1>12, <1>13,
           <1>14, <1>15, <1>16, <1>17, <1>18 DEF UnderLock

\* Nobody makes the lock's directory while it is there: two holders need a third
\* call that removes it under the first one's hands.
LEMMA AloneKept ==
  ASSUME Types, Alone, [Next]_vars
  PROVE  Alone'
<1> USE DEF Alone
<1>1. ASSUME NEW p \in Process, Start(p) \/ Wait(p) \/ UseEnds(p) PROVE Alone'
  <2>1. CASE TakeLock(p)
    <3>1. lock = Free /\ lock' # Free /\ robbed' = robbed
      BY <2>1, Ages DEF TakeLock, CanMake
    <3>2. \A q \in Process : Holds(q)' <=> Holds(q) \/ q = p
      BY <2>1 DEF TakeLock, Go, Holds, Types
    <3> QED BY <3>1, <3>2
  <2>2. CASE BreakLock(p)
    <3>1. \A q \in Process : Holds(q)' <=> Holds(q)
      BY <2>2 DEF BreakLock, Go, Holds, Types
    <3>2. ~Holds(p)
      BY <2>2 DEF BreakLock, Go, Holds
    <3>3. robbed' = robbed \cup {q \in Process \ {p} : Holds(q)}
      BY <2>2 DEF BreakLock, RemoveLock
    <3> QED BY <3>1, <3>2, <3>3
  <2> QED BY <1>1, <2>1, <2>2, Looking
<1>2. ASSUME NEW p \in Process, UnderLock(p) PROVE Alone'
  <2>1. CASE Release(p)
    <3>1. \A q \in Process : Holds(q)' <=> Holds(q) /\ q # p
      BY <2>1 DEF Release, Go, Holds, Types
    <3>2. robbed' = robbed \cup {q \in Process \ {p} : Holds(q)}
      BY <2>1 DEF Release, RemoveLock
    <3> QED BY <3>1, <3>2
  <2> QED BY <1>2, <2>1, Working
<1>3. ASSUME NEW p \in Process, Kill(p) PROVE Alone'
  <2>1. \A q \in Process : Holds(q)' => Holds(q)
    BY <1>3 DEF Kill, Holds, Types
  <2> QED BY <1>3, <2>1 DEF Kill
<1>4. CASE Tick
  <2>1. \A q \in Process : Holds(q)' <=> Holds(q)
    BY <1>4 DEF Tick, Holds
  <2> QED BY <1>4, <2>1, Ages DEF Tick, Types
<1>5. CASE Damage \/ UNCHANGED vars
  BY <1>5 DEF Damage, vars, Holds
<1> QED BY <1>1, <1>2, <1>3, <1>4, <1>5 DEF Next, Step, Over

\* A lock is left to no one: every call that gets it, or a place in the cache for
\* its stage, goes on to the step that removes it.
LEMMA TendedKept ==
  ASSUME Types, Where, Tended, [Next]_vars
  PROVE  Tended'
<1> USE DEF Tended
<1>1. ASSUME NEW p \in Process, Start(p) \/ Wait(p) \/ UseEnds(p) PROVE Tended'
  <2>0. tree' = tree /\ stages' = stages /\ \A q \in Process \ {p} : pc'[q] = pc[q]
    BY <1>1, Quiet
  <2>1. pc[p] \notin {"make", "put", "release"}
    BY <1>1 DEF Start, Wait, UseEnds, Go, Hit, Miss, TakeLock, LockBusy, GiveUp, PollMiss,
       LockGone,
                LockThere, StatThrows, StatFresh, StatStale, BreakLock
  <2>2. killed = {} /\ tree \in Tidy => \A q \in stages : pc'[q] = pc[q]
    BY <2>0, <2>1 DEF Types
  <2>3. CASE TakeLock(p)
    <3>1. Holds(p)'
      BY <2>3 DEF TakeLock, Go, Holds, Types
    <3> QED BY <2>0, <2>2, <2>3, <3>1 DEF TakeLock, fate
  <2>4. CASE BreakLock(p)
    BY <2>0, <2>2, <2>4 DEF BreakLock, RemoveLock, fate
  <2> QED BY <1>1, <2>0, <2>2, <2>3, <2>4, Looking
<1>2. ASSUME NEW p \in Process, UnderLock(p) PROVE Tended'
  <2>1. CASE Release(p)
    <3>1. lock' = Free /\ tree' = tree /\ killed' = killed
      BY <2>1 DEF Release, RemoveLock, fixed, fate
    <3>2. tree \in Tidy => \A q \in stages' : q \in stages /\ pc'[q] = pc[q]
      BY <2>1 DEF Release, Go, Types
    <3> QED BY <3>1, <3>2
  <2>2. ASSUME ~Release(p)
        PROVE  killed = {} /\ tree \in Tidy => \A q \in stages' : pc'[q] \in {"make", "put",
            "release"}
    <3>1. CASE RecheckHit(p)
      BY <3>1 DEF RecheckHit, Go, Ends, Types, Where, Tidy, Staged, Paired, Filled, Tree,
         fixed, disk
    <3>2. CASE RecheckMiss(p)
      BY <3>2 DEF RecheckMiss, Go, Types, Where, Tidy, Staged, Paired, Filled, Tree, fixed, disk
    <3>3. CASE Clear(p)
      <4>1. tree \in Tidy => pc' = [pc EXCEPT ![p] = "make"]
        BY <3>3 DEF Clear, Go, Tidy
      <4>2. stages' \subseteq stages \cup {p}
        BY <3>3 DEF Clear
      <4> QED BY <4>1, <4>2 DEF Types
    <3>4. CASE NoArchive(p)
      BY <3>4 DEF NoArchive, Go, Fails, Ends, Types, Where, Tidy, Staged, Paired, Filled, Tree,
         fixed, disk
    <3>5. CASE Make(p)
      BY <3>5 DEF Make, Go, Types, Where, Tidy, Staged, Paired, Filled, Tree, fixed, disk
    <3>6. CASE MakeFails(p)
      BY <3>6 DEF MakeFails, Go, Fails, Ends, Types, Where, Tidy, Staged, Paired, Filled, Tree,
         fixed, disk
    <3>7. CASE Put(p)
      BY <3>7 DEF Put, Go, Ends, Types, Where, Tidy, Staged, Paired, Filled, Tree, fixed, disk
    <3>8. CASE PutFails(p)
      BY <3>8 DEF PutFails, Go, Fails, Ends, Types, Where, Tidy, Staged, Paired, Filled, Tree,
         fixed, disk
    <3>9. CASE PutFile(p)
      BY <3>9 DEF PutFile, Go, Types, Where, Tidy, Staged, Paired, Filled, Tree, fixed, disk
    <3>10. CASE Unpack(p)
      BY <3>10 DEF Unpack, Go, Types, Where, Tidy, Staged, Paired, Filled, Tree, fixed, disk
    <3>11. CASE UnpackFails(p)
      BY <3>11 DEF UnpackFails, Go, Fails, Ends, Types, Where, Tidy, Staged, Paired, Filled,
         Tree, fixed, disk
    <3>12. CASE Plain(p)
      BY <3>12 DEF Plain, Go, Types, Where, Tidy, Staged, Paired, Filled, Tree, fixed, disk
    <3>13. CASE PlainFails(p)
      BY <3>13 DEF PlainFails, Go, Fails, Ends, Types, Where, Tidy, Staged, Paired, Filled,
         Tree, fixed, disk
    <3>14. CASE Strip(p)
      BY <3>14 DEF Strip, Go, Types, Where, Tidy, Staged, Paired, Filled, Tree, fixed, disk
    <3>15. CASE Compile(p)
      BY <3>15 DEF Compile, Go, Types, Where, Tidy, Staged, Paired, Filled, Tree, fixed, disk
    <3>16. CASE CompileFails(p)
      BY <3>16 DEF CompileFails, Go, Fails, Ends, Types, Where, Tidy, Staged, Paired, Filled,
         Tree, fixed, disk
    <3>17. CASE Seal(p)
      BY <3>17 DEF Seal, Go, Ends, Types, Where, Tidy, Staged, Paired, Filled, Tree, fixed, disk
    <3>18. CASE SealFails(p)
      BY <3>18 DEF SealFails, Go, Fails, Ends, Types, Where, Tidy, Staged, Paired, Filled,
         Tree, fixed, disk
    <3> QED BY <1>2, <2>2, <3>1, <3>2, <3>3, <3>4, <3>5, <3>6, <3>7, <3>8, <3>9, <3>10, <3>11,
               <3>12, <3>13, <3>14, <3>15, <3>16, <3>17, <3>18 DEF UnderLock
  <2> QED BY <1>2, <2>1, <2>2, Working
<1>3. ASSUME NEW p \in Process, Kill(p) PROVE Tended'
  BY <1>3 DEF Kill
<1>4. CASE Tick
  BY <1>4, Ages DEF Tick, Holds, Types, fixed, disk, fate
<1>5. CASE Damage \/ UNCHANGED vars
  BY <1>5 DEF Damage, vars, Holds, fixed, disk, fate
<1> QED BY <1>1, <1>2, <1>3, <1>4, <1>5 DEF Next, Step, Over

\* No call takes the lock of a live one for abandoned: it is as old as the hold,
\* and a hold ends before the lock is stale.
LEMMA TimelyKept ==
  ASSUME HoldMax <= StaleAge, Types, Alone, Tended, Timely, [Next]_vars
  PROVE  Timely'
<1> USE DEF Timely
<1>1. ASSUME NEW p \in Process, Start(p) \/ Wait(p) \/ UseEnds(p) PROVE Timely'
  <2>1. CASE TakeLock(p)
    <3>1. \A q \in Process : ~Holds(q) \/ killed # {}
      BY <2>1 DEF TakeLock, CanMake, Alone
    <3>2. \A q \in Process : Holds(q)' => Holds(q) \/ q = p
      BY <2>1 DEF TakeLock, Go, Holds, Types
    <3>3. lock' = 0 /\ timer'[p] = 0 /\ robbed' = robbed /\ killed' = killed
      BY <2>1 DEF TakeLock, Restart, Fresh, Types, fate
    <3>4. \A q \in Process : pc'[q] = "break" => pc[q] = "break"
      BY <2>1 DEF TakeLock, Go, Types
    <3> QED BY <3>1, <3>2, <3>3, <3>4
  <2>2. CASE BreakLock(p)
    BY <2>2 DEF BreakLock, Go, fate
  <2>3. ASSUME ~TakeLock(p), ~BreakLock(p) PROVE Timely'
    <3>1. killed = {} => ~IsStale(lock)
      BY DEF Tended, IsStale, Free, Types, Lock
    <3>2. killed = {} => pc'[p] # "break"
      <4>1. CASE Start(p) \/ UseEnds(p)
        BY <4>1 DEF Start, UseEnds, Go, Types
      <4>2. CASE Wait(p)
        BY <2>3, <3>1, <4>2
           DEF Wait, Hit, Miss, LockBusy, GiveUp, PollMiss, LockGone, LockThere, StatThrows,
               StatFresh, StatStale, Go, Types
      <4> QED BY <1>1, <4>1, <4>2
    <3> QED BY <1>1, <2>3, <3>2, Looking
  <2> QED BY <2>1, <2>2, <2>3
<1>2. ASSUME NEW p \in Process, UnderLock(p) PROVE Timely'
  <2>1. CASE Release(p)
    <3>1. \A q \in Process : Holds(q)' <=> Holds(q) /\ q # p
      BY <2>1 DEF Release, Go, Holds, Types
    <3>2. Holds(p) /\ \A q \in Process : pc'[q] = "break" => pc[q] = "break"
      BY <2>1 DEF Release, Go, Holds, Types
    <3>3. /\ robbed' = robbed \cup {q \in Process \ {p} : Holds(q)} /\ killed' = killed
      BY <2>1 DEF Release, RemoveLock, fate
    <3> QED BY <3>1, <3>2, <3>3 DEF Alone
  <2> QED BY <1>2, <2>1, Working
<1>3. ASSUME NEW p \in Process, Kill(p) PROVE Timely'
  BY <1>3 DEF Kill
<1>4. CASE Tick
  <2>1. \A q \in Process : Holds(q)' <=> Holds(q)
    BY <1>4 DEF Tick, Holds
  <2>2. \A q \in Process : Holds(q) => timer[q] < HoldMax /\ timer'[q] = timer[q] + 1
    BY <1>4 DEF Tick
  <2>3. \A q \in Process : killed = {} /\ Holds(q) => lock' = timer'[q] /\ timer'[q] <= HoldMax
    <3> SUFFICES ASSUME NEW q \in Process, killed = {}, Holds(q)
                 PROVE  lock' = timer'[q] /\ timer'[q] <= HoldMax
      OBVIOUS
    <3>1. lock = timer[q] /\ timer[q] \in Nat /\ timer[q] < HoldMax /\ timer'[q] = timer[q] + 1
      BY <2>2 DEF Types
    <3>2. lock' = IF lock = Free THEN Free ELSE IF lock > StaleAge THEN lock ELSE lock + 1
      BY <1>4 DEF Tick, Aged
    <3> QED BY <3>1, <3>2 DEF Free
  <2>4. pc' = pc /\ robbed' = robbed /\ killed' = killed
    BY <1>4, Still
  <2> QED BY <2>1, <2>3, <2>4
<1>5. CASE Damage \/ UNCHANGED vars
  BY <1>5 DEF Damage, vars, Holds, fate
<1> QED BY <1>1, <1>2, <1>3, <1>4, <1>5 DEF Next, Step, Over

\* A step under the lock moves its holder alone.
LEMMA Under ==
  ASSUME Types, NEW p \in Process, UnderLock(p)
  PROVE  /\ \A q \in Process \ {p} : pc'[q] = pc[q]
         /\ tree' = tree /\ cmd' = cmd /\ robbed \subseteq robbed' /\ Holds(p)
<1> USE DEF Types, Holds
<1>1. CASE RecheckHit(p)
  BY <1>1 DEF RecheckHit, Go, Ends, fixed, fate
<1>2. CASE RecheckMiss(p)
  BY <1>2 DEF RecheckMiss, Go, fixed, fate
<1>3. CASE Clear(p)
  BY <1>3 DEF Clear, Go, fixed, fate
<1>4. CASE NoArchive(p)
  BY <1>4 DEF NoArchive, Go, Fails, Ends, fixed, fate
<1>5. CASE Make(p)
  BY <1>5 DEF Make, Go, fixed, fate
<1>6. CASE MakeFails(p)
  BY <1>6 DEF MakeFails, Go, Fails, Ends, fixed, fate
<1>7. CASE Put(p)
  BY <1>7 DEF Put, Go, Ends, fixed, fate
<1>8. CASE PutFails(p)
  BY <1>8 DEF PutFails, Go, Fails, Ends, fixed, fate
<1>9. CASE PutFile(p)
  BY <1>9 DEF PutFile, Go, fixed, fate
<1>10. CASE Unpack(p)
  BY <1>10 DEF Unpack, Go, fixed, fate
<1>11. CASE UnpackFails(p)
  BY <1>11 DEF UnpackFails, Go, Fails, Ends, fixed, fate
<1>12. CASE Plain(p)
  BY <1>12 DEF Plain, Go, fixed, fate
<1>13. CASE PlainFails(p)
  BY <1>13 DEF PlainFails, Go, Fails, Ends, fixed, fate
<1>14. CASE Strip(p)
  BY <1>14 DEF Strip, Go, fixed, fate
<1>15. CASE Compile(p)
  BY <1>15 DEF Compile, Go, fixed, fate
<1>16. CASE CompileFails(p)
  BY <1>16 DEF CompileFails, Go, Fails, Ends, fixed, fate
<1>17. CASE Seal(p)
  BY <1>17 DEF Seal, Go, Ends, fixed, fate
<1>18. CASE SealFails(p)
  BY <1>18 DEF SealFails, Go, Fails, Ends, fixed, fate
<1>19. CASE Release(p)
  BY <1>19 DEF Release, Go, RemoveLock, Restart, fixed, fate
<1> QED BY <1>1, <1>2, <1>3, <1>4, <1>5, <1>6, <1>7, <1>8, <1>9, <1>10, <1>11, <1>12, <1>13,
           <1>14, <1>15, <1>16, <1>17, <1>18, <1>19 DEF UnderLock

\* Holders that are alone find what they left, and refuse a tree until they have
\* replaced it.
LEMMA OwnedKept ==
  ASSUME Types, Where, Alone, Owned, [Next]_vars
  PROVE  Owned'
<1> USE Contents DEF Owned, Inside, Outside
<1>1. ASSUME NEW p \in Process, Start(p) \/ Wait(p) \/ UseEnds(p) \/ Kill(p) PROVE Owned'
  <2>1. /\ UNCHANGED <<tree, cmd, files, manifest>> /\ (robbed' = {} => robbed = {})
        /\ \A q \in Process \ {p} : pc'[q] = pc[q]
        /\ pc'[p] \in Outside \cup {"recheck"}
    BY <1>1, Quiet
  <2>2. Owns(p)'
    BY <2>1 DEF Owns
  <2>3. \A q \in Process \ {p} : Owns(q)' <=> Owns(q)
    BY <2>1 DEF Owns, Verified, Product
  <2> QED BY <2>1, <2>2, <2>3
<1>2. ASSUME NEW p \in Process, UnderLock(p) PROVE Owned'
  <2>u. /\ \A q \in Process \ {p} : pc'[q] = pc[q]
        /\ tree' = tree /\ cmd' = cmd /\ robbed \subseteq robbed' /\ Holds(p)
    BY <1>2, Under
  <2>o. ASSUME robbed = {} PROVE Owns(p)
    BY <2>o
  <2>p. ASSUME robbed = {} PROVE Owns(p)'
    <3>1. CASE RecheckHit(p)
      BY <3>1, <2>p, <2>o, <2>u DEF RecheckHit, Go, Ends, Owns, Verified, Types, fixed, disk
    <3>2. CASE RecheckMiss(p)
      BY <3>2, <2>p, <2>o, <2>u DEF RecheckMiss, Go, Owns, Verified, Types, fixed, disk
    <3>3. CASE Clear(p)
      BY <3>3, <2>p, <2>o, <2>u DEF Clear, Go, Owns, Verified, Types, Tree, Staged, Paired,
         Filled
    <3>4. CASE NoArchive(p)
      BY <3>4, <2>p, <2>o, <2>u DEF NoArchive, Go, Fails, Ends, Owns, Verified, Types, fixed,
         disk
    <3>5. CASE Make(p)
      <4>1. Verified(p)' <=> Verified(p)
        BY <3>5 DEF Make, Verified, fixed, disk
      <4>2. pc[p] = "make" /\ pc'[p] = "put" /\ UNCHANGED <<tree, files, manifest>>
        BY <3>5 DEF Make, Go, Types, fixed, disk
      <4> QED BY <4>1, <4>2, <2>p, <2>o DEF Owns
    <3>6. CASE MakeFails(p)
      BY <3>6, <2>p, <2>o, <2>u DEF MakeFails, Go, Fails, Ends, Owns, Verified, Types, fixed,
         disk
    <3>7. CASE Put(p)
      BY <3>7, <2>p, <2>o, <2>u DEF Put, Go, Ends, Owns, Verified, Types, fixed, disk
    <3>8. CASE PutFails(p)
      BY <3>8, <2>p, <2>o, <2>u DEF PutFails, Go, Fails, Ends, Owns, Verified, Types, fixed,
         disk
    <3>9. CASE PutFile(p)
      <4>1. Product(p)' = Product(p)
        BY <2>u DEF Product
      <4>2. pc'[p] = "seal" /\ files' = Product(p)
        BY <3>9 DEF PutFile, Go, Types
      <4> QED BY <4>1, <4>2 DEF Owns
    <3>10. CASE Unpack(p)
      BY <3>10, <2>p, <2>o, <2>u DEF Unpack, Go, Owns, Verified, Types, fixed, disk
    <3>11. CASE UnpackFails(p)
      BY <3>11, <2>p, <2>o, <2>u DEF UnpackFails, Go, Fails, Ends, Owns, Verified, Types,
         fixed, disk
    <3>12. CASE Plain(p)
      BY <3>12, <2>p, <2>o, <2>u DEF Plain, Go, Owns, RawManifest, Types, Where
    <3>13. CASE PlainFails(p)
      BY <3>13, <2>p, <2>o, <2>u DEF PlainFails, Go, Fails, Ends, Owns, Verified, Types, fixed,
         disk
    <3>14. CASE Strip(p)
      BY <3>14, <2>p, <2>o, <2>u DEF Strip, Go, Owns, Verified, Types, fixed, disk
    <3>15. CASE Compile(p)
      BY <3>15, <2>p, <2>o, <2>u DEF Compile, Go, Owns, Product, Keyed, Types, Where, fixed
    <3>16. CASE CompileFails(p)
      BY <3>16, <2>p, <2>o, <2>u DEF CompileFails, Go, Fails, Ends, Owns, Verified, Types,
         fixed, disk
    <3>17. CASE Seal(p)
      BY <3>17, <2>p, <2>o, <2>u DEF Seal, Go, Ends, Owns, Verified, Types, fixed, disk
    <3>18. CASE SealFails(p)
      BY <3>18, <2>p, <2>o, <2>u DEF SealFails, Go, Fails, Ends, Owns, Verified, Types, fixed,
         disk
    <3>19. CASE Release(p)
      BY <3>19, <2>p, <2>o, <2>u DEF Release, Go, RemoveLock, Restart, Owns, Verified, Types,
         fixed, disk
    <3> QED BY <1>2, <3>1, <3>2, <3>3, <3>4, <3>5, <3>6, <3>7, <3>8, <3>9, <3>10, <3>11, <3>12,
               <3>13, <3>14, <3>15, <3>16, <3>17, <3>18, <3>19 DEF UnderLock
  <2>q. ASSUME robbed = {}, NEW q \in Process \ {p} PROVE Owns(q)'
    <3>1. pc'[q] \notin Inside
      BY <2>q, <2>u DEF Alone, Holds
    <3> QED BY <3>1 DEF Owns
  <2> QED BY <2>p, <2>q, <2>u
<1>3. CASE Damage
  BY <1>3 DEF Damage, Owns, Holds, fixed
<1>4. CASE Tick \/ UNCHANGED vars
  BY <1>4, Still DEF Owns, Verified, Product, Tick, vars, disk, fixed
<1> QED BY <1>1, <1>2, <1>3, <1>4 DEF Next, Step, Over

\* The manifest is written for what is there, or in a stage for what will be.
LEMMA CertifiedKept ==
  ASSUME Types, Where, Owned, Sealing, Certified, [Next]_vars
  PROVE  Certified'
<1> USE DEF Certified
<1>1. ASSUME NEW p \in Process, Start(p) \/ Wait(p) \/ UseEnds(p) \/ Kill(p) PROVE Certified'
  BY <1>1, Quiet
<1>2. ASSUME NEW p \in Process, UnderLock(p) PROVE Certified'
  <2>u. tree' = tree /\ cmd' = cmd /\ robbed \subseteq robbed'
    BY <1>2, Under
  <2>1. CASE Clear(p)
    BY <2>1, <2>u DEF Clear
  <2>2. CASE Put(p)
    BY <2>2, <2>u DEF Put, Staged, Filled, Keyed
  <2>3. CASE UnpackFails(p)
    BY <2>3, <2>u DEF UnpackFails
  <2>4. CASE Plain(p)
    <3>1. tree \in Filled /\ tree \in {"uws musl", "uws compiled"}
      BY <2>4 DEF Plain, Go, Where, Filled
    <3>2. robbed = {} => files = IF tree = "uws musl" THEN Pinned ELSE Raw
      BY <2>4 DEF Plain, Go, Owned, Owns
    <3>3. manifest' = [of |-> files, command |-> None]
      BY <2>4 DEF Plain
    <3> QED BY <3>1, <3>2, <3>3, <2>u DEF Keyed, RawManifest
  <2>5. CASE PlainFails(p)
    BY <2>5, <2>u DEF PlainFails
  <2>6. CASE Seal(p)
    <3>1. tree \in Paired \cup {"uws compiled", "bearssl objects"} /\ pc[p] = "seal"
      BY <2>6 DEF Seal, Go, Where
    <3>2. manifest' = [of |-> IF tree \in HashedInPlace THEN files ELSE Product(p),
                       command |-> IF tree \in Keyed THEN cmd[p] ELSE None]
      BY <2>6 DEF Seal
    <3>3. tree \in Filled /\ robbed = {} => files = Product(p)
      BY <3>1 DEF Owned, Owns
    <3>4. tree = "trust anchors" => files = Pinned
      BY <3>1 DEF Sealing
    <3>5. tree \notin Filled \/ robbed = {} => manifest'.of = Product(p)
      <4>1. tree \in HashedInPlace => tree \in Filled \/ tree = "trust anchors"
        BY DEF HashedInPlace
      <4>2. tree = "trust anchors" => Product(p) = Pinned
        BY DEF Product, Keyed
      <4> QED BY <3>2, <3>3, <3>4, <4>1, <4>2
    <3>6. cmd[p] \in Command
      BY DEF Types
    <3> QED BY <2>u, <3>2, <3>5, <3>6 DEF Product
  <2>c. CASE RecheckHit(p) \/ RecheckMiss(p) \/ NoArchive(p) \/ Make(p) \/ MakeFails(p)
             \/ PutFails(p) \/ PutFile(p) \/ Unpack(p) \/ Strip(p) \/ Compile(p)
             \/ CompileFails(p) \/ SealFails(p) \/ Release(p)
    <3>1. manifest' = manifest
      BY <2>c DEF RecheckHit, RecheckMiss, NoArchive, Make, MakeFails, PutFails, PutFile,
         Unpack, Strip, Compile, CompileFails, SealFails, Release, disk
    <3> QED BY <3>1, <2>u
  <2> QED BY <1>2, <2>c, <2>1, <2>2, <2>3, <2>4, <2>5, <2>6 DEF UnderLock
<1>3. CASE Damage \/ Tick \/ UNCHANGED vars
  BY <1>3, Still
<1> QED BY <1>1, <1>2, <1>3 DEF Next, Step, Over

\* The trust anchors are put in place whole, and nobody else writes them.
LEMMA SealingKept ==
  ASSUME Types, Where, Sealing, [Next]_vars
  PROVE  Sealing'
<1> USE DEF Sealing
<1>1. ASSUME NEW p \in Process, Start(p) \/ Wait(p) \/ UseEnds(p) \/ Kill(p) PROVE Sealing'
  BY <1>1, Quiet DEF Outside
<1>2. ASSUME NEW p \in Process, UnderLock(p) PROVE Sealing'
  <2>u. tree' = tree /\ \A q \in Process \ {p} : pc'[q] = pc[q]
    BY <1>2, Under
  <2>1. CASE Clear(p)
    BY <2>1, <2>u DEF Clear, Go, Paired, Types
  <2>2. CASE Put(p)
    BY <2>2 DEF Put, Staged
  <2>3. CASE PutFile(p)
    BY <2>3, <2>u DEF PutFile, Product, Keyed
  <2>4. CASE Unpack(p)
    BY <2>4, <2>u DEF Unpack, Go, Where
  <2>5. CASE UnpackFails(p)
    BY <2>5, <2>u DEF UnpackFails, Fails, Go, Where
  <2>6. CASE Plain(p)
    BY <2>6, <2>u DEF Plain, Go, Where
  <2>7. CASE PlainFails(p)
    BY <2>7, <2>u DEF PlainFails, Fails, Go, Where
  <2>8. CASE Strip(p)
    BY <2>8, <2>u DEF Strip, Go, Where
  <2>9. CASE Compile(p)
    BY <2>9, <2>u DEF Compile, Go, Where
  <2>10. CASE Seal(p)
    BY <2>10, <2>u DEF Seal, Go, Types
  <2>c. CASE RecheckHit(p) \/ RecheckMiss(p) \/ NoArchive(p) \/ Make(p) \/ MakeFails(p)
             \/ PutFails(p) \/ CompileFails(p) \/ SealFails(p) \/ Release(p)
    <3>1. files' = files /\ pc'[p] # "seal"
      BY <2>c DEF RecheckHit, RecheckMiss, NoArchive, Make, MakeFails, PutFails, CompileFails,
         SealFails, Release, Fails, Go, disk, Types
    <3> QED BY <3>1, <2>u
  <2> QED BY <1>2, <2>c, <2>1, <2>2, <2>3, <2>4, <2>5, <2>6, <2>7, <2>8, <2>9, <2>10
             DEF UnderLock
<1>3. CASE Damage
  BY <1>3 DEF Damage, Holds, fixed
<1>4. CASE Tick \/ UNCHANGED vars
  BY <1>4 DEF Tick, vars, fixed, disk
<1> QED BY <1>1, <1>2, <1>3, <1>4 DEF Next, Step, Over

-----------------------------------------------------------------------------
\* A lone holder at work on the tree is not looking at one it would accept.
LEMMA Refused ==
  ASSUME Types, Owned, Where, robbed = {}, NEW p \in Process,
         pc[p] \in {"clear", "make", "put", "unpack", "plain", "strip", "compile"}
  PROVE  ~Verified(p)
<1>1. Owns(p)
  BY DEF Owned
<1>2. manifest \in {NoManifest, RawManifest} /\ tree \in Keyed => ~Verified(p)
  BY DEF Verified, RawManifest, Types
<1>3. pc[p] \in {"strip", "compile"} => tree \in Keyed
  BY DEF Where, Keyed
<1> QED BY <1>1, <1>2, <1>3 DEF Owns, Verified

LEMMA NotInside ==
  ASSUME NEW p \in Process, Start(p) \/ Wait(p) \/ UseEnds(p)
  PROVE  pc[p] \in Outside
BY DEF Start, Wait, UseEnds, Go, Hit, Miss, TakeLock, LockBusy, GiveUp, PollMiss, LockGone,
       LockThere, StatThrows, StatFresh, StatStale, BreakLock, Outside

\* After the last step of making it, the tree passes for what it is.
LEMMA MadeIsAccepted ==
  ASSUME Types, Where, Owned, robbed = {}, Alike, NEW p \in Process,
         Put(p) \/ Seal(p) \/ (Plain(p) /\ tree = "uws musl")
  PROVE  Whole'
<1>1. UNCHANGED <<tree, cmd>>
  BY DEF Put, Seal, Plain, fixed
<1>2. CASE Put(p)
  BY <1>1, <1>2, Contents DEF Put, Staged, Keyed, Whole, Verified, NoManifest
<1>3. CASE Seal(p)
  <2>1. files' = Product(p) /\ manifest'.of = Product(p) /\ Product(p) # None
    BY <1>3, Contents DEF Seal, Go, Owned, Owns, Product, Types
  <2>2. tree \in Keyed => manifest'.command = cmd[p]
    BY <1>3 DEF Seal
  <2>3. manifest' # NoManifest
    <3>1. NoManifest.of = None
      BY DEF NoManifest
    <3> QED BY <2>1, <3>1
  <2>4. \A q \in Process : cmd[q] = cmd[p]
    BY DEF Alike
  <2> QED BY <1>1, <2>1, <2>2, <2>3, <2>4 DEF Whole, Verified
<1>4. CASE Plain(p) /\ tree = "uws musl"
  <2>1. files = Pinned /\ files' = files /\ manifest' = [of |-> files, command |-> None]
    BY <1>4 DEF Plain, Go, Owned, Owns
  <2> QED BY <1>1, <1>4, <2>1 DEF Whole, Verified, Keyed, NoManifest
<1> QED BY <1>2, <1>3, <1>4

\* Nobody makes a tree that is made, or that another is about to put in place.
LEMMA MadeOnceKept ==
  ASSUME Types, Where, Alone, Owned, Timely, MadeOnce, [Next]_vars
  PROVE  MadeOnce'
<1> SUFFICES ASSUME killed' = {}, damages' = 0, Alike'
             PROVE  /\ \A p, q \in built' : p = q
                    /\ \A p \in built' :
                         \/ pc'[p] \in {"put", "seal"}
                             \/ (pc'[p] = "plain" /\ tree' = "uws musl")
                         \/ Whole'
  BY DEF MadeOnce
<1> DEFINE Goal == /\ \A p, q \in built' : p = q
                   /\ \A p \in built' :
                        \/ pc'[p] \in {"put", "seal"}
                            \/ (pc'[p] = "plain" /\ tree' = "uws musl")
                        \/ Whole'
<1>1. ASSUME NEW p \in Process, Start(p) \/ Wait(p) \/ UseEnds(p) PROVE Goal
  <2>1. /\ UNCHANGED <<tree, cmd, files, manifest, built>>
        /\ \A q \in Process \ {p} : pc'[q] = pc[q]
    BY <1>1, Quiet
  <2>2. pc[p] \in Outside
    BY <1>1, NotInside
  <2>3. killed = {} /\ damages = 0 /\ Alike
    BY <1>1, <2>1
       DEF Start, Wait, UseEnds, Hit, Miss, TakeLock, LockBusy, GiveUp, PollMiss, LockGone,
           LockThere, StatThrows, StatFresh, StatStale, BreakLock, fate, Alike
  <2>4. Whole' <=> Whole
    BY <2>1 DEF Whole, Verified
  <2> QED BY <2>1, <2>2, <2>3, <2>4 DEF MadeOnce, Outside, Types
<1>2. ASSUME NEW p \in Process, UnderLock(p) PROVE Goal
  <2>u. tree' = tree /\ cmd' = cmd /\ Holds(p)
    BY <1>2, Under
  <2>k. killed' = killed /\ damages' = damages
    BY <1>2 DEF UnderLock, RecheckHit, RecheckMiss, Clear, NoArchive, Make, MakeFails, Put,
       PutFails,
                PutFile, Unpack, UnpackFails, Plain, PlainFails, Strip, Compile, CompileFails,
                Seal, SealFails, Release, fate
  <2>a. killed = {} /\ damages = 0 /\ Alike /\ robbed = {}
    BY <2>u, <2>k DEF Timely, Alike
  <2>b. \A r \in built : r # p => Whole
    BY <2>a, <2>u DEF MadeOnce, Alone, Holds, Types
  <2>c. Owns(p)
    BY <2>a DEF Owned
  <2>d. ASSUME ~Verified(p) PROVE built \subseteq {p}
    BY <2>b, <2>d DEF Whole
  <2>1. CASE Put(p) \/ Seal(p) \/ (Plain(p) /\ tree = "uws musl")
    <3>1. Whole'
      BY <2>a, <2>1, MadeIsAccepted
    <3>2. built' = built
      BY <2>1 DEF Put, Seal, Plain
    <3> QED BY <2>a, <3>1, <3>2 DEF MadeOnce
  <2>2. CASE PutFails(p) \/ PlainFails(p) \/ SealFails(p)
    BY <2>2, <2>c, Contents DEF PutFails, PlainFails, SealFails, Fails, Go, Owns, Product, Types
  <2>3. CASE Clear(p) \/ UnpackFails(p) \/ Strip(p) \/ (Plain(p) /\ tree # "uws musl")
    <3>1. /\ pc[p] \in {"clear", "unpack", "strip"} \/ (pc[p] = "plain" /\ tree # "uws musl")
          /\ built' = built
      BY <2>3 DEF Clear, UnpackFails, Strip, Plain, Fails, Go
    <3>2. ~Verified(p)
      BY <2>a, <3>1, Refused
    <3>3. built = {}
      BY <2>a, <2>d, <3>1, <3>2 DEF MadeOnce, Whole
    <3> QED BY <3>1, <3>3
  <2>4. CASE Make(p) \/ Unpack(p) \/ Compile(p)
    <3>1. /\ pc[p] \in {"make", "unpack", "compile"}
          /\ \/ built' = built \cup {p} /\ pc'[p] \in {"put", "seal"}
             \/ built' = built \cup {p} /\ pc'[p] = "plain" /\ tree = "uws musl"
             \/ built' = built
      BY <2>4 DEF Make, Unpack, Compile, Go, Types
    <3>2. ~Verified(p)
      BY <2>a, <3>1, Refused
    <3>3. built = {}
      BY <2>a, <2>d, <3>1, <3>2 DEF MadeOnce, Whole
    <3> QED BY <2>u, <3>1, <3>3
  <2>5. CASE PutFile(p)
    <3>1. pc[p] = "put" /\ pc'[p] = "seal" /\ built' = built
      BY <2>5 DEF PutFile, Go, Types
    <3>2. ~Verified(p)
      BY <2>a, <3>1, Refused
    <3> QED BY <2>d, <3>1, <3>2
  <2>6. CASE RecheckHit(p) \/ RecheckMiss(p) \/ NoArchive(p) \/ MakeFails(p)
             \/ CompileFails(p) \/ Release(p)
    <3>1. /\ UNCHANGED <<files, manifest, built>>
          /\ pc[p] \in {"recheck", "clear", "make", "compile", "release"}
      BY <2>6 DEF RecheckHit, RecheckMiss, NoArchive, MakeFails, CompileFails, Release, Fails,
         Go, disk
    <3>2. Whole' <=> Whole
      BY <2>u, <3>1 DEF Whole, Verified
    <3> QED BY <2>a, <2>b, <3>1, <3>2 DEF MadeOnce
  <2> QED BY <1>2, <2>1, <2>2, <2>3, <2>4, <2>5, <2>6 DEF UnderLock
<1>3. ASSUME NEW p \in Process, Kill(p) PROVE Goal
  BY <1>3 DEF Kill
<1>4. CASE Damage
  <2>1. damages \in Nat /\ damages' = damages + 1
    BY <1>4 DEF Damage, Types
  <2>2. FALSE
    BY <2>1
  <2> QED BY <2>2
<1>5. CASE Tick \/ UNCHANGED vars
  <2>1. UNCHANGED <<tree, cmd, pc, files, manifest, built, killed, damages>>
    BY <1>5 DEF Tick, vars, fixed, disk, fate
  <2> QED BY <2>1 DEF MadeOnce, Whole, Verified, Alike
<1> QED BY <1>1, <1>2, <1>3, <1>4, <1>5 DEF Next, Step, Over

-----------------------------------------------------------------------------
\* The parts that need neither luck nor promptness.
LEMMA ToolchainInvHolds == Spec => []ToolchainInv
<1>1. Init => ToolchainInv
  <2> SUFFICES ASSUME Init PROVE ToolchainInv
    OBVIOUS
  <2> USE DEF Init
  <2>1. Types
    BY Contents, Ages DEF Types, Outside
  <2>2. \A p \in Process : ~Holds(p) /\ pc[p] = "idle"
    BY DEF Holds
  <2>3. Where /\ Alone /\ Tended /\ Sealing
    BY <2>2 DEF Where, Alone, Tended, Sealing
  <2>4. Owned /\ Certified
    BY <2>2 DEF Owned, Owns, Certified
  <2> QED BY <2>1, <2>3, <2>4 DEF ToolchainInv
<1>2. ToolchainInv /\ [Next]_vars => ToolchainInv'
  BY TypesKept, WhereKept, AloneKept, TendedKept, OwnedKept, CertifiedKept, SealingKept
     DEF ToolchainInv
<1> QED BY <1>1, <1>2, PTL DEF Spec

\* No call ever accepts the bare archive, a directory half filled or a file that
\* is not its manifest's, whoever is killed, damaged or delayed; for a tree that
\* is filled in place, as long as no live holder lost its lock.
THEOREM AcceptedIsWhole == Spec => []VerifiedIsWhole
<1>1. ToolchainInv => VerifiedIsWhole
  <2> SUFFICES ASSUME ToolchainInv, tree \notin Filled \/ robbed = {},
                      NEW p \in Process, Verified(p)
               PROVE  files = Product(p)
    BY DEF VerifiedIsWhole
  <2>1. CASE tree \notin Keyed /\ manifest = [of |-> Pinned, command |-> None]
    BY <2>1 DEF Verified, Product
  <2>2. CASE tree \in Keyed /\ \E c \in Command : manifest = [of |-> c, command |-> c]
    BY <2>2 DEF Verified, Product
  <2>3. CASE tree = "uws compiled" /\ manifest = RawManifest
    <3>1. manifest.command = None /\ tree \in Keyed /\ cmd[p] # None
      BY <2>3, Contents DEF RawManifest, Keyed, ToolchainInv, Types
    <3> QED BY <3>1 DEF Verified
  <2> QED BY <2>1, <2>2, <2>3 DEF ToolchainInv, Certified, Verified
<1> QED BY ToolchainInvHolds, <1>1, PTL

\* Every lock and every stage with a finally block is gone when the calls have
\* ended and none was killed.
THEOREM TreesLeftClean == Spec => []CleanExit
<1>1. ToolchainInv => CleanExit
  <2> SUFFICES ASSUME ToolchainInv, \A p \in Process : pc[p] = "done", killed = {}
               PROVE  lock = Free /\ (tree \in Tidy => stages = {})
    BY DEF CleanExit
  <2>1. \A p \in Process : ~Holds(p)
    BY DEF Holds
  <2>2. \A p \in stages : p \in Process
    BY DEF ToolchainInv, Types
  <2> QED BY <2>1, <2>2 DEF ToolchainInv, Tended
<1> QED BY ToolchainInvHolds, <1>1, PTL

\* When no live process keeps a lock longer than StaleAge (the code's 15 minutes).
Prompt == HoldMax <= StaleAge

LEMMA TimelyHolds ==
  ASSUME Prompt
  PROVE  Spec => [](Timely /\ MadeOnce)
<1>1. Init => Timely /\ MadeOnce
  BY DEF Init, Timely, MadeOnce, Holds
<1>2. ToolchainInv /\ Timely /\ MadeOnce /\ [Next]_vars => (Timely /\ MadeOnce)'
  BY TimelyKept, MadeOnceKept DEF ToolchainInv, Prompt
<1> QED BY <1>1, <1>2, ToolchainInvHolds, PTL DEF Spec

\* At most one of the calls that want the same tree downloads or compiles it.
THEOREM BuiltOnce ==
  ASSUME Prompt
  PROVE  Spec => []OneBuild
<1>1. MadeOnce => OneBuild
  <2> SUFFICES ASSUME \A p, q \in built : p = q PROVE Cardinality(built) <= 1
    BY DEF MadeOnce, OneBuild
  <2>1. CASE built = {}
    BY <2>1, FS_EmptySet
  <2>2. CASE built # {}
    <3>1. PICK p \in built : TRUE
      BY <2>2
    <3>2. built = {p}
      BY <3>1
    <3> QED BY <3>2, FS_Singleton
  <2> QED BY <2>1, <2>2
<1> QED BY TimelyHolds, <1>1, PTL

\* The tree a build is compiling with is neither removed nor replaced by another
\* call that wants the same.
THEOREM TreesStay ==
  ASSUME Prompt
  PROVE  Spec => TreeKept
<1>1. ToolchainInv /\ Timely /\ [Next]_vars
        => [(\E p \in Process : Verified(p)) /\ Alike
              => files' = files \/ killed # {} \/ damages' # damages]_vars
  <2> SUFFICES ASSUME ToolchainInv, Timely, [Next]_vars, Alike, killed = {},
                      damages' = damages, NEW r \in Process, Verified(r)
               PROVE  files' = files
    OBVIOUS
  <2>0. robbed = {} /\ \A p \in Process : Verified(p)
    BY DEF Timely, Verified, Alike
  <2>1. ASSUME NEW p \in Process, Start(p) \/ Wait(p) \/ UseEnds(p) \/ Kill(p)
        PROVE  files' = files
    BY <2>1, Quiet DEF ToolchainInv
  <2>2. ASSUME NEW p \in Process, UnderLock(p) PROVE files' = files
    <3>1. pc[p] \notin {"clear", "make", "put", "unpack", "plain", "strip", "compile"}
      BY <2>0, Refused DEF ToolchainInv
    <3> QED BY <2>2, <3>1
            DEF UnderLock, RecheckHit, RecheckMiss, Clear, NoArchive, Make, MakeFails, Put,
                PutFails,
                PutFile, Unpack, UnpackFails, Plain, PlainFails, Strip, Compile, CompileFails,
                Seal, SealFails, Release, Fails, Go, disk
  <2>3. CASE Damage
    <3>1. damages \in Nat /\ damages' = damages + 1
      BY <2>3 DEF Damage, ToolchainInv, Types
    <3>2. FALSE
      BY <3>1
    <3> QED BY <3>2
  <2>4. CASE Tick \/ UNCHANGED vars
    BY <2>4 DEF Tick, vars, disk
  <2> QED BY <2>1, <2>2, <2>3, <2>4 DEF Next, Step, Over
<1> QED BY <1>1, TimelyHolds, ToolchainInvHolds, PTL DEF Spec, TreeKept

=============================================================================
