---------------------------- MODULE CompileCache ----------------------------
(***************************************************************************)
(* compile-cache.ts: the per-project cache of native binaries, shared by   *)
(* every `sproutboat build` that runs in the project at the same time.     *)
(*                                                                         *)
(* Each process is one call of compileCached for one key.  It first reads  *)
(* the entry, then competes for the entry's lock directory, and under the  *)
(* lock re-reads the entry, compiles into a private stage, renames the     *)
(* stage into place and publishes the binary at its own output path.       *)
(*                                                                         *)
(* One step stands for the work up to the next await whose result another  *)
(* process can change.  Time is a Tick that ages every lock directory and  *)
(* every process's timer together; the constants are in ticks.             *)
(***************************************************************************)
EXTENDS DirLock, FiniteSets

CONSTANTS
  Process,      \* the concurrent builds
  Key,          \* cache keys (compileKey)
  None,         \* no record, no bytes, no result
  Damaged,      \* bytes that are not what any compile produced
  Deadline,     \* how long a waiter polls before it gives up
  HoldMax,      \* a bound of the exploration: how long a live process keeps the lock
  Mortal,       \* the processes that may be killed
  MaxDamage     \* how many times something outside damages an entry

Binary == [key : Key, by : Process]

ASSUME CacheAssumption ==
  /\ Deadline \in Nat
  /\ HoldMax \in Nat
  /\ MaxDamage \in Nat
  /\ Mortal \subseteq Process
  /\ None \notin Binary
  /\ Damaged \notin Binary
  /\ None \notin Key
  /\ None # Damaged

VARIABLES
  pc,       \* where each process is in compileCached
  key,      \* the key each process builds
  timer,    \* ticks since it started to wait, or since it took the lock; else 0
  seen,     \* the record verified() has read and not yet compared
  bin,      \* the verified or compiled bytes it holds in memory
  staged,   \* the processes whose .candidate-<key>- directory exists
  entry,    \* the cache entry of each key: cache.json and sprout
  lock,     \* the lock directory of each key
  out,      \* what each process has published at its output path
  result,   \* how each call ends
  killed,   \* the processes that were killed
  damages   \* how many times an entry was damaged

vars == <<pc, key, timer, seen, bin, staged, entry, lock, out, result, killed, damages>>

PC == {"idle", "fast", "mkdir", "poll", "stat", "break", "recheck", "clear",
       "compile", "install", "publish", "release", "done"}

Result == {"none", "hit", "miss", "timeout", "failed"}

\* The places where a process believes it holds the lock of its key ...
Holding == {"recheck", "clear", "compile", "install", "release"}

\* ... to which publishing belongs only when it came from under the lock.
Holds(p) == pc[p] \in Holding \/ (pc[p] = "publish" /\ result[p] # "none")

\* Still in the call: a process that can take a step or be killed.
Live(p) == pc[p] \notin {"idle", "done"}

\* Polling for the lock: the deadline was set when the loop was entered.
Waits(p) == pc[p] \in {"mkdir", "poll", "stat", "break"}

Absent == [record |-> None, bytes |-> None]
Entry == [record : Binary \cup {None}, bytes : Binary \cup {None, Damaged}]

\* The entry as it is on disk would pass verified().
Valid(k) == entry[k].record # None /\ entry[k].bytes = entry[k].record

Init ==
  /\ pc = [p \in Process |-> "idle"]
  /\ key \in [Process -> Key]
  /\ timer = [p \in Process |-> 0]
  /\ seen = [p \in Process |-> None]
  /\ bin = [p \in Process |-> None]
  /\ staged = {}
  /\ entry = [k \in Key |-> Absent]
  /\ lock = [k \in Key |-> Free]
  /\ out = [p \in Process |-> None]
  /\ result = [p \in Process |-> "none"]
  /\ killed = {}
  /\ damages = 0

Go(p, from, to) == pc[p] = from /\ pc' = [pc EXCEPT ![p] = to]

(***************************************************************************)
(* verified(): the record first, then the bytes, with awaits in between.   *)
(***************************************************************************)
Start(p) ==
  /\ Go(p, "idle", "fast")
  /\ UNCHANGED <<key, timer, seen, bin, staged, entry, lock, out, result, killed, damages>>

\* The JSON parses and names this key: keep its digest, go on to the bytes.
ReadRecord(p) ==
  /\ pc[p] \in {"fast", "poll", "recheck"}
  /\ seen[p] = None
  /\ entry[key[p]].record # None
  /\ seen' = [seen EXCEPT ![p] = entry[key[p]].record]
  /\ UNCHANGED <<pc, key, timer, bin, staged, entry, lock, out, result, killed, damages>>

\* Mutant: the digest of the bytes is not compared with the recorded one.
UnverifiedHit(p) ==
  /\ pc[p] \in {"fast", "poll", "recheck"}
  /\ seen[p] # None
  /\ bin' = [bin EXCEPT ![p] = entry[key[p]].bytes]
  /\ seen' = [seen EXCEPT ![p] = None]
  /\ pc' = [pc EXCEPT ![p] = "publish"]
  /\ result' = [result EXCEPT ![p] = IF pc[p] = "recheck" THEN "hit" ELSE @]
  /\ timer' = [timer EXCEPT ![p] = IF pc[p] = "recheck" THEN @ ELSE 0]
  /\ UNCHANGED <<key, staged, entry, lock, out, killed, damages>>

\* verified() returned the bytes: publish them, and if this process holds the
\* lock, release it afterwards (the finally block).
VerifiedHit(p) ==
  /\ pc[p] \in {"fast", "poll", "recheck"}
  /\ seen[p] # None
  /\ entry[key[p]].bytes = seen[p]
  /\ bin' = [bin EXCEPT ![p] = entry[key[p]].bytes]
  /\ seen' = [seen EXCEPT ![p] = None]
  /\ pc' = [pc EXCEPT ![p] = "publish"]
  /\ result' = [result EXCEPT ![p] = IF pc[p] = "recheck" THEN "hit" ELSE @]
  /\ timer' = [timer EXCEPT ![p] = IF pc[p] = "recheck" THEN @ ELSE 0]
  /\ UNCHANGED <<key, staged, entry, lock, out, killed, damages>>

\* verified() returned null.
Missed(p) ==
  \/ seen[p] = None /\ entry[key[p]].record = None
  \/ seen[p] # None /\ entry[key[p]].bytes # seen[p]

\* No entry at the first look: start the clock and try the lock.
FastMiss(p) ==
  /\ Missed(p)
  /\ Go(p, "fast", "mkdir")
  /\ timer' = [timer EXCEPT ![p] = 0]
  /\ seen' = [seen EXCEPT ![p] = None]
  /\ UNCHANGED <<key, bin, staged, entry, lock, out, result, killed, damages>>

(***************************************************************************)
(* The lock loop.                                                          *)
(***************************************************************************)
\* Mutant: mkdir with recursive: true succeeds on a directory that is there.
TakeLockAnyway(p) ==
  /\ Go(p, "mkdir", "recheck")
  /\ lock' = [lock EXCEPT ![key[p]] = Fresh]
  /\ timer' = [timer EXCEPT ![p] = 0]
  /\ UNCHANGED <<key, seen, bin, staged, entry, out, result, killed, damages>>

TakeLock(p) ==
  /\ CanMake(lock[key[p]])
  /\ Go(p, "mkdir", "recheck")
  /\ lock' = [lock EXCEPT ![key[p]] = Fresh]
  /\ timer' = [timer EXCEPT ![p] = 0]
  /\ UNCHANGED <<key, seen, bin, staged, entry, out, result, killed, damages>>

\* EEXIST: look whether the holder has published meanwhile.
LockBusy(p) ==
  /\ ~CanMake(lock[key[p]])
  /\ Go(p, "mkdir", "poll")
  /\ UNCHANGED <<key, timer, seen, bin, staged, entry, lock, out, result, killed, damages>>

PollMiss(p) ==
  /\ Missed(p)
  /\ timer[p] <= Deadline
  /\ Go(p, "poll", "stat")
  /\ seen' = [seen EXCEPT ![p] = None]
  /\ UNCHANGED <<key, timer, bin, staged, entry, lock, out, result, killed, damages>>

\* "timed out waiting for compile cache lock"
GiveUp(p) ==
  /\ Missed(p)
  /\ timer[p] > Deadline
  /\ Go(p, "poll", "done")
  /\ seen' = [seen EXCEPT ![p] = None]
  /\ result' = [result EXCEPT ![p] = "timeout"]
  /\ timer' = [timer EXCEPT ![p] = 0]
  /\ UNCHANGED <<key, bin, staged, entry, lock, out, killed, damages>>

\* Mutant: the loop around stat never goes back to mkdir.
StatAgain(p) ==
  /\ ~IsStale(lock[key[p]])
  /\ Go(p, "stat", "stat")
  /\ UNCHANGED <<key, timer, seen, bin, staged, entry, lock, out, result, killed, damages>>

\* stat() of the lock: sleep and retry, or decide to remove the directory ...
StatFresh(p) ==
  /\ ~IsStale(lock[key[p]])
  /\ Go(p, "stat", "mkdir")
  /\ UNCHANGED <<key, timer, seen, bin, staged, entry, lock, out, result, killed, damages>>

StatStale(p) ==
  /\ IsStale(lock[key[p]])
  /\ Go(p, "stat", "break")
  /\ UNCHANGED <<key, timer, seen, bin, staged, entry, lock, out, result, killed, damages>>

\* ... and remove it one await later, whichever directory it is by then.
BreakLock(p) ==
  /\ Go(p, "break", "mkdir")
  /\ lock' = [lock EXCEPT ![key[p]] = Free]
  /\ UNCHANGED <<key, timer, seen, bin, staged, entry, out, result, killed, damages>>

(***************************************************************************)
(* Under the lock.                                                         *)
(***************************************************************************)
\* Mutant: no second look once the lock is taken.
RecheckSkipped(p) ==
  /\ Go(p, "recheck", "clear")
  /\ seen' = [seen EXCEPT ![p] = None]
  /\ UNCHANGED <<key, timer, bin, staged, entry, lock, out, result, killed, damages>>

RecheckMiss(p) ==
  /\ Missed(p)
  /\ Go(p, "recheck", "clear")
  /\ seen' = [seen EXCEPT ![p] = None]
  /\ UNCHANGED <<key, timer, bin, staged, entry, lock, out, result, killed, damages>>

\* Mutant: the refused entry is left in place.
ClearNothing(p) ==
  /\ Go(p, "clear", "compile")
  /\ staged' = staged \cup {p}
  /\ UNCHANGED <<key, timer, seen, bin, entry, lock, out, result, killed, damages>>

\* rm(entry), then mkdtemp of the private stage.
Clear(p) ==
  /\ Go(p, "clear", "compile")
  /\ entry' = [entry EXCEPT ![key[p]] = Absent]
  /\ staged' = staged \cup {p}
  /\ UNCHANGED <<key, timer, seen, bin, lock, out, result, killed, damages>>

\* compile(candidate) left binary b, which is read back, hashed and recorded.
CompileTo(p, b) ==
  /\ Go(p, "compile", "install")
  /\ bin' = [bin EXCEPT ![p] = b]
  /\ UNCHANGED <<key, timer, seen, staged, entry, lock, out, result, killed, damages>>

Compile(p) == CompileTo(p, [key |-> key[p], by |-> p])

\* compile() threw: a compiler error, or its own time limit.
CompileFails(p) ==
  /\ Go(p, "compile", "release")
  /\ result' = [result EXCEPT ![p] = "failed"]
  /\ UNCHANGED <<key, timer, seen, bin, staged, entry, lock, out, killed, damages>>

\* rename(stage, entry) onto a missing entry.
Install(p) ==
  /\ entry[key[p]] = Absent
  /\ Go(p, "install", "publish")
  /\ entry' = [entry EXCEPT ![key[p]] = [record |-> bin[p], bytes |-> bin[p]]]
  /\ staged' = staged \ {p}
  /\ result' = [result EXCEPT ![p] = "miss"]
  /\ UNCHANGED <<key, timer, seen, bin, lock, out, killed, damages>>

\* rename onto a directory that is not empty: ENOTEMPTY.
InstallFails(p) ==
  /\ entry[key[p]] # Absent
  /\ Go(p, "install", "release")
  /\ result' = [result EXCEPT ![p] = "failed"]
  /\ UNCHANGED <<key, timer, seen, bin, staged, entry, lock, out, killed, damages>>

(***************************************************************************)
(* publish(): a temporary beside the output path, then rename.             *)
(***************************************************************************)
Publish(p) ==
  /\ pc[p] = "publish"
  /\ out' = [out EXCEPT ![p] = bin[p]]
  /\ pc' = [pc EXCEPT ![p] = IF Holds(p) THEN "release" ELSE "done"]
  /\ result' = [result EXCEPT ![p] = IF Holds(p) THEN @ ELSE "hit"]
  /\ UNCHANGED <<key, timer, seen, bin, staged, entry, lock, killed, damages>>

\* The output directory is full or gone; the temporary is removed.
PublishFails(p) ==
  /\ pc[p] = "publish"
  /\ pc' = [pc EXCEPT ![p] = IF Holds(p) THEN "release" ELSE "done"]
  /\ result' = [result EXCEPT ![p] = "failed"]
  /\ UNCHANGED <<key, timer, seen, bin, staged, entry, lock, out, killed, damages>>

\* Mutant: only the lock is removed.
ReleaseLockOnly(p) ==
  /\ Go(p, "release", "done")
  /\ lock' = [lock EXCEPT ![key[p]] = Free]
  /\ timer' = [timer EXCEPT ![p] = 0]
  /\ UNCHANGED <<key, staged, seen, bin, entry, out, result, killed, damages>>

\* finally: drop the stage if it is still there, then the lock.
Release(p) ==
  /\ Go(p, "release", "done")
  /\ staged' = staged \ {p}
  /\ lock' = [lock EXCEPT ![key[p]] = Free]
  /\ timer' = [timer EXCEPT ![p] = 0]
  /\ UNCHANGED <<key, seen, bin, entry, out, result, killed, damages>>

(***************************************************************************)
(* The environment: Ctrl-C or SIGKILL, which runs no finally block; damage *)
(* to an entry; the passing of time.                                       *)
(***************************************************************************)
Kill(p) ==
  /\ p \in Mortal
  /\ Live(p)
  /\ pc' = [pc EXCEPT ![p] = "done"]
  /\ killed' = killed \cup {p}
  /\ timer' = [timer EXCEPT ![p] = 0]
  /\ UNCHANGED <<key, seen, bin, staged, entry, lock, out, result, damages>>

Damage(k) ==
  /\ damages < MaxDamage
  /\ entry[k] # Absent
  /\ damages' = damages + 1
  /\ \/ entry' = [entry EXCEPT ![k] = [record |-> @.record, bytes |-> Damaged]]
     \/ entry' = [entry EXCEPT ![k] = [record |-> None, bytes |-> @.bytes]]
  /\ UNCHANGED <<pc, key, timer, seen, bin, staged, lock, out, result, killed>>

Tick ==
  /\ \E p \in Process : pc[p] # "done"
  /\ \A p \in Process : Holds(p) => timer[p] < HoldMax
  /\ lock' = [k \in Key |-> Aged(lock[k])]
  /\ timer' = [p \in Process |->
                 IF Holds(p) \/ (Waits(p) /\ timer[p] <= Deadline) THEN timer[p] + 1 ELSE timer[p]]
  /\ UNCHANGED <<pc, key, seen, bin, staged, entry, out, result, killed, damages>>

Waiting(p) ==
  FastMiss(p) \/ TakeLock(p) \/ LockBusy(p) \/ PollMiss(p) \/ GiveUp(p)
    \/ StatFresh(p) \/ StatStale(p) \/ BreakLock(p)

Reading(p) == ReadRecord(p) \/ VerifiedHit(p) \/ RecheckMiss(p)

Producing(p) ==
  Clear(p) \/ Install(p) \/ InstallFails(p) \/ Publish(p) \/ PublishFails(p) \/ Release(p)

Step(p) == Reading(p) \/ Waiting(p) \/ Producing(p) \/ Compile(p) \/ CompileFails(p)

Next ==
  \/ \E p \in Process : Start(p) \/ Step(p) \/ Kill(p)
  \/ \E k \in Key : Damage(k)
  \/ Tick
  \/ (\A p \in Process : pc[p] = "done") /\ UNCHANGED vars

Spec == Init /\ [][Next]_vars

\* Every call keeps running until it returns, and time passes.
Fairness == (\A p \in Process : WF_vars(Step(p))) /\ WF_vars(Tick)

FairSpec == Spec /\ Fairness

(***************************************************************************)
(* Properties.                                                             *)
(***************************************************************************)
TypeOK ==
  /\ pc \in [Process -> PC]
  /\ key \in [Process -> Key]
  /\ timer \in [Process -> Nat]
  /\ seen \in [Process -> Binary \cup {None}]
  /\ bin \in [Process -> Binary \cup {None}]
  /\ staged \subseteq Process
  /\ entry \in [Key -> Entry]
  /\ lock \in [Key -> Lock]
  /\ out \in [Process -> Binary \cup {None}]
  /\ result \in [Process -> Result]
  /\ killed \subseteq Mortal
  /\ damages \in 0 .. MaxDamage

\* "The lock covers compilation and publication": two builds of one key are
\* never both between their mkdir and their rm of the lock.
MutualExclusion ==
  \A p, q \in Process : p # q /\ Holds(p) /\ Holds(q) => key[p] # key[q]

\* Whatever is published at an output path is a binary some build compiled in
\* full for that very key: never damaged bytes, never another key's.
OutputSound ==
  \A p \in Process : out[p] # None => out[p] \in Binary /\ out[p].key = key[p]

\* A compile that succeeded can be installed: nothing is in the way of the
\* rename, so the minutes it took are not thrown away with ENOTEMPTY.
CompileNotWasted ==
  \A p \in Process : pc[p] = "install" => entry[key[p]] = Absent

\* An entry that would verify disappears only because something outside
\* damaged it: no build removes what another has just installed.
ValidEntryKept ==
  [][\A k \in Key : Valid(k) /\ damages' = damages => Valid(k)']_vars

\* When every call has returned and none was killed, no lock directory and no
\* stage is left, whatever was stolen or failed on the way.
CleanExit ==
  (killed = {} /\ \A p \in Process : pc[p] = "done")
    => staged = {} /\ \A k \in Key : lock[k] = Free

\* A call that has started returns: with a binary, an error or the timeout.
\* The deadline bounds the wait even when locks are stolen over and over.
Termination == \A p \in Process : pc[p] = "fast" ~> pc[p] = "done"

\* The cache implements SingleFlight.
Flight(k) ==
  LET compiling == {p \in Process : pc[p] \in {"compile", "install"} /\ key[p] = k}
  IN  IF compiling = {} THEN None ELSE CHOOSE p \in compiling : TRUE

SF == INSTANCE SingleFlight WITH
        wanted <- key,
        flight <- [k \in Key |-> Flight(k)],
        ready  <- [k \in Key |-> IF Valid(k) THEN entry[k].bytes ELSE None],
        made   <- {bin[p] : p \in Process} \ {None},
        answer <- out

ImplementsSingleFlight == SF!Spec

=============================================================================
