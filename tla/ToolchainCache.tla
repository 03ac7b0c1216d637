--------------------------- MODULE ToolchainCache ---------------------------
(***************************************************************************)
(* toolchain.ts, sqlite.ts, bearssl.ts: the trees every build of every     *)
(* project of a user shares, each made on first use under a lock directory *)
(* of its own.  A behaviour is about one of them and the calls that ensure *)
(* it; calls for different trees share nothing.                            *)
(*                                                                         *)
(* The trees differ in how they come about: installed by one rename        *)
(* (Staged), by a rename of the file and then of its manifest (Paired), or *)
(* filled in place and certified at the end (Filled).  They differ in what *)
(* a waiter does: for Zig it polls for the tree, for the others it tries   *)
(* the mkdir again.  Times are in ticks, as in CompileCache.               *)
(***************************************************************************)
EXTENDS DirLock, FiniteSets

CONSTANTS
  Process,      \* the concurrent calls
  Command,      \* the compilers a tree may be asked for
  None, Pinned, Raw, Spoilt,   \* contents, see NoManifest
  Deadline,     \* how long a waiter waits (30 s)
  HoldMax,      \* how long a live process keeps the lock at most
  Mortal,       \* the processes that may be killed
  MaxDamage     \* how many times something outside damages the tree

ASSUME ToolchainAssumption ==
  /\ Deadline \in Nat /\ HoldMax \in Nat /\ MaxDamage \in Nat
  /\ Mortal \subseteq Process
  /\ Process \cap Command = {}
  /\ {None, Pinned, Raw, Spoilt} \cap (Process \cup Command) = {}
  /\ None \notin {Pinned, Raw, Spoilt} /\ Pinned \notin {Raw, Spoilt} /\ Raw # Spoilt

Staged == {"zig", "bearssl source"}
Paired == {"sqlite source", "sqlite object", "trust anchors"}
Filled == {"uws musl", "uws compiled", "bearssl objects"}
Tree == Staged \cup Paired \cup Filled

\* Trees whose manifest records the compiler; the others come from a pinned
\* archive alone.
Keyed == {"uws compiled", "bearssl objects", "sqlite object"}
\* Trees that are looked at under the lock only.
LocksFirst == {"bearssl source", "trust anchors"}
\* Trees whose manifest is computed from what is at the path in the end; the
\* others' from the private stage.
HashedInPlace == Filled \cup {"trust anchors"}
\* Trees whose stage is removed in a finally block.
Tidy == {"zig", "sqlite source", "sqlite object"}

\* At the path of a tree is what its archive or a compiler gives (Pinned, or the
\* compiler's command), the bare archive of uWebSockets (Raw), what a process has
\* half made (the process), or something else (Spoilt).
NoManifest == [of |-> None, command |-> None]

VARIABLES
  tree,      \* which tree this is
  cmd,       \* the compiler each call asks for
  pc,        \* where each call is
  timer,     \* ticks it has waited, or since it took the lock; else 0
  files,     \* what is at the path
  manifest,  \* what the manifest certifies
  stages,    \* the calls whose private stage exists
  built,     \* the calls that made a whole tree
  lock,      \* the lock directory
  result,    \* how each call ends
  killed,    \* the processes that were killed
  robbed,    \* the live processes whose lock was removed by another
  damages    \* how many times the tree was damaged

fixed == <<tree, cmd>>
disk == <<files, manifest, stages>>
fate == <<killed, damages>>
vars == <<fixed, pc, timer, disk, built, lock, result, robbed, fate>>

Waits(p) == pc[p] \in IF tree = "zig" THEN {"poll", "exists", "stat", "break"}
                                      ELSE {"mkdir", "stat", "break"}
Holds(p) == pc[p] \in {"recheck", "clear", "make", "put", "unpack", "plain",
                       "strip", "compile", "seal", "release"}

\* What a call makes of the tree, and what it accepts: a manifest that names
\* what is there, for its own compiler.  Two trees made alike are equal.
Product(p) == IF tree \in Keyed THEN cmd[p] ELSE Pinned
Verified(p) ==
  /\ manifest # NoManifest /\ manifest.of = files
  /\ tree \in Keyed => manifest.command = cmd[p]

Init ==
  /\ tree \in Tree
  /\ cmd \in [Process -> Command]
  /\ pc = [p \in Process |-> "idle"]
  /\ timer = [p \in Process |-> 0]
  /\ files = None /\ manifest = NoManifest
  /\ stages = {} /\ built = {}
  /\ lock = Free
  /\ result = [p \in Process |-> "none"]
  /\ killed = {} /\ robbed = {} /\ damages = 0

Go(p, from, to) == pc[p] = from /\ pc' = [pc EXCEPT ![p] = to]
Ends(p, how) == result' = [result EXCEPT ![p] = how]
Restart(p) == timer' = [timer EXCEPT ![p] = 0]

\* rm(lock), whoever's it is: others that hold it do so no longer.
RemoveLock(p) ==
  /\ lock' = Free
  /\ robbed' = robbed \cup {q \in Process \ {p} : Holds(q)}

Start(p) ==
  /\ Go(p, "idle", IF tree \in LocksFirst THEN "mkdir" ELSE "check")
  /\ UNCHANGED <<fixed, timer, disk, built, lock, result, robbed, fate>>

\* The tree is there: at the first look, or while polling for it.
Hit(p) ==
  /\ Verified(p)
  /\ pc[p] = "check" \/ (pc[p] = "poll" /\ timer[p] < Deadline)
  /\ pc' = [pc EXCEPT ![p] = "use"]
  /\ Restart(p)
  /\ Ends(p, "ok")
  /\ UNCHANGED <<fixed, disk, built, lock, robbed, fate>>

\* Mutant: wait for a publisher before trying to become one.
MissWaits(p) ==
  /\ ~Verified(p)
  /\ Go(p, "check", "exists")
  /\ UNCHANGED <<fixed, timer, disk, built, lock, result, robbed, fate>>

Miss(p) ==
  /\ ~Verified(p)
  /\ Go(p, "check", "mkdir")
  /\ UNCHANGED <<fixed, timer, disk, built, lock, result, robbed, fate>>

TakeLock(p) ==
  /\ CanMake(lock)
  /\ Go(p, "mkdir", "recheck")
  /\ lock' = Fresh
  /\ Restart(p)
  /\ UNCHANGED <<fixed, disk, built, result, robbed, fate>>

(***************************************************************************)
(* Another call has the lock.                                              *)
(***************************************************************************)
\* waitForZigPublisher gets a deadline each time it is entered; the other
\* trees' loop has one for the whole call.
LockBusy(p) ==
  /\ ~CanMake(lock)
  /\ IF tree = "zig"
       THEN Go(p, "mkdir", "poll") /\ Restart(p)
       ELSE timer[p] < Deadline /\ Go(p, "mkdir", "stat") /\ UNCHANGED timer
  /\ UNCHANGED <<fixed, disk, built, lock, result, robbed, fate>>

\* "timed out waiting for ... cache lock"
GiveUp(p) ==
  /\ timer[p] >= Deadline
  /\ IF tree = "zig" THEN Go(p, "poll", "done")
                     ELSE ~CanMake(lock) /\ Go(p, "mkdir", "done")
  /\ Restart(p)
  /\ Ends(p, "timeout")
  /\ UNCHANGED <<fixed, disk, built, lock, robbed, fate>>

PollMiss(p) ==
  /\ ~Verified(p) /\ timer[p] < Deadline
  /\ Go(p, "poll", "exists")
  /\ UNCHANGED <<fixed, timer, disk, built, lock, result, robbed, fate>>

\* existsSync(lock) is false: start over, deadline and all.
LockGone(p) ==
  /\ CanMake(lock)
  /\ Go(p, "exists", "check")
  /\ Restart(p)
  /\ UNCHANGED <<fixed, disk, built, lock, result, robbed, fate>>

LockThere(p) ==
  /\ ~CanMake(lock)
  /\ Go(p, "exists", "stat")
  /\ UNCHANGED <<fixed, timer, disk, built, lock, result, robbed, fate>>

\* stat(lock) throws when the lock has been released.  Zig's waiter, which saw
\* it exist one await earlier, has nothing to catch that; the others try again.
StatThrows(p) ==
  /\ CanMake(lock)
  /\ IF tree = "zig"
       THEN Go(p, "stat", "done") /\ Restart(p) /\ Ends(p, "enoent")
       ELSE Go(p, "stat", "mkdir") /\ UNCHANGED <<timer, result>>
  /\ UNCHANGED <<fixed, disk, built, lock, robbed, fate>>

StatFresh(p) ==
  /\ ~CanMake(lock) /\ ~IsStale(lock)
  /\ Go(p, "stat", IF tree = "zig" THEN "poll" ELSE "mkdir")
  /\ UNCHANGED <<fixed, timer, disk, built, lock, result, robbed, fate>>

\* An old lock is removed one await later, whichever lock it is by then.
StatStale(p) ==
  /\ IsStale(lock)
  /\ Go(p, "stat", "break")
  /\ UNCHANGED <<fixed, timer, disk, built, lock, result, robbed, fate>>

BreakLock(p) ==
  /\ IF tree = "zig" THEN Go(p, "break", "check") /\ Restart(p)
                     ELSE Go(p, "break", "mkdir") /\ UNCHANGED timer
  /\ RemoveLock(p)
  /\ UNCHANGED <<fixed, disk, built, result, fate>>

(***************************************************************************)
(* Under the lock.                                                         *)
(***************************************************************************)
RecheckHit(p) ==
  /\ Verified(p)
  /\ Go(p, "recheck", "release")
  /\ Ends(p, "ok")
  /\ UNCHANGED <<fixed, timer, disk, built, lock, robbed, fate>>

\* Mutant: the holder does not look at the tree again.
RecheckSkipped(p) ==
  /\ Go(p, "recheck", "clear")
  /\ UNCHANGED <<fixed, timer, disk, built, lock, result, robbed, fate>>

RecheckMiss(p) ==
  /\ ~Verified(p)
  /\ Go(p, "recheck", "clear")
  /\ UNCHANGED <<fixed, timer, disk, built, lock, result, robbed, fate>>

\* What is there goes, manifest and all, and the stage or the new directory is
\* made.  A pair is left as it is until it is replaced.
Clear(p) ==
  /\ Go(p, "clear", IF tree \in {"uws musl", "uws compiled"} THEN "unpack"
                    ELSE IF tree = "bearssl objects" THEN "compile" ELSE "make")
  /\ IF tree \in Paired
       THEN UNCHANGED <<files, manifest>>
       ELSE files' = (IF tree \in Filled THEN p ELSE None) /\ manifest' = NoManifest
  /\ stages' = IF tree \in Filled THEN stages ELSE stages \cup {p}
  /\ UNCHANGED <<fixed, timer, built, lock, result, robbed, fate>>

\* The lock is released and the call throws.
Fails(p, from) == Go(p, from, "release") /\ Ends(p, "failed")

\* The vendored archive is missing or not the pinned one: nothing is touched.
NoArchive(p) ==
  /\ tree \in {"uws musl", "uws compiled"}
  /\ Fails(p, "clear")
  /\ UNCHANGED <<fixed, timer, disk, built, lock, robbed, fate>>

\* In the stage: download, verify, unpack and probe, or compile, or generate.
Make(p) ==
  /\ Go(p, "make", "put")
  /\ built' = built \cup {p}
  /\ UNCHANGED <<fixed, timer, disk, lock, result, robbed, fate>>

\* A stage that no finally block removes is left there by some failures.
MakeFails(p) ==
  /\ Fails(p, "make")
  /\ stages' \in IF tree \in Tidy THEN {stages} ELSE {stages, stages \ {p}}
  /\ UNCHANGED <<fixed, timer, files, manifest, built, lock, robbed, fate>>

\* The rename: of a directory, manifest inside, which fails where a tree is; or
\* of a file, which replaces the old one.
Put(p) ==
  /\ tree \in Staged /\ files = None
  /\ Go(p, "put", "release")
  /\ Ends(p, "ok")
  /\ files' = Pinned /\ manifest' = [of |-> Pinned, command |-> None]
  /\ stages' = stages \ {p}
  /\ UNCHANGED <<fixed, timer, built, lock, robbed, fate>>

PutFails(p) ==
  /\ tree \in Staged /\ files # None
  /\ Fails(p, "put")
  /\ UNCHANGED <<fixed, timer, disk, built, lock, robbed, fate>>

PutFile(p) ==
  /\ tree \in Paired
  /\ Go(p, "put", "seal")
  /\ files' = Product(p)
  /\ stages' = stages \ {p}
  /\ UNCHANGED <<fixed, timer, manifest, built, lock, result, robbed, fate>>

\* tar into the path itself.  A process whose directory another has replaced
\* adds nothing to the new one.
Unpack(p) ==
  /\ Go(p, "unpack", "plain")
  /\ files' = IF files # p THEN files ELSE IF tree = "uws musl" THEN Pinned ELSE Raw
  /\ built' = IF tree = "uws musl" THEN built \cup {p} ELSE built
  /\ UNCHANGED <<fixed, timer, manifest, stages, lock, result, robbed, fate>>

UnpackFails(p) ==
  /\ Fails(p, "unpack")
  /\ files' = None /\ manifest' = NoManifest
  /\ UNCHANGED <<fixed, timer, stages, built, lock, robbed, fate>>

\* Mutant: the manifest of the bare archive names the compiler already.
PlainWithCommand(p) ==
  /\ files # None
  /\ Go(p, "plain", IF tree = "uws musl" THEN "release" ELSE "strip")
  /\ manifest' = [of |-> files, command |-> cmd[p]]
  /\ result' = IF tree = "uws musl" THEN [result EXCEPT ![p] = "ok"] ELSE result
  /\ UNCHANGED <<fixed, timer, files, stages, built, lock, robbed, fate>>

\* extractUws ends with a manifest that names no compiler.
Plain(p) ==
  /\ files # None
  /\ Go(p, "plain", IF tree = "uws musl" THEN "release" ELSE "strip")
  /\ manifest' = [of |-> files, command |-> None]
  /\ result' = IF tree = "uws musl" THEN [result EXCEPT ![p] = "ok"] ELSE result
  /\ UNCHANGED <<fixed, timer, files, stages, built, lock, robbed, fate>>

PlainFails(p) ==
  /\ files = None
  /\ Fails(p, "plain")
  /\ manifest' = NoManifest
  /\ UNCHANGED <<fixed, timer, files, stages, built, lock, robbed, fate>>

\* The archive's own uSockets.a is not for this target; it goes first.
Strip(p) ==
  /\ Go(p, "strip", "compile")
  /\ files' = IF files = Raw THEN p ELSE files
  /\ UNCHANGED <<fixed, timer, manifest, stages, built, lock, result, robbed, fate>>

\* One file after the other, in place.  Where another holder fills the same
\* path, what it has not finished stays unfinished.
Compile(p) ==
  /\ Go(p, "compile", "seal")
  /\ files' = IF files = p THEN cmd[p] ELSE files
  /\ built' = built \cup {p}
  /\ UNCHANGED <<fixed, timer, manifest, stages, lock, result, robbed, fate>>

CompileFails(p) ==
  /\ Fails(p, "compile")
  /\ UNCHANGED <<fixed, timer, disk, built, lock, robbed, fate>>

\* The manifest, last, by a rename of its own.
Seal(p) ==
  /\ tree \in HashedInPlace => files # None
  /\ Go(p, "seal", "release")
  /\ Ends(p, "ok")
  /\ manifest' = [of |-> IF tree \in HashedInPlace THEN files ELSE Product(p),
                  command |-> IF tree \in Keyed THEN cmd[p] ELSE None]
  /\ UNCHANGED <<fixed, timer, files, stages, built, lock, robbed, fate>>

SealFails(p) ==
  /\ tree \in HashedInPlace /\ files = None
  /\ Fails(p, "seal")
  /\ UNCHANGED <<fixed, timer, disk, built, lock, robbed, fate>>

\* Mutant: the stage is left where it is.
ReleaseLockOnly(p) ==
  /\ Go(p, "release", IF result[p] = "ok" THEN "use" ELSE "done")
  /\ RemoveLock(p)
  /\ Restart(p)
  /\ UNCHANGED <<fixed, disk, built, result, fate>>

Release(p) ==
  /\ Go(p, "release", IF result[p] = "ok" THEN "use" ELSE "done")
  /\ stages' = IF tree \in Tidy THEN stages \ {p} ELSE stages
  /\ RemoveLock(p)
  /\ Restart(p)
  /\ UNCHANGED <<fixed, files, manifest, built, result, fate>>

\* The build that called has compiled and linked with the tree.
UseEnds(p) ==
  /\ Go(p, "use", "done")
  /\ UNCHANGED <<fixed, timer, disk, built, lock, result, robbed, fate>>

(***************************************************************************)
(* The environment.                                                        *)
(***************************************************************************)
Kill(p) ==
  /\ p \in Mortal
  /\ pc[p] \notin {"idle", "done"}
  /\ pc' = [pc EXCEPT ![p] = "done"]
  /\ Restart(p)
  /\ killed' = killed \cup {p}
  /\ UNCHANGED <<fixed, disk, built, lock, result, robbed, damages>>

\* Something outside alters a tree at rest.  What is altered under a holder's
\* hands, before it is hashed in place, no code could notice.
Damage ==
  /\ damages < MaxDamage
  /\ files \in {Pinned} \cup Command
  /\ \A p \in Process : ~Holds(p)
  /\ files' = Spoilt
  /\ damages' = damages + 1
  /\ UNCHANGED <<fixed, pc, timer, manifest, stages, built, lock, result, robbed, killed>>

Tick ==
  /\ \E p \in Process : Waits(p) \/ Holds(p)
  /\ \A p \in Process : Holds(p) => timer[p] < HoldMax
  /\ lock' = Aged(lock)
  /\ timer' = [p \in Process |->
                 IF Holds(p) \/ (Waits(p) /\ timer[p] < Deadline)
                 THEN timer[p] + 1 ELSE timer[p]]
  /\ UNCHANGED <<fixed, pc, disk, built, result, robbed, fate>>

Wait(p) ==
  \/ Hit(p) \/ Miss(p) \/ TakeLock(p) \/ LockBusy(p) \/ GiveUp(p) \/ PollMiss(p)
  \/ LockGone(p) \/ LockThere(p) \/ StatThrows(p) \/ StatFresh(p)
  \/ StatStale(p) \/ BreakLock(p)

UnderLock(p) ==
  \/ RecheckHit(p) \/ RecheckMiss(p) \/ Clear(p) \/ NoArchive(p)
  \/ Make(p) \/ MakeFails(p) \/ Put(p) \/ PutFails(p) \/ PutFile(p)
  \/ Unpack(p) \/ UnpackFails(p) \/ Plain(p) \/ PlainFails(p) \/ Strip(p)
  \/ Compile(p) \/ CompileFails(p) \/ Seal(p) \/ SealFails(p) \/ Release(p)

Step(p) == Wait(p) \/ UnderLock(p) \/ UseEnds(p)

\* All calls have returned.
Over == (\A p \in Process : pc[p] = "done") /\ UNCHANGED vars

Next ==
  \/ \E p \in Process : Start(p) \/ Step(p) \/ Kill(p)
  \/ Damage \/ Tick \/ Over

Spec == Init /\ [][Next]_vars

\* The operating system runs every call, downloads and compilers end, and time
\* passes.
FairSpec == Spec /\ WF_vars(Tick) /\ \A p \in Process : WF_vars(Step(p))

-----------------------------------------------------------------------------
(***************************************************************************)
(* Properties                                                              *)
(***************************************************************************)
\* What a call would accept is a whole tree, made by the compiler it asks for:
\* never the bare archive, a directory half filled, or a pair of a file and a
\* manifest that a crash between the two renames left behind.  A tree that is
\* filled in place is only as good as the lock: with two holders, one
\* certifies what the other has not finished.
VerifiedIsWhole ==
  tree \notin Filled \/ robbed = {}
  => \A p \in Process : Verified(p) => files = Product(p)

Alike == \A p, q \in Process : cmd[p] = cmd[q]

\* As long as nobody is killed and nothing is damaged, at most one of the calls
\* that want the same tree downloads or compiles it, however they meet.
OneBuild == killed = {} /\ damages = 0 /\ Alike => Cardinality(built) <= 1

\* A tree that some call would accept is not removed or replaced by another
\* that wants the same: it may be compiling with it.
TreeKept ==
  [][(\E p \in Process : Verified(p)) /\ Alike
     => files' = files \/ killed # {} \/ damages' # damages]_vars

\* When all calls have ended, none of them killed, no lock is left, nor any
\* stage that is removed in a finally block.
CleanExit ==
  (\A p \in Process : pc[p] = "done") /\ killed = {}
  => lock = Free /\ (tree \in Tidy => stages = {})

\* Every call returns or throws, whatever is killed and whoever's lock is
\* removed.
Termination == \A p \in Process : pc[p] # "idle" ~> pc[p] = "done"

\* "Zig acquisition is atomic, shared concurrently, and warm-cache offline"
\* (toolchain.test.ts): with nobody killed and no failure of the download, no
\* concurrent call fails for having looked at the lock.
ConcurrentCallsShare ==
  killed = {} /\ (\A p \in Process : result[p] # "failed")
  => \A p \in Process : result[p] # "enoent"

=============================================================================
