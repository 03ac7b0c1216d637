------------------------------- MODULE DirLock -------------------------------
(***************************************************************************)
(* The lock every on-disk cache of the CLI is guarded by: a directory that *)
(* mkdir creates for exactly one caller, that its holder removes when it   *)
(* is done, and that a waiter removes once its mtime is older than a       *)
(* limit.  The directory names no owner: whoever calls rm removes whatever *)
(* directory is there.                                                     *)
(*                                                                         *)
(* A lock is the age of its directory, in ticks since the mkdir, or Free   *)
(* when there is no directory.  Ages saturate one tick past StaleAge:      *)
(* nothing in the code tells apart two directories that are both too old.  *)
(***************************************************************************)
EXTENDS Integers

CONSTANT StaleAge  \* a waiter removes a directory OLDER than this

ASSUME StaleAgeAssumption == StaleAge \in Nat \ {0}

Free == -1

Lock == {Free} \cup 0 .. (StaleAge + 1)

\* What a successful mkdir leaves, and the only state in which it succeeds.
Fresh == 0
CanMake(lock) == lock = Free

\* Mutant: a lock as old as the limit is removed too.
IsStaleAtLimit(lock) == lock >= StaleAge

\* Date.now() - info.mtimeMs > 15 * 60_000, for the directory stat returned;
\* a stat that finds nothing (null) is not stale.
IsStale(lock) == lock > StaleAge

\* One tick older, if there is a directory.
Aged(lock) ==
  IF lock = Free THEN Free ELSE IF lock > StaleAge THEN lock ELSE lock + 1

=============================================================================
