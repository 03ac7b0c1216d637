---------------------------- MODULE PorfforBuilds ----------------------------
(***************************************************************************)
(* compile.ts: prunePorfforBuilds, which each process that compiles runs   *)
(* once beside its compile, while it and others compile in the directories *)
(* that are looked at.                                                     *)
(***************************************************************************)
EXTENDS Naturals, Sequences, FiniteSets, Functions

CONSTANTS
  BuildDir,  \* the build directories
  Pruner,    \* the processes
  Keep,      \* how many directories are kept at most
  Week,      \* how long a directory is kept that is not used
  LastDay    \* bound: the time at which a behaviour ends

ASSUME PruneAssumption ==
  /\ IsFiniteSet(BuildDir)
  /\ Keep \in Nat /\ Week \in Nat /\ LastDay \in Nat /\ LastDay > Week

VARIABLES
  day,      \* the time
  used,     \* when each directory's flags were written; 0 if it is not there
  lastUse,  \* the same, also when it is gone: history, which no process knows
  pruning,  \* where each process is
  entries,  \* the names it has yet to stat
  dirs,     \* what it has found: names and times
  index,    \* how many of them it has gone through
  since     \* when it began

pruneVars == <<day, used, lastUse, pruning, entries, dirs, index, since>>

PruneInit ==
  /\ day = LastDay - Week
  /\ used \in [BuildDir -> 0..day] /\ lastUse = used
  /\ pruning = [p \in Pruner |-> "before"]
  /\ entries = [p \in Pruner |-> {}] /\ dirs = [p \in Pruner |-> <<>>]
  /\ index = [p \in Pruner |-> 0] /\ since = [p \in Pruner |-> 0]

DayPasses ==
  /\ day < LastDay
  /\ day' = day + 1
  /\ UNCHANGED <<used, lastUse, pruning, entries, dirs, index, since>>

\* Porffor makes the directory of an entry path or uses it again.
Compile(d) ==
  /\ used' = [used EXCEPT ![d] = day]
  /\ lastUse' = [lastUse EXCEPT ![d] = day]
  /\ UNCHANGED <<day, pruning, entries, dirs, index, since>>

List(p) ==
  /\ pruning[p] = "before"
  /\ pruning' = [pruning EXCEPT ![p] = "looks"]
  /\ since' = [since EXCEPT ![p] = day]
  /\ entries' = [entries EXCEPT ![p] = {d \in BuildDir : used[d] # 0}]
  /\ UNCHANGED <<day, used, lastUse, dirs, index>>

\* readdir has the names in no order.  A directory that has gone since is left out.
Stat(p, d) ==
  /\ pruning[p] = "looks" /\ d \in entries[p]
  /\ dirs' = [dirs EXCEPT ![p] = IF used[d] = 0 THEN @ ELSE Append(@, <<d, used[d]>>)]
  /\ entries' = [entries EXCEPT ![p] = @ \ {d}]
  /\ UNCHANGED <<day, used, lastUse, pruning, index, since>>

\* Mutant: the oldest come first.
LaterReversed(x, y) == x[2] < y[2]

Later(x, y) == x[2] > y[2]

\* The latest first, and of one time in the order they had.
Sorting(order, found) ==
  \A i, j \in DOMAIN found : i < j =>
    \/ Later(found[order[i]], found[order[j]])
    \/ found[order[i]][2] = found[order[j]][2] /\ order[i] < order[j]

Sort(p) ==
  /\ pruning[p] = "looks" /\ entries[p] = {}
  /\ pruning' = [pruning EXCEPT ![p] = "removes"]
  /\ \E order \in Bijection(DOMAIN dirs[p], DOMAIN dirs[p]) :
       /\ Sorting(order, dirs[p])
       /\ dirs' = [dirs EXCEPT ![p] = [i \in DOMAIN dirs[p] |-> dirs[p][order[i]]]]
  /\ UNCHANGED <<day, used, lastUse, entries, index, since>>

\* The old ones go, and all but some; index counts from 0 in the code.
Visit(p) ==
  /\ pruning[p] = "removes" /\ index[p] < Len(dirs[p])
  /\ LET x == dirs[p][index[p] + 1]
     IN used' = IF x[2] + Week < since[p] \/ index[p] >= Keep THEN [used EXCEPT ![x[1]] = 0] ELSE used
  /\ index' = [index EXCEPT ![p] = index[p] + 1]
  /\ UNCHANGED <<day, lastUse, pruning, entries, dirs, since>>

PruneNext ==
  \/ DayPasses
  \/ \E d \in BuildDir : Compile(d) \/ \E p \in Pruner : Stat(p, d)
  \/ \E p \in Pruner : List(p) \/ Sort(p) \/ Visit(p)

PruneSpec == PruneInit /\ [][PruneNext]_pruneVars

-----------------------------------------------------------------------------
\* Of the directories that are not used again after a process has seen them,
\* only those go that were not used for a week, or since when as many others were
\* used as are kept; also when processes prune at once, each by what it saw.
RecentBuildsKept ==
  [][\A p \in Pruner : index'[p] # index[p] =>
       LET x == dirs[p][index'[p]]  d == x[1] IN
       used[d] = x[2] /\ used'[d] = 0 =>
         \/ used[d] + Week < day
         \/ Cardinality({e \in BuildDir \ {d} : lastUse[e] >= used[d]}) >= Keep]_pruneVars

=============================================================================
