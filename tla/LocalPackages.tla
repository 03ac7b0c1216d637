----------------------------- MODULE LocalPackages -----------------------------
(***************************************************************************)
(* scripts/with-local-packages.ts: a run moves packages of node_modules    *)
(* aside, puts links to a local checkout in their place, runs a command    *)
(* and moves them back.  It may be killed between any two calls; the next  *)
(* run repairs what it finds.  Nothing keeps two runs apart.               *)
(***************************************************************************)
EXTENDS Naturals, Sequences

CONSTANTS
  Package,
  PackageOrder,  \* PACKAGES, the order of the repair
  Run,
  Requests       \* what --only may ask for, or what the checkout has

ASSUME PackageAssumption ==
  /\ PackageOrder \in Seq(Package)
  /\ \A p \in Package : \E i \in 1..Len(PackageOrder) : PackageOrder[i] = p
  /\ Requests \subseteq Seq(Package)

VARIABLES
  entry,        \* node_modules/@sproutboat/<pkg>: a directory, a link or none
  backup,       \* .<pkg>.with-local-packages-backup
  run,          \* where each run is
  reinstalled,  \* packages that `bun install` put back by itself
  sole          \* history: the latest run, if no other has overlapped with it

packageVars == <<entry, backup, run, reinstalled, sole>>

Idle == [at |-> "idle", todo |-> <<>>, linked |-> <<>>, signals |-> 0, undoing |-> FALSE]

PackagesInit ==
  /\ entry = [p \in Package |-> "dir"]
  /\ backup = [p \in Package |-> "none"]
  /\ run = [r \in Run |-> Idle]
  /\ reinstalled = {}
  /\ sole = {}

Live(r) == run[r].at \notin {"idle", "done", "killed"}

Moves(r, changes) == run' = [run EXCEPT ![r] = changes]

\* renameSync replaces a link by a link and nothing else that is there.
CanRename(from, to) == from # "none" /\ (to = "none" \/ (from = "link" /\ to = "link"))

\* A run starts with the repair of what a killed one has left.
Launch(r) ==
  /\ run[r].at = "idle"
  /\ Moves(r, [Idle EXCEPT !.at = "look", !.todo = PackageOrder])
  /\ sole' = IF \E q \in Run : Live(q) THEN {} ELSE {r}
  /\ UNCHANGED <<entry, backup, reinstalled>>

-----------------------------------------------------------------------------
(* restore: of the first package in todo, for the repair and for the end. *)

Skip(r) == [run[r] EXCEPT !.at = "look", !.todo = Tail(@)]

\* A call throws: restoreAll goes on with the next package, the repair, which
\* nothing catches, ends the run before it has linked anything.
Throws(r) == IF run[r].undoing THEN Skip(r) ELSE [Idle EXCEPT !.at = "done"]

Stands(r, place) == run[r].at = place /\ run[r].todo # <<>>

LookBackup(r) ==
  /\ Stands(r, "look")
  /\ Moves(r, IF backup[Head(run[r].todo)] = "none" THEN Skip(r)
              ELSE [run[r] EXCEPT !.at = "lookEntry"])
  /\ UNCHANGED <<entry, backup, reinstalled, sole>>

\* Mutant: whatever is at the entry is removed.
LookEntryCarelessly(r) ==
  /\ Stands(r, "lookEntry")
  /\ Moves(r, [run[r] EXCEPT !.at = "moveBack"])
  /\ entry' = [entry EXCEPT ![Head(run[r].todo)] = "none"]
  /\ UNCHANGED <<backup, reinstalled, sole>>

\* Only our own link is ever removed: a directory leaves the backup alone.
LookEntry(r) ==
  /\ Stands(r, "lookEntry")
  /\ LET e == entry[Head(run[r].todo)] IN
       Moves(r, CASE e = "none" -> [run[r] EXCEPT !.at = "moveBack"]
                  [] e = "link" -> [run[r] EXCEPT !.at = "remove"]
                  [] OTHER -> Skip(r))
  /\ UNCHANGED <<entry, backup, reinstalled, sole>>

\* rmSync without `recursive` fails on a directory.
RemoveLink(r) ==
  /\ Stands(r, "remove")
  /\ LET p == Head(run[r].todo) IN
       IF entry[p] = "link"
       THEN /\ entry' = [entry EXCEPT ![p] = "none"]
            /\ Moves(r, [run[r] EXCEPT !.at = "moveBack"])
       ELSE UNCHANGED entry /\ Moves(r, Throws(r))
  /\ UNCHANGED <<backup, reinstalled, sole>>

MoveBack(r) ==
  /\ Stands(r, "moveBack")
  /\ LET p == Head(run[r].todo) IN
       IF CanRename(backup[p], entry[p])
       THEN /\ entry' = [entry EXCEPT ![p] = backup[p]]
            /\ backup' = [backup EXCEPT ![p] = "none"]
            /\ Moves(r, Skip(r))
       ELSE UNCHANGED <<entry, backup>> /\ Moves(r, Throws(r))
  /\ UNCHANGED <<reinstalled, sole>>

-----------------------------------------------------------------------------
\* `requested` and the checks: each package must have an entry.
Request(r, wanted) ==
  /\ run[r].at = "look" /\ run[r].todo = <<>> /\ ~run[r].undoing
  /\ Moves(r, IF \E i \in DOMAIN wanted : entry[wanted[i]] = "none"
              THEN [Idle EXCEPT !.at = "done"]
              ELSE [Idle EXCEPT !.at = "moveAside", !.todo = wanted])
  /\ UNCHANGED <<entry, backup, reinstalled, sole>>

\* restoreAll: the linked packages, the last first.  `restored` is never asked
\* again, because every way out of the run ends it right after.
Undo(r, state) ==
  [state EXCEPT !.at = "look", !.undoing = TRUE,
                !.todo = [i \in DOMAIN state.linked |-> state.linked[Len(state.linked) + 1 - i]]]

\* Mutant: the package is noted as linked only once its link is there.
MoveAsideUnnoted(r) ==
  /\ Stands(r, "moveAside")
  /\ LET p == Head(run[r].todo) IN
       IF CanRename(entry[p], backup[p])
       THEN /\ backup' = [backup EXCEPT ![p] = entry[p]]
            /\ entry' = [entry EXCEPT ![p] = "none"]
            /\ Moves(r, [run[r] EXCEPT !.at = "link"])
       ELSE UNCHANGED <<entry, backup>> /\ Moves(r, Undo(r, run[r]))
  /\ UNCHANGED <<reinstalled, sole>>

MoveAside(r) ==
  /\ Stands(r, "moveAside")
  /\ LET p == Head(run[r].todo) IN
       IF CanRename(entry[p], backup[p])
       THEN /\ backup' = [backup EXCEPT ![p] = entry[p]]
            /\ entry' = [entry EXCEPT ![p] = "none"]
            /\ Moves(r, [run[r] EXCEPT !.at = "link", !.linked = Append(@, p)])
       ELSE UNCHANGED <<entry, backup>> /\ Moves(r, Undo(r, run[r]))
  /\ UNCHANGED <<reinstalled, sole>>

Link(r) ==
  /\ Stands(r, "link")
  /\ entry[Head(run[r].todo)] = "none"
  /\ entry' = [entry EXCEPT ![Head(run[r].todo)] = "link"]
  /\ Moves(r, [run[r] EXCEPT !.at = IF Len(run[r].todo) = 1 THEN "command" ELSE "moveAside",
                             !.todo = Tail(@)])
  /\ UNCHANGED <<backup, reinstalled, sole>>

\* EEXIST, or the file system refuses.
LinkFails(r) ==
  /\ Stands(r, "link")
  /\ Moves(r, Undo(r, run[r]))
  /\ UNCHANGED <<entry, backup, reinstalled, sole>>

\* The command ends by itself or of a signal, or cannot be started.  All before
\* is synchronous, so a signal is first heard here; the second kills the command.
Signal(r) ==
  /\ run[r].at = "command" /\ run[r].signals < 2
  /\ Moves(r, [run[r] EXCEPT !.signals = @ + 1])
  /\ UNCHANGED <<entry, backup, reinstalled, sole>>

CommandEnds(r) ==
  /\ run[r].at = "command"
  /\ Moves(r, Undo(r, run[r]))
  /\ UNCHANGED <<entry, backup, reinstalled, sole>>

Exit(r) ==
  /\ run[r].at = "look" /\ run[r].todo = <<>> /\ run[r].undoing
  /\ Moves(r, [Idle EXCEPT !.at = "done"])
  /\ UNCHANGED <<entry, backup, reinstalled, sole>>

\* SIGKILL between any two calls.
RunKilled(r) ==
  /\ Live(r)
  /\ Moves(r, [Idle EXCEPT !.at = "killed"])
  /\ UNCHANGED <<entry, backup, reinstalled, sole>>

\* Someone runs `bun install`, which puts the directory back and knows nothing
\* of the backup.  Between the calls of a run it counts as an overlap.
Reinstall(p) ==
  /\ entry[p] # "dir" /\ p \notin reinstalled
  /\ entry' = [entry EXCEPT ![p] = "dir"]
  /\ reinstalled' = reinstalled \cup {p}
  /\ sole' = {r \in sole : Live(r) => run[r].at = "command"}
  /\ UNCHANGED <<backup, run>>

RunStep(r) ==
  \/ Launch(r) \/ LookBackup(r) \/ LookEntry(r) \/ RemoveLink(r) \/ MoveBack(r)
  \/ \E wanted \in Requests : Request(r, wanted)
  \/ MoveAside(r) \/ Link(r) \/ LinkFails(r) \/ Signal(r) \/ CommandEnds(r)
  \/ Exit(r) \/ RunKilled(r)

PackagesNext == (\E r \in Run : RunStep(r)) \/ (\E p \in Package : Reinstall(p))

PackagesSpec == PackagesInit /\ [][PackagesNext]_packageVars

-----------------------------------------------------------------------------
Kinds == {"dir", "link", "none"}

PlacesOK == entry \in [Package -> Kinds] /\ backup \in [Package -> Kinds]

\* Whatever runs overlap, are killed or fail, and whatever else installs the
\* packages meanwhile, the directory of a package that was installed is at its
\* place or moved aside: restore removes nothing but the script's own links.
NeverLost == \A p \in Package : entry[p] = "dir" \/ backup[p] = "dir"

\* At its place, and nothing moved aside, unless `bun install` put it there.
Home(p) == entry[p] = "dir" /\ (backup[p] = "none" \/ p \in reinstalled)

\* A run that no other overlaps leaves every package at its place, however its
\* command or its links fail, and finds it there after its repair, however
\* earlier runs were killed; and so do runs that overlap once all are over, if
\* none was killed.  with-local-packages.ts, its opening comment.
Restored ==
  /\ \A r \in sole :
       \/ run[r].at = "done"
       \/ run[r].at = "moveAside" /\ run[r].linked = <<>>
       => \A p \in Package : Home(p)
  /\ (\A r \in Run : run[r].at \in {"idle", "done"}) => \A p \in Package : Home(p)

=============================================================================
