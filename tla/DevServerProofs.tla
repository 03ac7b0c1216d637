---------------------------- MODULE DevServerProofs ----------------------------
(***************************************************************************)
(* For any number of saves and of watcher errors: the dev server serves    *)
(* with one candidate at a time, stops all others, never goes back to an   *)
(* older version of the project, and forgets no save.                      *)
(***************************************************************************)
EXTENDS DevServer, TLAPS

Places == {"new", "reading", "building", "booting", "done"}
Phases == {"starting", "serving", "shutdown", "returned", "exited", "failed"}

Types ==
  /\ disk \in Version
  /\ ver \in [Candidate -> Version]
  /\ task \in [Candidate -> Places]
  /\ proc \in [Candidate -> {"none", "booting", "up", "dead"}]
  /\ stopped \subseteq Candidate /\ dispatch \subseteq Candidate
  /\ running \in Candidate /\ pending \in Candidate \cup {Nobody}
  /\ phase \in Phases
  /\ watchErrors \in Nat

Flying == {"reading", "building", "booting"}

\* `rebuilding` keeps rebuilds one at a time, and pendingCandidate is the one
\* that boots.
OneAtATime ==
  /\ \A t \in Rebuild : task[t] \in Flying => rebuilding
  /\ \A s, t \in Rebuild : task[s] \in Flying /\ task[t] \in Flying => s = t
  /\ \A t \in Rebuild : task[t] = "booting" <=> pending = t
  /\ pending # 0

\* Before the first candidate serves there is no other, and without a watcher
\* there never is.
FirstAlone ==
  /\ phase = "starting" =>
       /\ running = 0 /\ task[0] \in {"building", "booting"}
       /\ stopped = {} /\ dispatch = {} /\ watchErrors = 0
  /\ phase \notin {"starting", "failed"} => task[0] = "done"
  /\ phase = "starting" \/ ~watch =>
       /\ event = FALSE /\ watching = FALSE /\ timer = FALSE /\ dirty = FALSE
       /\ \A t \in Rebuild : task[t] = "new"

\* Versions are read from the disk, which only gets newer; what a rebuild has
\* read is not older than what is served, so that neither is the next.
InOrder ==
  /\ \A i \in Candidate : ver[i] <= disk
  /\ \A t \in Rebuild : task[t] \in {"building", "booting"} => ver[running] <= ver[t]
  /\ phase \notin {"starting", "failed"} => task[running] = "done"

\* A candidate has no process before it boots, and nobody stops it.
NotYet ==
  \A i \in Candidate :
    /\ task[i] \in {"new", "reading", "building"} => proc[i] = "none" /\ i \notin stopped
    /\ task[i] = "booting" /\ phase = "serving" => i \notin stopped

\* Who has a process and was not stopped serves or boots, until the signal.
Accounted ==
  watchErrors = 0 /\ phase # "failed" =>
    \A i \in Candidate :
      proc[i] # "none" /\ i \notin stopped =>
        /\ phase \in {"starting", "serving"}
        /\ i = running \/ task[i] = "booting"

\* The flag is up only while a rebuild is in flight, and the timer is set only
\* for a change that no rebuild has begun for.
Busy ==
  /\ rebuilding => \E t \in Rebuild : task[t] \in Flying
  /\ timer => dirty

\* A save that is not settled is on its way: the watchers have yet to tell, the
\* timer is set, or a rebuild is in flight that will read the latest version, has
\* read it, or will find at its end that a change came in between.
Pursued ==
  \/ Settled \/ event \/ timer
  \/ \E t \in Rebuild :
       \/ task[t] = "reading"
       \/ task[t] \in {"building", "booting"} /\ (ver[t] = disk \/ dirty)

\* Rebuilds begin in order, and there are no more of them than there were saves.
Begun(n) == \A t \in Rebuild : task[t] = "new" <=> n < t
One(b) == IF b THEN 1 ELSE 0
Numbered ==
  /\ \E n \in 0..MaxSaves : Begun(n) /\ n + One(dirty) + One(event) <= disk
  /\ task[0] # "new"
  /\ event \in BOOLEAN /\ dirty \in BOOLEAN /\ watching \in BOOLEAN /\ watch \in BOOLEAN

\* Nothing is on its way: the coordinator would only wait.
AtRest == ~event /\ ~timer /\ \A t \in Rebuild : task[t] \notin Flying
RestIsSettled == AtRest => Settled

\* When the timer fires, there is a number left for the rebuild that begins.
NumbersSuffice ==
  timer => \E t \in Rebuild : task[t] = "new" /\ \A s \in Candidate : s < t => task[s] # "new"

DevInv ==
  /\ Types /\ OneAtATime /\ FirstAlone /\ InOrder /\ NotYet /\ Accounted /\ OneServing
  /\ Busy /\ Pursued /\ Numbered

-----------------------------------------------------------------------------
\* Rebuilds are numbered from 1: none is the first build, none is Nobody.
LEMMA Numbers ==
  /\ 0 \in Candidate /\ Nobody \notin Candidate
  /\ \A i \in Candidate : i = 0 \/ i \in Rebuild
  /\ \A t \in Rebuild : t \in Candidate /\ t # 0 /\ t # Nobody
  /\ Version = Candidate /\ Candidate \subseteq Int
BY DevAssumption DEF Candidate, Rebuild, Version, Nobody

\* Every variable keeps its type.
LEMMA TypesKept == Types /\ [Next]_vars => Types'
<1> SUFFICES ASSUME Types, [Next]_vars PROVE Types'
  OBVIOUS
<1> USE Numbers DEF Types, Places, Phases, Flying, Up, shuttingDown
<1>1. CASE OnChange \/ TimerIgnored
  BY <1>1 DEF OnChange, TimerIgnored, world, loop, fleet
<1>2. CASE FirstStarts
  BY <1>2 DEF FirstStarts, world, loop, fleet
<1>3. CASE FirstReady
  BY <1>3 DEF FirstReady, world, loop, fleet
<1>30. CASE FirstWatchFails
  BY <1>30 DEF FirstWatchFails, world, loop, fleet
<1>4. CASE FirstFails
  BY <1>4 DEF FirstFails, Stop, world, loop, fleet
<1>5. CASE Save
  <2>1. disk' \in Version
    BY <1>5, DevAssumption DEF Save, Version
  <2> QED BY <1>5, <2>1 DEF Save, fleet
<1>6. CASE ReturnWatching
  BY <1>6 DEF ReturnWatching, world, loop, fleet
<1>7. CASE ReturnNoWatch
  BY <1>7 DEF ReturnNoWatch, Stop, world, loop, fleet
<1>8. CASE Shutdown
  BY <1>8 DEF Shutdown, Stop, world, loop, fleet
<1>9. ASSUME NEW t \in Rebuild, TimerStarts(t) PROVE Types'
  BY <1>9 DEF TimerStarts, world, loop, fleet
<1>10. ASSUME NEW t \in Rebuild, ReadOk(t) PROVE Types'
  BY <1>10 DEF ReadOk, world, loop, fleet
<1>11. ASSUME NEW t \in Rebuild, ReadThrows(t) PROVE Types'
  BY <1>11 DEF ReadThrows, Finally, world, loop, fleet
<1>12. ASSUME NEW t \in Rebuild, ReadExits(t) PROVE Types'
  BY <1>12 DEF ReadExits, world, loop, fleet
<1>13. ASSUME NEW t \in Rebuild, StartFails(t) PROVE Types'
  BY <1>13 DEF StartFails, Finally, world, loop, fleet
<1>14. ASSUME NEW t \in Rebuild, StartOk(t) PROVE Types'
  BY <1>14 DEF StartOk, world, loop, fleet
<1>15. ASSUME NEW t \in Rebuild, StartTooLate(t) PROVE Types'
  BY <1>15 DEF StartTooLate, Finally, Stop, world, loop, fleet
<1>16. ASSUME NEW t \in Rebuild, NotReady(t) PROVE Types'
  BY <1>16 DEF NotReady, Finally, Stop, world, loop, fleet
<1>17. ASSUME NEW t \in Rebuild, Switch(t) PROVE Types'
  BY <1>17 DEF Switch, Finally, CanSwitch, world, loop, fleet
<1>18. ASSUME NEW t \in Rebuild, SwitchWatchFails(t) PROVE Types'
  <2>1. watchErrors' \in Nat
    BY <1>18 DEF SwitchWatchFails
  <2>2. task' \in [Candidate -> Places] /\ dispatch' \subseteq Candidate
    BY <1>18 DEF SwitchWatchFails, Finally
  <2> QED BY <1>18, <2>1, <2>2 DEF SwitchWatchFails
<1>19. ASSUME NEW t \in Candidate, Boots(t) PROVE Types'
  BY <1>19 DEF Boots, world, loop, fleet
<1>20. ASSUME NEW t \in Candidate, Exits(t) PROVE Types'
  BY <1>20 DEF Exits, world, loop, fleet
<1>21. CASE UNCHANGED vars
  BY <1>21 DEF vars
<1> QED
  BY <1>30, <1>1, <1>2, <1>3, <1>4, <1>5, <1>6, <1>7, <1>8, <1>9, <1>10, <1>11, <1>12, <1>13, <1>14,
     <1>15, <1>16, <1>17, <1>18, <1>19, <1>20, <1>21 DEF Next, First, Coordinator, Work

\* A rebuild begins only while none is in flight, and each ends by clearing the
\* flag: the flag really keeps them one at a time.
LEMMA OneAtATimeKept == Types /\ OneAtATime /\ [Next]_vars => OneAtATime'
<1> SUFFICES ASSUME Types, OneAtATime, [Next]_vars PROVE OneAtATime'
  OBVIOUS
<1> USE Numbers DEF Types, OneAtATime, Places, Phases, Flying, Up, shuttingDown
<1>1. CASE Save \/ OnChange \/ TimerIgnored \/ ReturnWatching \/ ReturnNoWatch \/ Shutdown
  BY <1>1 DEF Save, OnChange, TimerIgnored, ReturnWatching, ReturnNoWatch, Shutdown, Stop,
     world, loop, fleet
<1>2. ASSUME NEW t \in Rebuild, ReadExits(t) PROVE OneAtATime'
  BY <1>2 DEF ReadExits, world, loop, fleet
<1>3. ASSUME NEW t \in Candidate, Boots(t) \/ Exits(t) PROVE OneAtATime'
  BY <1>3 DEF Boots, Exits, world, loop, fleet
<1>4. CASE FirstStarts
  BY <1>4 DEF FirstStarts, world, loop, fleet
<1>5. CASE FirstReady
  BY <1>5 DEF FirstReady, world, loop, fleet
<1>30. CASE FirstWatchFails
  BY <1>30 DEF FirstWatchFails, world, loop, fleet
<1>6. CASE FirstFails
  BY <1>6 DEF FirstFails, Stop, world, loop, fleet
<1>7. ASSUME NEW t \in Rebuild, TimerStarts(t) PROVE OneAtATime'
  BY <1>7 DEF TimerStarts, world, loop, fleet
<1>8. ASSUME NEW t \in Rebuild, ReadOk(t) PROVE OneAtATime'
  BY <1>8 DEF ReadOk, world, loop, fleet
<1>9. ASSUME NEW t \in Rebuild, ReadThrows(t) PROVE OneAtATime'
  BY <1>9 DEF ReadThrows, Finally, world, loop, fleet
<1>10. ASSUME NEW t \in Rebuild, StartFails(t) PROVE OneAtATime'
  BY <1>10 DEF StartFails, Finally, world, loop, fleet
<1>11. ASSUME NEW t \in Rebuild, StartOk(t) PROVE OneAtATime'
  BY <1>11 DEF StartOk, world, loop, fleet
<1>12. ASSUME NEW t \in Rebuild, StartTooLate(t) PROVE OneAtATime'
  BY <1>12 DEF StartTooLate, Finally, Stop, world, loop, fleet
<1>13. ASSUME NEW t \in Rebuild, NotReady(t) PROVE OneAtATime'
  BY <1>13 DEF NotReady, Finally, Stop, world, loop, fleet
<1>14. ASSUME NEW t \in Rebuild, Switch(t) PROVE OneAtATime'
  BY <1>14 DEF Switch, Finally, CanSwitch, world, loop, fleet
<1>15. ASSUME NEW t \in Rebuild, SwitchWatchFails(t) PROVE OneAtATime'
  BY <1>15 DEF SwitchWatchFails, Finally, CanSwitch, world, loop, fleet
<1>16. CASE UNCHANGED vars
  BY <1>16 DEF vars
<1> QED
  BY <1>30, <1>1, <1>2, <1>3, <1>4, <1>5, <1>6, <1>7, <1>8, <1>9, <1>10, <1>11, <1>12, <1>13, <1>14,
     <1>15, <1>16 DEF Next, First, Coordinator, Work

\* Nothing is watched before the first candidate serves, so that no rebuild can
\* overtake it.
LEMMA FirstAloneKept == Types /\ OneAtATime /\ FirstAlone /\ [Next]_vars => FirstAlone'
<1> SUFFICES ASSUME Types, OneAtATime, FirstAlone, [Next]_vars PROVE FirstAlone'
  OBVIOUS
<1> USE Numbers DEF Types, OneAtATime, FirstAlone, Places, Phases, Flying, Up, shuttingDown
<1>1. ASSUME NEW t \in Candidate, Boots(t) \/ Exits(t) PROVE FirstAlone'
  BY <1>1 DEF Boots, Exits, world, loop, fleet
<1>2. CASE FirstStarts
  BY <1>2 DEF FirstStarts, world, loop, fleet
<1>3. CASE FirstReady
  BY <1>3 DEF FirstReady, world, loop, fleet
<1>30. CASE FirstWatchFails
  BY <1>30 DEF FirstWatchFails, world, loop, fleet
<1>4. CASE FirstFails
  BY <1>4 DEF FirstFails, Stop, world, loop, fleet
<1>5. CASE Save
  BY <1>5 DEF Save, world, loop, fleet
<1>6. CASE OnChange
  BY <1>6 DEF OnChange, world, loop, fleet
<1>7. CASE TimerIgnored
  BY <1>7 DEF TimerIgnored, world, loop, fleet
<1>8. CASE ReturnWatching
  BY <1>8 DEF ReturnWatching, world, loop, fleet
<1>9. CASE ReturnNoWatch
  BY <1>9 DEF ReturnNoWatch, Stop, world, loop, fleet
<1>10. CASE Shutdown
  BY <1>10 DEF Shutdown, Stop, world, loop, fleet
<1>11. ASSUME NEW t \in Rebuild, TimerStarts(t) PROVE FirstAlone'
  BY <1>11 DEF TimerStarts, world, loop, fleet
<1>12. ASSUME NEW t \in Rebuild, ReadOk(t) PROVE FirstAlone'
  BY <1>12 DEF ReadOk, world, loop, fleet
<1>13. ASSUME NEW t \in Rebuild, ReadThrows(t) PROVE FirstAlone'
  BY <1>13 DEF ReadThrows, Finally, world, loop, fleet
<1>14. ASSUME NEW t \in Rebuild, ReadExits(t) PROVE FirstAlone'
  BY <1>14 DEF ReadExits, world, loop, fleet
<1>15. ASSUME NEW t \in Rebuild, StartFails(t) PROVE FirstAlone'
  BY <1>15 DEF StartFails, Finally, world, loop, fleet
<1>16. ASSUME NEW t \in Rebuild, StartOk(t) PROVE FirstAlone'
  BY <1>16 DEF StartOk, world, loop, fleet
<1>17. ASSUME NEW t \in Rebuild, StartTooLate(t) PROVE FirstAlone'
  BY <1>17 DEF StartTooLate, Finally, Stop, world, loop, fleet
<1>18. ASSUME NEW t \in Rebuild, NotReady(t) PROVE FirstAlone'
  BY <1>18 DEF NotReady, Finally, Stop, world, loop, fleet
<1>19. ASSUME NEW t \in Rebuild, Switch(t) PROVE FirstAlone'
  BY <1>19 DEF Switch, Finally, CanSwitch, world, loop, fleet
<1>20. ASSUME NEW t \in Rebuild, SwitchWatchFails(t) PROVE FirstAlone'
  BY <1>20 DEF SwitchWatchFails, Finally, CanSwitch, world, loop, fleet
<1>21. CASE UNCHANGED vars
  BY <1>21 DEF vars
<1> QED
  BY <1>30, <1>1, <1>2, <1>3, <1>4, <1>5, <1>6, <1>7, <1>8, <1>9, <1>10, <1>11, <1>12, <1>13, <1>14,
     <1>15, <1>16, <1>17, <1>18, <1>19, <1>20, <1>21 DEF Next, First, Coordinator, Work

\* What a rebuild reads is the disk's version, and the route only moves to what
\* the one rebuild in flight has read.
LEMMA InOrderKept == Types /\ OneAtATime /\ FirstAlone /\ InOrder /\ [Next]_vars => InOrder'
<1> SUFFICES ASSUME Types, OneAtATime, FirstAlone, InOrder, [Next]_vars PROVE InOrder'
  OBVIOUS
<1> USE Numbers DEF Types, OneAtATime, FirstAlone, InOrder, Places, Phases, Flying, Up,
        shuttingDown
<1>1. CASE OnChange \/ TimerIgnored
  BY <1>1 DEF OnChange, TimerIgnored, world, loop, fleet
<1>2. ASSUME NEW t \in Candidate, Boots(t) \/ Exits(t) PROVE InOrder'
  BY <1>2 DEF Boots, Exits, world, loop, fleet
<1>3. CASE FirstStarts
  BY <1>3 DEF FirstStarts, world, loop, fleet
<1>4. CASE FirstReady
  BY <1>4 DEF FirstReady, world, loop, fleet
<1>30. CASE FirstWatchFails
  BY <1>30 DEF FirstWatchFails, world, loop, fleet
<1>5. CASE FirstFails
  BY <1>5 DEF FirstFails, Stop, world, loop, fleet
<1>6. CASE Save
  <2>1. disk \in Int /\ \A i \in Candidate : ver[i] \in Int
    OBVIOUS
  <2>2. \A i \in Candidate : ver[i] <= disk + 1
    BY <2>1
  <2> QED BY <1>6, <2>2 DEF Save, fleet
<1>7. CASE ReturnWatching
  BY <1>7 DEF ReturnWatching, world, loop, fleet
<1>8. CASE ReturnNoWatch
  BY <1>8 DEF ReturnNoWatch, Stop, world, loop, fleet
<1>9. CASE Shutdown
  BY <1>9 DEF Shutdown, Stop, world, loop, fleet
<1>10. ASSUME NEW t \in Rebuild, TimerStarts(t) PROVE InOrder'
  BY <1>10 DEF TimerStarts, world, loop, fleet
<1>11. ASSUME NEW t \in Rebuild, ReadOk(t) PROVE InOrder'
  BY <1>11 DEF ReadOk, world, loop, fleet
<1>12. ASSUME NEW t \in Rebuild, ReadThrows(t) PROVE InOrder'
  BY <1>12 DEF ReadThrows, Finally, world, loop, fleet
<1>13. ASSUME NEW t \in Rebuild, ReadExits(t) PROVE InOrder'
  BY <1>13 DEF ReadExits, world, loop, fleet
<1>14. ASSUME NEW t \in Rebuild, StartFails(t) PROVE InOrder'
  BY <1>14 DEF StartFails, Finally, world, loop, fleet
<1>15. ASSUME NEW t \in Rebuild, StartOk(t) PROVE InOrder'
  BY <1>15 DEF StartOk, world, loop, fleet
<1>16. ASSUME NEW t \in Rebuild, StartTooLate(t) PROVE InOrder'
  BY <1>16 DEF StartTooLate, Finally, Stop, world, loop, fleet
<1>17. ASSUME NEW t \in Rebuild, NotReady(t) PROVE InOrder'
  BY <1>17 DEF NotReady, Finally, Stop, world, loop, fleet
<1>18. ASSUME NEW t \in Rebuild, Switch(t) PROVE InOrder'
  BY <1>18 DEF Switch, Finally, CanSwitch, world, loop, fleet
<1>19. ASSUME NEW t \in Rebuild, SwitchWatchFails(t) PROVE InOrder'
  BY <1>19 DEF SwitchWatchFails, Finally, CanSwitch, world, loop, fleet
<1>20. CASE UNCHANGED vars
  BY <1>20 DEF vars
<1> QED
  BY <1>30, <1>1, <1>2, <1>3, <1>4, <1>5, <1>6, <1>7, <1>8, <1>9, <1>10, <1>11, <1>12, <1>13, <1>14,
     <1>15, <1>16, <1>17, <1>18, <1>19, <1>20 DEF Next, First, Coordinator, Work

\* stop() is only called for a candidate that has booted.
LEMMA NotYetKept == Types /\ OneAtATime /\ FirstAlone /\ InOrder /\ NotYet
                    /\ [Next]_vars => NotYet'
<1> SUFFICES ASSUME Types, OneAtATime, FirstAlone, InOrder, NotYet, [Next]_vars PROVE NotYet'
  OBVIOUS
<1> USE Numbers DEF Types, OneAtATime, FirstAlone, InOrder, NotYet, Places, Phases, Flying, Up,
        shuttingDown
<1>1. CASE Save \/ OnChange \/ TimerIgnored
  BY <1>1 DEF Save, OnChange, TimerIgnored, world, loop, fleet
<1>2. CASE FirstStarts
  BY <1>2 DEF FirstStarts, world, loop, fleet
<1>3. CASE FirstReady
  BY <1>3 DEF FirstReady, world, loop, fleet
<1>30. CASE FirstWatchFails
  BY <1>30 DEF FirstWatchFails, world, loop, fleet
<1>4. CASE FirstFails
  BY <1>4 DEF FirstFails, Stop, world, loop, fleet
<1>5. CASE ReturnWatching
  BY <1>5 DEF ReturnWatching, world, loop, fleet
<1>6. CASE ReturnNoWatch
  BY <1>6 DEF ReturnNoWatch, Stop, world, loop, fleet
<1>7. CASE Shutdown
  BY <1>7 DEF Shutdown, Stop, world, loop, fleet
<1>8. ASSUME NEW t \in Rebuild, TimerStarts(t) PROVE NotYet'
  BY <1>8 DEF TimerStarts, world, loop, fleet
<1>9. ASSUME NEW t \in Rebuild, ReadOk(t) PROVE NotYet'
  BY <1>9 DEF ReadOk, world, loop, fleet
<1>10. ASSUME NEW t \in Rebuild, ReadThrows(t) PROVE NotYet'
  BY <1>10 DEF ReadThrows, Finally, world, loop, fleet
<1>11. ASSUME NEW t \in Rebuild, ReadExits(t) PROVE NotYet'
  BY <1>11 DEF ReadExits, world, loop, fleet
<1>12. ASSUME NEW t \in Rebuild, StartFails(t) PROVE NotYet'
  BY <1>12 DEF StartFails, Finally, world, loop, fleet
<1>13. ASSUME NEW t \in Rebuild, StartOk(t) PROVE NotYet'
  BY <1>13 DEF StartOk, world, loop, fleet
<1>14. ASSUME NEW t \in Rebuild, StartTooLate(t) PROVE NotYet'
  BY <1>14 DEF StartTooLate, Finally, Stop, world, loop, fleet
<1>15. ASSUME NEW t \in Rebuild, NotReady(t) PROVE NotYet'
  BY <1>15 DEF NotReady, Finally, Stop, world, loop, fleet
<1>16. ASSUME NEW t \in Rebuild, Switch(t) PROVE NotYet'
  BY <1>16 DEF Switch, Finally, CanSwitch, world, loop, fleet
<1>17. ASSUME NEW t \in Rebuild, SwitchWatchFails(t) PROVE NotYet'
  BY <1>17 DEF SwitchWatchFails, Finally, CanSwitch, world, loop, fleet
<1>18. ASSUME NEW t \in Candidate, Boots(t) PROVE NotYet'
  BY <1>18 DEF Boots, world, loop, fleet
<1>19. ASSUME NEW t \in Candidate, Exits(t) PROVE NotYet'
  BY <1>19 DEF Exits, world, loop, fleet
<1>20. CASE UNCHANGED vars
  BY <1>20 DEF vars
<1> QED
  BY <1>30, <1>1, <1>2, <1>3, <1>4, <1>5, <1>6, <1>7, <1>8, <1>9, <1>10, <1>11, <1>12, <1>13, <1>14,
     <1>15, <1>16, <1>17, <1>18, <1>19, <1>20 DEF Next, First, Coordinator, Work

\* A candidate that is neither routed nor booting was stopped, or the watchers
\* threw at the switch.
LEMMA AccountedKept == Types /\ OneAtATime /\ FirstAlone /\ NotYet /\ OneServing
                       /\ Accounted /\ [Next]_vars => Accounted'
<1> SUFFICES ASSUME Types, OneAtATime, FirstAlone, NotYet, OneServing, Accounted,
                    [Next]_vars PROVE Accounted'
  OBVIOUS
<1> USE Numbers DEF Types, OneAtATime, FirstAlone, NotYet, OneServing, Accounted, Places,
        Phases, Flying, Up, shuttingDown
<1>1. CASE Save \/ OnChange \/ TimerIgnored
  BY <1>1 DEF Save, OnChange, TimerIgnored, world, loop, fleet
<1>2. CASE FirstStarts
  BY <1>2 DEF FirstStarts, world, loop, fleet
<1>3. CASE FirstReady
  BY <1>3 DEF FirstReady, world, loop, fleet
<1>30. CASE FirstWatchFails
  BY <1>30 DEF FirstWatchFails, world, loop, fleet
<1>4. CASE FirstFails
  BY <1>4 DEF FirstFails, Stop, world, loop, fleet
<1>5. CASE ReturnWatching
  BY <1>5 DEF ReturnWatching, world, loop, fleet
<1>6. CASE ReturnNoWatch
  BY <1>6 DEF ReturnNoWatch, Stop, world, loop, fleet
<1>7. CASE Shutdown
  BY <1>7 DEF Shutdown, Stop, world, loop, fleet
<1>8. ASSUME NEW t \in Rebuild, TimerStarts(t) PROVE Accounted'
  BY <1>8 DEF TimerStarts, world, loop, fleet
<1>9. ASSUME NEW t \in Rebuild, ReadOk(t) PROVE Accounted'
  BY <1>9 DEF ReadOk, world, loop, fleet
<1>10. ASSUME NEW t \in Rebuild, ReadThrows(t) PROVE Accounted'
  BY <1>10 DEF ReadThrows, Finally, world, loop, fleet
<1>11. ASSUME NEW t \in Rebuild, ReadExits(t) PROVE Accounted'
  BY <1>11 DEF ReadExits, world, loop, fleet
<1>12. ASSUME NEW t \in Rebuild, StartFails(t) PROVE Accounted'
  BY <1>12 DEF StartFails, Finally, world, loop, fleet
<1>13. ASSUME NEW t \in Rebuild, StartOk(t) PROVE Accounted'
  BY <1>13 DEF StartOk, world, loop, fleet
<1>14. ASSUME NEW t \in Rebuild, StartTooLate(t) PROVE Accounted'
  BY <1>14 DEF StartTooLate, Finally, Stop, world, loop, fleet
<1>15. ASSUME NEW t \in Rebuild, NotReady(t) PROVE Accounted'
  BY <1>15 DEF NotReady, Finally, Stop, world, loop, fleet
<1>16. ASSUME NEW t \in Rebuild, Switch(t) PROVE Accounted'
  BY <1>16 DEF Switch, Finally, CanSwitch, world, loop, fleet
<1>17. ASSUME NEW t \in Rebuild, SwitchWatchFails(t) PROVE Accounted'
  BY <1>17 DEF SwitchWatchFails, Finally, CanSwitch, world, loop, fleet
<1>18. ASSUME NEW t \in Candidate, Boots(t) PROVE Accounted'
  BY <1>18 DEF Boots, world, loop, fleet
<1>19. ASSUME NEW t \in Candidate, Exits(t) PROVE Accounted'
  BY <1>19 DEF Exits, world, loop, fleet
<1>20. CASE UNCHANGED vars
  BY <1>20 DEF vars
<1> QED
  BY <1>30, <1>1, <1>2, <1>3, <1>4, <1>5, <1>6, <1>7, <1>8, <1>9, <1>10, <1>11, <1>12, <1>13, <1>14,
     <1>15, <1>16, <1>17, <1>18, <1>19, <1>20 DEF Next, First, Coordinator, Work

\* The one that serves is not stopped and dispatches alone.
LEMMA OneServingKept == Types /\ OneAtATime /\ FirstAlone /\ NotYet /\ InOrder /\ OneServing
                        /\ [Next]_vars => OneServing'
<1> SUFFICES ASSUME Types, OneAtATime, FirstAlone, NotYet, InOrder, OneServing,
                    [Next]_vars PROVE OneServing'
  OBVIOUS
<1> USE Numbers DEF Types, OneAtATime, FirstAlone, NotYet, InOrder, OneServing, Places, Phases,
        Flying, Up, shuttingDown
<1>1. CASE FirstStarts \/ Save \/ OnChange \/ TimerIgnored
  BY <1>1 DEF FirstStarts, Save, OnChange, TimerIgnored, world, loop, fleet
<1>2. ASSUME NEW t \in Rebuild, TimerStarts(t) \/ ReadOk(t) \/ ReadThrows(t)
             \/ StartFails(t) \/ StartOk(t) PROVE OneServing'
  BY <1>2 DEF TimerStarts, ReadOk, ReadThrows, StartFails, StartOk, Finally, world, loop, fleet
<1>3. ASSUME NEW t \in Candidate, Boots(t) \/ Exits(t) PROVE OneServing'
  BY <1>3 DEF Boots, Exits, world, loop, fleet
<1>4. CASE FirstReady
  BY <1>4 DEF FirstReady, world, loop, fleet
<1>30. CASE FirstWatchFails
  BY <1>30 DEF FirstWatchFails, world, loop, fleet
<1>5. CASE FirstFails
  BY <1>5 DEF FirstFails, Stop, world, loop, fleet
<1>6. CASE ReturnWatching
  BY <1>6 DEF ReturnWatching, world, loop, fleet
<1>7. CASE ReturnNoWatch
  BY <1>7 DEF ReturnNoWatch, Stop, world, loop, fleet
<1>8. CASE Shutdown
  BY <1>8 DEF Shutdown, Stop, world, loop, fleet
<1>9. ASSUME NEW t \in Rebuild, ReadExits(t) PROVE OneServing'
  BY <1>9 DEF ReadExits, world, loop, fleet
<1>10. ASSUME NEW t \in Rebuild, StartTooLate(t) PROVE OneServing'
  BY <1>10 DEF StartTooLate, Finally, Stop, world, loop, fleet
<1>11. ASSUME NEW t \in Rebuild, NotReady(t) PROVE OneServing'
  BY <1>11 DEF NotReady, Finally, Stop, world, loop, fleet
<1>12. ASSUME NEW t \in Rebuild, Switch(t) PROVE OneServing'
  BY <1>12 DEF Switch, Finally, CanSwitch, world, loop, fleet
<1>13. ASSUME NEW t \in Rebuild, SwitchWatchFails(t) PROVE OneServing'
  BY <1>13 DEF SwitchWatchFails, Finally, CanSwitch, world, loop, fleet
<1>14. CASE UNCHANGED vars
  BY <1>14 DEF vars
<1> QED
  BY <1>30, <1>1, <1>2, <1>3, <1>4, <1>5, <1>6, <1>7, <1>8, <1>9, <1>10, <1>11, <1>12, <1>13,
     <1>14 DEF Next, First, Coordinator, Work

\* What raises the flag begins a rebuild, and a change is forgotten only by what
\* begins one.
LEMMA BusyKept == Types /\ OneAtATime /\ FirstAlone /\ Busy /\ [Next]_vars => Busy'
<1> SUFFICES ASSUME Types, OneAtATime, FirstAlone, Busy, [Next]_vars PROVE Busy'
  OBVIOUS
<1> USE Numbers DEF Types, Places, Phases, Flying, Up, shuttingDown, OneAtATime, FirstAlone, Busy
<1>1. CASE OnChange
  BY <1>1 DEF OnChange, world, loop, fleet
<1>2. CASE TimerIgnored
  BY <1>2 DEF TimerIgnored, world, loop, fleet
<1>3. CASE FirstStarts
  BY <1>3 DEF FirstStarts, world, loop, fleet
<1>4. CASE FirstReady
  BY <1>4 DEF FirstReady, world, loop, fleet
<1>30. CASE FirstWatchFails
  BY <1>30 DEF FirstWatchFails, world, loop, fleet
<1>5. CASE FirstFails
  BY <1>5 DEF FirstFails, Stop, world, loop, fleet
<1>6. CASE Save
  BY <1>6 DEF Save, world, loop, fleet
<1>7. CASE ReturnWatching
  BY <1>7 DEF ReturnWatching, world, loop, fleet
<1>8. CASE ReturnNoWatch
  BY <1>8 DEF ReturnNoWatch, Stop, world, loop, fleet
<1>9. CASE Shutdown
  BY <1>9 DEF Shutdown, Stop, world, loop, fleet
<1>10. ASSUME NEW t \in Rebuild, TimerStarts(t) PROVE Busy'
  BY <1>10 DEF TimerStarts, world, loop, fleet
<1>11. ASSUME NEW t \in Rebuild, ReadOk(t) PROVE Busy'
  BY <1>11 DEF ReadOk, world, loop, fleet
<1>12. ASSUME NEW t \in Rebuild, ReadThrows(t) PROVE Busy'
  BY <1>12 DEF ReadThrows, Finally, world, loop, fleet
<1>13. ASSUME NEW t \in Rebuild, ReadExits(t) PROVE Busy'
  BY <1>13 DEF ReadExits, world, loop, fleet
<1>14. ASSUME NEW t \in Rebuild, StartFails(t) PROVE Busy'
  BY <1>14 DEF StartFails, Finally, world, loop, fleet
<1>15. ASSUME NEW t \in Rebuild, StartOk(t) PROVE Busy'
  BY <1>15 DEF StartOk, world, loop, fleet
<1>16. ASSUME NEW t \in Rebuild, StartTooLate(t) PROVE Busy'
  BY <1>16 DEF StartTooLate, Finally, Stop, world, loop, fleet
<1>17. ASSUME NEW t \in Rebuild, NotReady(t) PROVE Busy'
  BY <1>17 DEF NotReady, Finally, Stop, world, loop, fleet
<1>18. ASSUME NEW t \in Rebuild, Switch(t) PROVE Busy'
  BY <1>18 DEF Switch, Finally, CanSwitch, world, loop, fleet
<1>19. ASSUME NEW t \in Rebuild, SwitchWatchFails(t) PROVE Busy'
  BY <1>19 DEF SwitchWatchFails, Finally, CanSwitch, world, loop, fleet
<1>20. ASSUME NEW t \in Candidate, Boots(t) \/ Exits(t) PROVE Busy'
  BY <1>20 DEF Boots, Exits, world, loop, fleet
<1>21. CASE UNCHANGED vars
  BY <1>21 DEF vars
<1> QED
  BY <1>30, <1>1, <1>2, <1>3, <1>4, <1>5, <1>6, <1>7, <1>8, <1>9, <1>10, <1>11, <1>12, <1>13, <1>14, <1>15, <1>16, <1>17, <1>18, <1>19, <1>20, <1>21 DEF Next, First, Coordinator, Work

\* No step loses sight of the latest save.
LEMMA PursuedKept == Types /\ OneAtATime /\ FirstAlone /\ InOrder /\ Busy /\ Pursued /\ [Next]_vars => Pursued'
<1> SUFFICES ASSUME Types, OneAtATime, FirstAlone, InOrder, Busy, Pursued, [Next]_vars PROVE Pursued'
  OBVIOUS
<1> USE Numbers DEF Types, Places, Phases, Flying, Up, shuttingDown, OneAtATime, FirstAlone, InOrder, Busy, Pursued, Settled
<1>1. CASE OnChange
  BY <1>1 DEF OnChange, world, loop, fleet
<1>2. CASE TimerIgnored
  BY <1>2 DEF TimerIgnored, world, loop, fleet
<1>3. CASE FirstStarts
  BY <1>3 DEF FirstStarts, world, loop, fleet
<1>4. CASE FirstReady
  BY <1>4 DEF FirstReady, world, loop, fleet
<1>30. CASE FirstWatchFails
  BY <1>30 DEF FirstWatchFails, world, loop, fleet
<1>5. CASE FirstFails
  BY <1>5 DEF FirstFails, Stop, world, loop, fleet
<1>6. CASE Save
  BY <1>6 DEF Save, world, loop, fleet
<1>7. CASE ReturnWatching
  BY <1>7 DEF ReturnWatching, world, loop, fleet
<1>8. CASE ReturnNoWatch
  BY <1>8 DEF ReturnNoWatch, Stop, world, loop, fleet
<1>9. CASE Shutdown
  BY <1>9 DEF Shutdown, Stop, world, loop, fleet
<1>10. ASSUME NEW t \in Rebuild, TimerStarts(t) PROVE Pursued'
  BY <1>10 DEF TimerStarts, world, loop, fleet
<1>11. ASSUME NEW t \in Rebuild, ReadOk(t) PROVE Pursued'
  BY <1>11 DEF ReadOk, world, loop, fleet
<1>12. ASSUME NEW t \in Rebuild, ReadThrows(t) PROVE Pursued'
  BY <1>12 DEF ReadThrows, Finally, world, loop, fleet
<1>13. ASSUME NEW t \in Rebuild, ReadExits(t) PROVE Pursued'
  BY <1>13 DEF ReadExits, world, loop, fleet
<1>14. ASSUME NEW t \in Rebuild, StartFails(t) PROVE Pursued'
  BY <1>14 DEF StartFails, Finally, world, loop, fleet
<1>15. ASSUME NEW t \in Rebuild, StartOk(t) PROVE Pursued'
  BY <1>15 DEF StartOk, world, loop, fleet
<1>16. ASSUME NEW t \in Rebuild, StartTooLate(t) PROVE Pursued'
  BY <1>16 DEF StartTooLate, Finally, Stop, world, loop, fleet
<1>17. ASSUME NEW t \in Rebuild, NotReady(t) PROVE Pursued'
  BY <1>17 DEF NotReady, Finally, Stop, world, loop, fleet
<1>18. ASSUME NEW t \in Rebuild, Switch(t) PROVE Pursued'
  <2>1. /\ task[t] = "booting" /\ phase = "serving" /\ phase' = phase /\ ~shuttingDown
        /\ running' = t /\ ver' = ver /\ disk' = disk /\ failed' = failed
        /\ (event => event' \/ lost') /\ (lost => lost') /\ timer' = (timer \/ (dirty /\ ~shuttingDown))
    BY <1>18 DEF Switch, Finally, CanSwitch
  <2>2. ver[running] <= ver[t] /\ ver[t] <= disk /\ ver[running] \in Int /\ ver[t] \in Int /\ disk \in Int
    BY <2>1
  <2>3. ver[running] = disk => ver'[running'] = disk'
    BY <2>1, <2>2
  <2>4. \A u \in Rebuild : task[u] \in Flying => u = t
    BY <2>1
  <2>5. CASE Settled \/ event \/ timer
    BY <2>1, <2>3, <2>5
  <2>6. CASE ver[t] = disk \/ dirty
    BY <2>1, <2>6
  <2> QED
    BY <2>1, <2>4, <2>5, <2>6
<1>19. ASSUME NEW t \in Rebuild, SwitchWatchFails(t) PROVE Pursued'
  <2>1. /\ task[t] = "booting" /\ phase = "serving" /\ phase' = phase /\ ~shuttingDown
        /\ running' = t /\ ver' = ver /\ disk' = disk /\ failed' = failed
        /\ (event => event' \/ lost') /\ (lost => lost') /\ timer' = (timer \/ (dirty /\ ~shuttingDown))
    BY <1>19 DEF SwitchWatchFails, Finally, CanSwitch
  <2>2. ver[running] <= ver[t] /\ ver[t] <= disk /\ ver[running] \in Int /\ ver[t] \in Int /\ disk \in Int
    BY <2>1
  <2>3. ver[running] = disk => ver'[running'] = disk'
    BY <2>1, <2>2
  <2>4. \A u \in Rebuild : task[u] \in Flying => u = t
    BY <2>1
  <2>5. CASE Settled \/ event \/ timer
    BY <2>1, <2>3, <2>5
  <2>6. CASE ver[t] = disk \/ dirty
    BY <2>1, <2>6
  <2> QED
    BY <2>1, <2>4, <2>5, <2>6
<1>20. ASSUME NEW t \in Candidate, Boots(t) \/ Exits(t) PROVE Pursued'
  BY <1>20 DEF Boots, Exits, world, loop, fleet
<1>21. CASE UNCHANGED vars
  BY <1>21 DEF vars
<1> QED
  BY <1>30, <1>1, <1>2, <1>3, <1>4, <1>5, <1>6, <1>7, <1>8, <1>9, <1>10, <1>11, <1>12, <1>13, <1>14, <1>15, <1>16, <1>17, <1>18, <1>19, <1>20, <1>21 DEF Next, First, Coordinator, Work

\* A change of one begun rebuild's place, or of no rebuild's.
LEMMA NumberStays ==
  ASSUME Types, Numbered, NEW t \in Candidate, task[t] # "new",
         NEW x, x # "new", task' \in {task, [task EXCEPT ![t] = x]},
         dirty' = dirty, event' \in {event, FALSE}, disk' = disk,
         watching' \in BOOLEAN, watch' = watch
  PROVE  Numbered'
<1>1. PICK n \in 0..MaxSaves : Begun(n) /\ n + One(dirty) + One(event) <= disk
  BY DEF Numbered
<1>2. \A s \in Candidate : task'[s] = "new" <=> task[s] = "new"
  BY DEF Types
<1>3. Begun(n)' /\ task'[0] # "new"
  BY <1>1, <1>2, Numbers DEF Begun, Numbered
<1>4. One(event') <= One(event) /\ One(event) \in Nat /\ One(event') \in Nat /\ One(dirty) \in Nat
  <2>1. One(event) \in {0, 1} /\ One(event') \in {0, 1} /\ One(dirty) \in {0, 1}
    BY DEF One
  <2>2. CASE event' = event
    BY <2>1, <2>2
  <2>3. CASE event' = FALSE
    <3>1. One(event') = 0
      BY <2>3 DEF One
    <3> QED
      BY <2>1, <3>1
  <2> QED
    BY <2>2, <2>3
<1>5. n + One(dirty') + One(event') <= disk'
  BY <1>1, <1>4, Numbers DEF Types
<1> QED
  BY <1>1, <1>3, <1>5 DEF Numbered, One

\* A save, an event that is delivered, and a rebuild that begins for it.
LEMMA NumberedKept == Types /\ FirstAlone /\ Busy /\ Numbered /\ [Next]_vars => Numbered'
<1> SUFFICES ASSUME Types, FirstAlone, Busy, Numbered, [Next]_vars PROVE Numbered'
  OBVIOUS
<1> USE Numbers
<1>0. /\ 0 \in Candidate /\ task[0] # "new" /\ event \in BOOLEAN /\ dirty \in BOOLEAN
      /\ watching \in BOOLEAN /\ watch \in BOOLEAN /\ disk \in Int
  BY DEF Numbered, Types
<1>1. CASE Save
  <2>1. PICK n \in 0..MaxSaves : Begun(n) /\ n + One(dirty) + One(event) <= disk
    BY DEF Numbered
  <2>2. /\ disk' = disk + 1 /\ dirty' = dirty /\ event' = watching /\ task' = task
        /\ watching' = watching /\ watch' = watch
    BY <1>1 DEF Save
  <2>3. One(event) \in {0, 1} /\ One(event') \in {0, 1} /\ One(dirty) \in {0, 1}
    BY DEF One
  <2>4. n + One(dirty') + One(event') <= disk'
    BY <1>0, <2>1, <2>2, <2>3
  <2>5. Begun(n)' /\ task'[0] # "new"
    BY <1>0, <2>1, <2>2 DEF Begun
  <2> QED
    BY <1>0, <2>2, <2>4, <2>5 DEF Numbered, One
<1>2. CASE OnChange
  <2>1. PICK n \in 0..MaxSaves : Begun(n) /\ n + One(dirty) + One(event) <= disk
    BY DEF Numbered
  <2>2. /\ disk' = disk /\ dirty' = TRUE /\ event = TRUE /\ event' = FALSE /\ task' = task
        /\ watching' = watching /\ watch' = watch
    BY <1>2, <1>0 DEF OnChange, world
  <2>3. One(event) = 1 /\ One(event') = 0 /\ One(dirty) \in {0, 1} /\ One(dirty') = 1
    BY <2>2 DEF One
  <2>4. n + One(dirty') + One(event') <= disk'
    BY <1>0, <2>1, <2>2, <2>3
  <2>5. Begun(n)' /\ task'[0] # "new"
    BY <1>0, <2>1, <2>2 DEF Begun
  <2> QED
    BY <1>0, <2>2, <2>4, <2>5 DEF Numbered, One
<1>3. ASSUME NEW t \in Rebuild, TimerStarts(t) PROVE Numbered'
  <2>1. PICK n \in 0..MaxSaves : Begun(n) /\ n + One(dirty) + One(event) <= disk
    BY DEF Numbered
  <2>2. /\ task[t] = "new" /\ \A s \in Candidate : s < t => task[s] # "new"
        /\ task' = [task EXCEPT ![t] = "reading"]
        /\ disk' = disk /\ dirty = TRUE /\ dirty' = FALSE /\ event' = event
        /\ watching' = watching /\ watch' = watch
    BY <1>3, <1>0 DEF TimerStarts, Busy, world
  <2>3. t = n + 1
    <3>1. n < t /\ t \in 1..MaxSaves
      BY <2>1, <2>2 DEF Begun, Rebuild
    <3>2. n + 1 \in Rebuild /\ ~(n + 1 < t)
      <4>1. n + 1 \in Rebuild /\ n < n + 1
        BY <3>1, DevAssumption DEF Rebuild
      <4>2. task[n + 1] = "new"
        BY <2>1, <4>1 DEF Begun
      <4> QED
        BY <2>2, <4>1, <4>2
    <3> QED
      BY <3>1, <3>2
  <2>4. \A s \in Candidate : task'[s] = "new" <=> task[s] = "new" /\ s # t
    BY <2>2 DEF Types
  <2>5. Begun(n + 1)' /\ n + 1 \in 0..MaxSaves /\ task'[0] # "new"
    <3>1. \A s \in Rebuild : s \in Int /\ (n + 1 < s <=> n < s /\ s # n + 1)
      BY <2>1, DevAssumption DEF Rebuild
    <3>2. n + 1 \in 0..MaxSaves
      BY <2>3, DevAssumption DEF Rebuild
    <3> QED
      BY <1>0, <2>1, <2>3, <2>4, <3>1, <3>2 DEF Begun
  <2>6. One(dirty) = 1 /\ One(dirty') = 0 /\ One(event) \in {0, 1} /\ One(event') = One(event)
    BY <2>2 DEF One
  <2>7. (n + 1) + One(dirty') + One(event') <= disk'
    BY <1>0, <2>1, <2>2, <2>6
  <2> QED
    BY <1>0, <2>2, <2>5, <2>7 DEF Numbered, One
<1>4. CASE TimerIgnored \/ ReturnWatching \/ ReturnNoWatch \/ Shutdown \/ FirstStarts \/ FirstReady \/ FirstWatchFails
           \/ FirstFails
  <2>1. /\ \E x : x # "new" /\ task' \in {task, [task EXCEPT ![0] = x]}
        /\ dirty' = dirty /\ event' \in {event, FALSE} /\ disk' = disk
        /\ watching' \in BOOLEAN /\ watch' = watch
    BY <1>0, <1>4 DEF TimerIgnored, ReturnWatching, ReturnNoWatch, Shutdown, FirstStarts, FirstReady,
       FirstWatchFails, FirstFails, Stop, world, loop, fleet
  <2> QED
    BY <1>0, <2>1, NumberStays
<1>5. ASSUME NEW t \in Rebuild,
             \/ ReadOk(t) \/ ReadThrows(t) \/ ReadExits(t) \/ StartFails(t) \/ StartOk(t)
             \/ StartTooLate(t) \/ NotReady(t)
      PROVE  Numbered'
  <2>1. /\ t \in Candidate /\ task[t] # "new"
        /\ \E x : x # "new" /\ task' \in {task, [task EXCEPT ![t] = x]}
        /\ dirty' = dirty /\ event' \in {event, FALSE} /\ disk' = disk
        /\ watching' \in BOOLEAN /\ watch' = watch
    BY <1>0, <1>5 DEF ReadOk, ReadThrows, ReadExits, StartFails, StartOk, StartTooLate, NotReady,
       Finally, world, loop
  <2> QED
    BY <2>1, NumberStays
<1>6. ASSUME NEW t \in Rebuild, Switch(t) \/ SwitchWatchFails(t) PROVE Numbered'
  <2>1. /\ t \in Candidate /\ task[t] # "new"
        /\ \E x : x # "new" /\ task' \in {task, [task EXCEPT ![t] = x]}
        /\ dirty' = dirty /\ event' \in {event, FALSE} /\ disk' = disk
        /\ watching' \in BOOLEAN /\ watch' = watch
    BY <1>0, <1>6 DEF Switch, SwitchWatchFails, CanSwitch, Finally
  <2> QED
    BY <2>1, NumberStays
<1>7. CASE (\E i \in Candidate : Boots(i) \/ Exits(i)) \/ UNCHANGED vars
  <2>1. UNCHANGED <<task, dirty, event, disk, watching, watch>>
    BY <1>7 DEF Boots, Exits, vars, world, loop
  <2>2. /\ "done" # "new" /\ task' \in {task, [task EXCEPT ![0] = "done"]}
        /\ dirty' = dirty /\ event' \in {event, FALSE} /\ disk' = disk
        /\ watching' \in BOOLEAN /\ watch' = watch
    BY <1>0, <2>1
  <2> QED
    BY <1>0, <2>2, NumberStays
<1> QED
  BY <1>1, <1>2, <1>3, <1>4, <1>5, <1>6, <1>7 DEF Next, First, Coordinator, Work

-----------------------------------------------------------------------------
\* The parts hold at the start and keep each other.
LEMMA DevInvHolds == Spec => []DevInv
<1>1. Init => DevInv
  <2> SUFFICES ASSUME Init PROVE DevInv
    OBVIOUS
  <2> USE Numbers DEF Init, Flying, Places, Phases
  <2>1. Types
    BY DEF Types
  <2>2. OneAtATime /\ FirstAlone
    BY <2>1 DEF OneAtATime, FirstAlone
  <2>3. InOrder /\ NotYet /\ Accounted /\ OneServing
    BY <2>1 DEF InOrder, NotYet, Accounted, OneServing
  <2>4. Busy /\ Pursued
    BY <2>1 DEF Busy, Pursued, Settled
  <2>5. Numbered
    <3>1. 0 \in 0..MaxSaves /\ \A t \in Rebuild : 0 < t
      BY DevAssumption DEF Rebuild
    <3>2. Begun(0) /\ 0 + One(dirty) + One(event) <= disk
      BY <3>1 DEF Begun, One
    <3> QED BY <3>1, <3>2 DEF Numbered
  <2> QED BY <2>1, <2>2, <2>3, <2>4, <2>5 DEF DevInv
<1>2. DevInv /\ [Next]_vars => DevInv'
  BY TypesKept, OneAtATimeKept, FirstAloneKept, InOrderKept, NotYetKept, AccountedKept,
     OneServingKept, BusyKept, PursuedKept, NumberedKept DEF DevInv
<1> QED BY <1>1, <1>2, PTL DEF Spec

\* While the server serves, the port leads to a candidate that nobody stopped
\* and whose broker alone dispatches.
THEOREM ServesWithOne == Spec => []OneServing
<1>1. DevInv => OneServing
  BY DEF DevInv
<1> QED BY DevInvHolds, <1>1, PTL

\* stop() reaches every candidate but the routed and the pending one, and after
\* a signal those too, one whose start was in flight included.
THEOREM NothingLeaks == Spec => []NoLeak
<1>1. DevInv => NoLeak
  <2> SUFFICES ASSUME DevInv, watchErrors = 0, phase # "failed", NEW i \in Candidate,
                      proc[i] # "none", i \notin stopped
               PROVE  phase \in {"starting", "serving"} /\ i \in {running, pending}
    BY DEF NoLeak
  <2>1. phase \in {"starting", "serving"} /\ (i = running \/ task[i] = "booting")
    BY DEF DevInv, Accounted
  <2>2. ASSUME task[i] = "booting" PROVE i = running \/ i = pending
    <3>1. CASE i = 0
      BY <2>1, <2>2, <3>1 DEF DevInv, FirstAlone
    <3>2. CASE i \in Rebuild
      BY <2>2, <3>2 DEF DevInv, OneAtATime
    <3> QED BY <3>1, <3>2, Numbers
  <2> QED BY <2>1, <2>2
<1> QED BY DevInvHolds, <1>1, PTL

\* No save is forgotten, whatever fails and however saves, timers and rebuilds
\* interleave: when no event, no timer and no rebuild is left, the latest version
\* is served, or its rebuild was reported to have failed, or no watcher told of
\* it.  What Converges adds is that the coordinator does come to rest.
THEOREM NoSaveForgotten == Spec => []RestIsSettled
<1>1. DevInv => RestIsSettled
  BY DEF DevInv, Pursued, AtRest, RestIsSettled, Flying
<1> QED BY DevInvHolds, <1>1, PTL

\* However many saves there are, as many rebuilds are enough: whenever the timer
\* is set there is one to begin, so that the bound on rebuilds hides nothing.
THEOREM RebuildsSuffice == Spec => []NumbersSuffice
<1>1. DevInv => NumbersSuffice
  <2> SUFFICES ASSUME DevInv, timer
               PROVE  \E t \in Rebuild :
                        task[t] = "new" /\ \A s \in Candidate : s < t => task[s] # "new"
    BY DEF NumbersSuffice
  <2>1. PICK n \in 0..MaxSaves : Begun(n) /\ n + One(dirty) + One(event) <= disk
    BY DEF DevInv, Numbered
  <2>2. One(dirty) = 1 /\ One(event) \in {0, 1} /\ disk \in 0..MaxSaves /\ task[0] # "new"
    BY DEF DevInv, Busy, One, Types, Version, Numbered
  <2>3. n + 1 \in Rebuild /\ n < n + 1
    BY <2>1, <2>2, DevAssumption DEF Rebuild
  <2>4. task[n + 1] = "new"
    BY <2>1, <2>3 DEF Begun
  <2>5. ASSUME NEW s \in Candidate, s < n + 1 PROVE task[s] # "new"
    <3>1. CASE s = 0
      BY <2>2, <3>1
    <3>2. CASE s # 0
      <4>1. s \in Rebuild /\ ~(n < s)
        BY <2>1, <2>5, <3>2, Numbers DEF Rebuild
      <4> QED BY <2>1, <4>1 DEF Begun
    <3> QED BY <3>1, <3>2
  <2> QED BY <2>3, <2>4, <2>5
<1> QED BY DevInvHolds, <1>1, PTL

\* The public port never goes back to an older version: only a switch moves the
\* route, and the rebuild it moves to has read no older version; what a routed
\* candidate was built from never changes.
THEOREM NeverGoesBack == Spec => NeverOlder
<1>1. DevInv /\ [Next]_vars => [ver'[running'] >= ver[running]]_<<running, ver>>
  <2> SUFFICES ASSUME DevInv, [Next]_vars, ~UNCHANGED <<running, ver>>
               PROVE  ver'[running'] >= ver[running]
    OBVIOUS
  <2> USE Numbers DEF DevInv
  <2>1. ASSUME NEW t \in Rebuild, ReadOk(t) PROVE ver'[running'] >= ver[running]
    <3>1. t # running
      BY <2>1 DEF ReadOk, InOrder, FirstAlone, Up, Types
    <3>2. ver'[running'] = ver[running] /\ ver[running] \in Int
      BY <2>1, <3>1 DEF ReadOk, fleet, Types
    <3> QED BY <3>2
  <2>2. ASSUME NEW t \in Rebuild, Switch(t) \/ SwitchWatchFails(t)
        PROVE ver'[running'] >= ver[running]
    <3>1. running' = t /\ ver' = ver /\ task[t] = "booting"
      BY <2>2 DEF Switch, SwitchWatchFails, CanSwitch
    <3>2. ver[running] <= ver[t] /\ ver[running] \in Int /\ ver[t] \in Int
      BY <3>1 DEF InOrder, Types
    <3> QED BY <3>1, <3>2
  <2>3. \/ \E t \in Rebuild : ReadOk(t)
        \/ \E t \in Rebuild : Switch(t) \/ SwitchWatchFails(t)
    <3>1. ASSUME NEW t \in Rebuild, Work(t)
          PROVE ReadOk(t) \/ Switch(t) \/ SwitchWatchFails(t)
      BY <3>1 DEF Work, TimerStarts, ReadThrows, ReadExits, StartFails, StartOk, StartTooLate,
                  NotReady, fleet
    <3>2. ASSUME First \/ Save \/ Coordinator \/ Shutdown PROVE FALSE
      BY <3>2 DEF First, FirstStarts, FirstReady, FirstWatchFails, FirstFails, Save, Coordinator, OnChange,
                  TimerIgnored, ReturnWatching, ReturnNoWatch, Shutdown, fleet
    <3>3. ASSUME NEW i \in Candidate, Boots(i) \/ Exits(i) PROVE FALSE
      BY <3>3 DEF Boots, Exits
    <3>4. ~UNCHANGED vars
      BY DEF vars
    <3> QED BY <3>1, <3>2, <3>3, <3>4 DEF Next
  <2> QED BY <2>1, <2>2, <2>3
<1> QED BY DevInvHolds, <1>1, PTL DEF Spec, NeverOlder

=============================================================================
