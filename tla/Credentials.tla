----------------------------- MODULE Credentials -----------------------------
(***************************************************************************)
(* credentials.ts and the commands of main.ts that write its file: login   *)
(* and logout, in any number of processes at once.  Each reads the whole   *)
(* file, changes what it has read and renames a new file over the old one; *)
(* there is no lock, so what is written may rest on what is no longer      *)
(* there.  A token is named by the endpoint it is for.                     *)
(***************************************************************************)
CONSTANTS
  Clerk,     \* the calls of login and logout
  Endpoint,  \* the control planes
  Default,   \* the one that is used when nothing is saved
  None

ASSUME EndpointAssumption == Default \in Endpoint /\ None \notin Endpoint

\* credentials.json, or a missing file, which is read as an empty one.
File == [active : Endpoint \cup {None}, tokens : SUBSET Endpoint]
NoFile == [active |-> None, tokens |-> {}]

VARIABLES
  file,  \* what is on disk
  pc,    \* where each call is
  goal,  \* the endpoint a call is about
  held   \* what it has read and is about to change

credentialVars == <<file, pc, goal, held>>

\* The endpoint of a command that names none.
Resolve(f) == IF f.active = None THEN Default ELSE f.active

Saved(f, e) ==
  [active |-> IF f.active = None THEN e ELSE f.active, tokens |-> f.tokens \cup {e}]

\* Mutant: the endpoint stays active when its token goes.
ForgottenStillActive(f, e) == [active |-> f.active, tokens |-> f.tokens \ {e}]

Forgotten(f, e) ==
  [active |-> IF f.active = e THEN None ELSE f.active, tokens |-> f.tokens \ {e}]

ActiveIn(f) == f.active # None => f.active \in f.tokens

\* What earlier commands can have left; and a call that is never made is over.
Init ==
  /\ file \in {f \in File : ActiveIn(f)}
  /\ pc \in [Clerk -> {"idle", "done"}]
  /\ goal = [p \in Clerk |-> None]
  /\ held = [p \in Clerk |-> NoFile]

Go(p, from, to) == pc[p] = from /\ pc' = [pc EXCEPT ![p] = to]

\* A call that ends leaves nothing but the file.
Ends(p, from) ==
  /\ Go(p, from, "done")
  /\ goal' = [goal EXCEPT ![p] = None]
  /\ held' = [held EXCEPT ![p] = NoFile]

\* With --api-url, any endpoint; without it the one the file resolves to, which
\* is one of them.
Login(p) ==
  /\ Go(p, "idle", "approve")
  /\ \E e \in Endpoint : goal' = [goal EXCEPT ![p] = e]
  /\ UNCHANGED <<file, held>>

\* The browser flow ends with a token, or expires or is refused; --token has
\* one from the start.
Approved(p) == Go(p, "approve", "save") /\ UNCHANGED <<file, goal, held>>
NotApproved(p) == Ends(p, "approve") /\ UNCHANGED file

SaveReads(p) ==
  /\ Go(p, "save", "write")
  /\ held' = [held EXCEPT ![p] = file]
  /\ UNCHANGED <<file, goal>>

SaveWrites(p) ==
  /\ Ends(p, "write")
  /\ file' = Saved(held[p], goal[p])

Logout(p) ==
  /\ Go(p, "idle", "forget")
  /\ \E e \in Endpoint : goal' = [goal EXCEPT ![p] = e]
  /\ UNCHANGED <<file, held>>

ForgetReads(p) ==
  /\ goal[p] \in file.tokens
  /\ Go(p, "forget", "drop")
  /\ held' = [held EXCEPT ![p] = file]
  /\ UNCHANGED <<file, goal>>

\* "no stored credential for ..."
NothingToForget(p) ==
  /\ goal[p] \notin file.tokens
  /\ Ends(p, "forget")
  /\ UNCHANGED file

ForgetWrites(p) ==
  /\ Ends(p, "drop")
  /\ file' = Forgotten(held[p], goal[p])

ClerkStep(p) ==
  \/ Login(p) \/ Approved(p) \/ NotApproved(p) \/ SaveReads(p) \/ SaveWrites(p)
  \/ Logout(p) \/ ForgetReads(p) \/ NothingToForget(p) \/ ForgetWrites(p)

Next == \E p \in Clerk : ClerkStep(p)

Spec == Init /\ [][Next]_credentialVars

-----------------------------------------------------------------------------
PC == {"idle", "approve", "save", "write", "forget", "drop", "done"}

\* Every variable has its type, and a call past its start has a goal.
TypeOK ==
  /\ file \in File
  /\ pc \in [Clerk -> PC]
  /\ goal \in [Clerk -> Endpoint \cup {None}]
  /\ held \in [Clerk -> File]
  /\ \A p \in Clerk : pc[p] \notin {"idle", "done"} => goal[p] \in Endpoint

\* The active endpoint, where the next deploy goes without being told, is
\* always one that a token is stored for, however many logins and logouts
\* overlap and undo each other's changes.  (#204: a command must not be sent to
\* an endpoint nobody is logged in to.)
ActiveHasToken == ActiveIn(file)

=============================================================================
