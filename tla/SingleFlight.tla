---------------------------- MODULE SingleFlight ----------------------------
(***************************************************************************)
(* What the compile cache promises its callers, with no files and no lock: *)
(* for each key at most one compile is in flight, none is started while    *)
(* the key already has a good binary, and a call only ever answers with a  *)
(* binary that was compiled in full for the key it asked for.              *)
(***************************************************************************)
EXTENDS Integers

CONSTANTS Process, Key, None

VARIABLES
  wanted,   \* the key each call asks for
  flight,   \* the process compiling each key, or None
  ready,    \* the good binary the cache has for each key, or None
  made,     \* every binary ever compiled
  answer    \* the binary each call returned, or None

flightVars == <<wanted, flight, ready, made, answer>>

Init ==
  /\ wanted \in [Process -> Key]
  /\ flight = [k \in Key |-> None]
  /\ ready = [k \in Key |-> None]
  /\ made = {}
  /\ answer = [p \in Process |-> None]

Begin(p, k) ==
  /\ flight[k] = None
  /\ ready[k] = None
  /\ wanted[p] = k
  /\ flight' = [flight EXCEPT ![k] = p]
  /\ UNCHANGED <<wanted, ready, made, answer>>

\* The compile is complete ...
Produce(p, k) ==
  /\ flight[k] = p
  /\ made' = made \cup {[key |-> k, by |-> p]}
  /\ UNCHANGED <<wanted, flight, ready, answer>>

\* ... and what it produced becomes the key's binary.
Finish(p, k) ==
  LET binary == [key |-> k, by |-> p]
  IN  /\ flight[k] = p
      /\ binary \in made
      /\ flight' = [flight EXCEPT ![k] = None]
      /\ ready' = [ready EXCEPT ![k] = binary]
      /\ UNCHANGED <<wanted, made, answer>>

\* The compile, or storing its result, failed.
Abandon(p, k) ==
  /\ flight[k] = p
  /\ flight' = [flight EXCEPT ![k] = None]
  /\ UNCHANGED <<wanted, ready, made, answer>>

\* Something outside damages the stored binary.
Spoil(k) ==
  /\ ready[k] # None
  /\ ready' = [ready EXCEPT ![k] = None]
  /\ UNCHANGED <<wanted, flight, made, answer>>

\* A call may answer with a good binary that has been damaged on disk since.
Answer(p) ==
  /\ answer[p] = None
  /\ \E binary \in made :
       /\ binary.key = wanted[p]
       /\ answer' = [answer EXCEPT ![p] = binary]
  /\ UNCHANGED <<wanted, flight, ready, made>>

Next ==
  \/ \E p \in Process, k \in Key : Begin(p, k) \/ Produce(p, k) \/ Finish(p, k) \/ Abandon(p, k)
  \/ \E k \in Key : Spoil(k)
  \/ \E p \in Process : Answer(p)

Spec == Init /\ [][Next]_flightVars

=============================================================================
