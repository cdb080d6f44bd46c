---- MODULE Calls ----
(***************************************************************************)
(* Requests in flight, for the services that keep their own tables.        *)
(*                                                                         *)
(* A handler runs from one await to the next without interruption.  While  *)
(* it waits, call[r] says where (pc) and what it has read.  load says what *)
(* a behaviour serves: requests of which service, from which users, how    *)
(* many at once (slots) and in all.  With one slot nothing overlaps, which *)
(* is how the unit tests of the repository run.                            *)
(***************************************************************************)
EXTENDS Integers, FiniteSets

CONSTANTS Reqs,        \* request slots
          Users,
          Services,
          Loads,       \* bound: what a behaviour serves
          MaxFaults,   \* bound: crashes and failed database calls
          Nothing

ASSUME CallsAssumption ==
    /\ Loads \subseteq [service : Services, users : SUBSET Users,
                       slots : SUBSET Reqs, requests : Nat]
    /\ IsFiniteSet(Reqs)
    /\ MaxFaults \in Nat

VARIABLES call, load, served, faults

callVars == <<call, load, served, faults>>

Idle == [pc |-> "idle"]

CallsInit ==
    /\ call = [r \in Reqs |-> Idle]
    /\ load \in Loads
    /\ served = 0
    /\ faults = 0

\* A request arrives in r, and its handler runs up to its first await with
\* something left to do.  Requests refused before that change nothing.
Begin(r, c) ==
    /\ r \in load.slots
    /\ call[r] = Idle
    /\ served < load.requests
    /\ served' = served + 1
    /\ call' = [call EXCEPT ![r] = c]
    /\ UNCHANGED <<load, faults>>

At(r, pc) == call[r].pc = pc

\* The handler of r waits again, having read what c holds.
Await(r, c) == call' = [call EXCEPT ![r] = c] /\ UNCHANGED <<load, served, faults>>

\* The handler of r returns or throws.
Done(r) == Await(r, Idle)

\* The request dies between two awaits, or the call it waits for fails and
\* the handler throws: what was written stays, the rest is not done.
Dies(r) ==
    /\ call[r] # Idle
    /\ faults < MaxFaults
    /\ faults' = faults + 1
    /\ call' = [call EXCEPT ![r] = Idle]
    /\ UNCHANGED <<load, served>>

Serves(s) == load.service = s

Serial == Cardinality(load.slots) <= 1

AllIdle == \A r \in Reqs : call[r] = Idle
====
