------------------------------ MODULE Handlers ------------------------------
(***************************************************************************)
(* What the modules of the server have in common: goroutines that serve    *)
(* one request after the other, each holding what it has read so far.      *)
(* A request that is refused changes nothing and is no step.               *)
(***************************************************************************)
EXTENDS Integers, FiniteSets

CONSTANTS
    Workers,     \* the goroutines that serve requests and events
    MaxRequests  \* bound on the number of requests served

ASSUME HandlersAssumption == MaxRequests \in Nat

VARIABLES
    task,   \* what each goroutine is doing, and the copies it holds
    served  \* the number of requests so far; the last one's is its id

work == <<task, served>>

Requests == 1..MaxRequests

Idle == [op |-> "idle", id |-> 0]

InitWork == task = [w \in Workers |-> Idle] /\ served = 0

\* A handler parses a request that passes its checks and starts on it.
Start(w, t) ==
    /\ task[w].op = "idle"
    /\ served < MaxRequests
    /\ served' = served + 1
    /\ task' = [task EXCEPT ![w] = t]

\* It does all its work in one step.
Serve(w) ==
    /\ task[w].op = "idle"
    /\ served < MaxRequests
    /\ served' = served + 1
    /\ UNCHANGED task

Continue(w, t) == task' = [task EXCEPT ![w] = t] /\ UNCHANGED served

Finish(w) == Continue(w, Idle)

At(w, op) == task[w].op = op

=============================================================================
