------------------------------- MODULE Server -------------------------------
(***************************************************************************)
(* What the services of the backend have in common: HTTP requests, each    *)
(* with what it was asked and what it has read so far.  An action of a     *)
(* service is one write to the database or to a cache, or a run of queries *)
(* that follow each other and only read.                                   *)
(***************************************************************************)
EXTENDS Integers, FiniteSets

CONSTANTS
    Requests,       \* HTTP requests
    MaxFaults       \* how many queries may fail

ASSUME ServerAssumption == MaxFaults \in Nat

VARIABLES
    handler,        \* the local state of every request
    faults          \* how many queries have failed

svars == <<handler, faults>>

Idle == [op |-> "none", step |-> "idle", arg |-> "none", mem |-> "nothing"]

SInit == handler = [h \in Requests |-> Idle] /\ faults = 0

At(h, op, step) == handler[h].op = op /\ handler[h].step = step
Running(h) == handler[h].step \notin {"idle", "done"}
Quiet == \A h \in Requests : ~Running(h)

Arg(h) == handler[h].arg
Mem(h) == handler[h].mem

\* A new request, and a request at its end, which forgets what it has read.
Ask(h, op, arg) ==
    /\ handler[h].step = "idle"
    /\ handler' = [handler EXCEPT ![h] = [op |-> op, step |-> "start", arg |-> arg, mem |-> "nothing"]]
    /\ UNCHANGED faults

Answered(h) == [op |-> handler[h].op, step |-> "done", arg |-> "none", mem |-> "nothing"]
End(h) == handler' = [handler EXCEPT ![h] = Answered(h)] /\ UNCHANGED faults

Goto(h, step) == handler' = [handler EXCEPT ![h].step = step] /\ UNCHANGED faults

\* Goes on with what it has read, provided that its checks passed.
Keep(h, step, mem) ==
    handler' = [handler EXCEPT ![h].step = step, ![h].mem = mem] /\ UNCHANGED faults

Check(h, passed, step) == IF passed THEN Goto(h, step) ELSE End(h)

\* A query is rejected: the request ends, what it has written stays.
Fault(h) ==
    /\ faults < MaxFaults
    /\ Running(h)
    /\ faults' = faults + 1
    /\ handler' = [handler EXCEPT ![h] = Answered(h)]
=============================================================================
