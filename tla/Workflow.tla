------------------------------ MODULE Workflow ------------------------------
(***************************************************************************)
(* A workflow of the AI agents: WorkflowEngineService sorts the tasks that *)
(* a model proposed by their dependencies, and runs them one by one.       *)
(***************************************************************************)
EXTENDS Integers, Sequences, SequencesExt, FiniteSets

CONSTANTS
    TaskList,           \* the tasks, in the order they are listed
    DependencyLists     \* what a task may depend on, tasks that do not exist included

ASSUME WorkflowAssumption ==
    /\ TaskList \in Seq(Range(TaskList)) /\ IsInjective(TaskList)
    /\ \A list \in DependencyLists : list \in Seq(Range(list))

VARIABLES
    phase,              \* "sort", "run" or "done"
    depends,            \* task.dependencies
    stack,              \* the calls of visit(): a task and the next dependency to visit
    visited, visiting, sorted,
    status,             \* task.status
    completedTasks,
    next                \* the position in TaskList, then in sorted

wvars == <<phase, depends, stack, visited, visiting, sorted, status, completedTasks, next>>

Tasks == Range(TaskList)

WorkflowInit ==
    /\ phase = "sort" /\ next = 1
    /\ depends \in [Tasks -> DependencyLists]
    /\ stack = <<>> /\ visited = {} /\ visiting = {} /\ sorted = <<>>
    /\ status = [t \in Tasks |-> "pending"]
    /\ completedTasks = {}

-----------------------------------------------------------------------------
(* topologicalSort *)

Dependencies(t) == IF t \in Tasks THEN depends[t] ELSE <<>>

Call(t) == [task |-> t, dep |-> 1]

\* The loop over the tasks
VisitNext ==
    /\ phase = "sort" /\ stack = <<>> /\ next <= Len(TaskList)
    /\ LET t == TaskList[next] IN
       IF t \in visited
       THEN UNCHANGED <<stack, visiting>>
       ELSE stack' = <<Call(t)>> /\ visiting' = visiting \cup {t}
    /\ next' = next + 1
    /\ UNCHANGED <<phase, depends, visited, sorted, status, completedTasks>>

\* The loop over the dependencies of a task; one that is being visited closes a cycle.
VisitDependency ==
    /\ phase = "sort" /\ stack # <<>>
    /\ LET call == Last(stack)
           d == Dependencies(call.task)[call.dep]
           caller == Append(Front(stack), [call EXCEPT !.dep = @ + 1])
       IN /\ call.dep <= Len(Dependencies(call.task))
          /\ IF d \in visiting \cup visited
             THEN stack' = caller /\ UNCHANGED visiting
             ELSE stack' = Append(caller, Call(d)) /\ visiting' = visiting \cup {d}
    /\ UNCHANGED <<phase, depends, visited, sorted, status, completedTasks, next>>

Sorted_First(t) == <<t>> \o sorted
Sorted(t) == Append(sorted, t)

EndVisit ==
    /\ phase = "sort" /\ stack # <<>>
    /\ LET t == Last(stack).task IN
       /\ Last(stack).dep > Len(Dependencies(t))
       /\ stack' = Front(stack)
       /\ visiting' = visiting \ {t}
       /\ visited' = visited \cup {t}
       /\ sorted' = Sorted(t)
    /\ UNCHANGED <<phase, depends, status, completedTasks, next>>

EndSort ==
    /\ phase = "sort" /\ stack = <<>> /\ next > Len(TaskList)
    /\ phase' = "run" /\ next' = 1
    /\ UNCHANGED <<depends, stack, visited, visiting, sorted, status, completedTasks>>

-----------------------------------------------------------------------------
(* executeWorkflow *)

Current == sorted[next]
InRun == phase = "run" /\ next <= Len(sorted)
Ready(t) == t \in Tasks /\ Range(depends[t]) \subseteq completedTasks

SkipTask ==
    /\ InRun /\ ~Ready(Current)
    /\ next' = next + 1
    /\ UNCHANGED <<phase, depends, stack, visited, visiting, sorted, status, completedTasks>>

\* The agent succeeds.
CompleteTask ==
    /\ InRun /\ Ready(Current)
    /\ status' = [status EXCEPT ![Current] = "completed"]
    /\ completedTasks' = completedTasks \cup {Current}
    /\ next' = next + 1
    /\ UNCHANGED <<phase, depends, stack, visited, visiting, sorted>>

\* There is no such agent, it throws, or its result is not a success.
FailTask ==
    /\ InRun /\ Ready(Current)
    /\ status' = [status EXCEPT ![Current] = "failed"]
    /\ next' = next + 1
    /\ UNCHANGED <<phase, depends, stack, visited, visiting, sorted, completedTasks>>

EndWorkflow ==
    /\ phase = "run" /\ next > Len(sorted)
    /\ phase' = "done"
    /\ UNCHANGED <<depends, stack, visited, visiting, sorted, status, completedTasks, next>>

WorkflowNext ==
    \/ VisitNext \/ VisitDependency \/ EndVisit \/ EndSort
    \/ SkipTask \/ CompleteTask \/ FailTask \/ EndWorkflow

WorkflowSpec == WorkflowInit /\ [][WorkflowNext]_wvars

-----------------------------------------------------------------------------
(* Properties *)

\* The tasks, and what they name as dependencies
Named == Tasks \cup UNION {Range(depends[t]) : t \in Tasks}

SelfContained(S) == \A t \in S \cap Tasks : Range(depends[t]) \subseteq S

\* What a task depends on, directly and through other tasks: the least such set
Needs(t) == {u \in Named : \A S \in SUBSET Named :
                               Range(depends[t]) \subseteq S /\ SelfContained(S) => u \in S}

\* In the end a task was left out if, and only if, what it needs includes a task that
\* failed, one that does not exist, or a cycle, in whatever order they were listed
\* (topologicalSort, executeWorkflow).
WorkflowSound ==
    phase = "done" =>
        \A t \in Tasks :
            status[t] = "pending" <=>
                \E u \in Needs(t) : u \notin Tasks \/ status[u] = "failed" \/ u \in Needs(u)

-----------------------------------------------------------------------------
(* The inductive invariant behind WorkflowSound *)

Calls == [task: Named, dep: Nat \ {0}]

WorkflowTypeOK ==
    /\ phase \in {"sort", "run", "done"} /\ next \in Nat \ {0}
    /\ depends \in [Tasks -> DependencyLists]
    /\ stack \in Seq(Calls)
    /\ visited \subseteq Named /\ visiting \subseteq Named
    /\ sorted \in Seq(Named) /\ IsInjective(sorted)
    /\ status \in [Tasks -> {"pending", "completed", "failed"}]
    /\ completedTasks = {t \in Tasks : status[t] = "completed"}

\* The stack holds what is being visited, each task needed by those below it, and
\* what is visited is sorted.
StackOK ==
    /\ visited = Range(sorted)
    /\ visiting = {stack[i].task : i \in DOMAIN stack}
    /\ visiting \cap visited = {}
    /\ \A i, j \in DOMAIN stack : i < j =>
           /\ stack[i].task \in Tasks /\ stack[i].task # stack[j].task
           /\ stack[j].task \in Needs(stack[i].task)

\* t cannot come after d in the order, for d needs t.
InCycle(t, d) == d \in Tasks /\ t \in Needs(d)

\* The dependencies a call has gone through are sorted, in a cycle with its task,
\* or being visited right now.
CallsOK ==
    \A i \in DOMAIN stack :
        /\ stack[i].dep <= Len(Dependencies(stack[i].task)) + 1
        /\ \A k \in 1 .. stack[i].dep - 1 :
               LET d == Dependencies(stack[i].task)[k] IN
               \/ d \in visited
               \/ InCycle(stack[i].task, d)
               \/ i < Len(stack) /\ d = stack[i + 1].task

Before(d, p) == \E q \in 1 .. p - 1 : q \in DOMAIN sorted /\ sorted[q] = d

\* A sorted task comes after its dependencies, unless it is in a cycle with them.
SortOK ==
    \A p \in DOMAIN sorted : sorted[p] \in Tasks =>
        \A d \in Range(depends[sorted[p]]) : Before(d, p) \/ InCycle(sorted[p], d)

ListedOK ==
    IF phase = "sort"
    THEN \A i \in DOMAIN TaskList : i < next => TaskList[i] \in visited \cup visiting
    ELSE Tasks \subseteq Range(sorted)

Hopeless(t) == \E u \in Needs(t) : u \notin Tasks \/ status[u] = "failed" \/ u \in Needs(u)

\* Of the tasks the loop has passed, one that was left out had no chance, and one
\* that ran came after its dependencies had completed.
RunOK ==
    \A t \in Tasks :
        IF phase # "sort" /\ Before(t, next)
        THEN IF status[t] = "pending" THEN Hopeless(t)
             ELSE \A d \in Range(depends[t]) :
                      d \in completedTasks /\ \A p \in DOMAIN sorted : sorted[p] = t => Before(d, p)
        ELSE status[t] = "pending"

WorkflowInv ==
    /\ WorkflowTypeOK
    /\ StackOK
    /\ CallsOK
    /\ SortOK
    /\ ListedOK
    /\ RunOK
    /\ phase = "done" => next > Len(sorted)
=============================================================================
