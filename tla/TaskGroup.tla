----------------------------- MODULE TaskGroup -----------------------------
(* syncx.TaskGroup (rivetxcore/syncx/task_group.go): a WaitGroup of tasks   *)
(* beside a context that tells them to end.  Quit runs under a sync.Once,   *)
(* so that a second Quit blocks until the first is done, and one that finds *)
(* it done returns at once, without waiting for the tasks.                  *)
EXTENDS FiniteSets

CONSTANTS
    Tasks,      \* the goroutines of the group
    Calls,      \* calls of Quit and Wait, by a task or by others
    Outside     \* whoever is not a task

Ops == {"quit", "quit and wait", "wait"}

VARIABLES
    task,       \* where each task is: in the WaitGroup while it runs
    ctxDone,
    once,       \* whether QuitOnce is new, running or done
    pc,         \* where each call is
    op,         \* what it calls
    by,         \* the task that makes it, or Outside
    early       \* the tasks that were running when it was made (history)

vars == <<task, ctxDone, once, pc, op, by, early>>

Running == {t \in Tasks : task[t] = "running"}

Init ==
    /\ task = [t \in Tasks |-> "off"]
    /\ ctxDone = FALSE /\ once = "new"
    /\ pc = [c \in Calls |-> "idle"]
    /\ op = [c \in Calls |-> "wait"] /\ by = [c \in Calls |-> Outside]
    /\ early = [c \in Calls |-> {}]

Step(c, from, to) == pc[c] = from /\ pc' = [pc EXCEPT ![c] = to]
InCall(t) == \E c \in Calls : by[c] = t /\ pc[c] \notin {"idle", "returned"}

-----------------------------------------------------------------------------
(* Add before a task is started, Done when it ends: when it sees the context *)
(* done, or before.                                                          *)
Add(t) ==
    /\ task[t] = "off"
    /\ task' = [task EXCEPT ![t] = "running"]
    /\ UNCHANGED <<ctxDone, once, pc, op, by, early>>

Done(t) ==
    /\ task[t] = "running" /\ ~InCall(t)
    /\ task' = [task EXCEPT ![t] = "done"]
    /\ UNCHANGED <<ctxDone, once, pc, op, by, early>>

\* A task of the group may make any of the calls too.
Call(c, o, caller) ==
    /\ caller # Outside => caller \in Running /\ ~InCall(caller)
    /\ Step(c, "idle", IF o = "wait" THEN "wait" ELSE "once")
    /\ op' = [op EXCEPT ![c] = o] /\ by' = [by EXCEPT ![c] = caller]
    /\ early' = [early EXCEPT ![c] = Running]
    /\ UNCHANGED <<task, ctxDone, once>>

\* QuitOnce.Do: the first call runs the function, one that finds it run returns,
\* any other waits for that.
OnceFirst(c) ==
    /\ once = "new" /\ once' = "running"
    /\ Step(c, "once", "cancel")
    /\ UNCHANGED <<task, ctxDone, op, by, early>>

OnceLate(c) ==
    /\ once = "done"
    /\ Step(c, "once", "returned")
    /\ UNCHANGED <<task, ctxDone, once, op, by, early>>

\* a mutant: the tasks are told to end when they have been waited for
CancelLate(c) ==
    /\ Step(c, "cancel", IF op[c] = "quit" THEN "leave" ELSE "wait")
    /\ ctxDone' = (op[c] = "quit")
    /\ UNCHANGED <<task, once, op, by, early>>

Cancel(c) ==
    /\ Step(c, "cancel", IF op[c] = "quit" THEN "leave" ELSE "wait")
    /\ ctxDone' = TRUE
    /\ UNCHANGED <<task, once, op, by, early>>

\* WaitGroup.Wait
Wait(c) ==
    /\ Running = {}
    /\ Step(c, "wait", IF op[c] = "wait" THEN "returned" ELSE "leave")
    /\ UNCHANGED <<task, ctxDone, once, op, by, early>>

Leave(c) ==
    /\ Step(c, "leave", "returned")
    /\ once' = "done"
    /\ UNCHANGED <<task, ctxDone, op, by, early>>

GoesOn(c) == OnceFirst(c) \/ OnceLate(c) \/ Cancel(c) \/ Wait(c) \/ Leave(c)

\* A task sees the context done and ends.
Ends(t) == ctxDone /\ Done(t)

Next ==
    \/ \E t \in Tasks : Add(t) \/ Done(t)
    \/ \E c \in Calls :
        \/ \E o \in Ops, caller \in Tasks \cup {Outside} : Call(c, o, caller)
        \/ GoesOn(c)

Spec == Init /\ [][Next]_vars

-----------------------------------------------------------------------------
(* Properties *)

\* A Quit that waits is in the Once, and a task of the group is in Quit: that
\* task waits for the Once, and the Once for that task.
Embrace ==
    \E c \in Calls, d \in Calls :
        /\ pc[c] = "wait" /\ op[c] = "quit and wait"
        /\ pc[d] = "once" /\ by[d] \in Running

InQuit(c) == pc[c] \in {"once", "cancel", "wait", "leave"} /\ op[c] # "wait"

\* A task waits for its own group, in which it is counted.
WaitsForItself == \E c \in Calls : pc[c] = "wait" /\ by[c] \in Running

\* In the end no call is left in Quit when the tasks heed the context, but for
\* a task that waits for itself and for the deadly embrace of a Quit(true) with
\* a task that calls Quit too, which are the only ways to hang.
QuitReturns == <>[](Embrace \/ WaitsForItself \/ \A c \in Calls : ~InQuit(c))
=============================================================================
