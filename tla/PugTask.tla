------------------------------ MODULE PugTask ------------------------------
(***************************************************************************)
(* CPugTask's timer slots (PugTask.h, PugTask.cpp), as operators on a map  *)
(* from slots to tasks.  The code keeps one slot per E_TASK value in a     *)
(* std::map and stores an absolute deadline in Time, zero meaning "no      *)
(* task".  Here a slot holds the seconds left to its deadline, so that a   *)
(* model has finitely many states; `on' is the code's test Time > 0.       *)
(*                                                                         *)
(* The module has no variables: CPugTask::Create and Remove are called in  *)
(* the middle of other components' handlers, so the modules that own a     *)
(* task map build its next value with these operators.  Which due slot     *)
(* CPugTask::StartFrame takes first is left to the modules that use them.  *)
(***************************************************************************)
EXTENDS Naturals

\* P_TASK: a deadline, a period for a repeating task, and the argument that
\* Execute hands to the component the slot belongs to.
Task(Parameter) ==
    [on: BOOLEAN, left: Nat, delay: Nat, loop: BOOLEAN, param: Parameter]

\* The slot that CPugTask::Remove writes, and that every slot starts as.
NoTask == [on |-> FALSE, left |-> 0, delay |-> 0, loop |-> FALSE, param |-> 0]

\* CPugTask::ServerActivate and ServerDeactivate clear the map.
Cleared(slots) == [i \in slots |-> NoTask]

\* CPugTask::Create.  A slot that is already in use is overwritten: the
\* earlier deadline and argument are lost.
Create(tasks, i, delay, loop, param) ==
    [tasks EXCEPT ![i] = [on |-> TRUE, left |-> delay, delay |-> delay,
                          loop |-> loop, param |-> param]]

\* CPugTask::Remove.
Remove(tasks, i) == [tasks EXCEPT ![i] = NoTask]

\* The test of CPugTask::StartFrame: the slot is in use and its time has come.
IsDue(tasks, i) == tasks[i].on /\ tasks[i].left = 0

NoneDue(tasks) == \A i \in DOMAIN tasks : ~IsDue(tasks, i)

\* What CPugTask::StartFrame writes into a due slot before it calls Execute:
\* a repeating task gets its next deadline, a one-shot task is switched off.
Rearm(tasks, i) ==
    IF tasks[i].loop THEN [tasks EXCEPT ![i].left = tasks[i].delay]
                     ELSE Remove(tasks, i)

\* One second passes (gpGlobals->time advances).
Elapse(tasks) ==
    [i \in DOMAIN tasks |->
        IF tasks[i].on /\ tasks[i].left > 0
        THEN [tasks[i] EXCEPT !.left = tasks[i].left - 1]
        ELSE tasks[i]]
=============================================================================
