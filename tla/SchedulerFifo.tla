---------------------------- MODULE SchedulerFifo ----------------------------
(***************************************************************************)
(* What the background scheduler promises (spec 4.3): scheduled tasks run *)
(* one at a time, in the order they were scheduled, and every scheduled    *)
(* task eventually runs.  A task is scheduled at most once.                *)
(***************************************************************************)
EXTENDS Sequences

CONSTANTS TaskIds, NoTask

VARIABLES
    q,          \* tasks scheduled and not yet started, oldest first
    running,    \* the task running now, or NoTask
    done,       \* tasks that have run
    sched       \* tasks ever scheduled

avars == <<q, running, done, sched>>

Init ==
    /\ q = <<>>
    /\ running = NoTask
    /\ done = {}
    /\ sched = {}

Enqueue(x) ==
    /\ x \notin sched
    /\ q' = Append(q, x)
    /\ sched' = sched \cup {x}
    /\ UNCHANGED <<running, done>>

Start ==
    /\ running = NoTask
    /\ q # <<>>
    /\ running' = Head(q)
    /\ q' = Tail(q)
    /\ UNCHANGED <<done, sched>>

Finish ==
    /\ running # NoTask
    /\ done' = done \cup {running}
    /\ running' = NoTask
    /\ UNCHANGED <<q, sched>>

Next == (\E x \in TaskIds : Enqueue(x)) \/ Start \/ Finish

Spec == Init /\ [][Next]_avars /\ WF_avars(Start) /\ WF_avars(Finish)
=============================================================================
