----------------------------- MODULE BGScheduler -----------------------------
(***************************************************************************)
(* PosixEnv::Schedule and PosixEnv::BGThread (src/unnamed/part_000, lines  *)
(* 1110-1158): producers push (function, arg) items on queue_ under mu_,   *)
(* starting the background thread on the first call, and notify_one on    *)
(* bgsignal_ after unlocking; the background thread waits while the queue *)
(* is empty, pops the front item under mu_ and runs it outside the lock.   *)
(*                                                                         *)
(* A task is a model value standing for its (function, arg) pair.  The    *)
(* background threads are a sequence, so that a thread created by a       *)
(* second Schedule call would be visible; the code creates at most one.    *)
(***************************************************************************)
EXTENDS Integers, Sequences, FiniteSets

CONSTANTS
    Producers,   \* threads calling Schedule
    Tasks,       \* Tasks[p]: the tasks producer p schedules, in order
    NoTask

TaskIds == UNION {{Tasks[p][i] : i \in DOMAIN Tasks[p]} : p \in Producers}

ASSUME NoTask \notin TaskIds

VARIABLES
    queue_,      \* the BGQueue deque
    bg,          \* bg[w]: control point of background thread w
    current,     \* current[w]: the task thread w popped
    cvWait,      \* background threads blocked in bgsignal_.wait()
    ppc,         \* ppc[p]: "idle" or "notify" (between unlock and notify_one)
    pidx,        \* pidx[p]: index of p's next task
    pushed,      \* history: every task pushed, in push order
    done         \* history: tasks whose function returned

vars == <<queue_, bg, current, cvWait, ppc, pidx, pushed, done>>

Init ==
    /\ queue_ = <<>>
    /\ bg = <<>>
    /\ current = <<>>
    /\ cvWait = {}
    /\ ppc = [p \in Producers |-> "idle"]
    /\ pidx = [p \in Producers |-> 1]
    /\ pushed = <<>>
    /\ done = {}

-----------------------------------------------------------------------------
(* Schedule, under mu_: create the background thread if bgthread_ is      *)
(* empty, then queue_.push_back the item.                                  *)
SchedulePush(p) ==
    /\ ppc[p] = "idle"
    /\ pidx[p] <= Len(Tasks[p])
    /\ LET x == Tasks[p][pidx[p]] IN
       /\ queue_' = Append(queue_, x)
       /\ pushed' = Append(pushed, x)
    /\ IF bg = <<>>
       THEN /\ bg' = <<"lock">>
            /\ current' = <<NoTask>>
       ELSE UNCHANGED <<bg, current>>
    /\ ppc' = [ppc EXCEPT ![p] = "notify"]
    /\ UNCHANGED <<cvWait, pidx, done>>

(* Schedule, after lock.unlock(): bgsignal_.notify_one() wakes one waiting *)
(* thread, if any; a notification nobody waits for is lost.                *)
\* Mutant: Schedule returns without notify_one.
ScheduleNoNotify(p) ==
    /\ ppc[p] = "notify"
    /\ ppc' = [ppc EXCEPT ![p] = "idle"]
    /\ pidx' = [pidx EXCEPT ![p] = @ + 1]
    /\ UNCHANGED <<queue_, bg, current, cvWait, pushed, done>>

ScheduleNotify(p) ==
    /\ ppc[p] = "notify"
    /\ \/ \E w \in cvWait : cvWait' = cvWait \ {w}
       \/ cvWait = {} /\ UNCHANGED cvWait
    /\ ppc' = [ppc EXCEPT ![p] = "idle"]
    /\ pidx' = [pidx EXCEPT ![p] = @ + 1]
    /\ UNCHANGED <<queue_, bg, current, pushed, done>>

(* BGThread, holding mu_: while (queue_.empty()) wait; else take the front *)
(* item, pop_front, unlock and go run it.                                  *)
\* Mutant: pop_front() before reading front(), which then reads the next
\* item, or nothing when the queue held one.
CheckQueuePopFirst(w) ==
    \/ /\ queue_ = <<>>
       /\ cvWait' = cvWait \cup {w}
       /\ bg' = [bg EXCEPT ![w] = "wait"]
       /\ UNCHANGED <<queue_, current>>
    \/ /\ queue_ # <<>>
       /\ current' = [current EXCEPT ![w] = IF Len(queue_) > 1 THEN queue_[2] ELSE NoTask]
       /\ queue_' = Tail(queue_)
       /\ bg' = [bg EXCEPT ![w] = "run"]
       /\ UNCHANGED cvWait

CheckQueue(w) ==
    \/ /\ queue_ = <<>>
       /\ cvWait' = cvWait \cup {w}
       /\ bg' = [bg EXCEPT ![w] = "wait"]
       /\ UNCHANGED <<queue_, current>>
    \/ /\ queue_ # <<>>
       /\ current' = [current EXCEPT ![w] = Head(queue_)]
       /\ queue_' = Tail(queue_)
       /\ bg' = [bg EXCEPT ![w] = "run"]
       /\ UNCHANGED cvWait

BGLock(w) ==
    /\ bg[w] = "lock"
    /\ CheckQueue(w)
    /\ UNCHANGED <<ppc, pidx, pushed, done>>

(* wait() returns holding mu_ once notified; the while loop re-checks.    *)
BGWoken(w) ==
    /\ bg[w] = "wait"
    /\ w \notin cvWait
    /\ CheckQueue(w)
    /\ UNCHANGED <<ppc, pidx, pushed, done>>

(* A boost::condition_variable may wake without a notification.           *)
SpuriousWakeup(w) ==
    /\ w \in cvWait
    /\ cvWait' = cvWait \ {w}
    /\ UNCHANGED <<queue_, bg, current, ppc, pidx, pushed, done>>

(* The item's function(arg) returns; the loop locks mu_ again.          *)
BGRun(w) ==
    /\ bg[w] = "run"
    /\ done' = done \cup {current[w]}
    /\ current' = [current EXCEPT ![w] = NoTask]
    /\ bg' = [bg EXCEPT ![w] = "lock"]
    /\ UNCHANGED <<queue_, cvWait, ppc, pidx, pushed>>

BGStep(w) == BGLock(w) \/ BGWoken(w) \/ BGRun(w)

Next ==
    \/ \E p \in Producers : SchedulePush(p) \/ ScheduleNotify(p)
    \/ \E w \in DOMAIN bg : BGStep(w) \/ SpuriousWakeup(w)

(* Producers and the background thread are OS threads: each one that can  *)
(* take a step eventually does.  A spurious wakeup is never promised.      *)
Fairness ==
    /\ \A p \in Producers : WF_vars(SchedulePush(p) \/ ScheduleNotify(p))
    /\ \A w \in 1..Cardinality(TaskIds) : WF_vars(w \in DOMAIN bg /\ BGStep(w))

Spec == Init /\ [][Next]_vars /\ Fairness

-----------------------------------------------------------------------------
TypeOK ==
    /\ queue_ \in Seq(TaskIds)
    /\ \A w \in DOMAIN bg : bg[w] \in {"lock", "wait", "run"}
    /\ \A w \in DOMAIN bg : bg[w] = "run" => current[w] \in TaskIds
    /\ cvWait \subseteq DOMAIN bg
    /\ ppc \in [Producers -> {"idle", "notify"}]
    /\ done \subseteq TaskIds

\* The task the background thread is running, as the abstract spec sees it.
RunningTask ==
    IF \E w \in DOMAIN bg : bg[w] = "run"
    THEN current[CHOOSE w \in DOMAIN bg : bg[w] = "run"]
    ELSE NoTask

Fifo == INSTANCE SchedulerFifo WITH
            q <- queue_, running <- RunningTask, done <- done,
            sched <- {pushed[i] : i \in DOMAIN pushed}

(* Schedule/BGThread implement the scheduler's promise (spec 4.3): tasks   *)
(* start in the order they were queued, never two at once, and every      *)
(* queued task eventually runs -- the notify after unlock never leaves    *)
(* the background thread waiting on a non-empty queue.                     *)
FifoRefinement == Fifo!Spec
=============================================================================
