----------------------------- MODULE ThreadPool -----------------------------
(***************************************************************************)
(* The fixed-size worker pool (src/concurrency/thread_pool.cpp).           *)
(*                                                                         *)
(* Tasks are numbered in the order in which submit() accepts them.  A task *)
(* is an external function: it may itself submit (from its worker thread)  *)
(* before it ends, and whether it ends normally or by an exception makes   *)
(* no difference, workerLoop swallows the exception.  The critical         *)
(* sections of mutex_ are single steps; the two notifications happen after *)
(* the mutex is released and are steps of their own.                       *)
(*                                                                         *)
(* The owner destroys the pool only after every submit() call of other     *)
(* threads has returned, as object lifetime demands and as its users in    *)
(* src/ do; tasks still running may go on submitting.                      *)
(***************************************************************************)
EXTENDS Naturals, Sequences, FiniteSets

CONSTANTS Workers, Submitters,
          MaxTasks   \* bound: tasks accepted in one behaviour

ASSUME PoolAssumption ==
    /\ IsFiniteSet(Workers) /\ Workers # {}
    /\ Workers \cap Submitters = {}
    /\ MaxTasks \in Nat

VARIABLES
    tasks,       \* tasks_
    stopping,    \* stopping_
    wpc,         \* where each worker is in workerLoop
    current,     \* the task each worker runs; 0 when none
    notifying,   \* callers of submit between tasks_.push and notify_one
    dpc,         \* where the owner is in ~ThreadPool
    accepted,    \* history: number of tasks accepted
    started,     \* history: tasks in the order in which workers took them
    finished,    \* history: tasks whose call has returned or thrown
    rejected     \* history: some submit() has thrown

vars == <<tasks, stopping, wpc, current, notifying, dpc,
          accepted, started, finished, rejected>>

history == <<accepted, started, finished, rejected>>

(* "ready": about to take mutex_ and evaluate the predicate of the wait;    *)
(* "asleep": blocked on cv_.                                                *)

At(loc) == {w \in Workers : wpc[w] = loc}

Init ==
    /\ tasks = <<>>
    /\ stopping = FALSE
    /\ wpc = [w \in Workers |-> "ready"]
    /\ current = [w \in Workers |-> 0]
    /\ notifying = {}
    /\ dpc = "alive"
    /\ accepted = 0
    /\ started = <<>>
    /\ finished = {}
    /\ rejected = FALSE

-----------------------------------------------------------------------------
(* cv_.notify_one() *)
NotifyOne ==
    \/ At("asleep") = {} /\ UNCHANGED wpc
    \/ \E w \in At("asleep") : wpc' = [wpc EXCEPT ![w] = "ready"]

(* Who may be inside submit(): another thread before the destructor starts, *)
(* or a worker on behalf of the task it runs.                               *)
MayCall(c) ==
    \/ c \in Submitters /\ dpc = "alive"
    \/ c \in Workers /\ wpc[c] = "running"

(* Fault: the newest task is put first. *)
PushedFront(task) == <<task>> \o tasks

Pushed(task) == Append(tasks, task)

SubmitPush(c) ==
    /\ MayCall(c)
    /\ c \notin notifying
    /\ ~stopping
    /\ accepted < MaxTasks
    /\ accepted' = accepted + 1
    /\ tasks' = Pushed(accepted')
    /\ notifying' = notifying \cup {c}
    /\ UNCHANGED <<stopping, wpc, current, dpc, started, finished, rejected>>

SubmitThrows(c) ==
    /\ MayCall(c)
    /\ c \notin notifying
    /\ stopping
    /\ rejected' = TRUE
    /\ UNCHANGED <<tasks, stopping, wpc, current, notifying, dpc,
                   accepted, started, finished>>

(* Fault: only the first task of a backlog wakes a worker. *)
SubmitNotifyIfFirst(c) ==
    /\ c \in notifying
    /\ IF Len(tasks) = 1 THEN NotifyOne ELSE UNCHANGED wpc
    /\ notifying' = notifying \ {c}
    /\ UNCHANGED <<tasks, stopping, current, dpc, history>>

(* Fault: the notification is forgotten. *)
SubmitNotifyNobody(c) ==
    /\ c \in notifying
    /\ notifying' = notifying \ {c}
    /\ UNCHANGED <<tasks, stopping, wpc, current, dpc, history>>

SubmitNotify(c) ==
    /\ c \in notifying
    /\ NotifyOne
    /\ notifying' = notifying \ {c}
    /\ UNCHANGED <<tasks, stopping, current, dpc, history>>

-----------------------------------------------------------------------------
(* Fault: a stopping worker leaves although tasks are queued. *)
WorkerExitsEarly(w) ==
    /\ wpc[w] = "ready"
    /\ stopping
    /\ wpc' = [wpc EXCEPT ![w] = "exited"]
    /\ UNCHANGED <<tasks, stopping, current, notifying, dpc, history>>

WorkerSleeps(w) ==
    /\ wpc[w] = "ready"
    /\ ~stopping /\ tasks = <<>>
    /\ wpc' = [wpc EXCEPT ![w] = "asleep"]
    /\ UNCHANGED <<tasks, stopping, current, notifying, dpc, history>>

WorkerTakes(w) ==
    /\ wpc[w] = "ready"
    /\ tasks # <<>>
    /\ wpc' = [wpc EXCEPT ![w] = "running"]
    /\ current' = [current EXCEPT ![w] = Head(tasks)]
    /\ started' = Append(started, Head(tasks))
    /\ tasks' = Tail(tasks)
    /\ UNCHANGED <<stopping, notifying, dpc, accepted, finished, rejected>>

WorkerFinishes(w) ==
    /\ wpc[w] = "running"
    /\ w \notin notifying
    /\ wpc' = [wpc EXCEPT ![w] = "ready"]
    /\ current' = [current EXCEPT ![w] = 0]
    /\ finished' = finished \cup {current[w]}
    /\ UNCHANGED <<tasks, stopping, notifying, dpc, accepted, started, rejected>>

WorkerExits(w) ==
    /\ wpc[w] = "ready"
    /\ stopping /\ tasks = <<>>
    /\ wpc' = [wpc EXCEPT ![w] = "exited"]
    /\ UNCHANGED <<tasks, stopping, current, notifying, dpc, history>>

SpuriousWakeup(w) ==
    /\ wpc[w] = "asleep"
    /\ wpc' = [wpc EXCEPT ![w] = "ready"]
    /\ UNCHANGED <<tasks, stopping, current, notifying, dpc, history>>

-----------------------------------------------------------------------------
DestroySetsFlag ==
    /\ dpc = "alive"
    /\ notifying \cap Submitters = {}
    /\ stopping' = TRUE
    /\ dpc' = "flagged"
    /\ UNCHANGED <<tasks, wpc, current, notifying, history>>

(* Fault: notify_one in the destructor. *)
DestroyNotifiesOne ==
    /\ dpc = "flagged"
    /\ NotifyOne
    /\ dpc' = "joining"
    /\ UNCHANGED <<tasks, stopping, current, notifying, history>>

DestroyNotifiesAll ==
    /\ dpc = "flagged"
    /\ wpc' = [w \in Workers |-> IF wpc[w] = "asleep" THEN "ready" ELSE wpc[w]]
    /\ dpc' = "joining"
    /\ UNCHANGED <<tasks, stopping, current, notifying, history>>

(* The loop of join() calls ends when every worker has returned. *)
DestroyJoins ==
    /\ dpc = "joining"
    /\ At("exited") = Workers
    /\ dpc' = "gone"
    /\ UNCHANGED <<tasks, stopping, wpc, current, notifying, history>>

Gone ==
    /\ dpc = "gone"
    /\ UNCHANGED vars

-----------------------------------------------------------------------------
WorkerStep(w) ==
    \/ WorkerSleeps(w)
    \/ WorkerTakes(w)
    \/ WorkerFinishes(w)
    \/ WorkerExits(w)

DestroyStep ==
    \/ DestroySetsFlag
    \/ DestroyNotifiesAll
    \/ DestroyJoins

Next ==
    \/ \E c \in Submitters \cup Workers :
          SubmitPush(c) \/ SubmitThrows(c) \/ SubmitNotify(c)
    \/ \E w \in Workers : WorkerStep(w) \/ SpuriousWakeup(w)
    \/ DestroyStep
    \/ Gone

Spec == Init /\ [][Next]_vars

(* Threads that can run do, tasks end, a destructor that has started goes   *)
(* on.  Nobody is obliged to submit or to destroy the pool.                 *)
Fairness ==
    /\ \A w \in Workers : WF_vars(WorkerStep(w))
    /\ \A c \in Submitters \cup Workers : WF_vars(SubmitNotify(c))
    /\ WF_vars(DestroyNotifiesAll)
    /\ WF_vars(DestroyJoins)

FairSpec == Spec /\ Fairness

-----------------------------------------------------------------------------
(* Tasks are started in the order of submission, each exactly once: what    *)
(* was started and what is still queued is the sequence of accepted tasks.  *)
StartedInOrder == started \o tasks = [i \in 1..accepted |-> i]

(* No task waits while a worker sleeps, unless a wake-up for it is under    *)
(* way: the one notify_one per submit(), made after the mutex is released,  *)
(* is never wasted.                                                         *)
NoIdleBehindBacklog ==
    At("asleep") # {} => Len(tasks) <= Cardinality(At("ready")) + Cardinality(notifying)

(* "Destruction is graceful: already-submitted tasks finish, then workers   *)
(* join" (ThreadPool.hpp, line 20): when the destructor returns, every      *)
(* accepted task has finished, those submitted by other tasks included.     *)
GracefulDestruction ==
    dpc = "gone" => /\ finished = 1..accepted
                    /\ tasks = <<>> /\ notifying = {}

(* Every accepted task is eventually finished, whether or not the pool is   *)
(* destroyed meanwhile.                                                     *)
EveryTaskFinishes ==
    \A k \in 1..MaxTasks : (accepted >= k) ~> (k \in finished)

(* The destructor returns: no worker is left asleep or waiting on another.  *)
DestructorReturns == (dpc = "flagged") ~> (dpc = "gone")
=============================================================================
