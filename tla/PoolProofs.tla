---------------------------- MODULE PoolProofs ----------------------------
(***************************************************************************)
(* The two pools of the program, the one of worker threads and the one of  *)
(* memory blocks.                                                          *)
(***************************************************************************)
EXTENDS ThreadPool, PoolAllocator, FiniteSetTheorems, TLAPS

(***************************************************************************)
(* The safety of the worker pool, for any number of workers, submitters    *)
(* and tasks.                                                              *)
(*                                                                         *)
(* NoIdleBehindBacklog is inductive by itself once the sets it counts are  *)
(* known to be finite.  GracefulDestruction is not: that nothing is queued *)
(* or running when the destructor returns rests on what a worker that has  *)
(* exited implies (ExitedMeansDrained), on where a caller of submit() can  *)
(* be (CallersAreAlive), and on every task that was taken being finished   *)
(* or in the hands of a worker (NoneIsForgotten).                          *)
(***************************************************************************)

TypeOK ==
    /\ tasks \in Seq(Nat) /\ started \in Seq(Nat)
    /\ stopping \in BOOLEAN
    /\ wpc \in [Workers -> {"ready", "asleep", "running", "exited"}]
    /\ current \in [Workers -> Nat]
    /\ notifying \in SUBSET (Submitters \cup Workers) /\ IsFiniteSet(notifying)
    /\ dpc \in {"alive", "flagged", "joining", "gone"}
    /\ accepted \in Nat

(* StartedInOrder, task by task. *)
InOrder ==
    /\ accepted = Len(started) + Len(tasks)
    /\ \A k \in 1..Len(started) : started[k] = k
    /\ \A k \in 1..Len(tasks) : tasks[k] = Len(started) + k

NoneIsForgotten ==
    /\ finished \subseteq 1..Len(started)
    /\ \A w \in Workers : wpc[w] = "running" => current[w] \in 1..Len(started)
    /\ \A k \in 1..Len(started) :
          k \in finished \/ \E w \in Workers : wpc[w] = "running" /\ current[w] = k

ExitedMeansDrained ==
    /\ stopping <=> dpc # "alive"
    /\ \A w \in Workers : wpc[w] = "exited" => stopping /\ tasks = <<>>
    /\ dpc = "gone" => \A w \in Workers : wpc[w] = "exited"

CallersAreAlive ==
    \A c \in notifying :
        \/ c \in Workers /\ wpc[c] = "running"
        \/ c \in Submitters /\ dpc = "alive"

Drained == TypeOK /\ InOrder /\ NoneIsForgotten /\ ExitedMeansDrained /\ CallersAreAlive

-----------------------------------------------------------------------------
LEMMA InitDrained == Init => Drained /\ NoIdleBehindBacklog
<1> SUFFICES ASSUME Init PROVE Drained /\ NoIdleBehindBacklog
  OBVIOUS
<1>1. TypeOK
  <2>1. tasks \in Seq(Nat) /\ started \in Seq(Nat) /\ accepted \in Nat
    BY DEF Init
  <2>2. notifying \in SUBSET (Submitters \cup Workers) /\ IsFiniteSet(notifying)
    BY FS_EmptySet, Zenon DEF Init
  <2> QED
    BY <2>1, <2>2, Zenon DEF Init, TypeOK
<1>2. InOrder /\ NoneIsForgotten
  BY DEF Init, InOrder, NoneIsForgotten
<1>3. ExitedMeansDrained /\ CallersAreAlive
  BY Zenon DEF Init, ExitedMeansDrained, CallersAreAlive
<1>4. NoIdleBehindBacklog
  BY Zenon DEF Init, NoIdleBehindBacklog, At
<1> QED
  BY <1>1, <1>2, <1>3, <1>4, Zenon DEF Drained

LEMMA PushDrained ==
  ASSUME Drained, NEW c \in Submitters \cup Workers, SubmitPush(c) PROVE Drained'
<1> USE DEF Drained
<1>1. tasks' = Append(tasks, accepted + 1) /\ accepted + 1 \in Nat /\ accepted' = accepted + 1
  BY DEF SubmitPush, Pushed, TypeOK
<1>2. TypeOK'
  <2>1. IsFiniteSet(notifying')
    BY FS_AddElement, Zenon DEF SubmitPush, TypeOK
  <2>2. tasks' \in Seq(Nat)
    BY <1>1 DEF TypeOK
  <2> QED
    BY <1>1, <2>1, <2>2, Zenon DEF SubmitPush, TypeOK
<1>3. InOrder'
  <2>1. Len(tasks') = Len(tasks) + 1 /\ tasks'[Len(tasks) + 1] = accepted + 1
    BY <1>1 DEF TypeOK
  <2>2. \A k \in 1..Len(tasks) : tasks'[k] = tasks[k]
    BY <1>1 DEF TypeOK
  <2>3. started' = started /\ Len(started) \in Nat /\ Len(tasks) \in Nat
    BY DEF SubmitPush, TypeOK
  <2>4. accepted' = Len(started') + Len(tasks')
    BY <1>1, <2>1, <2>3 DEF InOrder
  <2>5. \A k \in 1..Len(tasks') : tasks'[k] = Len(started) + k
    <3> TAKE k \in 1..Len(tasks')
    <3>1. CASE k = Len(tasks) + 1
      BY <2>1, <2>3, <3>1 DEF InOrder
    <3>2. CASE k # Len(tasks) + 1
      <4>1. k \in 1..Len(tasks)
        BY <2>1, <2>3, <3>2
      <4> QED
        BY <2>2, <4>1, Zenon DEF InOrder
    <3> QED
      BY <3>1, <3>2, Zenon
  <2> QED
    BY <2>3, <2>4, <2>5, Zenon DEF InOrder
<1>4. NoneIsForgotten'
  BY Zenon DEF SubmitPush, NoneIsForgotten
<1>5. ExitedMeansDrained'
  BY Zenon DEF SubmitPush, ExitedMeansDrained
<1>6. CallersAreAlive'
  BY Zenon DEF SubmitPush, CallersAreAlive, MayCall
<1> QED
  BY <1>2, <1>3, <1>4, <1>5, <1>6, Zenon

LEMMA TakesDrained ==
  ASSUME Drained, NEW w \in Workers, WorkerTakes(w) PROVE Drained'
<1> USE DEF Drained
<1>1. /\ Head(tasks) = Len(started) + 1 /\ Head(tasks) \in Nat /\ Len(tasks) > 0
      /\ tasks' = Tail(tasks) /\ started' = Append(started, Head(tasks))
  BY DEF WorkerTakes, InOrder, TypeOK
<1>2. TypeOK'
  <2>1. tasks' \in Seq(Nat) /\ started' \in Seq(Nat)
    BY <1>1 DEF TypeOK, WorkerTakes
  <2> QED
    BY <1>1, <2>1, Zenon DEF WorkerTakes, TypeOK
<1>3. /\ Len(started') = Len(started) + 1 /\ Len(tasks') = Len(tasks) - 1
      /\ started'[Len(started) + 1] = Len(started) + 1
      /\ \A k \in 1..Len(started) : started'[k] = started[k]
      /\ \A k \in 1..Len(tasks') : tasks'[k] = tasks[k + 1]
  BY <1>1 DEF TypeOK, WorkerTakes
<1>4. InOrder'
  <2>1. Len(started) \in Nat /\ Len(tasks) \in Nat
    BY DEF TypeOK
  <2> QED
    BY <1>3, <2>1 DEF InOrder, WorkerTakes
<1>5. NoneIsForgotten'
  <2>1. Len(started) \in Nat
    BY DEF TypeOK
  <2>2. wpc'[w] = "running" /\ current'[w] = Len(started) + 1
    BY <1>1, Zenon DEF WorkerTakes, TypeOK
  <2>3. \A v \in Workers : v # w => wpc'[v] = wpc[v] /\ current'[v] = current[v]
    BY Zenon DEF WorkerTakes, TypeOK
  <2>4. wpc[w] # "running" /\ finished' = finished
    BY Zenon DEF WorkerTakes
  <2>5. finished' \subseteq 1..Len(started')
    BY <1>3, <2>1, <2>4 DEF NoneIsForgotten
  <2>6. \A v \in Workers : wpc'[v] = "running" => current'[v] \in 1..Len(started')
    BY <1>3, <2>1, <2>2, <2>3 DEF NoneIsForgotten
  <2>7. \A k \in 1..Len(started') :
          k \in finished' \/ \E v \in Workers : wpc'[v] = "running" /\ current'[v] = k
    <3> TAKE k \in 1..Len(started')
    <3>1. CASE k = Len(started) + 1
      BY <2>2, <3>1, Zenon
    <3>2. CASE k # Len(started) + 1
      <4>1. k \in 1..Len(started)
        BY <1>3, <2>1, <3>2
      <4>2. ASSUME NEW v \in Workers, wpc[v] = "running", current[v] = k
            PROVE  wpc'[v] = "running" /\ current'[v] = k
        BY <2>3, <2>4, <4>2, Zenon
      <4> QED
        BY <2>4, <4>1, <4>2, Zenon DEF NoneIsForgotten
    <3> QED
      BY <3>1, <3>2, Zenon
  <2> QED
    BY <2>5, <2>6, <2>7, Zenon DEF NoneIsForgotten
<1>6. ExitedMeansDrained'
  BY Zenon DEF WorkerTakes, ExitedMeansDrained, TypeOK
<1>7. CallersAreAlive'
  BY Zenon DEF WorkerTakes, CallersAreAlive, TypeOK
<1> QED
  BY <1>2, <1>4, <1>5, <1>6, <1>7, Zenon

LEMMA FinishesDrained ==
  ASSUME Drained, NEW w \in Workers, WorkerFinishes(w) PROVE Drained'
<1> USE DEF Drained
<1>1. TypeOK'
  BY Zenon DEF WorkerFinishes, TypeOK
<1>2. InOrder'
  BY Zenon DEF WorkerFinishes, InOrder
<1>3. NoneIsForgotten'
  <2>1. \A v \in Workers : v # w => wpc'[v] = wpc[v] /\ current'[v] = current[v]
    BY Zenon DEF WorkerFinishes, TypeOK
  <2>2. /\ wpc[w] = "running" /\ wpc'[w] = "ready"
        /\ finished' = finished \cup {current[w]} /\ started' = started
    BY Zenon DEF WorkerFinishes, TypeOK
  <2>3. finished' \subseteq 1..Len(started')
    BY <2>2, Zenon DEF NoneIsForgotten
  <2>4. \A v \in Workers : wpc'[v] = "running" => current'[v] \in 1..Len(started')
    BY <2>1, <2>2, Zenon DEF NoneIsForgotten
  <2>5. \A k \in 1..Len(started') :
          k \in finished' \/ \E v \in Workers : wpc'[v] = "running" /\ current'[v] = k
    <3> TAKE k \in 1..Len(started')
    <3>1. ASSUME NEW v \in Workers, wpc[v] = "running", current[v] = k, v # w
          PROVE  wpc'[v] = "running" /\ current'[v] = k
      BY <2>1, <3>1, Zenon
    <3> QED
      BY <2>2, <3>1, Zenon DEF NoneIsForgotten
  <2> QED
    BY <2>3, <2>4, <2>5, Zenon DEF NoneIsForgotten
<1>4. ExitedMeansDrained' /\ CallersAreAlive'
  BY Zenon DEF WorkerFinishes, ExitedMeansDrained, CallersAreAlive, TypeOK
<1> QED
  BY <1>1, <1>2, <1>3, <1>4, Zenon

(* Workers fall asleep or are woken, notifications are made, the destructor *)
(* goes on: no task changes hands.                                          *)
LEMMA WakeDrained ==
  ASSUME Drained, UNCHANGED <<tasks, stopping, current, accepted, started, finished>>,
         notifying' \in SUBSET notifying,
         dpc' = dpc \/ (dpc = "flagged" /\ dpc' = "joining"),
         wpc' \in [Workers -> {"ready", "asleep", "running", "exited"}],
         \A w \in Workers : \/ wpc'[w] = wpc[w]
                            \/ wpc[w] \in {"ready", "asleep"} /\ wpc'[w] \in {"ready", "asleep"}
  PROVE  Drained'
<1> USE DEF Drained
<1>1. TypeOK'
  <2>1. IsFiniteSet(notifying')
    BY FS_Subset, Zenon DEF TypeOK
  <2> QED
    BY <2>1, Zenon DEF TypeOK
<1>2. InOrder'
  BY Zenon DEF InOrder
<1>3. NoneIsForgotten'
  <2>1. \A w \in Workers : wpc'[w] = "running" <=> wpc[w] = "running"
    OBVIOUS
  <2> QED
    BY <2>1 DEF NoneIsForgotten
<1>4. ExitedMeansDrained' /\ CallersAreAlive'
  <2>1. \A w \in Workers : /\ wpc'[w] = "running" <=> wpc[w] = "running"
                           /\ wpc'[w] = "exited" <=> wpc[w] = "exited"
    OBVIOUS
  <2> QED
    BY <2>1, Zenon DEF ExitedMeansDrained, CallersAreAlive
<1> QED
  BY <1>1, <1>2, <1>3, <1>4, Zenon

LEMMA ExitsDrained ==
  ASSUME Drained, NEW w \in Workers, WorkerExits(w) PROVE Drained'
<1> USE DEF Drained
<1>1. TypeOK' /\ InOrder'
  BY Zenon DEF WorkerExits, TypeOK, InOrder, history
<1>2. NoneIsForgotten'
  <2>1. \A v \in Workers : wpc'[v] = "running" <=> wpc[v] = "running"
    BY Zenon DEF WorkerExits, TypeOK
  <2> QED
    BY <2>1, Zenon DEF NoneIsForgotten, WorkerExits, history
<1>3. ExitedMeansDrained' /\ CallersAreAlive'
  BY Zenon DEF WorkerExits, ExitedMeansDrained, CallersAreAlive, TypeOK, history
<1> QED
  BY <1>1, <1>2, <1>3, Zenon

LEMMA DestroyDrained == ASSUME Drained, DestroyStep PROVE Drained'
<1> USE DEF Drained
<1>1. CASE DestroySetsFlag
  <2>1. TypeOK' /\ InOrder' /\ NoneIsForgotten'
    BY <1>1, Zenon DEF DestroySetsFlag, TypeOK, InOrder, NoneIsForgotten, history
  <2>2. ExitedMeansDrained'
    BY <1>1, Zenon DEF DestroySetsFlag, ExitedMeansDrained, history
  <2>3. CallersAreAlive'
    BY <1>1, Zenon DEF DestroySetsFlag, CallersAreAlive, history
  <2> QED
    BY <2>1, <2>2, <2>3, Zenon
<1>2. CASE DestroyNotifiesAll
  <2>1. wpc' \in [Workers -> {"ready", "asleep", "running", "exited"}]
    BY <1>2, Zenon DEF DestroyNotifiesAll, TypeOK
  <2> QED
    BY <1>2, <2>1, WakeDrained, Zenon DEF DestroyNotifiesAll, history
<1>3. CASE DestroyJoins
  <2>1. TypeOK' /\ InOrder' /\ NoneIsForgotten'
    BY <1>3, Zenon DEF DestroyJoins, TypeOK, InOrder, NoneIsForgotten, history
  <2>2. \A w \in Workers : wpc[w] = "exited"
    BY <1>3, Zenon DEF DestroyJoins, At
  <2>3. ExitedMeansDrained' /\ CallersAreAlive'
    BY <1>3, <2>2, Zenon DEF DestroyJoins, ExitedMeansDrained, CallersAreAlive, history
  <2> QED
    BY <2>1, <2>3, Zenon
<1> QED
  BY <1>1, <1>2, <1>3, Zenon DEF DestroyStep

LEMMA NextDrained == Drained /\ [Next]_vars => Drained'
<1> SUFFICES ASSUME Drained, [Next]_vars PROVE Drained'
  OBVIOUS
<1>1. ASSUME NEW c \in Submitters \cup Workers, SubmitThrows(c) PROVE Drained'
  BY <1>1, Zenon
     DEF SubmitThrows, Drained, TypeOK, InOrder, NoneIsForgotten, ExitedMeansDrained,
              CallersAreAlive
<1>2. ASSUME NEW c \in Submitters \cup Workers, SubmitNotify(c) PROVE Drained'
  <2>1. wpc' \in [Workers -> {"ready", "asleep", "running", "exited"}]
    BY <1>2, Zenon DEF SubmitNotify, NotifyOne, Drained, TypeOK
  <2>2. \A w \in Workers : \/ wpc'[w] = wpc[w]
                           \/ wpc[w] \in {"ready", "asleep"} /\ wpc'[w] \in {"ready", "asleep"}
    BY <1>2, Zenon DEF SubmitNotify, NotifyOne, At, Drained, TypeOK
  <2> QED
    BY <1>2, <2>1, <2>2, WakeDrained, Zenon DEF SubmitNotify, history
<1>3. ASSUME NEW w \in Workers, WorkerSleeps(w) \/ SpuriousWakeup(w) PROVE Drained'
  <2>1. wpc' \in [Workers -> {"ready", "asleep", "running", "exited"}]
    BY <1>3, Zenon DEF WorkerSleeps, SpuriousWakeup, Drained, TypeOK
  <2>2. \A v \in Workers : \/ wpc'[v] = wpc[v]
                           \/ wpc[v] \in {"ready", "asleep"} /\ wpc'[v] \in {"ready", "asleep"}
    BY <1>3, Zenon DEF WorkerSleeps, SpuriousWakeup, Drained, TypeOK
  <2> QED
    BY <1>3, <2>1, <2>2, WakeDrained, Zenon DEF WorkerSleeps, SpuriousWakeup, history
<1>4. ASSUME UNCHANGED vars PROVE Drained'
  BY <1>4, Zenon
     DEF vars, Drained, TypeOK, InOrder, NoneIsForgotten, ExitedMeansDrained,
         CallersAreAlive
<1> QED
  BY <1>1, <1>2, <1>3, <1>4, PushDrained, TakesDrained, FinishesDrained, ExitsDrained,
     DestroyDrained, Zenon DEF Next, WorkerStep, Gone

-----------------------------------------------------------------------------
(* What the two counts are made of. *)
LEMMA Counts ==
  ASSUME TypeOK
  PROVE  /\ IsFiniteSet(At("ready")) /\ Cardinality(At("ready")) \in Nat
         /\ IsFiniteSet(notifying) /\ Cardinality(notifying) \in Nat
         /\ Len(tasks) \in Nat
<1>1. IsFiniteSet(At("ready"))
  BY PoolAssumption, FS_Subset, Zenon DEF At
<1> QED
  BY <1>1, FS_CardinalityType DEF TypeOK

(* A worker becomes ready: one more is. *)
LEMMA OneMoreReady ==
  ASSUME TypeOK, NEW w \in Workers, wpc[w] # "ready",
         wpc' = [wpc EXCEPT ![w] = "ready"]
  PROVE  Cardinality(At("ready"))' = Cardinality(At("ready")) + 1
<1>1. At("ready")' = At("ready") \cup {w}
  BY Zenon DEF At, TypeOK
<1>2. w \notin At("ready")
  BY Zenon DEF At
<1> QED
  BY <1>1, <1>2, Counts, FS_AddElement, Zenon

LEMMA BacklogStep ==
  ASSUME Drained, NoIdleBehindBacklog, [Next]_vars
  PROVE  NoIdleBehindBacklog'
<1> USE DEF Drained
<1>a. TypeOK'
  BY NextDrained, Zenon
<1>b. /\ Cardinality(At("ready")) \in Nat /\ Cardinality(notifying) \in Nat
      /\ Len(tasks) \in Nat
  BY Counts, Zenon
<1>c. /\ Cardinality(At("ready"))' \in Nat /\ Cardinality(notifying)' \in Nat
      /\ Len(tasks)' \in Nat
  <2>1. IsFiniteSet(At("ready")')
    BY PoolAssumption, FS_Subset, Zenon DEF At
  <2> QED
    BY <1>a, <2>1, FS_CardinalityType DEF TypeOK
<1>1. ASSUME NEW c \in Submitters \cup Workers, SubmitPush(c) PROVE NoIdleBehindBacklog'
  <2>1. Len(tasks') = Len(tasks) + 1
    BY <1>1 DEF SubmitPush, Pushed, TypeOK
  <2>2. Cardinality(notifying') = Cardinality(notifying) + 1
    BY <1>1, Counts, FS_AddElement, Zenon DEF SubmitPush
  <2>3. At("ready")' = At("ready") /\ At("asleep")' = At("asleep")
    BY <1>1, Zenon DEF SubmitPush, At
  <2> QED
    BY <1>b, <2>1, <2>2, <2>3 DEF NoIdleBehindBacklog
<1>2. ASSUME NEW c \in Submitters \cup Workers, SubmitNotify(c) PROVE NoIdleBehindBacklog'
  <2>1. Cardinality(notifying') = Cardinality(notifying) - 1
    BY <1>2, Counts, FS_RemoveElement, Zenon DEF SubmitNotify
  <2>2. CASE At("asleep") = {} /\ UNCHANGED wpc
    BY <2>2, Zenon DEF NoIdleBehindBacklog, At
  <2>3. ASSUME NEW w \in At("asleep"), wpc' = [wpc EXCEPT ![w] = "ready"]
        PROVE  NoIdleBehindBacklog'
    <3>1. Cardinality(At("ready"))' = Cardinality(At("ready")) + 1
      BY <2>3, OneMoreReady, Zenon DEF At
    <3>2. tasks' = tasks
      BY <1>2, Zenon DEF SubmitNotify
    <3> QED
      BY <1>b, <2>1, <2>3, <3>1, <3>2 DEF NoIdleBehindBacklog
  <2> QED
    BY <1>2, <2>2, <2>3, Zenon DEF SubmitNotify, NotifyOne
<1>3. ASSUME NEW w \in Workers, WorkerSleeps(w) \/ WorkerExits(w) PROVE NoIdleBehindBacklog'
  <2>1. tasks' = <<>>
    BY <1>3, Zenon DEF WorkerSleeps, WorkerExits
  <2>2. Len(tasks)' = 0
    BY <2>1, Zenon
  <2> QED
    BY <1>c, <2>2 DEF NoIdleBehindBacklog
<1>4. ASSUME NEW w \in Workers, WorkerTakes(w) PROVE NoIdleBehindBacklog'
  <2>1. At("ready")' = At("ready") \ {w} /\ At("asleep")' = At("asleep") /\ w \in At("ready")
    BY <1>4, Zenon DEF WorkerTakes, At, TypeOK
  <2>2. Cardinality(At("ready"))' = Cardinality(At("ready")) - 1
    BY <2>1, Counts, FS_RemoveElement, Zenon
  <2>3. Len(tasks') = Len(tasks) - 1 /\ notifying' = notifying
    BY <1>4 DEF WorkerTakes, TypeOK
  <2> QED
    BY <1>b, <2>1, <2>2, <2>3 DEF NoIdleBehindBacklog
<1>5. ASSUME NEW w \in Workers, WorkerFinishes(w) \/ SpuriousWakeup(w)
      PROVE  NoIdleBehindBacklog'
  <2>1. /\ wpc[w] # "ready" /\ wpc' = [wpc EXCEPT ![w] = "ready"]
        /\ tasks' = tasks /\ notifying' = notifying
    BY <1>5, Zenon DEF WorkerFinishes, SpuriousWakeup
  <2>2. Cardinality(At("ready"))' = Cardinality(At("ready")) + 1
    BY <2>1, OneMoreReady, Zenon
  <2>3. At("asleep")' \subseteq At("asleep")
    BY <2>1, Zenon DEF At, TypeOK
  <2> QED
    BY <1>b, <2>1, <2>2, <2>3 DEF NoIdleBehindBacklog
<1>6. CASE DestroyNotifiesAll
  <2>1. At("asleep")' = {}
    BY <1>6, Zenon DEF DestroyNotifiesAll, At
  <2> QED
    BY <2>1, Zenon DEF NoIdleBehindBacklog
<1>7. ASSUME UNCHANGED <<tasks, wpc, notifying>> PROVE NoIdleBehindBacklog'
  BY <1>7, Zenon DEF NoIdleBehindBacklog, At
<1>8. ASSUME NEW c \in Submitters \cup Workers, SubmitThrows(c) PROVE NoIdleBehindBacklog'
  BY <1>7, <1>8, Zenon DEF SubmitThrows
<1>9. CASE DestroySetsFlag \/ DestroyJoins \/ Gone \/ UNCHANGED vars
  BY <1>7, <1>9, Zenon DEF DestroySetsFlag, DestroyJoins, Gone, vars
<1> QED
  BY <1>1, <1>2, <1>3, <1>4, <1>5, <1>6, <1>8, <1>9, Zenon DEF Next, WorkerStep, DestroyStep

-----------------------------------------------------------------------------
(* What the theorems below rest on: the bookkeeping of thread_pool.cpp is   *)
(* an invariant of every pool.                                              *)
THEOREM ThreadPoolInvariant == Spec => [](Drained /\ NoIdleBehindBacklog)
<1>1. Drained /\ NoIdleBehindBacklog /\ [Next]_vars => (Drained /\ NoIdleBehindBacklog)'
  BY NextDrained, BacklogStep, Zenon
<1> QED
  BY InitDrained, <1>1, PTL DEF Spec

(* submit() pushes at the back of tasks_ and workerLoop takes from its      *)
(* front: tasks start in the order of submission, each exactly once,        *)
(* whatever the number of workers.                                          *)
THEOREM ThreadPoolInOrder == Spec => []StartedInOrder
<1>1. Drained => StartedInOrder
  <2> SUFFICES ASSUME Drained PROVE StartedInOrder
    OBVIOUS
  <2> DEFINE both == started \o tasks
             all  == [i \in 1..accepted |-> i]
  <2>1. /\ started \in Seq(Nat) /\ tasks \in Seq(Nat)
        /\ Len(started) \in Nat /\ Len(tasks) \in Nat /\ accepted = Len(started) + Len(tasks)
    BY DEF Drained, TypeOK, InOrder
  <2>2. both \in Seq(Nat) /\ Len(both) = accepted
    BY <2>1
  <2>3. both = [i \in 1..accepted |-> both[i]]
    <3> HIDE DEF both
    <3>1. both = [i \in 1..Len(both) |-> both[i]]
      BY <2>2
    <3> QED
      BY <2>2, <3>1, Zenon
  <2>4. ASSUME NEW i \in 1..accepted PROVE both[i] = i
    <3>1. CASE i <= Len(started)
      <4>1. i \in 1..Len(started) /\ both[i] = started[i]
        BY <2>1, <3>1
      <4> QED
        BY <4>1, Zenon DEF Drained, InOrder
    <3>2. CASE i > Len(started)
      <4>1. i - Len(started) \in 1..Len(tasks) /\ both[i] = tasks[i - Len(started)]
        BY <2>1, <3>2
      <4> QED
        BY <2>1, <4>1 DEF Drained, InOrder
    <3> QED
      BY <2>1, <3>1, <3>2
  <2>5. both = all
    <3> HIDE DEF both
    <3> QED
      BY <2>3, <2>4, Zenon
  <2> QED
    BY <2>5, Zenon DEF StartedInOrder
<1> QED
  BY ThreadPoolInvariant, <1>1, PTL

(* The one notify_one of submit(), made after mutex_ is released, is enough *)
(* for any number of workers and callers: no wake-up is lost.               *)
THEOREM ThreadPoolNoLostWakeup == Spec => []NoIdleBehindBacklog
BY ThreadPoolInvariant, PTL

(* ~ThreadPool returns only when every accepted task has finished, those    *)
(* submitted by running tasks included.                                     *)
THEOREM ThreadPoolGraceful == Spec => []GracefulDestruction
<1>1. Drained => GracefulDestruction
  <2> SUFFICES ASSUME Drained, dpc = "gone" PROVE finished = 1..accepted /\ tasks = <<>> /\ notifying = {}
    BY Zenon DEF GracefulDestruction
  <2>1. \A w \in Workers : wpc[w] = "exited"
    BY Zenon DEF Drained, ExitedMeansDrained
  <2>2. tasks = <<>>
    BY <2>1, PoolAssumption, Zenon DEF Drained, ExitedMeansDrained
  <2>3. notifying = {}
    BY <2>1, Zenon DEF Drained, CallersAreAlive
  <2>4. accepted = Len(started)
    BY <2>2 DEF Drained, InOrder, TypeOK
  <2>5. finished = 1..Len(started)
    BY <2>1, Zenon DEF Drained, NoneIsForgotten
  <2> QED
    BY <2>2, <2>3, <2>4, <2>5, Zenon
<1> QED
  BY ThreadPoolInvariant, <1>1, PTL

-----------------------------------------------------------------------------
(***************************************************************************)
(* The object pool, for any number of pools, arenas and blocks.            *)
(*                                                                         *)
(* What allocate() hands out is right only if the whole free list is, so   *)
(* the induction carries the order of every pool's blocks: first the free  *)
(* ones along the links, then the live ones.  Because that order holds     *)
(* every block of the arena, a live block stands behind the free ones, so  *)
(* there is room to free it.  Two pools never share an arena, which keeps  *)
(* a step of one pool away from the links of another.                      *)
(***************************************************************************)

PoolTypeOK ==
    /\ arena \in [Pools -> Arenas \cup {Null}]
    /\ freeHead \in [Pools -> Block \cup {Null}]
    /\ capacity \in [Pools -> Nat]
    /\ inUse \in [Pools -> Nat]
    /\ \A p \in Pools : inUse[p] <= capacity[p]
    /\ link \in [Block -> Block \cup {Null}]
    /\ live \in SUBSET Block
    /\ stack \in [Pools -> [Nat -> Block \cup {Null}]]

Separate ==
    \A p \in Pools : /\ arena[p] = Null => capacity[p] = 0
                     /\ \A q \in Pools : p # q /\ arena[p] = arena[q] => arena[p] = Null

LiveIsOwned == \A b \in live : \E p \in Pools : owns(p, b)

PoolInv == PoolTypeOK /\ Separate /\ LiveIsOwned /\ FreeListIsExact

-----------------------------------------------------------------------------
(* A pointer to a block is not null. *)
LEMMA BlockIsNotNull == \A b \in Block : b # Null
<1> SUFFICES ASSUME NEW a \in Arenas, NEW n \in Nat PROVE <<a, n>> # Null
  BY DEF Block
<1>1. Len(<<a, n>>) = 2
  OBVIOUS
<1>2. Len(Null) = 0
  BY Zenon DEF Null
<1> QED
  BY <1>1, <1>2

(* A block is its arena and its index. *)
LEMMA BlockParts ==
  /\ \A b \in Block : b[1] \in Arenas /\ b[2] \in Nat /\ b = <<b[1], b[2]>>
  /\ \A a \in Arenas, n \in Nat : <<a, n>> \in Block /\ <<a, n>>[1] = a /\ <<a, n>>[2] = n
BY DEF Block

(* A block belongs to one pool: no two pools share an arena. *)
LEMMA OneOwner ==
  ASSUME PoolTypeOK, Separate, NEW p \in Pools, NEW q \in Pools, NEW b \in Block,
         owns(p, b), owns(q, b)
  PROVE  p = q
<1> SUFFICES ASSUME p # q PROVE FALSE
  OBVIOUS
<1>1. arena[p] = arena[q] /\ b[2] \in Nat /\ b[2] < capacity[p]
  BY BlockParts, Zenon DEF owns
<1>2. capacity[p] = 0
  BY <1>1, Zenon DEF Separate
<1> QED
  BY <1>1, <1>2

(* A pool r that a step leaves with the members of pool q has an exact free *)
(* list if q had one and the step does not touch the blocks of q.           *)
LEMMA Frame ==
  ASSUME PoolTypeOK, PoolTypeOK', NEW q \in Pools, NEW r \in Pools, IsExact(q),
         arena'[r] = arena[q], freeHead'[r] = freeHead[q], capacity'[r] = capacity[q],
         inUse'[r] = inUse[q], stack'[r] = stack[q],
         \A b \in Block : owns(q, b) => link'[b] = link[b] /\ (b \in live' <=> b \in live)
  PROVE  IsExact(r)'
<1>1. available(r)' = available(q) /\ available(q) \in 0..capacity[q]
  BY DEF available, PoolTypeOK
<1>2. \A b \in Block : owns(r, b)' <=> owns(q, b)
  BY Zenon DEF owns
<1>3. (freeHead[r] = IF available(r) = 0 THEN Null ELSE stack[r][available(r)])'
  BY <1>1, Zenon DEF IsExact
<1>4. (\A i \in 1..available(r) : link[stack[r][i]] = IF i = 1 THEN Null ELSE stack[r][i - 1])'
  BY <1>1 DEF IsExact, PoolTypeOK
<1>5. (\A i, j \in 1..capacity[r] : stack[r][i] = stack[r][j] => i = j)'
  BY Zenon DEF IsExact
<1>6. (\A i \in 1..capacity[r] : /\ stack[r][i] \in Block
                                 /\ owns(r, stack[r][i])
                                 /\ stack[r][i] \in live <=> i > available(r))'
  BY <1>1, <1>2 DEF IsExact
<1>7. (\A b \in Block : owns(r, b) => \E i \in 1..capacity[r] : stack[r][i] = b)'
  BY <1>2 DEF IsExact
<1> QED
  BY <1>3, <1>4, <1>5, <1>6, <1>7, Zenon DEF IsExact

(* A pool that a step leaves without an arena has an empty free list. *)
LEMMA Empty ==
  ASSUME NEW p \in Pools, capacity'[p] = 0, inUse'[p] = 0, freeHead'[p] = Null
  PROVE  IsExact(p)'
<1>1. available(p)' = 0
  BY DEF available
<1>2. \A b \in Block : ~ owns(p, b)'
  BY BlockParts DEF owns
<1> QED
  BY <1>1, <1>2 DEF IsExact

(* A pool that counts no object in use owns no live block. *)
LEMMA NoneLive ==
  ASSUME PoolTypeOK, NEW p \in Pools, IsExact(p), inUse[p] = 0, NEW b \in live
  PROVE  ~ owns(p, b)
<1> SUFFICES ASSUME owns(p, b) PROVE FALSE
  OBVIOUS
<1>1. PICK i \in 1..capacity[p] : stack[p][i] = b
  BY Zenon DEF IsExact, PoolTypeOK
<1>2. i > available(p)
  BY <1>1, Zenon DEF IsExact
<1> QED
  BY <1>1, <1>2 DEF available, PoolTypeOK

-----------------------------------------------------------------------------
LEMMA InitStep == PoolInit => PoolInv
<1> SUFFICES ASSUME PoolInit PROVE PoolInv
  OBVIOUS
<1>1. PoolTypeOK /\ Separate /\ LiveIsOwned
  BY DEF PoolInit, PoolTypeOK, Separate, LiveIsOwned
<1>2. ASSUME NEW p \in Pools PROVE IsExact(p)
  <2>1. available(p) = 0 /\ capacity[p] = 0 /\ freeHead[p] = Null
    BY DEF PoolInit, available
  <2>2. \A b \in Block : ~ owns(p, b)
    BY <2>1, BlockParts DEF owns
  <2> QED
    BY <2>1, <2>2 DEF IsExact
<1> QED
  BY <1>1, <1>2, Zenon DEF PoolInv, FreeListIsExact

(* The constructor: the blocks from the last to the first are the order. *)
LEMMA ConstructStep ==
  ASSUME PoolInv, NEW p \in Pools, NEW a \in Arenas, NEW n \in Nat \ {0}, Construct(p, a, n)
  PROVE  PoolInv'
<1> USE DEF PoolInv
<1>1. capacity[p] = 0 /\ inUse[p] = 0 /\ a # Null
  BY DEF Construct, Separate, PoolTypeOK
<1>2. PoolTypeOK'
  <2>1. <<a, 0>> \in Block /\ \A i \in 1..n : <<a, n - i>> \in Block
    BY BlockParts
  <2>2. link' \in [Block -> Block \cup {Null}]
    <3>1. \A b \in Block : <<a, b[2] + 1>> \in Block
      BY BlockParts
    <3> QED
      BY <3>1, Zenon DEF PoolTypeOK, Construct
  <2>3. stack' \in [Pools -> [Nat -> Block \cup {Null}]]
    BY <2>1, Zenon DEF PoolTypeOK, Construct
  <2>4. \A q \in Pools : inUse'[q] <= capacity'[q]
    BY <1>1 DEF PoolTypeOK, Construct
  <2> QED
    BY <2>1, <2>2, <2>3, <2>4, Zenon DEF PoolTypeOK, Construct
<1>3. Separate'
  BY <1>1, Zenon DEF Separate, Construct, PoolTypeOK
<1>4. \A b \in Block, q \in Pools : owns(q, b) => b[1] # a /\ owns(q, b)'
  <2> SUFFICES ASSUME NEW b \in Block, NEW q \in Pools, owns(q, b)
               PROVE  b[1] # a /\ owns(q, b)'
    OBVIOUS
  <2>1. q # p
    BY <1>1, BlockParts DEF owns
  <2> QED
    BY <2>1, Zenon DEF owns, Construct, PoolTypeOK
<1>5. LiveIsOwned'
  BY <1>4, Zenon DEF LiveIsOwned, Construct, PoolTypeOK
<1>6. IsExact(p)'
  <2>1. available(p)' = n /\ capacity'[p] = n /\ freeHead'[p] = <<a, 0>> /\ arena'[p] = a
    BY <1>1 DEF available, Construct, PoolTypeOK
  <2>2. \A i \in 1..n : /\ stack'[p][i] = <<a, n - i>>
                        /\ stack'[p][i] \in Block
                        /\ stack'[p][i][1] = a
                        /\ stack'[p][i][2] = n - i
    <3> TAKE i \in 1..n
    <3>1. stack'[p][i] = <<a, n - i>> /\ n - i \in Nat
      BY DEF Construct, PoolTypeOK
    <3>2. <<a, n - i>> \in Block /\ <<a, n - i>>[1] = a /\ <<a, n - i>>[2] = n - i
      BY <3>1, BlockParts, Zenon
    <3> QED
      BY <3>1, <3>2, Zenon
  <2>3. \A i \in 1..n : link'[stack'[p][i]] = IF i = 1 THEN Null ELSE stack'[p][i - 1]
    <3> SUFFICES ASSUME NEW i \in 1..n
                 PROVE  link'[stack'[p][i]] = IF i = 1 THEN Null ELSE stack'[p][i - 1]
      OBVIOUS
    <3>1. link'[stack'[p][i]] = IF n - i = n - 1 THEN Null ELSE <<a, n - i + 1>>
      <4>1. ASSUME NEW b \in Block, b[1] = a, b[2] = n - i
            PROVE  link'[b] = IF n - i = n - 1 THEN Null ELSE <<a, n - i + 1>>
        BY <4>1 DEF Construct
      <4> QED
        BY <4>1, <2>2, Zenon
    <3>2. CASE i = 1
      BY <3>1, <3>2, Zenon
    <3>3. CASE i # 1
      <4>1. i - 1 \in 1..n /\ n - (i - 1) = n - i + 1 /\ n - i # n - 1
        BY <3>3
      <4> QED
        BY <3>1, <3>3, <4>1, <2>2, Zenon
    <3> QED
      BY <3>2, <3>3, Zenon
  <2>4. \A i, j \in 1..n : stack'[p][i] = stack'[p][j] => i = j
    <3> SUFFICES ASSUME NEW i \in 1..n, NEW j \in 1..n, stack'[p][i] = stack'[p][j]
                 PROVE  i = j
      OBVIOUS
    <3>1. n - i = n - j
      BY <2>2, Zenon
    <3> QED
      BY <3>1
  <2>5. \A i \in 1..n : owns(p, stack[p][i])' /\ stack'[p][i] \notin live'
    <3> SUFFICES ASSUME NEW i \in 1..n
                 PROVE  owns(p, stack[p][i])' /\ stack'[p][i] \notin live'
      OBVIOUS
    <3>1. owns(p, stack[p][i])'
      BY <2>1, <2>2 DEF owns
    <3>2. stack'[p][i] \notin live
      BY <2>2, <1>4, Zenon DEF LiveIsOwned, PoolTypeOK
    <3> QED
      BY <3>1, <3>2, Zenon DEF Construct
  <2>6. \A b \in Block : owns(p, b)' => \E i \in 1..n : stack'[p][i] = b
    <3> SUFFICES ASSUME NEW b \in Block, owns(p, b)'
                 PROVE  \E i \in 1..n : stack'[p][i] = b
      OBVIOUS
    <3>1. b = <<a, b[2]>> /\ b[2] \in Nat /\ b[2] < n
      BY <2>1, BlockParts, Zenon DEF owns
    <3>2. n - b[2] \in 1..n /\ n - (n - b[2]) = b[2]
      BY <3>1
    <3> QED
      BY <3>1, <3>2, <2>2
  <2>7. (freeHead[p] = IF available(p) = 0 THEN Null ELSE stack[p][available(p)])'
    BY <2>1, <2>2
  <2>8. \A i \in 1..n : stack'[p][i] \in Block
    BY <2>2, Zenon
  <2> QED
    BY <2>1, <2>3, <2>4, <2>5, <2>6, <2>7, <2>8 DEF IsExact
<1>7. ASSUME NEW q \in Pools, q # p PROVE IsExact(q)'
  <2>1. /\ arena'[q] = arena[q] /\ freeHead'[q] = freeHead[q] /\ capacity'[q] = capacity[q]
        /\ inUse'[q] = inUse[q] /\ stack'[q] = stack[q]
    BY <1>7, Zenon DEF Construct, PoolTypeOK
  <2>2. \A b \in Block : owns(q, b) => link'[b] = link[b] /\ (b \in live' <=> b \in live)
    BY <1>4, Zenon DEF Construct
  <2> QED
    BY <1>2, <2>1, <2>2, Frame, Zenon DEF FreeListIsExact
<1> QED
  BY <1>2, <1>3, <1>5, <1>6, <1>7, Zenon DEF FreeListIsExact

(* allocate(): the last of the free blocks becomes the first of the live.   *)
LEMMA AllocateStep ==
  ASSUME PoolInv, NEW p \in Pools, NEW word \in Block \cup {Null}, Allocate(p, word)
  PROVE  PoolInv'
<1> DEFINE k == available(p)
           h == freeHead[p]
<1> USE DEF PoolInv
<1>1. IsExact(p)
  BY Zenon DEF FreeListIsExact
<1>2. /\ capacity[p] \in Nat /\ k \in 1..capacity[p] /\ h = stack[p][k]
      /\ inUse[p] + 1 \in 0..capacity[p]
  BY <1>1 DEF IsExact, Allocate, available, PoolTypeOK
<1>3. h \in Block /\ owns(p, h) /\ h \notin live
  BY <1>1, <1>2 DEF IsExact
<1>4. link[h] = IF k = 1 THEN Null ELSE stack[p][k - 1]
  BY <1>1, <1>2 DEF IsExact
<1>5. PoolTypeOK'
  <2>1. \A q \in Pools : inUse'[q] \in Nat /\ inUse'[q] <= capacity'[q]
    BY <1>2 DEF PoolTypeOK, Allocate
  <2>2. link[h] \in Block \cup {Null}
    BY <1>3, Zenon DEF PoolTypeOK
  <2> QED
    BY <1>3, <2>1, <2>2, Zenon DEF PoolTypeOK, Allocate
<1>6. \A q \in Pools, b \in Block : owns(q, b)' <=> owns(q, b)
  BY Zenon DEF owns, Allocate
<1>7. Separate' /\ LiveIsOwned'
  BY <1>3, <1>6 DEF Separate, LiveIsOwned, Allocate, PoolTypeOK
<1>8. IsExact(p)'
  <2>1. available(p)' = k - 1 /\ capacity'[p] = capacity[p] /\ stack' = stack
    BY DEF available, Allocate, PoolTypeOK
  <2>2. (freeHead[p] = IF available(p) = 0 THEN Null ELSE stack[p][available(p)])'
    BY <1>2, <1>4, <2>1 DEF Allocate, PoolTypeOK
  <2>3. \A i \in 1..(k - 1) : link'[stack[p][i]] = IF i = 1 THEN Null ELSE stack[p][i - 1]
    <3> TAKE i \in 1..(k - 1)
    <3>1. i \in 1..capacity[p] /\ i \in 1..k /\ i # k
      BY <1>2
    <3>2. stack[p][i] # h /\ stack[p][i] \in Block
      BY <1>1, <1>2, <3>1, Zenon DEF IsExact
    <3> QED
      BY <1>1, <3>1, <3>2 DEF IsExact, Allocate, PoolTypeOK
  <2>4. \A i \in 1..capacity[p] : /\ stack[p][i] \in Block
                                  /\ owns(p, stack[p][i])'
                                  /\ stack[p][i] \in live' <=> i > k - 1
    <3> TAKE i \in 1..capacity[p]
    <3>1. stack[p][i] = h <=> i = k
      BY <1>1, <1>2, Zenon DEF IsExact
    <3>2. stack[p][i] \in live' <=> i = k \/ i > k
      BY <1>1, <3>1, Zenon DEF IsExact, Allocate
    <3>3. stack[p][i] \in live' <=> i > k - 1
      BY <1>2, <3>2
    <3> QED
      BY <1>1, <1>6, <2>1, <3>3, Zenon DEF IsExact
  <2>5. \A b \in Block : owns(p, b)' => \E i \in 1..capacity[p] : stack[p][i] = b
    BY <1>1, <1>6, Zenon DEF IsExact
  <2>6. \A i, j \in 1..capacity[p] : stack[p][i] = stack[p][j] => i = j
    BY <1>1, Zenon DEF IsExact
  <2> HIDE DEF k
  <2> QED
    BY <2>1, <2>2, <2>3, <2>4, <2>5, <2>6 DEF IsExact
<1>9. ASSUME NEW q \in Pools, q # p PROVE IsExact(q)'
  <2>1. /\ arena'[q] = arena[q] /\ freeHead'[q] = freeHead[q] /\ capacity'[q] = capacity[q]
        /\ inUse'[q] = inUse[q] /\ stack'[q] = stack[q]
    BY <1>9, Zenon DEF Allocate, PoolTypeOK
  <2>2. \A b \in Block : owns(q, b) => b # h
    BY <1>3, <1>9, OneOwner, Zenon
  <2>3. \A b \in Block : owns(q, b) => link'[b] = link[b] /\ (b \in live' <=> b \in live)
    BY <2>2, Zenon DEF Allocate, PoolTypeOK
  <2> QED
    BY <1>5, <2>1, <2>3, Frame, Zenon DEF FreeListIsExact
<1> QED
  BY <1>5, <1>7, <1>8, <1>9, Zenon DEF FreeListIsExact

(* deallocate(): the block changes places with the first of the live ones,  *)
(* which then is the last of the free ones.                                 *)
LEMMA DeallocateStep ==
  ASSUME PoolInv, NEW p \in Pools, NEW b \in Block, Deallocate(p, b)
  PROVE  PoolInv'
<1> DEFINE k == available(p)
           n == capacity[p]
<1> USE DEF PoolInv
<1>1. IsExact(p)
  BY Zenon DEF FreeListIsExact
<1>2. n \in Nat /\ inUse[p] \in Nat /\ k = n - inUse[p] /\ k \in 0..n
  BY DEF available, PoolTypeOK
<1>3. PICK m \in 1..n : stack[p][m] = b
  BY <1>1, Zenon DEF IsExact, Deallocate
<1>4. m > k /\ k + 1 \in 1..n /\ inUse[p] - 1 \in Nat
  <2>1. m > k
    BY <1>1, <1>3, Zenon DEF IsExact, Deallocate
  <2> HIDE DEF k, n
  <2> QED
    BY <1>2, <1>3, <2>1
<1>5. \A i \in 1..n : stack'[p][i] = IF i = k + 1 THEN b
                                   ELSE IF i = m THEN stack[p][k + 1] ELSE stack[p][i]
  <2> TAKE i \in 1..n
  <2>1. stack[p][i] = b <=> i = m
    BY <1>1, <1>3, Zenon DEF IsExact
  <2>2. stack'[p] = Swapped(stack[p], k + 1, b)
    BY Zenon DEF Deallocate, PoolTypeOK
  <2>3. i \in Nat
    BY <1>2
  <2> HIDE DEF k, n
  <2> QED
    BY <2>1, <2>2, <2>3, Zenon DEF Swapped
<1>6. PoolTypeOK'
  <2>1. \A q \in Pools : inUse'[q] \in Nat /\ inUse'[q] <= capacity'[q]
    BY <1>4 DEF PoolTypeOK, Deallocate
  <2>2. stack' \in [Pools -> [Nat -> Block \cup {Null}]]
    <3>1. k + 1 \in Nat
      BY <1>4
    <3>2. Swapped(stack[p], k + 1, b) \in [Nat -> Block \cup {Null}]
      <4> HIDE DEF k
      <4> QED
        BY <3>1 DEF Swapped, PoolTypeOK
    <3> QED
      BY <3>2, Zenon DEF PoolTypeOK, Deallocate
  <2> QED
    BY <2>1, <2>2, Zenon DEF PoolTypeOK, Deallocate
<1>7. \A q \in Pools, c \in Block : (owns(q, c)' <=> owns(q, c))
  BY Zenon DEF owns, Deallocate
<1>8. Separate' /\ LiveIsOwned'
  BY <1>7, Zenon DEF Separate, LiveIsOwned, Deallocate, PoolTypeOK
<1>9. IsExact(p)'
  <2>1. available(p)' = k + 1 /\ capacity'[p] = n /\ freeHead'[p] = b
    BY <1>2 DEF available, Deallocate, PoolTypeOK
  <2>2. /\ \A i \in 1..n : stack[p][i] \in Block /\ (stack[p][i] \in live <=> i > k)
        /\ \A i \in 1..n : owns(p, stack[p][i])
        /\ \A i, j \in 1..n : stack[p][i] = stack[p][j] => i = j
        /\ \A i \in 1..k : link[stack[p][i]] = IF i = 1 THEN Null ELSE stack[p][i - 1]
        /\ \A c \in Block : owns(p, c) => \E i \in 1..n : stack[p][i] = c
        /\ freeHead[p] = IF k = 0 THEN Null ELSE stack[p][k]
    BY <1>1, Zenon DEF IsExact
  <2>3. live' = live \ {b} /\ link' = [link EXCEPT ![b] = freeHead[p]]
    BY Zenon DEF Deallocate
  <2>4. link \in [Block -> Block \cup {Null}]
    BY Zenon DEF PoolTypeOK
  <2> HIDE DEF k, n
  <2>5. freeHead'[p] = IF k + 1 = 0 THEN Null ELSE stack'[p][k + 1]
    BY <1>2, <1>4, <1>5, <2>1
  <2>6. \A i \in 1..(k + 1) : link'[stack'[p][i]] = IF i = 1 THEN Null ELSE stack'[p][i - 1]
    <3> TAKE i \in 1..(k + 1)
    <3>1. CASE i = k + 1
      <4>1. stack'[p][i] = b /\ link'[b] = freeHead[p]
        BY <1>4, <1>5, <2>3, <2>4, <3>1, Zenon
      <4>2. CASE k = 0
        BY <2>2, <3>1, <4>1, <4>2
      <4>3. CASE k # 0
        <5>1. k \in 1..n /\ k # k + 1 /\ k # m /\ i - 1 = k /\ i # 1
          BY <1>2, <1>4, <3>1, <4>3
        <5>2. stack'[p][k] = stack[p][k]
          BY <1>5, <5>1, Zenon
        <5> QED
          BY <2>2, <4>1, <4>3, <5>1, <5>2, Zenon
      <4> QED
        BY <4>2, <4>3, Zenon
    <3>2. CASE i # k + 1
      <4>1. i \in 1..k /\ i \in 1..n /\ i # m
        BY <1>2, <1>4, <3>2
      <4>2. stack'[p][i] = stack[p][i] /\ stack[p][i] # b
        BY <1>3, <1>5, <2>2, <3>2, <4>1, Zenon
      <4>3. link'[stack[p][i]] = link[stack[p][i]]
        BY <2>2, <2>3, <2>4, <4>1, <4>2, Zenon
      <4>4. i # 1 => stack'[p][i - 1] = stack[p][i - 1]
        <5> SUFFICES ASSUME i # 1 PROVE stack'[p][i - 1] = stack[p][i - 1]
          OBVIOUS
        <5>1. i - 1 \in 1..n /\ i - 1 # k + 1 /\ i - 1 # m
          BY <1>2, <1>4, <4>1
        <5> QED
          BY <1>5, <5>1, Zenon
      <4> QED
        BY <2>2, <4>1, <4>2, <4>3, <4>4, Zenon
    <3> QED
      BY <3>1, <3>2, Zenon
  <2>7. \A i, j \in 1..n : stack'[p][i] = stack'[p][j] => i = j
    BY <1>3, <1>4, <1>5, <2>2
  <2>8. \A i \in 1..n : stack'[p][i] \in Block /\ owns(p, stack[p][i])'
    <3> TAKE i \in 1..n
    <3>1. stack'[p][i] \in Block /\ owns(p, stack'[p][i])
      BY <1>3, <1>4, <1>5, <2>2, Zenon
    <3> QED
      BY <3>1, Zenon DEF owns, Deallocate
  <2>9. \A i \in 1..n : stack'[p][i] \in live' <=> i > k + 1
    <3> TAKE i \in 1..n
    <3>1. i > k + 1 <=> i > k /\ i # k + 1
      BY <1>2
    <3>2. CASE i = k + 1
      BY <1>5, <2>3, <3>1, <3>2, Zenon
    <3>3. CASE i # k + 1 /\ i = m
      <4>1. stack'[p][i] = stack[p][k + 1] /\ stack[p][k + 1] # b /\ k + 1 > k
        BY <1>2, <1>3, <1>4, <1>5, <2>2, <3>3
      <4> QED
        BY <1>4, <2>2, <2>3, <3>1, <3>3, <4>1, Zenon
    <3>4. CASE i # k + 1 /\ i # m
      <4>1. stack'[p][i] = stack[p][i] /\ stack[p][i] # b
        BY <1>3, <1>5, <2>2, <3>4, Zenon
      <4> QED
        BY <2>2, <2>3, <3>1, <3>4, <4>1, Zenon
    <3> QED
      BY <3>2, <3>3, <3>4, Zenon
  <2>10. \A c \in Block : owns(p, c)' => \E i \in 1..n : stack'[p][i] = c
    <3> SUFFICES ASSUME NEW c \in Block, owns(p, c) PROVE \E i \in 1..n : stack'[p][i] = c
      BY <1>7, Zenon
    <3>1. PICK i \in 1..n : stack[p][i] = c
      BY <2>2, Zenon
    <3> QED
      BY <1>3, <1>4, <1>5, <3>1, Zenon
  <2> QED
    BY <2>1, <2>5, <2>6, <2>7, <2>8, <2>9, <2>10 DEF IsExact
<1>10. ASSUME NEW q \in Pools, q # p PROVE IsExact(q)'
  <2>1. /\ arena'[q] = arena[q] /\ freeHead'[q] = freeHead[q] /\ capacity'[q] = capacity[q]
        /\ inUse'[q] = inUse[q] /\ stack'[q] = stack[q]
    BY <1>10, Zenon DEF Deallocate, PoolTypeOK
  <2>2. \A c \in Block : owns(q, c) => c # b
    BY <1>10, OneOwner, Zenon DEF Deallocate
  <2>3. \A c \in Block : owns(q, c) => link'[c] = link[c] /\ (c \in live' <=> c \in live)
    BY <2>2, Zenon DEF Deallocate, PoolTypeOK
  <2> QED
    BY <1>6, <2>1, <2>3, Frame, Zenon DEF FreeListIsExact
<1> QED
  BY <1>6, <1>8, <1>9, <1>10, Zenon DEF FreeListIsExact

(* A move: the target takes over the list, the source is left without one. *)
LEMMA MoveStep ==
  ASSUME PoolInv, NEW p \in Pools, NEW q \in Pools, Move(p, q)
  PROVE  PoolInv'
<1> USE DEF PoolInv
<1>1. p # q /\ inUse[p] = 0 /\ link' = link /\ live' = live
  BY Zenon DEF Move
<1>2. /\ arena'[p] = arena[q] /\ freeHead'[p] = freeHead[q] /\ capacity'[p] = capacity[q]
      /\ inUse'[p] = inUse[q] /\ stack'[p] = stack[q]
  BY <1>1, Zenon DEF Move, PoolTypeOK
<1>3. arena'[q] = Null /\ freeHead'[q] = Null /\ capacity'[q] = 0 /\ inUse'[q] = 0
  BY <1>1, Zenon DEF Move, PoolTypeOK
<1>4. \A r \in Pools \ {p, q} :
        /\ arena'[r] = arena[r] /\ freeHead'[r] = freeHead[r] /\ capacity'[r] = capacity[r]
        /\ inUse'[r] = inUse[r] /\ stack'[r] = stack[r]
  BY Zenon DEF Move, PoolTypeOK
<1>5. PoolTypeOK'
  <2>1. \A r \in Pools : inUse'[r] \in Nat /\ inUse'[r] <= capacity'[r]
    BY <1>2, <1>3, <1>4 DEF PoolTypeOK
  <2> QED
    BY <2>1, Zenon DEF PoolTypeOK, Move
<1>6. Separate'
  BY <1>2, <1>3, <1>4 DEF Separate
<1>7. LiveIsOwned'
  <2> SUFFICES ASSUME NEW b \in live PROVE \E r \in Pools : owns(r, b)'
    BY <1>1, Zenon DEF LiveIsOwned
  <2>1. PICK r \in Pools : owns(r, b)
    BY Zenon DEF LiveIsOwned
  <2>2. r # p
    BY <1>1, <2>1, NoneLive, Zenon DEF FreeListIsExact
  <2>3. CASE r = q
    BY <1>2, <2>1, <2>3, Zenon DEF owns
  <2>4. CASE r # q
    BY <1>4, <2>1, <2>2, <2>4, Zenon DEF owns
  <2> QED
    BY <2>3, <2>4, Zenon
<1>8. \A r \in Pools : IsExact(r)'
  <2>1. IsExact(p)'
    BY <1>1, <1>2, <1>5, Frame, Zenon DEF FreeListIsExact
  <2>2. IsExact(q)'
    BY <1>3, Empty, Zenon
  <2>3. ASSUME NEW r \in Pools \ {p, q} PROVE IsExact(r)'
    BY <1>1, <1>4, <1>5, Frame, Zenon DEF FreeListIsExact
  <2> QED
    BY <2>1, <2>2, <2>3, Zenon
<1> QED
  BY <1>5, <1>6, <1>7, <1>8, Zenon DEF FreeListIsExact

LEMMA ReleaseStep ==
  ASSUME PoolInv, NEW p \in Pools, Destroy(p)
  PROVE  PoolInv'
<1> USE DEF PoolInv
<1>1. /\ inUse[p] = 0 /\ inUse' = inUse /\ link' = link /\ live' = live /\ stack' = stack
      /\ arena'[p] = Null /\ freeHead'[p] = Null /\ capacity'[p] = 0
  BY Zenon DEF Destroy, PoolTypeOK
<1>2. \A r \in Pools \ {p} :
        arena'[r] = arena[r] /\ freeHead'[r] = freeHead[r] /\ capacity'[r] = capacity[r]
  BY Zenon DEF Destroy, PoolTypeOK
<1>3. PoolTypeOK'
  <2>1. \A r \in Pools : inUse'[r] <= capacity'[r]
    BY <1>1, <1>2 DEF PoolTypeOK
  <2> QED
    BY <2>1, Zenon DEF PoolTypeOK, Destroy
<1>4. Separate'
  BY <1>1, <1>2 DEF Separate
<1>5. LiveIsOwned'
  <2> SUFFICES ASSUME NEW b \in live PROVE \E r \in Pools : owns(r, b)'
    BY <1>1, Zenon DEF LiveIsOwned
  <2>1. PICK r \in Pools : owns(r, b)
    BY Zenon DEF LiveIsOwned
  <2>2. r # p
    BY <1>1, <2>1, NoneLive, Zenon DEF FreeListIsExact
  <2> QED
    BY <1>2, <2>1, <2>2, Zenon DEF owns
<1>6. \A r \in Pools : IsExact(r)'
  <2>1. IsExact(p)'
    BY <1>1, Empty, Zenon
  <2>2. ASSUME NEW r \in Pools \ {p} PROVE IsExact(r)'
    BY <1>1, <1>2, <1>3, Frame, Zenon DEF FreeListIsExact
  <2> QED
    BY <2>1, <2>2, Zenon
<1> QED
  BY <1>3, <1>4, <1>5, <1>6, Zenon DEF FreeListIsExact

LEMMA StutterStep == ASSUME PoolInv, UNCHANGED poolVars PROVE PoolInv'
BY DEF PoolInv, poolVars, members, PoolTypeOK, Separate, LiveIsOwned, FreeListIsExact,
       IsExact, owns,
       available

(* The induction: construction, allocation, release, moves and destruction *)
(* in any order keep every pool's list exact.                              *)
THEOREM PoolInvariant == PoolSpec => []PoolInv
<1>1. ASSUME PoolInv, PoolNext PROVE PoolInv'
  <2> USE <1>1
  <2> PICK p \in Pools :
        \/ \E a \in Arenas, n \in Nat \ {0} : Construct(p, a, n)
        \/ \E word \in Block \cup {Null} : Allocate(p, word)
        \/ \E b \in Block : Deallocate(p, b)
        \/ \E q \in Pools : Move(p, q)
        \/ Destroy(p)
    BY Zenon DEF PoolNext
  <2> QED
    BY ConstructStep, AllocateStep, DeallocateStep, MoveStep, ReleaseStep, Zenon
<1>2. PoolInv /\ [PoolNext]_poolVars => PoolInv'
  BY <1>1, StutterStep, Zenon
<1> QED
  BY <1>2, InitStep, PTL DEF PoolSpec

(* FreeListIsExact for every pool: the links run through exactly the blocks *)
(* that hold no object (buildFreeList, allocate and deallocate).            *)
THEOREM PoolFreeList == PoolSpec => []FreeListIsExact
<1>1. PoolInv => FreeListIsExact
  BY Zenon DEF PoolInv
<1> QED
  BY <1>1, PoolInvariant, PTL

(* NoBlockTwice: the block at the head of the list, which the next          *)
(* allocate() returns, holds no object and is the pool's own.               *)
THEOREM PoolNoBlockTwice == PoolSpec => []NoBlockTwice
<1>1. PoolInv => NoBlockTwice
  <2> SUFFICES ASSUME PoolInv, NEW p \in Pools, freeHead[p] # Null
               PROVE  /\ freeHead[p] \in Block
                      /\ freeHead[p] \notin live
                      /\ owns(p, freeHead[p])
    BY Zenon DEF NoBlockTwice
  <2>1. available(p) \in 1..capacity[p] /\ freeHead[p] = stack[p][available(p)]
    BY DEF PoolInv, FreeListIsExact, IsExact, PoolTypeOK, available
  <2> QED
    BY <2>1 DEF PoolInv, FreeListIsExact, IsExact, available, PoolTypeOK
<1> QED
  BY <1>1, PoolInvariant, PTL

(* ExhaustionIsExact: allocate() throws bad_alloc exactly when available()  *)
(* is zero, and deallocate() never counts inUse() below zero.               *)
THEOREM PoolExhaustion == PoolSpec => []ExhaustionIsExact
<1>1. PoolInv => ExhaustionIsExact
  <2> SUFFICES ASSUME PoolInv, NEW p \in Pools
               PROVE  inUse[p] \in 0..capacity[p] /\ (freeHead[p] = Null <=> available(p) = 0)
    BY Zenon DEF ExhaustionIsExact
  <2>1. inUse[p] \in 0..capacity[p] /\ available(p) \in 0..capacity[p]
    BY DEF PoolInv, PoolTypeOK, available
  <2>2. available(p) # 0 => freeHead[p] \in Block
    BY <2>1 DEF PoolInv, FreeListIsExact, IsExact
  <2>3. available(p) = 0 => freeHead[p] = Null
    BY Zenon DEF PoolInv, FreeListIsExact, IsExact
  <2> QED
    BY <2>1, <2>2, <2>3, BlockIsNotNull, Zenon
<1> QED
  BY <1>1, PoolInvariant, PTL
=============================================================================
