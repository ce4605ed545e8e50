------------------------------- MODULE RWLock -------------------------------
(***************************************************************************)
(* The writer-preferring readers-writer lock (src/concurrency/rwlock.cpp). *)
(*                                                                         *)
(* Every method body is one critical section of mutex_, left only by       *)
(* blocking on a condition variable, so it is one step here up to that     *)
(* point.  A thread inside wait(guard, pred) is asleep while it is in the  *)
(* wait set readersCv or writersCv; once removed (by a notify, or          *)
(* spuriously) it takes the mutex again and re-evaluates pred, which is    *)
(* the step ReadWake or WriteWake.  The standard lets a thread wake        *)
(* without a notify: SpuriousWakeup.                                       *)
(***************************************************************************)
EXTENDS Naturals, FiniteSets

CONSTANT Threads

ASSUME ThreadsFinite == IsFiniteSet(Threads)

VARIABLES
    pc,              \* where each thread is in its calls on the lock
    readersCv,       \* threads asleep on readersCv_
    writersCv,       \* threads asleep on writersCv_
    activeReaders,   \* activeReaders_
    waitingWriters,  \* waitingWriters_
    writerActive     \* writerActive_

vars == <<pc, readersCv, writersCv, activeReaders, waitingWriters, writerActive>>

PC == {"idle", "readWait", "reading", "writeWait", "writing"}

At(loc) == {t \in Threads : pc[t] = loc}

GoTo(t, loc) == pc' = [pc EXCEPT ![t] = loc]

Init ==
    /\ pc = [t \in Threads |-> "idle"]
    /\ readersCv = {}
    /\ writersCv = {}
    /\ activeReaders = 0
    /\ waitingWriters = 0
    /\ writerActive = FALSE

-----------------------------------------------------------------------------
(* notify_one moves some sleeper, if there is one, out of the wait set.     *)
NotifyOneWriter ==
    \/ writersCv = {} /\ UNCHANGED writersCv
    \/ \E w \in writersCv : writersCv' = writersCv \ {w}

(* Faults: a predicate that forgets one of the two counters. *)
MayReadIgnoringQueue    == ~writerActive
MayWriteIgnoringReaders == ~writerActive

(* The predicates of the two waits. *)
MayRead  == ~writerActive /\ waitingWriters = 0
MayWrite == ~writerActive /\ activeReaders = 0

(* The loop of readersCv_.wait and the increment that follows it. *)
ReadOrSleep(t) ==
    /\ \/ /\ MayRead
          /\ activeReaders' = activeReaders + 1
          /\ GoTo(t, "reading")
          /\ UNCHANGED readersCv
       \/ /\ ~MayRead
          /\ readersCv' = readersCv \cup {t}
          /\ GoTo(t, "readWait")
          /\ UNCHANGED activeReaders
    /\ UNCHANGED <<writersCv, waitingWriters, writerActive>>

(* The loop of writersCv_.wait and what follows it; queue is the value of   *)
(* waitingWriters_ when the wait is entered.                                *)
WriteOrSleep(t, queue) ==
    /\ \/ /\ MayWrite
          /\ waitingWriters' = queue - 1
          /\ writerActive' = TRUE
          /\ GoTo(t, "writing")
          /\ UNCHANGED writersCv
       \/ /\ ~MayWrite
          /\ waitingWriters' = queue
          /\ writersCv' = writersCv \cup {t}
          /\ GoTo(t, "writeWait")
          /\ UNCHANGED writerActive
    /\ UNCHANGED <<readersCv, activeReaders>>

-----------------------------------------------------------------------------
ReadLock(t) ==
    /\ pc[t] = "idle"
    /\ ReadOrSleep(t)

ReadWake(t) ==
    /\ pc[t] = "readWait"
    /\ t \notin readersCv
    /\ ReadOrSleep(t)

ReadUnlock(t) ==
    /\ pc[t] = "reading"
    /\ GoTo(t, "idle")
    /\ activeReaders' = activeReaders - 1
    /\ \/ activeReaders' = 0 /\ NotifyOneWriter
       \/ activeReaders' # 0 /\ UNCHANGED writersCv
    /\ UNCHANGED <<readersCv, waitingWriters, writerActive>>

WriteLock(t) ==
    /\ pc[t] = "idle"
    /\ WriteOrSleep(t, waitingWriters + 1)

(* Fault: a woken writer queues a second time. *)
WriteWakeCountsAgain(t) ==
    /\ pc[t] = "writeWait"
    /\ t \notin writersCv
    /\ WriteOrSleep(t, waitingWriters + 1)

WriteWake(t) ==
    /\ pc[t] = "writeWait"
    /\ t \notin writersCv
    /\ WriteOrSleep(t, waitingWriters)

(* Fault: notify_one where notify_all is needed. *)
WriteUnlockWakesOneReader(t) ==
    /\ pc[t] = "writing"
    /\ GoTo(t, "idle")
    /\ writerActive' = FALSE
    /\ \/ waitingWriters > 0 /\ NotifyOneWriter /\ UNCHANGED readersCv
       \/ /\ waitingWriters = 0 /\ UNCHANGED writersCv
          /\ \/ readersCv = {} /\ UNCHANGED readersCv
             \/ \E r \in readersCv : readersCv' = readersCv \ {r}
    /\ UNCHANGED <<activeReaders, waitingWriters>>

WriteUnlock(t) ==
    /\ pc[t] = "writing"
    /\ GoTo(t, "idle")
    /\ writerActive' = FALSE
    /\ \/ waitingWriters > 0 /\ NotifyOneWriter /\ UNCHANGED readersCv
       \/ waitingWriters = 0 /\ readersCv' = {} /\ UNCHANGED writersCv
    /\ UNCHANGED <<activeReaders, waitingWriters>>

SpuriousWakeup(t) ==
    /\ t \in readersCv \cup writersCv
    /\ readersCv' = readersCv \ {t}
    /\ writersCv' = writersCv \ {t}
    /\ UNCHANGED <<pc, activeReaders, waitingWriters, writerActive>>

-----------------------------------------------------------------------------
Next ==
    \E t \in Threads :
        \/ ReadLock(t)
        \/ ReadWake(t)
        \/ ReadUnlock(t)
        \/ WriteLock(t)
        \/ WriteWake(t)
        \/ WriteUnlock(t)
        \/ SpuriousWakeup(t)

Spec == Init /\ [][Next]_vars

(* A thread that holds the lock releases it (the guards of RWLock.hpp), and *)
(* one that contends for mutex_ gets it.  Nobody is obliged to lock, and    *)
(* nothing relies on a spurious wake-up.                                    *)
Fairness ==
    \A t \in Threads :
        /\ WF_vars(ReadUnlock(t))
        /\ WF_vars(WriteUnlock(t))
        /\ WF_vars(ReadWake(t))
        /\ WF_vars(WriteWake(t))

FairSpec == Spec /\ Fairness

-----------------------------------------------------------------------------
(* The ranges of the six variables. *)
TypeOK ==
    /\ pc \in [Threads -> PC]
    /\ readersCv \in SUBSET At("readWait")
    /\ writersCv \in SUBSET At("writeWait")
    /\ activeReaders \in Nat
    /\ waitingWriters \in Nat
    /\ writerActive \in BOOLEAN

(* A writer is alone: while writeLock() has returned and writeUnlock() has  *)
(* not been called, no other thread is inside a read or a write section     *)
(* (RWLock.hpp, line 8).                                                    *)
WriterIsAlone ==
    \A w \in At("writing") : At("reading") = {} /\ At("writing") = {w}

(* The three counters count what their names say at every point where       *)
(* mutex_ is free: a reader, a blocked writer or an active writer that is   *)
(* counted twice or forgotten makes the lock leak or never open again.      *)
CountersAreExact ==
    /\ activeReaders = Cardinality(At("reading"))
    /\ waitingWriters = Cardinality(At("writeWait"))
    /\ writerActive <=> At("writing") # {}

(* No wake-up is lost.  A reader sleeps only while a writer is inside or    *)
(* queued.  Writers sleep only while someone is inside who will notify one  *)
(* of them, or while another writer has been woken and not yet run: the     *)
(* single notify_one of readUnlock and writeUnlock is enough.               *)
NoLostWakeup ==
    /\ readersCv # {} => ~MayRead
    /\ writersCv # {} => ~MayWrite \/ writersCv # At("writeWait")

(* A stream of readers cannot starve writers: whenever a writer waits, some *)
(* writer gets in (README, "a steady write stream cannot be starved by      *)
(* readers").  Which of the waiting writers wins is left open by the code.  *)
WriterProgress == (waitingWriters > 0) ~> writerActive

(* Readers are delayed by writers only: once writers stop coming, every     *)
(* reader that waits gets in.                                               *)
ReaderProgress ==
    <>[](At("writing") \cup At("writeWait") = {})
        => \A t \in Threads : pc[t] = "readWait" ~> pc[t] = "reading"

(* The lock implements the abstract one. *)
Abstract == INSTANCE ReadersWriter WITH
    readers <- At("reading"),
    writers <- At("writing"),
    queued  <- At("writeWait")

(* Every step of the lock is a step of the abstract readers-writer lock or  *)
(* invisible to its users; in particular no reader ever overtakes a queued  *)
(* writer, whatever was notified, in which order, and woken when.           *)
ImplementsReadersWriter == Abstract!LockSpec
=============================================================================
