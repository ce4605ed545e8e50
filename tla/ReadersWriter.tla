--------------------------- MODULE ReadersWriter ---------------------------
(***************************************************************************)
(* What a readers-writer lock of this code base promises to its users: any *)
(* number of readers or one writer, and a new reader is admitted only when *)
(* no writer is queued (RWLock.hpp, lines 8-12).  How the promise is kept, *)
(* with one mutex, two condition variables and three counters, is the      *)
(* business of module RWLock, which refines this one.                      *)
(***************************************************************************)
CONSTANT Threads

VARIABLES readers,   \* the threads inside a read section
          writers,   \* the threads inside a write section
          queued     \* the threads blocked in writeLock()

lockVars == <<readers, writers, queued>>

LockInit ==
    /\ readers = {}
    /\ writers = {}
    /\ queued  = {}

Inside == readers \cup writers

-----------------------------------------------------------------------------
EnterRead(t) ==
    /\ t \notin Inside \cup queued
    /\ writers = {}
    /\ queued = {}
    /\ readers' = readers \cup {t}
    /\ UNCHANGED <<writers, queued>>

LeaveRead(t) ==
    /\ t \in readers
    /\ readers' = readers \ {t}
    /\ UNCHANGED <<writers, queued>>

QueueWrite(t) ==
    /\ t \notin Inside \cup queued
    /\ Inside # {}
    /\ queued' = queued \cup {t}
    /\ UNCHANGED <<readers, writers>>

EnterWrite(t) ==
    /\ Inside = {}
    /\ writers' = {t}
    /\ queued' = queued \ {t}
    /\ UNCHANGED readers

LeaveWrite(t) ==
    /\ t \in writers
    /\ writers' = writers \ {t}
    /\ UNCHANGED <<readers, queued>>

LockNext ==
    \E t \in Threads :
        \/ EnterRead(t)
        \/ LeaveRead(t)
        \/ QueueWrite(t)
        \/ EnterWrite(t)
        \/ LeaveWrite(t)

LockSpec == LockInit /\ [][LockNext]_lockVars
=============================================================================
