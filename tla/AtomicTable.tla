---------------------------- MODULE AtomicTable ----------------------------
(***************************************************************************)
(* What a table promises to concurrent callers: every call takes effect    *)
(* at one instant between its invocation and its return (linearizability). *)
(***************************************************************************)
CONSTANTS Threads, Idle, Pending,
          Ops,            \* the operations, each with its arguments
          Empty,          \* the contents of a new table
          Result(_, _),   \* what an operation returns, run alone
          Effect(_, _)    \* the contents it leaves behind

VARIABLES store,   \* the contents
          call,    \* the operation each thread is executing, or Idle
          answer   \* its result once it has taken effect, Pending before

tableVars == <<store, call, answer>>

TableInit ==
    /\ store = Empty
    /\ call = [t \in Threads |-> Idle]
    /\ answer = [t \in Threads |-> Pending]

Invoke(t) ==
    /\ call[t] = Idle
    /\ \E o \in Ops : call' = [call EXCEPT ![t] = o]
    /\ UNCHANGED <<store, answer>>

TakeEffect(t) ==
    /\ call[t] # Idle
    /\ answer[t] = Pending
    /\ answer' = [answer EXCEPT ![t] = Result(call[t], store)]
    /\ store' = Effect(call[t], store)
    /\ UNCHANGED call

Return(t) ==
    /\ call[t] # Idle
    /\ answer[t] # Pending
    /\ call' = [call EXCEPT ![t] = Idle]
    /\ answer' = [answer EXCEPT ![t] = Pending]
    /\ UNCHANGED store

TableNext == \E t \in Threads : Invoke(t) \/ TakeEffect(t) \/ Return(t)

TableSpec == TableInit /\ [][TableNext]_tableVars
=============================================================================
