----------------------------- MODULE TCPServer -----------------------------
(***************************************************************************)
(* The TCP server (src/network/tcp_server.cpp) with main() around it: one  *)
(* event-loop thread, the workers of the pool, the connections, the kernel *)
(* objects they share and the clients at the other end.                    *)
(*                                                                         *)
(* A client sends queries, numbered from 1, one line each, or a line over  *)
(* the length limit (TooLong); how bytes become lines is not modelled      *)
(* here.  A query's reply carries its number.  The kernel hands out the    *)
(* lowest free descriptor, so a number that was closed is reused at once.  *)
(* The pool is a FIFO of tasks, each a connection to drain, and workers    *)
(* that take them (module ThreadPool).  A critical section of a            *)
(* connection's mutex is one step, as is each system call.                 *)
(***************************************************************************)
EXTENDS Naturals, Sequences, FiniteSets

CONSTANTS
    Clients,             \* connections attempted; also names the Connection objects
    Workers,
    Fds,                 \* descriptors for client sockets, a set of numbers
    Nobody,              \* no client; no open file
    MaxQueries,          \* bound: lines all clients together send
    MaxPending,          \* kMaxPendingQueries
    MaxStops,            \* bound: calls of stop()
    StopBeforeRun,       \* may stop() be called before run()?
    PeersMayStall        \* may a client stop reading for good?

ASSUME ServerAssumption ==
    /\ Fds \subseteq Nat \ 0..2 /\ Fds # {} /\ IsFiniteSet(Fds)
    /\ Nobody \notin Clients
    /\ MaxQueries \in Nat /\ MaxPending \in Nat \ {0} /\ MaxStops \in Nat
    /\ StopBeforeRun \in BOOLEAN /\ PeersMayStall \in BOOLEAN

TooLong  == 0
NoFd     == 0
WakeFd   == 1    \* wakePipe_[0]
ListenFd == 2    \* listenFd_

VARIABLES
    peer,          \* what each client has done with its end of the connection
    sent,          \* lines it has sent
    wire,          \* lines in the receive buffer of its socket
    replies,       \* what has been written to its socket
    file,          \* kernel: the client whose socket an open descriptor is
    connections,   \* connections_: descriptor to Connection, or Nobody
    fd,            \* Connection::fd
    pending, busy, closed,   \* the other fields, guarded by Connection::mutex
    lpc,           \* where the event-loop thread is
    batch,         \* events of the last kevent() not yet handled
    cur,           \* handleReadable: its connection ...
    inbox,         \* ... its lines not yet split off ...
    dispatches, drops,       \* ... shouldDispatch, and peerClosed \/ overLimit
    tasks,         \* the pool's queue of connections to drain
    wpc, job, query,         \* each worker's place, connection and query
    running,       \* running_
    wakeByte,      \* is a byte in wakePipe_?
    spc, stops     \* where stop() is, and the calls of stop() so far

clients == <<peer, sent, wire>>
conns   == <<fd, pending, busy, closed>>
kernel  == <<file, connections>>
handler == <<cur, inbox, dispatches, drops>>
workers == <<wpc, job, query>>
stopper == <<running, wakeByte, spc, stops>>
vars == <<clients, replies, conns, kernel, lpc, batch, handler, tasks, workers, stopper>>

Init ==
    /\ peer = [c \in Clients |-> "off"]
    /\ sent = [c \in Clients |-> 0]
    /\ wire = [c \in Clients |-> <<>>]
    /\ replies = [c \in Clients |-> <<>>]
    /\ file = [f \in Fds |-> Nobody]
    /\ connections = [f \in Fds |-> Nobody]
    /\ fd = [c \in Clients |-> NoFd]
    /\ pending = [c \in Clients |-> <<>>]
    /\ busy = [c \in Clients |-> FALSE]
    /\ closed = [c \in Clients |-> FALSE]
    /\ lpc = "start"
    /\ batch = {}
    /\ cur = Nobody /\ inbox = <<>> /\ dispatches = FALSE /\ drops = FALSE
    /\ tasks = <<>>
    /\ wpc = [w \in Workers |-> "idle"]
    /\ job = [w \in Workers |-> Nobody]
    /\ query = [w \in Workers |-> TooLong]
    /\ running = FALSE
    /\ wakeByte = FALSE
    /\ spc = "idle" /\ stops = 0

-----------------------------------------------------------------------------
(* Clients and their kernel.  The listening socket exists from the          *)
(* constructor to the destructor; connect() succeeds in between.            *)
Connect(c) ==
    /\ peer[c] = "off"
    /\ lpc # "destroyed"
    /\ peer' = [peer EXCEPT ![c] = "backlog"]
    /\ UNCHANGED <<sent, wire, replies, conns, kernel, lpc, batch, handler, tasks, workers, stopper>>

Send(c) ==
    /\ peer[c] \in {"backlog", "open"}
    /\ Cardinality(UNION {{d} \X (1..sent[d]) : d \in Clients}) < MaxQueries
    /\ sent' = [sent EXCEPT ![c] = @ + 1]
    /\ \E line \in {sent'[c], TooLong} : wire' = [wire EXCEPT ![c] = Append(@, line)]
    /\ UNCHANGED <<peer, replies, conns, kernel, lpc, batch, handler, tasks, workers, stopper>>

(* The client closes its sending side, and goes on reading. *)
HalfClose(c) ==
    /\ peer[c] = "open"
    /\ peer' = [peer EXCEPT ![c] = "eof"]
    /\ UNCHANGED <<sent, wire, replies, conns, kernel, lpc, batch, handler, tasks, workers, stopper>>

(* The client is gone; lines not yet read may be lost with it. *)
Reset(c) ==
    /\ peer[c] \in {"open", "eof"}
    /\ peer' = [peer EXCEPT ![c] = "reset"]
    /\ \E keep \in {wire[c], <<>>} : wire' = [wire EXCEPT ![c] = keep]
    /\ UNCHANGED <<sent, replies, conns, kernel, lpc, batch, handler, tasks, workers, stopper>>

-----------------------------------------------------------------------------
(* stop(): an atomic store, then a byte into the pipe. *)
StopStores ==
    /\ spc = "idle"
    /\ stops < MaxStops
    /\ lpc # "destroyed"
    /\ StopBeforeRun \/ lpc # "start"
    /\ running' = FALSE
    /\ spc' = "stored"
    /\ stops' = stops + 1
    /\ UNCHANGED <<clients, replies, conns, kernel, lpc, batch, handler, tasks, workers, wakeByte>>

(* Fault: stop() does not write to the pipe. *)
StopWakesNobody ==
    /\ spc = "stored"
    /\ spc' = "idle"
    /\ UNCHANGED <<clients, replies, conns, kernel, lpc, batch, handler, tasks, workers,
                   running, wakeByte, stops>>

(* When the handler of a signal runs stop() on the event-loop thread while  *)
(* it waits, kevent() returns EINTR and the loop goes round.                *)
StopWakes ==
    /\ spc = "stored"
    /\ wakeByte' = TRUE
    /\ spc' = "idle"
    /\ \E l \in {lpc} \cup (IF lpc = "wait" THEN {"check"} ELSE {}) : lpc' = l
    /\ UNCHANGED <<clients, replies, conns, kernel, batch, handler, tasks, workers, running, stops>>

-----------------------------------------------------------------------------
(* run() *)
RunBegins ==
    /\ lpc = "start"
    /\ running' = TRUE
    /\ lpc' = "check"
    /\ UNCHANGED <<clients, replies, conns, kernel, batch, handler, tasks, workers, wakeByte, spc, stops>>

LoopChecks ==
    /\ lpc = "check"
    /\ lpc' = IF running THEN "wait" ELSE "returned"
    /\ UNCHANGED <<clients, replies, conns, kernel, batch, handler, tasks, workers, stopper>>

(* Level-triggered readiness of what is registered with kqueueFd_. *)
Readable(c) == wire[c] # <<>> \/ peer[c] \in {"eof", "reset"}

Backlog == {c \in Clients : peer[c] = "backlog"}

Ready ==
    {f \in Fds : connections[f] # Nobody /\ Readable(connections[f])}
    \cup {f \in {ListenFd} : Backlog # {}}
    \cup {f \in {WakeFd} : wakeByte}

KeventReturns ==
    /\ lpc = "wait"
    /\ Ready # {}
    /\ batch' = Ready
    /\ lpc' = "batch"
    /\ UNCHANGED <<clients, replies, conns, kernel, handler, tasks, workers, stopper>>

KeventBlocks ==
    /\ lpc = "wait"
    /\ Ready = {}
    /\ UNCHANGED vars

BatchEnds ==
    /\ lpc = "batch"
    /\ batch = {}
    /\ lpc' = "check"
    /\ UNCHANGED <<clients, replies, conns, kernel, batch, handler, tasks, workers, stopper>>

HandleWake ==
    /\ lpc = "batch"
    /\ WakeFd \in batch
    /\ batch' = batch \ {WakeFd}
    /\ wakeByte' = FALSE
    /\ UNCHANGED <<clients, replies, conns, kernel, lpc, handler, tasks, workers, running, spc, stops>>

HandleListen ==
    /\ lpc = "batch"
    /\ ListenFd \in batch
    /\ batch' = batch \ {ListenFd}
    /\ lpc' = "accept"
    /\ UNCHANGED <<clients, replies, conns, kernel, handler, tasks, workers, stopper>>

(* An event whose descriptor is in connections_; any other is ignored. *)
HandleClient(f) ==
    /\ lpc = "batch"
    /\ f \in batch \cap Fds
    /\ batch' = batch \ {f}
    /\ cur' = connections[f]
    /\ lpc' = IF connections[f] = Nobody THEN "batch" ELSE "read"
    /\ UNCHANGED <<clients, replies, conns, kernel, inbox, dispatches, drops, tasks, workers, stopper>>

-----------------------------------------------------------------------------
(* acceptClients() *)
FreeFds == {f \in Fds : file[f] = Nobody}

Accept(c) ==
    /\ lpc = "accept"
    /\ c \in Backlog
    /\ \E f \in FreeFds :
          /\ \A other \in FreeFds : f <= other
          /\ file' = [file EXCEPT ![f] = c]
          /\ fd' = [fd EXCEPT ![c] = f]
          /\ connections' = IF connections[f] = Nobody
                            THEN [connections EXCEPT ![f] = c]
                            ELSE connections   \* emplace does not overwrite
    /\ peer' = [peer EXCEPT ![c] = "open"]
    /\ UNCHANGED <<sent, wire, replies, pending, busy, closed, lpc, batch, handler, tasks, workers, stopper>>

(* The descriptor cannot be registered with kqueue and is closed again. *)
AcceptCannotRegister(c) ==
    /\ lpc = "accept"
    /\ c \in Backlog
    /\ FreeFds # {}
    /\ peer' = [peer EXCEPT ![c] = "refused"]
    /\ UNCHANGED <<sent, wire, replies, conns, kernel, lpc, batch, handler, tasks, workers, stopper>>

(* EAGAIN, or no descriptor left for the next client. *)
AcceptEnds ==
    /\ lpc = "accept"
    /\ Backlog = {} \/ FreeFds = {}
    /\ lpc' = "batch"
    /\ UNCHANGED <<clients, replies, conns, kernel, batch, handler, tasks, workers, stopper>>

-----------------------------------------------------------------------------
(* The socket behind a connection's descriptor, whosever it is by now. *)
Socket(c) == file[fd[c]]

CloseFd(c) == file' = [file EXCEPT ![fd[c]] = Nobody]

(* handleReadable(): everything there is to read ... *)
Reads ==
    LET s == Socket(cur) IN
    /\ lpc = "read"
    /\ lpc' = "split"
    /\ \/ /\ s # Nobody
          /\ inbox' = wire[s]
          /\ wire' = [wire EXCEPT ![s] = <<>>]
          /\ drops' = (peer[s] \in {"eof", "reset"})
       \/ /\ s = Nobody
          /\ drops' = TRUE
          /\ UNCHANGED <<inbox, wire>>
    /\ UNCHANGED <<peer, sent, replies, conns, kernel, batch, cur, dispatches, tasks, workers, stopper>>

(* Faults: a task for every line; a line that finds the connection busy     *)
(* takes the dispatch back.                                                 *)
AlwaysDispatch == TRUE
ForgetDispatch == ~busy[cur]

(* The line at hand is over a limit, or needs a task to be dispatched. *)
Exceeds == Head(inbox) = TooLong \/ Len(pending[cur]) >= MaxPending
ShouldDispatch == dispatches \/ ~busy[cur]

(* ... then line by line onto the strand; a line over the limit, or one too *)
(* many, ends the connection and discards the rest.                         *)
SplitLine ==
    /\ lpc = "split"
    /\ inbox # <<>>
    /\ \/ /\ Exceeds
          /\ drops' = TRUE
          /\ inbox' = <<>>
          /\ UNCHANGED <<pending, busy, dispatches>>
       \/ /\ ~Exceeds
          /\ pending' = [pending EXCEPT ![cur] = Append(@, Head(inbox))]
          /\ inbox' = Tail(inbox)
          /\ busy' = [busy EXCEPT ![cur] = TRUE]
          /\ dispatches' = ShouldDispatch
          /\ UNCHANGED drops
    /\ UNCHANGED <<clients, replies, fd, closed, kernel, lpc, batch, cur, tasks, workers, stopper>>

SplitEnds ==
    /\ lpc = "split"
    /\ inbox = <<>>
    /\ lpc' = "dispatch"
    /\ UNCHANGED <<clients, replies, conns, kernel, batch, handler, tasks, workers, stopper>>

Dispatches ==
    /\ lpc = "dispatch"
    /\ tasks' = IF dispatches THEN Append(tasks, cur) ELSE tasks
    /\ dispatches' = FALSE
    /\ lpc' = "drop"
    /\ UNCHANGED <<clients, replies, conns, kernel, batch, cur, inbox, drops, workers, stopper>>

(* Faults: the descriptor is closed under a worker that may still write;    *)
(* a connection without a task is left open.                                *)
ClosesAlways(c) == TRUE
ClosesNever(c)  == FALSE

ClosesNow(c) == ~busy[c]

(* dropConnection(conn->fd), if the connection is to go. *)
Drops ==
    /\ lpc = "drop"
    /\ \/ /\ drops
          /\ connections' = [connections EXCEPT ![fd[cur]] = Nobody]
          /\ closed' = [closed EXCEPT ![cur] = TRUE]
          /\ IF ClosesNow(cur) THEN CloseFd(cur) ELSE UNCHANGED file
       \/ /\ ~drops
          /\ UNCHANGED <<kernel, closed>>
    /\ cur' = Nobody
    /\ drops' = FALSE
    /\ lpc' = "batch"
    /\ UNCHANGED <<clients, replies, fd, pending, busy, batch, inbox, dispatches, tasks, workers, stopper>>

-----------------------------------------------------------------------------
(* A worker takes a task of dispatch() from the pool ... *)
TaskBegins(w) ==
    /\ wpc[w] = "idle"
    /\ tasks # <<>>
    /\ job' = [job EXCEPT ![w] = Head(tasks)]
    /\ tasks' = Tail(tasks)
    /\ wpc' = [wpc EXCEPT ![w] = "drain"]
    /\ UNCHANGED <<clients, replies, conns, kernel, lpc, batch, handler, query, stopper>>

(* The task ends under the connection's mutex; it closes the descriptor if  *)
(* the loop has dropped the connection meanwhile.                           *)
TaskEnds(w) ==
    /\ busy' = [busy EXCEPT ![job[w]] = FALSE]
    /\ IF closed[job[w]] THEN CloseFd(job[w]) ELSE UNCHANGED file
    /\ wpc' = [wpc EXCEPT ![w] = "idle"]
    /\ job' = [job EXCEPT ![w] = Nobody]
    /\ query' = [query EXCEPT ![w] = TooLong]
    /\ UNCHANGED <<clients, replies, fd, closed, connections, lpc, batch, handler, tasks, stopper>>

NextQuery(c) == Head(pending[c])

(* ... and drains its queue: *)
StrandPops(w) ==
    /\ wpc[w] = "drain"
    /\ pending[job[w]] # <<>>
    /\ query' = [query EXCEPT ![w] = NextQuery(job[w])]
    /\ pending' = [pending EXCEPT ![job[w]] = Tail(@)]
    /\ wpc' = [wpc EXCEPT ![w] = "reply"]
    /\ UNCHANGED <<clients, replies, fd, busy, closed, kernel, lpc, batch, handler, tasks, job, stopper>>

StrandIsEmpty(w) ==
    /\ wpc[w] = "drain"
    /\ pending[job[w]] = <<>>
    /\ TaskEnds(w)
    /\ UNCHANGED pending

(* execute() and writeAll(): the reply goes to whatever socket the          *)
(* descriptor names.                                                        *)
Reply(w, whole) ==
    replies' = [replies EXCEPT ![Socket(job[w])] =
                   Append(@, [from |-> job[w], query |-> query[w], whole |-> whole])]

ReplySucceeds(w) ==
    /\ wpc[w] = "reply"
    /\ Socket(job[w]) # Nobody /\ peer[Socket(job[w])] # "reset"
    /\ Reply(w, TRUE)
    /\ wpc' = [wpc EXCEPT ![w] = "drain"]
    /\ query' = [query EXCEPT ![w] = TooLong]
    /\ UNCHANGED <<clients, conns, kernel, lpc, batch, handler, tasks, job, stopper>>

ReplyFails(w) ==
    /\ wpc[w] = "reply"
    /\ Socket(job[w]) = Nobody \/ peer[Socket(job[w])] = "reset"
    /\ wpc' = [wpc EXCEPT ![w] = "failed"]
    /\ UNCHANGED <<clients, replies, conns, kernel, lpc, batch, handler, tasks, job, query, stopper>>

(* The peer is there but has not read for five seconds, or a signal         *)
(* interrupts poll(): writeAll gives up, with none or some of the reply     *)
(* written.                                                                 *)
ReplyStalls(w) ==
    /\ PeersMayStall
    /\ wpc[w] = "reply"
    /\ Socket(job[w]) # Nobody /\ peer[Socket(job[w])] # "reset"
    /\ Reply(w, FALSE) \/ UNCHANGED replies
    /\ wpc' = [wpc EXCEPT ![w] = "failed"]
    /\ UNCHANGED <<clients, conns, kernel, lpc, batch, handler, tasks, job, query, stopper>>

StrandGivesUp(w) ==
    /\ wpc[w] = "failed"
    /\ pending' = [pending EXCEPT ![job[w]] = <<>>]
    /\ TaskEnds(w)

-----------------------------------------------------------------------------
(* ~TCPServer(): the pool is drained and joined, then every descriptor that *)
(* is still in connections_ is closed.  stop() has returned by then.        *)
DestroyDrains ==
    /\ lpc = "returned"
    /\ tasks = <<>>
    /\ \A w \in Workers : wpc[w] = "idle"
    /\ lpc' = "drained"
    /\ UNCHANGED <<clients, replies, conns, kernel, batch, handler, tasks, workers, stopper>>

DestroyCloses ==
    /\ lpc = "drained"
    /\ spc = "idle"
    /\ file' = [f \in Fds |-> IF connections[f] # Nobody THEN Nobody ELSE file[f]]
    /\ connections' = [f \in Fds |-> Nobody]
    /\ lpc' = "destroyed"
    /\ UNCHANGED <<clients, replies, conns, batch, handler, tasks, workers, stopper>>

Destroyed ==
    /\ lpc = "destroyed"
    /\ UNCHANGED vars

-----------------------------------------------------------------------------
ClientStep == \E c \in Clients : Connect(c) \/ Send(c) \/ HalfClose(c) \/ Reset(c)

LoopStep ==
    \/ RunBegins
    \/ LoopChecks
    \/ KeventReturns
    \/ BatchEnds
    \/ HandleWake
    \/ HandleListen
    \/ \E f \in Fds : HandleClient(f)
    \/ \E c \in Clients : Accept(c) \/ AcceptCannotRegister(c)
    \/ AcceptEnds
    \/ Reads
    \/ SplitLine
    \/ SplitEnds
    \/ Dispatches
    \/ Drops
    \/ DestroyDrains
    \/ DestroyCloses

WorkerStep(w) ==
    \/ TaskBegins(w)
    \/ StrandPops(w)
    \/ StrandIsEmpty(w)
    \/ ReplySucceeds(w)
    \/ ReplyFails(w)
    \/ ReplyStalls(w)
    \/ StrandGivesUp(w)

Next ==
    \/ ClientStep
    \/ StopStores
    \/ StopWakes
    \/ LoopStep
    \/ \E w \in Workers : WorkerStep(w)
    \/ KeventBlocks
    \/ Destroyed

Spec == Init /\ [][Next]_vars

(* The threads of the server run; clients and callers of stop() owe us      *)
(* nothing, but a call of stop() that has begun ends.                       *)
Fairness ==
    /\ WF_vars(LoopStep)
    /\ \A w \in Workers : WF_vars(WorkerStep(w))
    /\ WF_vars(StopWakes)

FairSpec == Spec /\ Fairness

-----------------------------------------------------------------------------
(* The tasks that exist for a connection: promised by the event loop,       *)
(* queued in the pool, or running.                                          *)
TasksOf(c) ==
    {0 : x \in {y \in {cur} : y = c /\ dispatches}}
    \cup {i \in DOMAIN tasks : tasks[i] = c}

RunningFor(c) == {w \in Workers : job[w] = c}

(* "At most one task per connection is ever in flight" (tcp_server.cpp,     *)
(* line 184), and no queue is forgotten: busy holds exactly when there is   *)
(* one task, and a connection without a task has nothing pending.           *)
OneTaskPerConnection ==
    \A c \in Clients :
        /\ Cardinality(TasksOf(c)) + Cardinality(RunningFor(c)) = (IF busy[c] THEN 1 ELSE 0)
        /\ ~busy[c] => pending[c] = <<>>

(* A descriptor number is used only while it still names this connection's  *)
(* socket: by the event loop, by queued and by running tasks.  So no reply  *)
(* reaches another client and nobody closes another client's socket, though *)
(* numbers are reused at once.                                              *)
DescriptorsAreOurs ==
    /\ \A f \in Fds : connections[f] # Nobody => file[f] = connections[f] /\ fd[connections[f]] = f
    /\ cur # Nobody => Socket(cur) = cur
    /\ \A i \in DOMAIN tasks : Socket(tasks[i]) = tasks[i]
    /\ \A w \in Workers : job[w] # Nobody => Socket(job[w]) = job[w]

(* A client sees replies to its own queries only, in the order in which it  *)
(* sent them, none twice ("no client ever sees interleaved or reordered     *)
(* replies", TCPServer.hpp, line 26), also after a reply that failed.       *)
RepliesInOrder ==
    \A c \in Clients :
        /\ \A i \in DOMAIN replies[c] : replies[c][i].from = c
        /\ \A i, j \in DOMAIN replies[c] : i < j => replies[c][i].query < replies[c][j].query

(* "Every reply is newline-terminated" (TCPServer.hpp, line 18): a reply    *)
(* that was cut short is the last thing its client receives.                *)
NothingFollowsATruncatedReply ==
    \A c \in Clients : \A i \in DOMAIN replies[c] :
        i < Len(replies[c]) => replies[c][i].whole

Answered(c, q) == \E i \in DOMAIN replies[c] : replies[c][i].query = q

(* Every query that was accepted is answered unless its client disappears:  *)
(* also when the client half-closes, sends a line that gets it dropped, or  *)
(* the server is stopped and destroyed meanwhile.                           *)
AcceptedIsAnswered ==
    \A c \in Clients : \A q \in 1..MaxQueries :
        (\E i \in DOMAIN pending[c] : pending[c][i] = q)
            ~> (Answered(c, q) \/ peer[c] = "reset")

(* A dropped connection gives its descriptor back. *)
DroppedIsClosed ==
    \A c \in Clients : closed[c] ~> (\A f \in Fds : file[f] # c)

(* stop() ends the server (main.cpp, lines 24-25: "so Ctrl-C shuts the      *)
(* event loop down cleanly"): after a call, run() returns, the destructor   *)
(* gets past the pool, and every descriptor is closed.                      *)
StopIsHonoured == (stops > 0) ~> (lpc = "destroyed" /\ \A f \in Fds : file[f] = Nobody)
=============================================================================
