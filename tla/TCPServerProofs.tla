-------------------------- MODULE TCPServerProofs --------------------------
(***************************************************************************)
(* The safety of the server's strands, descriptors and replies, for any    *)
(* number of clients, workers and descriptors.                             *)
(*                                                                         *)
(* None of the three properties is inductive.  That a descriptor still     *)
(* names the connection's own socket rests on who may close it: the event  *)
(* loop if no task exists (busy is false), otherwise the task, and only    *)
(* once the loop has dropped the connection (closed).  That at most one    *)
(* task exists rests on busy being exactly the existence of a task, in the *)
(* hands of the loop, of the pool or of a worker.  And replies are in      *)
(* order because the numbers of a client's queries grow along the whole    *)
(* way from its socket to its replies.                                     *)
(***************************************************************************)
EXTENDS TCPServer, TLAPS

Handling == {"read", "split", "dispatch", "drop"}

TypeOK ==
    /\ DOMAIN peer = Clients
    /\ sent \in [Clients -> Nat]
    /\ wire \in [Clients -> Seq(Nat)]
    /\ replies \in [Clients -> Seq([from : Clients, query : Nat, whole : BOOLEAN])]
    /\ file \in [Fds -> Clients \cup {Nobody}]
    /\ connections \in [Fds -> Clients \cup {Nobody}]
    /\ fd \in [Clients -> Fds \cup {NoFd}]
    /\ pending \in [Clients -> Seq(Nat)]
    /\ busy \in [Clients -> BOOLEAN]
    /\ closed \in [Clients -> BOOLEAN]
    /\ cur \in Clients \cup {Nobody}
    /\ inbox \in Seq(Nat)
    /\ dispatches \in BOOLEAN
    /\ tasks \in Seq(Clients)
    /\ wpc \in [Workers -> {"idle", "drain", "reply", "failed"}]
    /\ job \in [Workers -> Clients \cup {Nobody}]
    /\ query \in [Workers -> Nat]

(* The event loop has a connection at hand exactly inside handleReadable(), *)
(* and it is one of connections_.                                           *)
AtTheHandler ==
    /\ cur # Nobody <=> lpc \in Handling
    /\ dispatches => lpc \in {"split", "dispatch"}
    /\ inbox # <<>> => lpc = "split"
    /\ cur # Nobody => fd[cur] \in Fds /\ connections[fd[cur]] = cur

(* An open descriptor belongs to a registered connection, or to a dropped   *)
(* one whose task has yet to close it; and while there is a task, it is     *)
(* open.                                                                    *)
Registered ==
    \A f \in Fds : connections[f] # Nobody =>
        /\ fd[connections[f]] = f
        /\ file[f] = connections[f]
        /\ ~closed[connections[f]]

Opened ==
    \A f \in Fds : file[f] # Nobody =>
        /\ fd[file[f]] = f
        /\ connections[f] = file[f] \/ (busy[file[f]] /\ closed[file[f]])

Served == \A c \in Clients : busy[c] => fd[c] \in Fds /\ file[fd[c]] = c

Unconnected ==
    /\ \A c \in Clients : fd[c] = NoFd => ~closed[c]
    /\ \A c \in Clients : peer[c] \in {"off", "backlog"} => fd[c] = NoFd

Descriptors == Registered /\ Opened /\ Served /\ Unconnected

HasTask(c) ==
    \/ dispatches /\ cur = c
    \/ \E i \in 1..Len(tasks) : tasks[i] = c
    \/ \E w \in Workers : job[w] = c

(* No connection has two tasks. *)
Unique ==
    /\ \A i, j \in 1..Len(tasks) : tasks[i] = tasks[j] => i = j
    /\ \A v, w \in Workers : job[v] = job[w] /\ job[v] # Nobody => v = w
    /\ \A i \in 1..Len(tasks), w \in Workers : tasks[i] # job[w]
    /\ dispatches => /\ \A i \in 1..Len(tasks) : tasks[i] # cur
                     /\ \A w \in Workers : job[w] # cur

Strands ==
    /\ \A w \in Workers : wpc[w] = "idle" <=> job[w] = Nobody
    /\ \A c \in Clients : busy[c] <=> HasTask(c)
    /\ \A c \in Clients : pending[c] # <<>> => busy[c]
    /\ lpc \in {"drained", "destroyed"} => tasks = <<>> /\ \A w \in Workers : job[w] = Nobody

-----------------------------------------------------------------------------
(* The numbers of a client's queries on their way through the server. *)
Elements(s) == {s[i] : i \in 1..Len(s)}

Replied(c)  == {replies[c][i].query : i \in 1..Len(replies[c])}
InHand(c)   == {query[w] : w \in {v \in Workers : job[v] = c /\ wpc[v] = "reply"}}
Waiting(c)  == Elements(pending[c])
Unsplit(c)  == IF cur = c THEN Elements(inbox) ELSE {}
Arriving(c) == Elements(wire[c])

Before(A, B) == \A x \in A, y \in B : y # TooLong => x < y

Increasing(s) == \A i, j \in 1..Len(s) : i < j /\ s[j] # TooLong => s[i] < s[j]

(* They grow from stage to stage: replies, the query a worker executes, the *)
(* queue of the strand, the inbox, the socket.                              *)
Chain(R, Q, P, I, W, n) ==
    /\ R \cup Q \cup P \cup I \cup W \subseteq 0..n
    /\ TooLong \notin R \cup Q \cup P
    /\ Before(R, Q)
    /\ Before(R \cup Q, P)
    /\ Before(R \cup Q \cup P, I)
    /\ Before(R \cup Q \cup P \cup I, W)

(* And within each stage. *)
Sorted(c) ==
    /\ \A i \in 1..Len(replies[c]) : replies[c][i].from = c
    /\ \A i, j \in 1..Len(replies[c]) : i < j => replies[c][i].query < replies[c][j].query
    /\ Increasing(pending[c])
    /\ Increasing(wire[c])
    /\ cur = c => Increasing(inbox)

Order(c) ==
    /\ Sorted(c)
    /\ Chain(Replied(c), InHand(c), Waiting(c), Unsplit(c), Arriving(c), sent[c])

Inv ==
    TypeOK /\ AtTheHandler /\ Descriptors /\ Unique /\ Strands /\ \A c \in Clients : Order(c)

-----------------------------------------------------------------------------
(* Queries move from one stage to the next. *)
LEMMA ChainShrinks ==
  ASSUME NEW R, NEW Q, NEW P, NEW I, NEW W, NEW n \in Nat, Chain(R, Q, P, I, W, n),
         NEW Q1 \in SUBSET Q, NEW P1 \in SUBSET P, NEW I1 \in SUBSET I, NEW W1 \in SUBSET W
  PROVE  Chain(R, Q1, P1, I1, W1, n)
BY Zenon DEF Chain, Before

LEMMA ChainSends ==
  ASSUME NEW R, NEW Q, NEW P, NEW I, NEW W, NEW n \in Nat, Chain(R, Q, P, I, W, n),
         NEW x \in {n + 1, TooLong}
  PROVE  Chain(R, Q, P, I, W \cup {x}, n + 1)
<1>1. R \cup Q \cup P \cup I \cup (W \cup {x}) \subseteq 0..n + 1
  BY DEF Chain, TooLong
<1>2. \A y \in R \cup Q \cup P \cup I : y < n + 1
  BY DEF Chain
<1> QED
  BY <1>1, <1>2, Zenon DEF Chain, Before

LEMMA ChainReads ==
  ASSUME NEW R, NEW Q, NEW P, NEW I, NEW W, NEW n \in Nat, Chain(R, Q, P, I, W, n)
  PROVE  Chain(R, Q, P, W, {}, n)
BY Zenon DEF Chain, Before

LEMMA ChainSplits ==
  ASSUME NEW R, NEW Q, NEW P, NEW I, NEW W, NEW n \in Nat, Chain(R, Q, P, I, W, n),
         NEW x \in I, x # TooLong, NEW I1 \in SUBSET I, Before({x}, I1)
  PROVE  Chain(R, Q, P \cup {x}, I1, W, n)
BY Zenon DEF Chain, Before

LEMMA ChainPops ==
  ASSUME NEW R, NEW P, NEW I, NEW W, NEW n \in Nat, Chain(R, {}, P, I, W, n),
         NEW x \in P, NEW P1 \in SUBSET P, Before({x}, P1)
  PROVE  Chain(R, {x}, P1, I, W, n)
BY Zenon DEF Chain, Before

LEMMA ChainReplies ==
  ASSUME NEW R, NEW x, NEW P, NEW I, NEW W, NEW n \in Nat, Chain(R, {x}, P, I, W, n)
  PROVE  Chain(R \cup {x}, {}, P, I, W, n)
BY Zenon DEF Chain, Before

(* Sequences of numbers. *)
LEMMA Appended ==
  ASSUME NEW s \in Seq(Nat), NEW x \in Nat, Increasing(s), Before(Elements(s), {x})
  PROVE  /\ Increasing(Append(s, x))
         /\ Elements(Append(s, x)) = Elements(s) \cup {x}
<1>1. /\ Len(Append(s, x)) = Len(s) + 1 /\ Append(s, x)[Len(s) + 1] = x /\ Len(s) \in Nat
      /\ \A i \in 1..Len(s) : Append(s, x)[i] = s[i]
  OBVIOUS
<1>2. Elements(Append(s, x)) = Elements(s) \cup {x}
  BY <1>1 DEF Elements
<1>3. \A i \in 1..Len(s) : x # TooLong => s[i] < x
  BY Zenon DEF Elements, Before
<1>4. ASSUME NEW i \in 1..Len(s) + 1, NEW j \in 1..Len(s) + 1, i < j, Append(s, x)[j] # TooLong
      PROVE  Append(s, x)[i] < Append(s, x)[j]
  BY <1>1, <1>3, <1>4 DEF Increasing
<1> QED
  BY <1>1, <1>2, <1>4, Zenon DEF Increasing

LEMMA Removed ==
  ASSUME NEW s \in Seq(Nat), s # <<>>, Increasing(s)
  PROVE  /\ Head(s) \in Elements(s) /\ Tail(s) \in Seq(Nat) /\ Head(s) \in Nat
         /\ Elements(Tail(s)) \subseteq Elements(s)
         /\ Increasing(Tail(s))
         /\ Before({Head(s)}, Elements(Tail(s)))
<1>1. /\ Len(Tail(s)) = Len(s) - 1 /\ Head(s) = s[1] /\ Len(s) \in Nat /\ Len(s) >= 1
      /\ \A i \in 1..Len(s) - 1 : Tail(s)[i] = s[i + 1]
      /\ Tail(s) \in Seq(Nat) /\ Head(s) \in Nat
  OBVIOUS
<1>2. Head(s) \in Elements(s) /\ Elements(Tail(s)) \subseteq Elements(s)
  BY <1>1 DEF Elements
<1>3. Increasing(Tail(s)) /\ Before({Head(s)}, Elements(Tail(s)))
  BY <1>1 DEF Increasing, Before, Elements
<1> QED
  BY <1>1, <1>2, <1>3, Zenon

-----------------------------------------------------------------------------
LEMMA InitStep == Init => Inv
<1> SUFFICES ASSUME Init PROVE Inv
  OBVIOUS
<1>1. TypeOK
  <2> DEFINE Reply_ == [from : Clients, query : Nat, whole : BOOLEAN]
  <2>1. <<>> \in Seq(Nat) /\ <<>> \in Seq(Clients) /\ <<>> \in Seq(Reply_)
    OBVIOUS
  <2> HIDE DEF Reply_
  <2>2. /\ wire \in [Clients -> Seq(Nat)] /\ pending \in [Clients -> Seq(Nat)]
        /\ inbox \in Seq(Nat) /\ tasks \in Seq(Clients) /\ replies \in [Clients -> Seq(Reply_)]
    BY <2>1, Zenon DEF Init
  <2> QED
    BY <2>2, Zenon DEF Init, TypeOK, TooLong, Reply_
<1>2. AtTheHandler
  BY Zenon DEF Init, AtTheHandler, Handling
<1>3. Descriptors
  BY Zenon DEF Init, Descriptors, Registered, Opened, Served, Unconnected
<1>4. tasks = <<>> /\ Len(tasks) = 0 /\ lpc = "start" /\ dispatches = FALSE
  BY Zenon DEF Init
<1>5. \A w \in Workers : job[w] = Nobody /\ wpc[w] = "idle"
  BY Zenon DEF Init
<1>6. \A c \in Clients : pending[c] = <<>> /\ busy[c] = FALSE
  BY Zenon DEF Init
<1>7. Unique
  BY <1>4, <1>5 DEF Unique
<1>8. Strands
  BY <1>4, <1>5, <1>6, ServerAssumption DEF Strands, HasTask
<1>9. ASSUME NEW c \in Clients PROVE Order(c)
  <2>1. wire[c] = <<>> /\ replies[c] = <<>> /\ pending[c] = <<>> /\ inbox = <<>> /\ sent[c] = 0
    BY Zenon DEF Init
  <2>2. Replied(c) = {} /\ Waiting(c) = {} /\ Unsplit(c) = {} /\ Arriving(c) = {}
    BY <2>1 DEF Replied, Waiting, Unsplit, Arriving, Elements
  <2>3. InHand(c) = {}
    BY <1>5, Zenon DEF InHand
  <2>4. Sorted(c)
    BY <2>1 DEF Sorted, Increasing
  <2> QED
    BY <2>1, <2>2, <2>3, <2>4, Zenon DEF Order, Chain, Before
<1> QED
  BY <1>1, <1>2, <1>3, <1>7, <1>8, <1>9, Zenon DEF Inv

(* A client whose lines and replies do not move, or are discarded. *)
LEMMA OrderShrinks ==
  ASSUME TypeOK, NEW c \in Clients, Order(c),
         UNCHANGED <<replies[c], sent[c]>>,
         \A w \in Workers : job'[w] = c /\ wpc'[w] = "reply" =>
             job[w] = c /\ wpc[w] = "reply" /\ query'[w] = query[w],
         pending'[c] \in {pending[c], <<>>},
         wire'[c] \in {wire[c], <<>>},
         cur' = c => (cur = c /\ inbox' = inbox) \/ inbox' = <<>>
  PROVE  Order(c)'
<1>1. Increasing(<<>>) /\ Elements(<<>>) = {}
  BY DEF Increasing, Elements
<1>2. Sorted(c)'
  <2>1. Increasing(pending'[c]) /\ Increasing(wire'[c])
    BY <1>1, Zenon DEF Order, Sorted
  <2>2. cur' = c => Increasing(inbox')
    BY <1>1, Zenon DEF Order, Sorted
  <2> QED
    BY <2>1, <2>2, Zenon DEF Order, Sorted
<1>3. Replied(c)' = Replied(c)
  BY Zenon DEF Replied
<1>4. InHand(c)' \subseteq InHand(c)
  BY Zenon DEF InHand
<1>5. /\ Waiting(c)' \subseteq Waiting(c)
      /\ Arriving(c)' \subseteq Arriving(c)
  BY <1>1 DEF Waiting, Arriving, Elements
<1>6. Unsplit(c)' \subseteq Unsplit(c)
  BY <1>1 DEF Unsplit, Elements
<1>7. sent'[c] = sent[c] /\ sent[c] \in Nat
  BY Zenon DEF TypeOK
<1>8. Chain(Replied(c), InHand(c)', Waiting(c)', Unsplit(c)', Arriving(c)', sent[c])
  BY <1>4, <1>5, <1>6, <1>7, ChainShrinks DEF Order
<1> QED
  BY <1>2, <1>3, <1>7, <1>8, Zenon DEF Order

(* A step that concerns the clients, the waiting or the stopping of the     *)
(* event loop only.                                                         *)
LEMMA QuietStep ==
  ASSUME Inv, UNCHANGED <<sent, replies, conns, kernel, handler, tasks, workers>>,
         DOMAIN peer' = Clients, wire' \in [Clients -> Seq(Nat)],
         \A c \in Clients : wire'[c] \in {wire[c], <<>>},
         \A c \in Clients : peer'[c] \in {"off", "backlog"} => peer[c] \in {"off", "backlog"},
         \/ lpc' = lpc
         \/ lpc \notin Handling /\ lpc' \notin Handling
         \/ lpc = "split" /\ lpc' = "dispatch" /\ inbox = <<>>,
         lpc' \in {"drained", "destroyed"} =>
             \/ lpc' = lpc
             \/ tasks = <<>> /\ \A w \in Workers : job[w] = Nobody
  PROVE  Inv'
<1> USE DEF conns, kernel, handler, workers
<1>1. TypeOK'
  BY Zenon DEF Inv, TypeOK
<1>2. AtTheHandler'
  BY Zenon DEF Inv, AtTheHandler, Handling
<1>3. Descriptors'
  BY Zenon DEF Inv, Descriptors, Registered, Opened, Served, Unconnected
<1>4. Unique'
  BY DEF Inv, Unique
<1>5. \A c \in Clients : HasTask(c)' <=> HasTask(c)
  BY Zenon DEF HasTask
<1>6. Strands'
  BY <1>5, Zenon DEF Inv, Strands
<1>7. ASSUME NEW c \in Clients PROVE Order(c)'
  BY OrderShrinks, Zenon DEF Inv
<1> QED
  BY <1>1, <1>2, <1>3, <1>4, <1>6, <1>7, Zenon DEF Inv

LEMMA IdleSteps ==
  ASSUME Inv,
         \/ \E c \in Clients : Connect(c) \/ HalfClose(c) \/ Reset(c) \/ AcceptCannotRegister(c)
         \/ StopStores \/ StopWakes
         \/ RunBegins \/ LoopChecks \/ KeventReturns \/ BatchEnds
         \/ HandleWake \/ HandleListen \/ AcceptEnds \/ SplitEnds \/ DestroyDrains
         \/ UNCHANGED vars
  PROVE  Inv'
<1>0. /\ DOMAIN peer = Clients /\ wire \in [Clients -> Seq(Nat)]
      /\ \A w \in Workers : wpc[w] = "idle" <=> job[w] = Nobody
  BY Zenon DEF Inv, TypeOK, Strands
<1>1. ASSUME NEW c \in Clients, Connect(c) \/ HalfClose(c) \/ Reset(c) \/ AcceptCannotRegister(c)
      PROVE  Inv'
  <2>1. /\ UNCHANGED <<sent, replies, conns, kernel, handler, tasks, workers>> /\ lpc' = lpc
        /\ DOMAIN peer' = Clients
    BY <1>0, <1>1, Zenon DEF Connect, HalfClose, Reset, AcceptCannotRegister
  <2>2. wire' \in [Clients -> Seq(Nat)] /\ \A d \in Clients : wire'[d] \in {wire[d], <<>>}
    <3>1. wire' = wire \/ \E keep \in {wire[c], <<>>} : wire' = [wire EXCEPT ![c] = keep]
      BY <1>1, Zenon DEF Connect, HalfClose, Reset, AcceptCannotRegister
    <3>2. <<>> \in Seq(Nat)
      OBVIOUS
    <3> QED
      BY <1>0, <3>1, <3>2, Zenon
  <2>3. \A d \in Clients : peer'[d] \in {"off", "backlog"} => peer[d] \in {"off", "backlog"}
    BY <1>0, <1>1, Zenon DEF Connect, HalfClose, Reset, AcceptCannotRegister
  <2> QED
    BY <2>1, <2>2, <2>3, QuietStep, Zenon
<1>2. CASE StopStores \/ StopWakes
  <2>1. /\ UNCHANGED <<clients, replies, conns, kernel, handler, tasks, workers>>
        /\ lpc' = lpc \/ (lpc = "wait" /\ lpc' = "check")
    BY <1>2, Zenon DEF StopStores, StopWakes
  <2> QED
    BY <1>0, <2>1, QuietStep, Zenon DEF clients, Handling
<1>3. CASE RunBegins \/ LoopChecks \/ KeventReturns \/ BatchEnds
  <2>1. /\ UNCHANGED <<clients, replies, conns, kernel, handler, tasks, workers>>
        /\ lpc \in {"start", "check", "wait", "batch"}
        /\ lpc' \in {"check", "wait", "returned", "batch"}
    BY <1>3, Zenon DEF RunBegins, LoopChecks, KeventReturns, BatchEnds
  <2> QED
    BY <1>0, <2>1, QuietStep, Zenon DEF clients, Handling
<1>4. CASE HandleWake \/ HandleListen \/ AcceptEnds
  <2>1. /\ UNCHANGED <<clients, replies, conns, kernel, handler, tasks, workers>>
        /\ lpc \in {"batch", "accept"} /\ lpc' \in {"batch", "accept"}
    BY <1>4, Zenon DEF HandleWake, HandleListen, AcceptEnds
  <2> QED
    BY <1>0, <2>1, QuietStep, Zenon DEF clients, Handling
<1>5. CASE SplitEnds
  BY <1>0, <1>5, QuietStep, Zenon DEF SplitEnds, clients
<1>6. CASE DestroyDrains
  BY <1>0, <1>6, QuietStep, Zenon DEF DestroyDrains, clients, Handling
<1>7. CASE UNCHANGED vars
  BY <1>0, <1>7, QuietStep, Zenon DEF vars, clients
<1> QED
  BY <1>1, <1>2, <1>3, <1>4, <1>5, <1>6, <1>7, Zenon

LEMMA SendStep == ASSUME Inv, NEW c \in Clients, Send(c) PROVE Inv'
<1> USE DEF conns, kernel, handler, workers
<1>1. /\ UNCHANGED <<peer, replies, conns, kernel, lpc, handler, tasks, workers>>
      /\ sent' = [sent EXCEPT ![c] = sent[c] + 1]
  BY Zenon DEF Send
<1>2. PICK line \in {sent'[c], TooLong} : wire' = [wire EXCEPT ![c] = Append(wire[c], line)]
  BY Zenon DEF Send
<1>3. sent[c] \in Nat /\ sent'[c] = sent[c] + 1 /\ line \in Nat /\ wire[c] \in Seq(Nat)
  BY <1>1, <1>2 DEF Inv, TypeOK, TooLong
<1>4. TypeOK'
  <2>1. sent[c] + 1 \in Nat /\ Append(wire[c], line) \in Seq(Nat)
    BY <1>3
  <2>2. sent' \in [Clients -> Nat] /\ wire' \in [Clients -> Seq(Nat)]
    BY <1>1, <1>2, <2>1, Zenon DEF Inv, TypeOK
  <2> QED
    BY <1>1, <2>2, Zenon DEF Inv, TypeOK
<1>5. AtTheHandler' /\ Descriptors' /\ Unique'
  BY <1>1 DEF Inv, AtTheHandler, Descriptors, Registered, Opened, Served, Unconnected, Unique
<1>6. Strands'
  BY <1>1, Zenon DEF Inv, Strands, HasTask
<1>7. ASSUME NEW d \in Clients, d # c PROVE Order(d)'
  <2>1. wire'[d] = wire[d] /\ sent'[d] = sent[d]
    BY <1>1, <1>2, <1>7, Zenon DEF Inv, TypeOK
  <2> QED
    BY <1>1, <2>1, OrderShrinks, Zenon DEF Inv
<1>8. Order(c)'
  <2>1. /\ Sorted(c)
        /\ Chain(Replied(c), InHand(c), Waiting(c), Unsplit(c), Arriving(c), sent[c])
    BY Zenon DEF Inv, Order
  <2>2. wire'[c] = Append(wire[c], line)
    BY <1>2, Zenon DEF Inv, TypeOK
  <2>3. Before(Elements(wire[c]), {line})
    BY <1>3, <2>1 DEF Chain, Before, Arriving
  <2>4. Increasing(wire'[c]) /\ Arriving(c)' = Arriving(c) \cup {line}
    BY <1>3, <2>1, <2>2, <2>3, Appended, Zenon DEF Sorted, Arriving
  <2>5. Sorted(c)'
    BY <1>1, <2>1, <2>4, Zenon DEF Sorted
  <2>6. /\ Replied(c)' = Replied(c) /\ InHand(c)' = InHand(c)
        /\ Waiting(c)' = Waiting(c) /\ Unsplit(c)' = Unsplit(c)
    BY <1>1, Zenon DEF Replied, InHand, Waiting, Unsplit
  <2>7. Chain(Replied(c), InHand(c), Waiting(c), Unsplit(c), Arriving(c) \cup {line}, sent[c] + 1)
    BY <1>3, <2>1, ChainSends, Zenon
  <2> QED
    BY <1>3, <2>4, <2>5, <2>6, <2>7, Zenon DEF Order
<1> QED
  BY <1>4, <1>5, <1>6, <1>7, <1>8, Zenon DEF Inv

(* handleReadable() begins, or an event is ignored. *)
LEMMA HandleClientStep == ASSUME Inv, NEW f \in Fds, HandleClient(f) PROVE Inv'
<1> USE DEF clients, conns, kernel, workers
<1>1. /\ UNCHANGED <<clients, replies, conns, kernel, inbox, dispatches, tasks, workers>>
      /\ lpc = "batch" /\ cur' = connections[f]
      /\ lpc' = IF connections[f] = Nobody THEN "batch" ELSE "read"
  BY Zenon DEF HandleClient
<1>2. dispatches = FALSE /\ inbox = <<>> /\ cur = Nobody
  BY <1>1, Zenon DEF Inv, AtTheHandler, Handling, TypeOK
<1>3. TypeOK'
  BY <1>1, Zenon DEF Inv, TypeOK
<1>4. AtTheHandler'
  BY <1>1, <1>2, Zenon
     DEF Inv, AtTheHandler, Handling, Descriptors, Registered, Opened, Served, Unconnected
<1>5. Descriptors' /\ Unique'
  BY <1>1, <1>2 DEF Inv, Descriptors, Registered, Opened, Served, Unconnected, Unique
<1>6. Strands'
  BY <1>1, <1>2, Zenon DEF Inv, Strands, HasTask
<1>7. ASSUME NEW c \in Clients PROVE Order(c)'
  BY <1>1, <1>2, OrderShrinks, Zenon DEF Inv
<1> QED
  BY <1>3, <1>4, <1>5, <1>6, <1>7, Zenon DEF Inv

(* acceptClients() takes a connection from the backlog: its descriptor was  *)
(* nobody's, and no task and no handler knows the client.                   *)
LEMMA AcceptStep == ASSUME Inv, NEW c \in Clients, Accept(c) PROVE Inv'
<1> USE DEF handler, workers
<1>1. PICK f \in FreeFds :
        /\ file' = [file EXCEPT ![f] = c]
        /\ fd' = [fd EXCEPT ![c] = f]
        /\ connections' = IF connections[f] = Nobody THEN [connections EXCEPT ![f] = c]
                          ELSE connections
  BY Zenon DEF Accept
<1>2. /\ UNCHANGED <<sent, wire, replies, pending, busy, closed, lpc, handler, tasks, workers>>
      /\ peer[c] = "backlog" /\ peer' = [peer EXCEPT ![c] = "open"] /\ lpc = "accept"
  BY Zenon DEF Accept, Backlog
<1>3. f \in Fds /\ f # NoFd /\ file[f] = Nobody /\ c # Nobody
  BY ServerAssumption DEF FreeFds, NoFd
<1>4. /\ connections[f] = Nobody /\ fd[c] = NoFd /\ ~closed[c] /\ ~busy[c]
      /\ \A g \in Fds : file[g] # c /\ connections[g] # c
  BY <1>2, <1>3, ServerAssumption
     DEF Inv, TypeOK, Descriptors, Registered, Opened, Served, Unconnected, NoFd
<1>5. /\ cur = Nobody /\ dispatches = FALSE /\ inbox = <<>>
  BY <1>2, Zenon DEF Inv, AtTheHandler, Handling, TypeOK
<1>6. connections' = [connections EXCEPT ![f] = c]
  BY <1>1, <1>4, Zenon
<1>7. TypeOK'
  BY <1>1, <1>2, <1>3, <1>6 DEF Inv, TypeOK
<1>8. AtTheHandler'
  BY <1>2, <1>5, Zenon DEF Inv, AtTheHandler, Handling
<1>9. Descriptors'
  <2>0. /\ \A g \in Fds : /\ connections[g] \in Clients \cup {Nobody}
                          /\ file[g] \in Clients \cup {Nobody}
        /\ Registered /\ Opened /\ Served
    BY DEF Inv, TypeOK, Descriptors, Registered, Opened, Served, Unconnected
  <2>1. \A g \in Fds : /\ file'[g] = IF g = f THEN c ELSE file[g]
                       /\ connections'[g] = IF g = f THEN c ELSE connections[g]
    BY <1>1, <1>6, Zenon DEF Inv, TypeOK
  <2>2. \A d \in Clients : /\ fd'[d] = IF d = c THEN f ELSE fd[d]
                           /\ peer'[d] = IF d = c THEN "open" ELSE peer[d]
    BY <1>1, <1>2, Zenon DEF Inv, TypeOK
  <2>3. ASSUME NEW g \in Fds, connections'[g] # Nobody
        PROVE  /\ fd'[connections'[g]] = g /\ file'[g] = connections'[g]
               /\ ~closed'[connections'[g]]
    BY <1>2, <1>4, <2>0, <2>1, <2>2, <2>3 DEF Registered
  <2>4. ASSUME NEW g \in Fds, file'[g] # Nobody
        PROVE  /\ fd'[file'[g]] = g
               /\ connections'[g] = file'[g] \/ (busy'[file'[g]] /\ closed'[file'[g]])
    BY <1>2, <1>4, <2>0, <2>1, <2>2, <2>4 DEF Opened
  <2>5. ASSUME NEW d \in Clients, busy'[d] PROVE fd'[d] \in Fds /\ file'[fd'[d]] = d
    <3>1. d # c /\ d # Nobody /\ fd[d] \in Fds /\ file[fd[d]] = d
      BY <1>2, <1>4, <2>0, <2>5, ServerAssumption, Zenon DEF Served
    <3> QED
      BY <1>3, <2>1, <2>2, <3>1, Zenon
  <2>6. ASSUME NEW d \in Clients
        PROVE  /\ fd'[d] = NoFd => ~closed'[d]
               /\ peer'[d] \in {"off", "backlog"} => fd'[d] = NoFd
    BY <1>2, <1>3, <2>2 DEF Inv, Descriptors, Registered, Opened, Served, Unconnected
  <2> QED
    BY <2>3, <2>4, <2>5, <2>6, Zenon DEF Descriptors, Registered, Opened, Served, Unconnected
<1>10. Unique'
  BY <1>2, Zenon DEF Inv, Unique
<1>11. Strands'
  BY <1>2, Zenon DEF Inv, Strands, HasTask
<1>12. ASSUME NEW d \in Clients PROVE Order(d)'
  BY <1>2, OrderShrinks, Zenon DEF Inv
<1> QED
  BY <1>7, <1>8, <1>9, <1>10, <1>11, <1>12, Zenon DEF Inv

(* handleReadable() reads what has arrived: its descriptor is its own. *)
LEMMA ReadsStep == ASSUME Inv, Reads PROVE Inv'
<1> USE DEF conns, kernel, workers
<1>1. /\ UNCHANGED <<peer, sent, replies, conns, kernel, cur, dispatches, tasks, workers>>
      /\ lpc = "read" /\ lpc' = "split"
  BY Zenon DEF Reads
<1>2. cur \in Clients /\ Socket(cur) = cur /\ inbox = <<>> /\ dispatches = FALSE
  BY <1>1, ServerAssumption, Zenon
     DEF Inv, AtTheHandler, Handling, TypeOK, Descriptors, Registered, Opened, Served,
         Unconnected, Socket
<1>3. inbox' = wire[cur] /\ wire' = [wire EXCEPT ![cur] = <<>>]
  BY <1>2, ServerAssumption, Zenon DEF Reads
<1>4. TypeOK'
  <2>1. <<>> \in Seq(Nat) /\ wire[cur] \in Seq(Nat)
    BY <1>2, Zenon DEF Inv, TypeOK
  <2>2. inbox' \in Seq(Nat) /\ wire' \in [Clients -> Seq(Nat)]
    BY <1>2, <1>3, <2>1, Zenon DEF Inv, TypeOK
  <2> QED
    BY <1>1, <2>2, Zenon DEF Inv, TypeOK
<1>5. AtTheHandler'
  BY <1>1, <1>2, Zenon DEF Inv, AtTheHandler, Handling
<1>6. Descriptors'
  BY <1>1, Zenon DEF Inv, Descriptors, Registered, Opened, Served, Unconnected
<1>6a. Unique'
  BY <1>1, Zenon DEF Inv, Unique
<1>7. Strands'
  BY <1>1, Zenon DEF Inv, Strands, HasTask
<1>8. ASSUME NEW d \in Clients, d # cur PROVE Order(d)'
  <2>1. wire'[d] = wire[d]
    BY <1>3, <1>8, Zenon DEF Inv, TypeOK
  <2> QED
    BY <1>1, <1>8, <2>1, OrderShrinks, Zenon DEF Inv
<1>9. ASSUME NEW c \in Clients, c = cur PROVE Order(c)'
  <2>1. /\ Sorted(c)
        /\ Chain(Replied(c), InHand(c), Waiting(c), Unsplit(c), Arriving(c), sent[c])
    BY <1>2, Zenon DEF Inv, Order
  <2>2. wire'[c] = <<>> /\ cur' = c
    BY <1>1, <1>2, <1>3, <1>9, Zenon DEF Inv, TypeOK
  <2>3. Unsplit(c)' = Arriving(c) /\ Arriving(c)' = {}
    BY <1>3, <1>9, <2>2 DEF Unsplit, Arriving, Elements
  <2>3a. Replied(c)' = Replied(c) /\ InHand(c)' = InHand(c) /\ Waiting(c)' = Waiting(c)
    BY <1>1, Zenon DEF Replied, InHand, Waiting
  <2>4. Sorted(c)'
    <3>1. Increasing(<<>>) /\ Increasing(inbox')
      BY <1>3, <1>9, <2>1 DEF Sorted, Increasing
    <3>2. UNCHANGED <<replies, pending>>
      BY <1>1, Zenon
    <3> QED
      BY <2>1, <2>2, <3>1, <3>2, Zenon DEF Sorted
  <2>5. sent[c] \in Nat /\ sent'[c] = sent[c]
    BY <1>1, <1>2, Zenon DEF Inv, TypeOK
  <2>6. Chain(Replied(c), InHand(c), Waiting(c), Arriving(c), {}, sent[c])
    BY <2>1, <2>5, ChainReads, Zenon
  <2> QED
    BY <2>3, <2>3a, <2>4, <2>5, <2>6, Zenon DEF Order
<1> QED
  BY <1>4, <1>5, <1>6, <1>6a, <1>7, <1>8, <1>9, Zenon DEF Inv

(* A line goes from the inbox to the strand, and whoever finds no task for  *)
(* the connection becomes the one to dispatch it.                           *)
LEMMA SplitLineStep == ASSUME Inv, SplitLine PROVE Inv'
<1> USE DEF clients, kernel, workers
<1>1. /\ UNCHANGED <<clients, replies, fd, closed, kernel, lpc, cur, tasks, workers>>
      /\ lpc = "split" /\ inbox # <<>>
  BY Zenon DEF SplitLine
<1>2. cur \in Clients /\ inbox \in Seq(Nat) /\ fd[cur] \in Fds /\ connections[fd[cur]] = cur
  BY <1>1, ServerAssumption, Zenon DEF Inv, AtTheHandler, Handling, TypeOK
<1>3. CASE inbox' = <<>> /\ UNCHANGED <<pending, busy, dispatches>>
  <2>1. TypeOK'
    <3>1. inbox' \in Seq(Nat)
      BY <1>3
    <3> QED
      BY <1>1, <1>3, <3>1, Zenon DEF Inv, TypeOK
  <2>2. AtTheHandler' /\ Descriptors' /\ Unique'
    BY <1>1, <1>3
       DEF Inv, AtTheHandler, Descriptors, Registered, Opened, Served, Unconnected, Unique
  <2>3. Strands'
    BY <1>1, <1>3, Zenon DEF Inv, Strands, HasTask
  <2>4. ASSUME NEW c \in Clients PROVE Order(c)'
    BY <1>1, <1>3, OrderShrinks, Zenon DEF Inv
  <2> QED
    BY <2>1, <2>2, <2>3, <2>4, Zenon DEF Inv
<1>4. CASE /\ ~Exceeds
           /\ pending' = [pending EXCEPT ![cur] = Append(pending[cur], Head(inbox))]
           /\ inbox' = Tail(inbox)
           /\ busy' = [busy EXCEPT ![cur] = TRUE]
           /\ dispatches' = ShouldDispatch
  <2>1. PICK x \in Nat : x = Head(inbox) /\ x # TooLong
    <3>1. Head(inbox) \in Nat
      BY <1>1, <1>2
    <3>2. Head(inbox) # TooLong
      BY <1>4, Zenon DEF Exceeds
    <3> QED
      BY <3>1, <3>2, Zenon
  <2>2. PICK rest \in Seq(Nat) : rest = Tail(inbox)
    <3>1. Tail(inbox) \in Seq(Nat)
      BY <1>1, <1>2
    <3> QED
      BY <3>1, Zenon
  <2>3. pending[cur] \in Seq(Nat) /\ Append(pending[cur], x) \in Seq(Nat)
    BY <1>2, <2>1 DEF Inv, TypeOK
  <2>4. dispatches' = (dispatches \/ ~busy[cur])
    BY <1>4, Zenon DEF ShouldDispatch
  <2>5. \A c \in Clients : busy'[c] = IF c = cur THEN TRUE ELSE busy[c]
    BY <1>2, <1>4, Zenon DEF Inv, TypeOK
  <2>5a. \A c \in Clients : pending'[c] = IF c = cur THEN Append(pending[cur], x) ELSE pending[c]
    BY <1>2, <1>4, <2>1, Zenon DEF Inv, TypeOK
  <2>6. TypeOK'
    <3>1. pending' \in [Clients -> Seq(Nat)]
      BY <1>2, <1>4, <2>1, <2>3, Zenon DEF Inv, TypeOK
    <3>2. busy' \in [Clients -> BOOLEAN] /\ dispatches' \in BOOLEAN
      BY <1>2, <1>4, <2>4, Zenon DEF Inv, TypeOK
    <3>3. inbox' \in Seq(Nat)
      BY <1>4, <2>2, Zenon
    <3> QED
      BY <1>1, <3>1, <3>2, <3>3, Zenon DEF Inv, TypeOK
  <2>7. AtTheHandler'
    BY <1>1, Zenon DEF Inv, AtTheHandler
  <2>8. Descriptors'
    <3>0. /\ file \in [Fds -> Clients \cup {Nobody}] /\ UNCHANGED <<fd, closed, file, connections>>
          /\ Registered /\ Opened /\ Served
      BY <1>1, Zenon DEF Inv, TypeOK, Descriptors
    <3>1. Registered' /\ Unconnected'
      BY <1>1, Zenon DEF Inv, Descriptors, Registered, Unconnected
    <3>2. Opened'
      <4>1. ASSUME NEW f \in Fds, file[f] # Nobody PROVE file[f] \in Clients /\ (busy[file[f]] => busy'[file[f]])
        BY <2>5, <3>0, <4>1, Zenon
      <4> QED
        BY <3>0, <4>1, Zenon DEF Opened
    <3>3. Served'
      <4>0. cur # Nobody
        BY <1>2, ServerAssumption, Zenon
      <4>1. file[fd[cur]] = cur
        BY <1>2, <3>0, <4>0, Zenon DEF Registered
      <4> QED
        BY <1>2, <2>5, <3>0, <4>1, Zenon DEF Served
    <3> QED
      BY <3>1, <3>2, <3>3, Zenon DEF Descriptors
  <2>9. dispatches' => /\ \A i \in 1..Len(tasks) : tasks[i] # cur
                       /\ \A w \in Workers : job[w] # cur
    BY <1>2, <2>4, Zenon DEF Inv, Unique, Strands, HasTask
  <2>10. Unique'
    BY <1>1, <2>9, Zenon DEF Inv, Unique
  <2>11. Strands'
    <3>0. busy[cur] <=> HasTask(cur)
      BY <1>2, Zenon DEF Inv, Strands
    <3>1. ASSUME NEW c \in Clients PROVE busy'[c] <=> HasTask(c)'
      <4>1. UNCHANGED <<cur, tasks, job>> /\ (busy[c] <=> HasTask(c))
        BY <1>1, Zenon DEF Inv, Strands
      <4>2. CASE c = cur
        <5>1. busy'[c] /\ (HasTask(cur) => dispatches \/ HasTask(c)')
          BY <2>5, <4>1, <4>2, Zenon DEF HasTask
        <5>2. dispatches' => HasTask(c)'
          BY <4>1, <4>2, Zenon DEF HasTask
        <5> QED
          BY <2>4, <3>0, <5>1, <5>2, Zenon
      <4>3. CASE c # cur
        <5>1. (HasTask(c)' <=> HasTask(c)) /\ busy'[c] = busy[c]
          BY <2>5, <4>1, <4>3, Zenon DEF HasTask
        <5> QED
          BY <4>1, <5>1, Zenon
      <4> QED
        BY <4>2, <4>3, Zenon
    <3>2. ASSUME NEW c \in Clients PROVE pending'[c] # <<>> => busy'[c]
      BY <2>5, <2>5a, Zenon DEF Inv, Strands
    <3> QED
      BY <1>1, <3>1, <3>2, Zenon DEF Inv, Strands
  <2>12. ASSUME NEW c \in Clients, c # cur PROVE Order(c)'
    BY <1>1, <2>5a, <2>12, OrderShrinks, Zenon DEF Inv
  <2>13. ASSUME NEW c \in Clients, c = cur PROVE Order(c)'
    <3>1. /\ Sorted(c)
          /\ Chain(Replied(c), InHand(c), Waiting(c), Unsplit(c), Arriving(c), sent[c])
      BY Zenon DEF Inv, Order
    <3>2. cur' = c /\ inbox' = rest /\ pending'[c] = Append(pending[c], x) /\ Increasing(inbox)
      BY <1>1, <1>4, <2>2, <2>5a, <2>13, <3>1, Zenon DEF Sorted
    <3>3. /\ x \in Elements(inbox) /\ Elements(rest) \in SUBSET Elements(inbox)
          /\ Increasing(rest) /\ Before({x}, Elements(rest))
      BY <1>1, <1>2, <2>1, <2>2, <3>2, Removed, Zenon
    <3>4. Unsplit(c) = Elements(inbox) /\ Unsplit(c)' = Elements(rest)
      BY <2>13, <3>2, Zenon DEF Unsplit
    <3>5. Before(Elements(pending[c]), {x})
      BY <3>1, <3>3, <3>4, Zenon DEF Chain, Before, Waiting
    <3>6. Increasing(pending'[c]) /\ Waiting(c)' = Waiting(c) \cup {x}
      BY <2>1, <2>3, <2>13, <3>1, <3>2, <3>5, Appended, Zenon DEF Sorted, Waiting
    <3>7. Sorted(c)'
      BY <1>1, <3>1, <3>2, <3>3, <3>6, Zenon DEF Sorted
    <3>8. /\ Replied(c)' = Replied(c) /\ InHand(c)' = InHand(c) /\ Arriving(c)' = Arriving(c)
          /\ sent'[c] = sent[c] /\ sent[c] \in Nat
      BY <1>1, Zenon DEF Replied, InHand, Arriving, Inv, TypeOK
    <3>9. Chain(Replied(c), InHand(c), Waiting(c) \cup {x}, Elements(rest), Arriving(c), sent[c])
      BY <2>1, <3>1, <3>3, <3>4, <3>8, ChainSplits, Zenon
    <3> QED
      BY <3>4, <3>6, <3>7, <3>8, <3>9, Zenon DEF Order
  <2> QED
    BY <2>6, <2>7, <2>8, <2>10, <2>11, <2>12, <2>13, Zenon DEF Inv
<1> QED
  BY <1>3, <1>4, Zenon DEF SplitLine

LEMMA DispatchesStep == ASSUME Inv, Dispatches PROVE Inv'
<1> USE DEF clients, conns, kernel, workers
<1>1. /\ UNCHANGED <<clients, replies, conns, kernel, cur, inbox, workers>>
      /\ lpc = "dispatch" /\ lpc' = "drop" /\ dispatches' = FALSE
      /\ tasks' = IF dispatches THEN Append(tasks, cur) ELSE tasks
  BY Zenon DEF Dispatches
<1>2. cur \in Clients /\ tasks \in Seq(Clients) /\ dispatches \in BOOLEAN
  BY <1>1, ServerAssumption, Zenon DEF Inv, AtTheHandler, Handling, TypeOK
<1>3. /\ tasks' \in Seq(Clients)
      /\ Len(tasks') = IF dispatches THEN Len(tasks) + 1 ELSE Len(tasks)
      /\ \A i \in 1..Len(tasks) : tasks'[i] = tasks[i]
      /\ dispatches => tasks'[Len(tasks) + 1] = cur
      /\ Len(tasks) \in Nat
  BY <1>1, <1>2
<1>4. TypeOK'
  BY <1>1, <1>3, Zenon DEF Inv, TypeOK
<1>5. AtTheHandler' /\ Descriptors'
  BY <1>1, Zenon
     DEF Inv, AtTheHandler, Handling, Descriptors, Registered, Opened, Served, Unconnected
<1>6. Unique'
  <2>1. ASSUME NEW i \in 1..Len(tasks'), NEW j \in 1..Len(tasks'), tasks'[i] = tasks'[j]
        PROVE  i = j
    BY <1>2, <1>3, <2>1 DEF Inv, Unique
  <2>2. ASSUME NEW i \in 1..Len(tasks'), NEW w \in Workers PROVE tasks'[i] # job[w]
    BY <1>2, <1>3, <2>2 DEF Inv, Unique
  <2> QED
    BY <1>1, <2>1, <2>2, Zenon DEF Inv, Unique
<1>7. Strands'
  <2>1. ASSUME NEW c \in Clients PROVE HasTask(c)' <=> HasTask(c)
    BY <1>1, <1>2, <1>3 DEF HasTask
  <2> QED
    BY <1>1, <2>1, Zenon DEF Inv, Strands
<1>8. ASSUME NEW c \in Clients PROVE Order(c)'
  BY <1>1, OrderShrinks, Zenon DEF Inv
<1> QED
  BY <1>4, <1>5, <1>6, <1>7, <1>8, Zenon DEF Inv

(* A dropped connection's descriptor is closed at once, or left to its task. *)
LEMMA DropsStep == ASSUME Inv, Drops PROVE Inv'
<1> USE DEF clients, conns, kernel, workers, handler
<1>1. /\ UNCHANGED <<clients, replies, fd, pending, busy, inbox, dispatches, tasks, workers>>
      /\ lpc = "drop" /\ lpc' = "batch" /\ cur' = Nobody
  BY Zenon DEF Drops
<1>2. /\ cur \in Clients /\ fd[cur] \in Fds /\ connections[fd[cur]] = cur
      /\ ~dispatches /\ inbox = <<>>
  BY <1>1, ServerAssumption, Zenon DEF Inv, AtTheHandler, Handling, TypeOK
<1>3. /\ file \in [Fds -> Clients \cup {Nobody}] /\ connections \in [Fds -> Clients \cup {Nobody}]
      /\ closed \in [Clients -> BOOLEAN] /\ Nobody \notin Clients
      /\ Registered /\ Opened /\ Served /\ Unconnected
  BY ServerAssumption, Zenon DEF Inv, TypeOK, Descriptors
<1>4. \/ UNCHANGED <<file, connections, closed>>
      \/ /\ connections' = [connections EXCEPT ![fd[cur]] = Nobody]
         /\ closed' = [closed EXCEPT ![cur] = TRUE]
         /\ IF busy[cur] THEN file' = file ELSE file' = [file EXCEPT ![fd[cur]] = Nobody]
  BY Zenon DEF Drops, ClosesNow, CloseFd
<1>5. TypeOK'
  <2>1. /\ file' \in [Fds -> Clients \cup {Nobody}] /\ connections' \in [Fds -> Clients \cup {Nobody}]
        /\ closed' \in [Clients -> BOOLEAN]
    BY <1>2, <1>3, <1>4, Zenon
  <2> QED
    BY <1>1, <2>1, Zenon DEF Inv, TypeOK
<1>6. AtTheHandler'
  BY <1>1, <1>2, Zenon DEF AtTheHandler, Handling
<1>7. Descriptors'
  <2>1. CASE UNCHANGED <<file, connections, closed>>
    BY <1>1, <1>3, <2>1, Zenon DEF Descriptors, Registered, Opened, Served, Unconnected
  <2>2. CASE /\ connections' = [connections EXCEPT ![fd[cur]] = Nobody]
             /\ closed' = [closed EXCEPT ![cur] = TRUE]
             /\ IF busy[cur] THEN file' = file ELSE file' = [file EXCEPT ![fd[cur]] = Nobody]
    <3>1. \A f \in Fds : connections'[f] = IF f = fd[cur] THEN Nobody ELSE connections[f]
      BY <1>2, <1>3, <2>2, Zenon
    <3>2. \A f \in Fds : file'[f] = IF f = fd[cur] /\ ~busy[cur] THEN Nobody ELSE file[f]
      BY <1>2, <1>3, <2>2, Zenon
    <3>3. \A c \in Clients : closed'[c] = IF c = cur THEN TRUE ELSE closed[c]
      BY <1>2, <1>3, <2>2, Zenon
    <3>4. UNCHANGED <<busy, fd>> /\ cur # Nobody /\ file[fd[cur]] = cur
      BY <1>1, <1>2, <1>3, Zenon DEF Registered
    <3>5. Registered'
      <4>1. SUFFICES ASSUME NEW f \in Fds, connections'[f] # Nobody
                     PROVE  /\ fd[connections'[f]] = f
                            /\ file'[f] = connections'[f]
                            /\ ~closed'[connections'[f]]
        BY <3>4, Zenon DEF Registered
      <4>2. f # fd[cur] /\ connections'[f] = connections[f] /\ file'[f] = file[f]
        BY <3>1, <3>2, <4>1, Zenon
      <4>3. /\ connections[f] \in Clients
            /\ fd[connections[f]] = f /\ file[f] = connections[f] /\ ~closed[connections[f]]
        BY <1>3, <4>1, <4>2, Zenon DEF Registered
      <4> QED
        BY <3>3, <4>2, <4>3, Zenon
    <3>6. Opened'
      <4>1. SUFFICES ASSUME NEW f \in Fds, file'[f] # Nobody
                     PROVE  /\ fd[file'[f]] = f
                            /\ connections'[f] = file'[f] \/ (busy[file'[f]] /\ closed'[file'[f]])
        BY <3>4, Zenon DEF Opened
      <4>2. file'[f] = file[f] /\ file[f] \in Clients /\ (f = fd[cur] => busy[cur] /\ file[f] = cur)
        BY <1>3, <3>2, <3>4, <4>1, Zenon
      <4>3. fd[file[f]] = f /\ (connections[f] = file[f] \/ (busy[file[f]] /\ closed[file[f]]))
        BY <1>3, <4>1, <4>2, Zenon DEF Opened
      <4> QED
        BY <3>1, <3>3, <4>2, <4>3, Zenon
    <3>7. Served'
      BY <1>2, <1>3, <3>2, <3>4 DEF Served
    <3>8. Unconnected'
      <4>1. fd[cur] # NoFd
        BY <1>2, ServerAssumption DEF NoFd
      <4>2. \A c \in Clients : fd'[c] = NoFd => ~closed'[c]
        BY <1>3, <3>3, <3>4, <4>1, Zenon DEF Unconnected
      <4> QED
        BY <1>1, <1>3, <4>2, Zenon DEF Unconnected
    <3> QED
      BY <3>5, <3>6, <3>7, <3>8, Zenon DEF Descriptors
  <2> QED
    BY <1>4, <2>1, <2>2, Zenon
<1>8. Unique' /\ Strands'
  BY <1>1, <1>2, Zenon DEF Inv, Unique, Strands, HasTask
<1>9. ASSUME NEW c \in Clients PROVE Order(c)'
  BY <1>1, <1>2, OrderShrinks, ServerAssumption, Zenon DEF Inv
<1> QED
  BY <1>5, <1>6, <1>7, <1>8, <1>9, Zenon DEF Inv

(* By the time the destructor closes what is left, no task exists. *)
LEMMA DestroyClosesStep == ASSUME Inv, DestroyCloses PROVE Inv'
<1> USE DEF clients, conns, kernel, workers, handler
<1>1. /\ UNCHANGED <<clients, replies, conns, handler, tasks, workers>>
      /\ lpc = "drained" /\ lpc' = "destroyed"
      /\ file' = [f \in Fds |-> IF connections[f] # Nobody THEN Nobody ELSE file[f]]
      /\ connections' = [f \in Fds |-> Nobody]
  BY Zenon DEF DestroyCloses
<1>2. cur = Nobody /\ ~dispatches /\ tasks = <<>> /\ \A w \in Workers : job[w] = Nobody
  BY <1>1, Zenon DEF Inv, AtTheHandler, Strands, Handling
<1>3. \A c \in Clients : ~busy[c]
  BY <1>2, ServerAssumption DEF Inv, Strands, HasTask
<1>4. \A f \in Fds : file'[f] = Nobody /\ connections'[f] = Nobody
  BY <1>1, <1>3, Zenon DEF Inv, TypeOK, Descriptors, Opened
<1>5. TypeOK'
  <2>1. file' \in [Fds -> Clients \cup {Nobody}] /\ connections' \in [Fds -> Clients \cup {Nobody}]
    BY <1>1, <1>4, Zenon
  <2> QED
    BY <1>1, <2>1, Zenon DEF Inv, TypeOK
<1>6. AtTheHandler'
  BY <1>1, <1>2, Zenon DEF Inv, AtTheHandler, Handling
<1>7. Descriptors'
  BY <1>1, <1>3, <1>4, Zenon DEF Inv, Descriptors, Registered, Opened, Served, Unconnected
<1>8. Unique' /\ Strands'
  <2>1. UNCHANGED <<busy, pending, cur, dispatches, tasks, wpc, job>>
    BY <1>1, Zenon
  <2>2. \A c \in Clients : HasTask(c)' <=> HasTask(c)
    BY <2>1, Zenon DEF HasTask
  <2>3. Unique'
    BY <2>1, Zenon DEF Inv, Unique
  <2> QED
    BY <1>2, <2>1, <2>2, <2>3, Zenon DEF Inv, Strands
<1>9. ASSUME NEW c \in Clients PROVE Order(c)'
  BY <1>1, OrderShrinks, Zenon DEF Inv
<1> QED
  BY <1>5, <1>6, <1>7, <1>8, <1>9, Zenon DEF Inv


-----------------------------------------------------------------------------
(* The workers. *)
LEMMA TaskBeginsStep == ASSUME Inv, NEW w \in Workers, TaskBegins(w) PROVE Inv'
<1> USE DEF clients, conns, kernel, handler
<1>1. /\ UNCHANGED <<clients, replies, conns, kernel, lpc, handler, query>>
      /\ wpc[w] = "idle" /\ tasks # <<>> /\ tasks' = Tail(tasks)
  BY Zenon DEF TaskBegins
<1>2. tasks \in Seq(Clients) /\ Nobody \notin Clients
  BY ServerAssumption, Zenon DEF Inv, TypeOK
<1>3. PICK c \in Clients : c = Head(tasks)
  BY <1>1, <1>2
<1>4. /\ tasks' \in Seq(Clients) /\ Len(tasks) \in Nat /\ Len(tasks) >= 1 /\ tasks[1] = c
      /\ Len(tasks') = Len(tasks) - 1
      /\ \A i \in 1..Len(tasks') : tasks'[i] = tasks[i + 1] /\ i + 1 \in 1..Len(tasks)
  BY <1>1, <1>2, <1>3
<1>5. /\ \A v \in Workers : job'[v] = IF v = w THEN c ELSE job[v]
      /\ \A v \in Workers : wpc'[v] = IF v = w THEN "drain" ELSE wpc[v]
      /\ job[w] = Nobody
  BY <1>1, <1>3, Zenon DEF TaskBegins, Inv, TypeOK, Strands
<1>6. TypeOK'
  <2>1. job' \in [Workers -> Clients \cup {Nobody}]
    BY <1>3, Zenon DEF Inv, TypeOK, TaskBegins
  <2>2. wpc' \in [Workers -> {"idle", "drain", "reply", "failed"}]
    BY Zenon DEF Inv, TypeOK, TaskBegins
  <2> QED
    BY <1>1, <1>4, <2>1, <2>2, Zenon DEF Inv, TypeOK
<1>7. AtTheHandler' /\ Descriptors'
  BY <1>1, Zenon DEF Inv, AtTheHandler, Descriptors, Registered, Opened, Served, Unconnected
<1>8. Unique'
  <2>0. Unique /\ 1 \in 1..Len(tasks) /\ UNCHANGED <<cur, dispatches>>
    BY <1>1, <1>4 DEF Inv
  <2>1. ASSUME NEW i \in 1..Len(tasks'), NEW j \in 1..Len(tasks'), tasks'[i] = tasks'[j]
        PROVE  i = j
    BY <1>4, <2>0, <2>1 DEF Unique
  <2>2. ASSUME NEW i \in 1..Len(tasks'), NEW v \in Workers PROVE tasks'[i] # job'[v]
    <3>1. i + 1 \in 1..Len(tasks) /\ tasks'[i] = tasks[i + 1] /\ i + 1 # 1
      BY <1>4
    <3>2. tasks[i + 1] # tasks[1] /\ tasks[i + 1] # job[v]
      BY <2>0, <3>1, Zenon DEF Unique
    <3> QED
      BY <1>4, <1>5, <3>1, <3>2, Zenon
  <2>3. ASSUME NEW u \in Workers, NEW v \in Workers, job'[u] = job'[v], job'[u] # Nobody PROVE u = v
    BY <1>4, <1>5, <2>0, <2>3 DEF Unique
  <2>4. dispatches' => /\ \A i \in 1..Len(tasks') : tasks'[i] # cur'
                       /\ \A v \in Workers : job'[v] # cur'
    BY <1>4, <1>5, <2>0 DEF Unique
  <2> QED
    BY <2>1, <2>2, <2>3, <2>4, Zenon DEF Unique
<1>9. Strands'
  <2>0. Strands /\ UNCHANGED <<cur, dispatches, busy, pending, lpc>>
    BY <1>1, Zenon DEF Inv
  <2>1. ASSUME NEW d \in Clients PROVE HasTask(d)' <=> HasTask(d)
    <3>1. (\E i \in 1..Len(tasks) : tasks[i] = d) <=> (d = c \/ \E i \in 1..Len(tasks') : tasks'[i] = d)
      <4>1. ASSUME NEW i \in 1..Len(tasks), tasks[i] = d, d # c PROVE \E j \in 1..Len(tasks') : tasks'[j] = d
        <5>1. i # 1 /\ i - 1 \in 1..Len(tasks') /\ (i - 1) + 1 = i
          BY <1>4, <4>1
        <5> QED
          BY <1>4, <4>1, <5>1, Zenon
      <4>2. 1 \in 1..Len(tasks)
        BY <1>4
      <4> QED
        BY <1>4, <4>1, <4>2, Zenon
    <3>2. (\E v \in Workers : job'[v] = d) <=> (d = c \/ \E v \in Workers : job[v] = d)
      BY <1>2, <1>5, Zenon
    <3> QED
      BY <2>0, <3>1, <3>2, Zenon DEF HasTask
  <2>2. \A v \in Workers : wpc'[v] = "idle" <=> job'[v] = Nobody
    BY <1>2, <1>5, <2>0, Zenon DEF Strands
  <2>3. lpc \notin {"drained", "destroyed"}
    BY <1>1, <2>0, Zenon DEF Strands
  <2> QED
    BY <2>0, <2>1, <2>2, <2>3, Zenon DEF Strands
<1>10. ASSUME NEW d \in Clients PROVE Order(d)'
  BY <1>1, <1>5, OrderShrinks, Zenon DEF Inv
<1> QED
  BY <1>6, <1>7, <1>8, <1>9, <1>10, Zenon DEF Inv

(* A step of the task at hand that ends nothing. *)
LEMMA StrandFrame ==
  ASSUME Inv, NEW w \in Workers, wpc[w] # "idle",
         UNCHANGED <<clients, fd, busy, closed, kernel, lpc, handler, tasks, job>>,
         \A c \in Clients : pending'[c] # <<>> => pending[c] # <<>>,
         \A v \in Workers : wpc'[v] = "idle" <=> wpc[v] = "idle"
  PROVE  AtTheHandler' /\ Descriptors' /\ Unique' /\ Strands' /\ job[w] \in Clients
<1> USE DEF clients, kernel, handler
<1>1. AtTheHandler' /\ Descriptors'
  BY Zenon DEF Inv, AtTheHandler, Descriptors, Registered, Opened, Served, Unconnected
<1>2. Unique'
  BY DEF Inv, Unique
<1>3. Strands'
  BY Zenon DEF Inv, Strands, HasTask
<1>4. job[w] \in Clients
  BY Zenon DEF Inv, TypeOK, Strands
<1> QED
  BY <1>1, <1>2, <1>3, <1>4, Zenon

LEMMA StrandPopsStep == ASSUME Inv, NEW w \in Workers, StrandPops(w) PROVE Inv'
<1> USE DEF clients, kernel, handler
<1>1. /\ UNCHANGED <<clients, replies, fd, busy, closed, kernel, lpc, handler, tasks, job>>
      /\ wpc[w] = "drain" /\ pending[job[w]] # <<>>
  BY Zenon DEF StrandPops
<1>2. job[w] \in Clients
  BY <1>1, Zenon DEF Inv, TypeOK, Strands
<1>3. PICK c \in Clients : c = job[w]
  BY <1>2, Zenon
<1>4. pending[c] \in Seq(Nat) /\ pending[c] # <<>> /\ Increasing(pending[c])
  BY <1>1, <1>3, Zenon DEF Inv, TypeOK, Order, Sorted
<1>5. PICK x \in Nat : x = Head(pending[c])
  BY <1>4, Removed, Zenon
<1>6. PICK rest \in Seq(Nat) : rest = Tail(pending[c])
  BY <1>4, Removed, Zenon
<1>7. /\ x \in Elements(pending[c]) /\ Elements(rest) \in SUBSET Elements(pending[c])
      /\ Increasing(rest) /\ Before({x}, Elements(rest))
  BY <1>4, <1>5, <1>6, Removed, Zenon
<1>8. /\ \A d \in Clients : pending'[d] = IF d = c THEN rest ELSE pending[d]
      /\ \A v \in Workers : wpc'[v] = IF v = w THEN "reply" ELSE wpc[v]
      /\ \A v \in Workers : query'[v] = IF v = w THEN x ELSE query[v]
  BY <1>3, <1>5, <1>6, Zenon DEF StrandPops, Inv, TypeOK, NextQuery
<1>9. TypeOK'
  <2>1. pending' \in [Clients -> Seq(Nat)]
    BY <1>3, <1>6, Zenon DEF StrandPops, Inv, TypeOK
  <2>2. wpc' \in [Workers -> {"idle", "drain", "reply", "failed"}]
    BY Zenon DEF StrandPops, Inv, TypeOK
  <2>3. query' \in [Workers -> Nat]
    BY <1>3, <1>5, Zenon DEF StrandPops, Inv, TypeOK, NextQuery
  <2> QED
    BY <1>1, <2>1, <2>2, <2>3, Zenon DEF Inv, TypeOK
<1>10. AtTheHandler' /\ Descriptors' /\ Unique' /\ Strands'
  BY <1>1, <1>4, <1>8, StrandFrame, Zenon
<1>11. ASSUME NEW d \in Clients, d # c PROVE Order(d)'
  BY <1>1, <1>3, <1>8, <1>11, OrderShrinks, Zenon DEF Inv
<1>12. Order(c)'
  <2>1. /\ Sorted(c)
        /\ Chain(Replied(c), InHand(c), Waiting(c), Unsplit(c), Arriving(c), sent[c])
    BY Zenon DEF Inv, Order
  <2>2. \A v \in Workers : job[v] = c => v = w
    BY <1>3, ServerAssumption, Zenon DEF Inv, Unique
  <2>3. InHand(c) = {} /\ InHand(c)' = {x}
    BY <1>1, <1>3, <1>8, <2>2 DEF InHand
  <2>4. Waiting(c) = Elements(pending[c]) /\ Waiting(c)' = Elements(rest)
    BY <1>8, Zenon DEF Waiting
  <2>5. /\ Replied(c)' = Replied(c) /\ Unsplit(c)' = Unsplit(c) /\ Arriving(c)' = Arriving(c)
        /\ sent'[c] = sent[c] /\ sent[c] \in Nat
    BY <1>1 DEF Replied, Unsplit, Arriving, Inv, TypeOK
  <2>6. Sorted(c)'
    BY <1>1, <1>7, <1>8, <2>1, Zenon DEF Sorted
  <2>7. Chain(Replied(c), {}, Elements(pending[c]), Unsplit(c), Arriving(c), sent[c])
    BY <2>1, <2>3, <2>4, Zenon
  <2>8. Chain(Replied(c), {x}, Elements(rest), Unsplit(c), Arriving(c), sent[c])
    BY <1>7, <2>5, <2>7, ChainPops, Zenon
  <2> QED
    BY <2>3, <2>4, <2>5, <2>6, <2>8, Zenon DEF Order
<1> QED
  BY <1>9, <1>10, <1>11, <1>12, Zenon DEF Inv

(* A worker writes to the socket of the connection it works for; its query  *)
(* becomes the last of the replies, or is lost.                             *)
LEMMA RepliesStep ==
  ASSUME Inv, NEW w \in Workers, NEW next \in {"drain", "failed"}, NEW whole \in BOOLEAN,
         wpc[w] = "reply",
         wpc' = [wpc EXCEPT ![w] = next],
         query' \in [Workers -> Nat],
         \A v \in Workers : v # w => query'[v] = query[v],
         Reply(w, whole) \/ UNCHANGED replies,
         UNCHANGED <<clients, conns, kernel, lpc, handler, tasks, job>>
  PROVE  Inv'
<1> USE DEF clients, conns, kernel, handler
<1>1. \A v \in Workers : wpc'[v] = IF v = w THEN next ELSE wpc[v]
  BY Zenon DEF Inv, TypeOK
<1>2. AtTheHandler' /\ Descriptors' /\ Unique' /\ Strands' /\ job[w] \in Clients
  BY <1>1, StrandFrame, Zenon
<1>3. PICK c \in Clients : c = job[w]
  BY <1>2, Zenon
<1>4. Socket(job[w]) = c /\ query[w] \in Nat
  <2>1. busy[c]
    BY <1>3, Zenon DEF Inv, Strands, HasTask
  <2> QED
    BY <1>3, <2>1, Zenon DEF Inv, TypeOK, Descriptors, Served, Socket
<1>5. PICK r \in [from : Clients, query : Nat, whole : BOOLEAN] :
        r = [from |-> c, query |-> query[w], whole |-> whole]
  BY <1>4, Zenon
<1>6. \/ UNCHANGED replies
      \/ replies' = [replies EXCEPT ![c] = Append(replies[c], r)]
  BY <1>3, <1>4, <1>5, Zenon DEF Reply
<1>7. TypeOK'
  <2> DEFINE Reply_ == [from : Clients, query : Nat, whole : BOOLEAN]
  <2>1. replies \in [Clients -> Seq(Reply_)] /\ r \in Reply_
    BY <1>5, Zenon DEF Inv, TypeOK
  <2> HIDE DEF Reply_
  <2>2. Append(replies[c], r) \in Seq(Reply_)
    BY <2>1
  <2>3. replies' \in [Clients -> Seq(Reply_)]
    BY <1>6, <2>1, <2>2, Zenon
  <2>4. wpc' \in [Workers -> {"idle", "drain", "reply", "failed"}]
    BY Zenon DEF Inv, TypeOK
  <2> QED
    BY <2>3, <2>4, Zenon DEF Inv, TypeOK, Reply_
<1>8. ASSUME NEW d \in Clients, d # c PROVE Order(d)'
  <2>1. replies'[d] = replies[d]
    BY <1>6, <1>8, Zenon DEF Inv, TypeOK
  <2> QED
    BY <1>1, <1>3, <1>8, <2>1, OrderShrinks DEF Inv
<1>9. Order(c)'
  <2>1. CASE UNCHANGED replies
    BY <1>1, <1>3, <2>1, OrderShrinks, Zenon DEF Inv, Unique, TypeOK
  <2>2. CASE replies' = [replies EXCEPT ![c] = Append(replies[c], r)]
    <3>1. /\ Sorted(c)
          /\ Chain(Replied(c), InHand(c), Waiting(c), Unsplit(c), Arriving(c), sent[c])
      BY Zenon DEF Inv, Order
    <3>2. \A v \in Workers : job[v] = c => v = w
      BY <1>3, ServerAssumption, Zenon DEF Inv, Unique
    <3>3. InHand(c) = {query[w]} /\ InHand(c)' = {}
      BY <1>1, <1>3, <3>2 DEF InHand
    <3>4. replies'[c] = Append(replies[c], r)
      BY <2>2, Zenon DEF Inv, TypeOK
    <3>5. /\ Len(replies[c]) \in Nat /\ Len(replies'[c]) = Len(replies[c]) + 1
          /\ \A i \in 1..Len(replies[c]) : replies'[c][i] = replies[c][i]
          /\ replies'[c][Len(replies[c]) + 1] = r
      <4> DEFINE Reply_ == [from : Clients, query : Nat, whole : BOOLEAN]
      <4>1. replies[c] \in Seq(Reply_) /\ r \in Reply_
        BY <1>5, Zenon DEF Inv, TypeOK
      <4> HIDE DEF Reply_
      <4> QED
        BY <3>4, <4>1
    <3>6. r.from = c /\ r.query = query[w]
      BY <1>5, Zenon
    <3>7. Replied(c)' = Replied(c) \cup {query[w]}
      <4>1. \A i \in 1..Len(replies'[c]) : i \in 1..Len(replies[c]) \/ i = Len(replies[c]) + 1
        BY <3>5
      <4>2. \A i \in 1..Len(replies[c]) : i \in 1..Len(replies'[c])
        BY <3>5
      <4>3. Len(replies[c]) + 1 \in 1..Len(replies'[c])
        BY <3>5
      <4>4. ASSUME NEW x \in Replied(c)' PROVE x \in Replied(c) \cup {query[w]}
        <5>1. PICK i \in 1..Len(replies'[c]) : x = replies'[c][i].query
          BY <4>4, Zenon DEF Replied
        <5>2. CASE i \in 1..Len(replies[c])
          BY <3>5, <5>1, <5>2, Zenon DEF Replied
        <5>3. CASE i = Len(replies[c]) + 1
          BY <3>5, <3>6, <5>1, <5>3, Zenon
        <5> QED
          BY <4>1, <5>2, <5>3, Zenon
      <4>5. ASSUME NEW x \in Replied(c) PROVE x \in Replied(c)'
        <5>1. PICK i \in 1..Len(replies[c]) : x = replies[c][i].query
          BY <4>5, Zenon DEF Replied
        <5>2. i \in 1..Len(replies'[c]) /\ x = replies'[c][i].query
          BY <3>5, <4>2, <5>1, Zenon
        <5> QED
          BY <5>2, Zenon DEF Replied
      <4>6. query[w] \in Replied(c)'
        BY <3>5, <3>6, <4>3, Zenon DEF Replied
      <4> QED
        BY <4>4, <4>5, <4>6, Zenon
    <3>8. /\ Waiting(c)' = Waiting(c) /\ Unsplit(c)' = Unsplit(c) /\ Arriving(c)' = Arriving(c)
          /\ sent'[c] = sent[c] /\ sent[c] \in Nat
      BY Zenon DEF Waiting, Unsplit, Arriving, Inv, TypeOK
    <3>9. Chain(Replied(c), {query[w]}, Waiting(c), Unsplit(c), Arriving(c), sent[c])
      BY <3>1, <3>3, Zenon
    <3>10. Chain(Replied(c) \cup {query[w]}, {}, Waiting(c), Unsplit(c), Arriving(c), sent[c])
      BY <3>8, <3>9, ChainReplies, Zenon
    <3>11. \A i \in 1..Len(replies[c]) : replies[c][i].query < query[w]
      <4>1. query[w] # TooLong /\ Before(Replied(c), {query[w]})
        BY <3>9, Zenon DEF Chain
      <4> QED
        BY <4>1, Zenon DEF Before, Replied
    <3>12. Sorted(c)'
      <4>1. ASSUME NEW i \in 1..Len(replies'[c]) PROVE replies'[c][i].from = c
        <5>1. CASE i \in 1..Len(replies[c])
          BY <3>1, <3>5, <5>1, Zenon DEF Sorted
        <5>2. CASE i = Len(replies[c]) + 1
          BY <3>5, <3>6, <5>2, Zenon
        <5> QED
          BY <3>5, <5>1, <5>2
      <4>2. ASSUME NEW i \in 1..Len(replies'[c]), NEW j \in 1..Len(replies'[c]), i < j
            PROVE  replies'[c][i].query < replies'[c][j].query
        <5>1. i \in 1..Len(replies[c]) /\ replies'[c][i] = replies[c][i]
          BY <3>5, <4>2
        <5>2. CASE j \in 1..Len(replies[c])
          BY <3>1, <3>5, <4>2, <5>1, <5>2, Zenon DEF Sorted
        <5>3. CASE j = Len(replies[c]) + 1
          BY <3>5, <3>6, <3>11, <5>1, <5>3, Zenon
        <5> QED
          BY <3>5, <5>2, <5>3
      <4> QED
        BY <3>1, <4>1, <4>2, Zenon DEF Sorted
    <3> QED
      BY <3>3, <3>7, <3>8, <3>10, <3>12, Zenon DEF Order
  <2> QED
    BY <1>6, <2>1, <2>2, Zenon
<1> QED
  BY <1>2, <1>7, <1>8, <1>9, Zenon DEF Inv

(* A task ends with nothing pending, and closes the descriptor of a dropped *)
(* connection.                                                              *)
LEMMA TaskEndsStep ==
  ASSUME Inv, NEW w \in Workers, wpc[w] # "idle", TaskEnds(w),
         pending' = [pending EXCEPT ![job[w]] = <<>>]
  PROVE  Inv'
<1> USE DEF clients, handler
<1>1. UNCHANGED <<clients, replies, fd, closed, connections, lpc, handler, tasks>>
  BY Zenon DEF TaskEnds
<1>2. job[w] \in Clients
  BY Zenon DEF Inv, TypeOK, Strands
<1>3. PICK c \in Clients : c = job[w]
  BY <1>2, Zenon
<1>4. busy[c] /\ fd[c] \in Fds /\ file[fd[c]] = c
  BY <1>3, Zenon DEF Inv, Strands, HasTask, Descriptors, Served
<1>5. \A d \in Clients : busy'[d] = IF d = c THEN FALSE ELSE busy[d]
  BY <1>3, Zenon DEF TaskEnds, Inv, TypeOK
<1>5a. /\ \A d \in Clients : pending'[d] = IF d = c THEN <<>> ELSE pending[d]
       /\ \A v \in Workers : job'[v] = IF v = w THEN Nobody ELSE job[v]
       /\ \A v \in Workers : wpc'[v] = IF v = w THEN "idle" ELSE wpc[v]
       /\ \A v \in Workers : v # w => query'[v] = query[v]
  BY <1>3, Zenon DEF TaskEnds, Inv, TypeOK
<1>6. \A f \in Fds : file'[f] = IF f = fd[c] /\ closed[c] THEN Nobody ELSE file[f]
  BY <1>3, <1>4 DEF TaskEnds, CloseFd, Inv, TypeOK
<1>7. TypeOK'
  <2>1. pending' \in [Clients -> Seq(Nat)]
    <3>1. <<>> \in Seq(Nat)
      OBVIOUS
    <3> QED
      BY <3>1, Zenon DEF Inv, TypeOK
  <2>2. busy' \in [Clients -> BOOLEAN] /\ job' \in [Workers -> Clients \cup {Nobody}]
    BY Zenon DEF TaskEnds, Inv, TypeOK
  <2>3. wpc' \in [Workers -> {"idle", "drain", "reply", "failed"}] /\ query' \in [Workers -> Nat]
    BY Zenon DEF TaskEnds, TooLong, Inv, TypeOK
  <2>4. file' \in [Fds -> Clients \cup {Nobody}]
    BY Zenon DEF TaskEnds, CloseFd, Inv, TypeOK
  <2> QED
    BY <1>1, <2>1, <2>2, <2>3, <2>4, Zenon DEF Inv, TypeOK
<1>8. AtTheHandler'
  BY <1>1, Zenon DEF Inv, AtTheHandler
<1>9. Descriptors'
  <2>0. /\ file \in [Fds -> Clients \cup {Nobody}] /\ connections \in [Fds -> Clients \cup {Nobody}]
        /\ Nobody \notin Clients /\ UNCHANGED <<fd, closed, connections>>
        /\ Registered /\ Opened /\ Served
    BY <1>1, ServerAssumption, Zenon DEF Inv, TypeOK, Descriptors
  <2>1. Registered'
    BY <1>4, <1>6, <2>0 DEF Registered
  <2>2. Opened'
    <3>1. SUFFICES ASSUME NEW f \in Fds, file'[f] # Nobody
                   PROVE  /\ fd[file'[f]] = f
                          /\ connections[f] = file'[f] \/ (busy'[file'[f]] /\ closed[file'[f]])
      BY <2>0, Zenon DEF Opened
    <3>2. file'[f] = file[f] /\ file[f] \in Clients /\ ~(f = fd[c] /\ closed[c])
      BY <1>6, <2>0, <3>1, Zenon
    <3>3. fd[file[f]] = f /\ (connections[f] = file[f] \/ (busy[file[f]] /\ closed[file[f]]))
      BY <2>0, <3>1, <3>2, Zenon DEF Opened
    <3>4. CASE connections[f] = file[f]
      BY <3>2, <3>3, <3>4, Zenon
    <3>5. CASE busy[file[f]] /\ closed[file[f]]
      <4>1. file[f] # c
        BY <3>2, <3>3, <3>5, Zenon
      <4> QED
        BY <1>5, <3>2, <3>3, <3>5, <4>1, Zenon
    <3> QED
      BY <3>3, <3>4, <3>5, Zenon
  <2>3. Served'
    <3>1. SUFFICES ASSUME NEW d \in Clients, busy'[d] PROVE fd[d] \in Fds /\ file'[fd[d]] = d
      BY <2>0, Zenon DEF Served
    <3>2. d # c /\ busy[d]
      BY <1>5, <3>1, Zenon
    <3>3. fd[d] \in Fds /\ file[fd[d]] = d
      BY <2>0, <3>2, Zenon DEF Served
    <3> QED
      BY <1>4, <1>6, <3>2, <3>3, Zenon
  <2>4. Unconnected'
    BY <1>1, Zenon DEF Inv, Descriptors, Unconnected
  <2> QED
    BY <2>1, <2>2, <2>3, <2>4, Zenon DEF Descriptors
<1>10. Unique'
  <2>0. Unique /\ Nobody \notin Clients /\ tasks \in Seq(Clients) /\ UNCHANGED <<cur, dispatches, tasks>>
    BY <1>1, ServerAssumption, Zenon DEF Inv, TypeOK
  <2>1. dispatches => cur # Nobody
    BY Zenon DEF Inv, AtTheHandler, Handling
  <2> QED
    BY <1>5a, <2>0, <2>1 DEF Unique
<1>11. Strands'
  <2>0. Strands /\ Unique /\ Nobody \notin Clients /\ UNCHANGED <<cur, dispatches, tasks, lpc>>
    BY <1>1, ServerAssumption, Zenon DEF Inv
  <2>1. ~HasTask(c)'
    BY <1>3, <1>5a, <2>0 DEF Unique, HasTask
  <2>2. ASSUME NEW d \in Clients, d # c PROVE HasTask(d)' <=> HasTask(d)
    BY <1>3, <1>5a, <2>0, <2>2 DEF HasTask
  <2>3. \A v \in Workers : wpc'[v] = "idle" <=> job'[v] = Nobody
    BY <1>5, <1>5a, <2>0, Zenon DEF Strands
  <2>4. \A d \in Clients : pending'[d] # <<>> => busy'[d]
    BY <1>5, <1>5a, <2>0, Zenon DEF Strands
  <2>5. \A d \in Clients : busy'[d] <=> HasTask(d)'
    BY <1>5, <2>0, <2>1, <2>2, Zenon DEF Strands
  <2>6. lpc' \in {"drained", "destroyed"} => tasks' = <<>> /\ \A v \in Workers : job'[v] = Nobody
    BY <1>5, <1>5a, <2>0, Zenon DEF Strands
  <2> QED
    BY <2>3, <2>4, <2>5, <2>6, Zenon DEF Strands
<1>12. ASSUME NEW d \in Clients PROVE Order(d)'
  BY <1>1, <1>5a, OrderShrinks, Zenon DEF Inv
<1> QED
  BY <1>7, <1>8, <1>9, <1>10, <1>11, <1>12, Zenon DEF Inv

LEMMA WorkerSteps == ASSUME Inv, NEW w \in Workers, WorkerStep(w) PROVE Inv'
<1>1. CASE StrandIsEmpty(w)
  <2>1. job[w] \in Clients /\ pending[job[w]] = <<>>
    BY <1>1, Zenon DEF StrandIsEmpty, Inv, TypeOK, Strands
  <2>2. pending' = [pending EXCEPT ![job[w]] = <<>>]
    BY <1>1, <2>1, Zenon DEF StrandIsEmpty, Inv, TypeOK
  <2> QED
    BY <1>1, <2>2, TaskEndsStep, Zenon DEF StrandIsEmpty
<1>2. CASE StrandGivesUp(w)
  BY <1>2, TaskEndsStep, Zenon DEF StrandGivesUp
<1>3. CASE ReplySucceeds(w)
  <2>1. query' \in [Workers -> Nat] /\ \A v \in Workers : v # w => query'[v] = query[v]
    BY <1>3, Zenon DEF ReplySucceeds, TooLong, Inv, TypeOK
  <2> QED
    BY <1>3, <2>1, RepliesStep, Zenon DEF ReplySucceeds
<1>4. CASE ReplyFails(w) \/ ReplyStalls(w)
  <2>1. query' = query /\ query \in [Workers -> Nat]
    BY <1>4, Zenon DEF ReplyFails, ReplyStalls, Inv, TypeOK
  <2>2. Reply(w, FALSE) \/ UNCHANGED replies
    BY <1>4, Zenon DEF ReplyFails, ReplyStalls
  <2> QED
    BY <1>4, <2>1, <2>2, RepliesStep, Zenon DEF ReplyFails, ReplyStalls
<1> QED
  BY <1>1, <1>2, <1>3, <1>4, TaskBeginsStep, StrandPopsStep, Zenon DEF WorkerStep

LEMMA NextStep == ASSUME Inv, [Next]_vars PROVE Inv'
<1>1. CASE ClientStep
  BY <1>1, IdleSteps, SendStep, Zenon DEF ClientStep
<1>2. CASE LoopStep
  BY <1>2, IdleSteps, HandleClientStep, AcceptStep, ReadsStep, SplitLineStep, DispatchesStep,
     DropsStep, DestroyClosesStep, Zenon DEF LoopStep
<1>3. CASE \E w \in Workers : WorkerStep(w)
  BY <1>3, WorkerSteps, Zenon
<1>4. CASE StopStores \/ StopWakes \/ KeventBlocks \/ Destroyed \/ UNCHANGED vars
  BY <1>4, IdleSteps, Zenon DEF KeventBlocks, Destroyed
<1> QED
  BY <1>1, <1>2, <1>3, <1>4, Zenon DEF Next

-----------------------------------------------------------------------------
(* The inductive invariant holds in every reachable state, whatever the     *)
(* clients send and whenever they leave and stop() is called.               *)
THEOREM ServerInvariant == Spec => []Inv
<1>1. Init => Inv
  BY InitStep, Zenon
<1>2. Inv /\ [Next]_vars => Inv'
  BY NextStep, Zenon
<1> QED
  BY <1>1, <1>2, PTL DEF Spec

(* The cardinalities of what is a set of one task at most. *)
LEMMA CardinalityOfNone == Cardinality({}) = 0
<1> DEFINE Counts(f) == f = [T \in SUBSET {} |-> IF T = {} THEN 0 ELSE 1 + f[T \ {CHOOSE x : x \in T}]]
<1>1. Counts([T \in SUBSET {} |-> 0])
  OBVIOUS
<1>2. Counts(CHOOSE f : Counts(f))
  <2> HIDE DEF Counts
  <2> QED
    BY <1>1, Zenon
<1>3. Cardinality({}) = (CHOOSE f : Counts(f))[{}]
  BY Zenon DEF Cardinality
<1> QED
  BY <1>2, <1>3, Zenon

LEMMA CardinalityOfOne == ASSUME NEW e PROVE Cardinality({e}) = 1
<1> DEFINE Counts(f) == f = [T \in SUBSET {e} |-> IF T = {} THEN 0 ELSE 1 + f[T \ {CHOOSE x : x \in T}]]
<1>1. Counts([T \in SUBSET {e} |-> IF T = {} THEN 0 ELSE 1])
  <2>1. ASSUME NEW T \in SUBSET {e}, T # {} PROVE T \ {CHOOSE x : x \in T} = {}
    <3>1. T = {e} /\ (CHOOSE x : x \in T) \in T
      BY <2>1, Zenon
    <3> QED
      BY <3>1, Zenon
  <2> QED
    BY <2>1
<1>2. Counts(CHOOSE f : Counts(f))
  <2> HIDE DEF Counts
  <2> QED
    BY <1>1, Zenon
<1>3. Cardinality({e}) = (CHOOSE f : Counts(f))[{e}]
  BY Zenon DEF Cardinality
<1>4. {e} \ {CHOOSE x : x \in {e}} = {} /\ {} \in SUBSET {e} /\ {e} \in SUBSET {e} /\ {e} # {}
  OBVIOUS
<1>5. PICK f : f = (CHOOSE g : Counts(g)) /\ Counts(f)
  BY <1>2, Zenon
<1>6. f[{}] = 0 /\ f[{e}] = 1 + f[{e} \ {CHOOSE x : x \in {e}}]
  BY <1>4, <1>5, Zenon
<1>7. f[{e}] = 1 + 0
  BY <1>4, <1>6, Zenon
<1>8. Cardinality({e}) = f[{e}]
  BY <1>3, <1>5, Zenon
<1> QED
  BY <1>7, <1>8

(* At most one task per connection exists, busy says whether there is one,  *)
(* and no query waits on a strand that nobody drains                        *)
(* (TCPServer::handleReadable and dispatch).                                *)
THEOREM ServerOneTask == Spec => []OneTaskPerConnection
<1>1. ASSUME Inv PROVE OneTaskPerConnection
  <2>1. SUFFICES ASSUME NEW c \in Clients
                 PROVE  Cardinality(TasksOf(c)) + Cardinality(RunningFor(c)) = IF busy[c] THEN 1 ELSE 0
    BY <1>1, Zenon DEF OneTaskPerConnection, Inv, Strands
  <2>2. /\ DOMAIN tasks = 1..Len(tasks) /\ 0 \notin 1..Len(tasks) /\ c # Nobody
        /\ Unique /\ busy[c] \in BOOLEAN /\ (busy[c] <=> HasTask(c))
    BY <1>1, ServerAssumption DEF Inv, TypeOK, Strands
  <2>3. CASE ~HasTask(c)
    <3>1. TasksOf(c) = {} /\ RunningFor(c) = {}
      BY <2>2, <2>3, Zenon DEF TasksOf, RunningFor, HasTask
    <3> QED
      BY <2>2, <2>3, <3>1, CardinalityOfNone
  <2>4. CASE dispatches /\ cur = c
    <3>1. TasksOf(c) = {0} /\ RunningFor(c) = {} /\ HasTask(c)
      BY <2>2, <2>4 DEF TasksOf, RunningFor, HasTask, Unique
    <3>2. Cardinality(TasksOf(c)) = 1 /\ Cardinality(RunningFor(c)) = 0
      BY <3>1, CardinalityOfNone, CardinalityOfOne, Zenon
    <3> QED
      BY <2>2, <3>1, <3>2
  <2>5. ASSUME NEW i \in 1..Len(tasks), tasks[i] = c
        PROVE  Cardinality(TasksOf(c)) + Cardinality(RunningFor(c)) = IF busy[c] THEN 1 ELSE 0
    <3>1. TasksOf(c) = {i} /\ RunningFor(c) = {} /\ HasTask(c)
      BY <2>2, <2>5 DEF TasksOf, RunningFor, HasTask, Unique
    <3>2. Cardinality(TasksOf(c)) = 1 /\ Cardinality(RunningFor(c)) = 0
      BY <3>1, CardinalityOfNone, CardinalityOfOne, Zenon
    <3> QED
      BY <2>2, <3>1, <3>2
  <2>6. ASSUME NEW w \in Workers, job[w] = c
        PROVE  Cardinality(TasksOf(c)) + Cardinality(RunningFor(c)) = IF busy[c] THEN 1 ELSE 0
    <3>1. TasksOf(c) = {} /\ RunningFor(c) = {w} /\ HasTask(c)
      BY <2>2, <2>6 DEF TasksOf, RunningFor, HasTask, Unique
    <3>2. Cardinality(TasksOf(c)) = 0 /\ Cardinality(RunningFor(c)) = 1
      BY <3>1, CardinalityOfNone, CardinalityOfOne, Zenon
    <3> QED
      BY <2>2, <3>1, <3>2
  <2> QED
    BY <2>3, <2>4, <2>5, <2>6, Zenon DEF HasTask
<1> QED
  BY <1>1, ServerInvariant, PTL

(* Whoever holds a descriptor number, the event loop, a queued or a running *)
(* task, holds it while it names the connection's own socket, although the  *)
(* kernel reuses numbers at once (dropConnection and the end of a task).    *)
THEOREM ServerDescriptors == Spec => []DescriptorsAreOurs
<1>1. ASSUME Inv PROVE DescriptorsAreOurs
  <2>1. \A f \in Fds : connections[f] # Nobody => file[f] = connections[f] /\ fd[connections[f]] = f
    BY <1>1, Zenon DEF Inv, Descriptors, Registered
  <2>2. cur # Nobody => Socket(cur) = cur
    BY <1>1, Zenon DEF Inv, AtTheHandler, Descriptors, Registered, Socket
  <2>3. \A i \in DOMAIN tasks : Socket(tasks[i]) = tasks[i]
    <3>1. DOMAIN tasks = 1..Len(tasks) /\ \A i \in 1..Len(tasks) : tasks[i] \in Clients
      BY <1>1 DEF Inv, TypeOK
    <3> QED
      BY <1>1, <3>1, Zenon DEF Inv, Strands, HasTask, Descriptors, Served, Socket
  <2>4. \A w \in Workers : job[w] # Nobody => Socket(job[w]) = job[w]
    BY <1>1, Zenon DEF Inv, TypeOK, Strands, HasTask, Descriptors, Served, Socket
  <2> QED
    BY <2>1, <2>2, <2>3, <2>4, Zenon DEF DescriptorsAreOurs
<1> QED
  BY <1>1, ServerInvariant, PTL

(* The replies a client receives are to its own queries, in the order in    *)
(* which it sent them and none twice (the strand of dispatch()).            *)
THEOREM ServerReplies == Spec => []RepliesInOrder
<1>1. ASSUME Inv PROVE RepliesInOrder
  <2>1. ASSUME NEW c \in Clients PROVE DOMAIN replies[c] = 1..Len(replies[c])
    BY <1>1 DEF Inv, TypeOK
  <2> QED
    BY <1>1, <2>1, Zenon DEF RepliesInOrder, Inv, Order, Sorted
<1> QED
  BY <1>1, ServerInvariant, PTL

(* No descriptor outlives the server: once ~TCPServer() is done, all are    *)
(* closed, those of connections it had dropped while a task ran included.   *)
THEOREM ServerClosesEverything == Spec => [](lpc = "destroyed" => \A f \in Fds : file[f] = Nobody)
<1> DEFINE Closed == lpc = "destroyed" => \A f \in Fds : file[f] = Nobody
<1>1. Init => Closed
  BY Zenon DEF Init
<1>2. ASSUME Inv, Inv', Closed, [Next]_vars PROVE Closed'
  <2>1. CASE DestroyCloses
    <3>1. lpc' = "destroyed" => tasks' = <<>> /\ ~dispatches' /\ \A w \in Workers : job'[w] = Nobody
      BY <1>2, Zenon DEF Inv, Strands, AtTheHandler
    <3>2. lpc' = "destroyed" => \A c \in Clients : ~busy'[c]
      BY <1>2, <3>1, ServerAssumption DEF Inv, Strands, HasTask
    <3>3. \A f \in Fds : connections'[f] = Nobody
      BY <2>1, Zenon DEF DestroyCloses
    <3>4. /\ Opened' /\ file' \in [Fds -> Clients \cup {Nobody}] /\ Nobody \notin Clients
      BY <1>2, ServerAssumption, Zenon DEF Inv, TypeOK, Descriptors
    <3> QED
      BY <3>2, <3>3, <3>4 DEF Opened
  <2>2. CASE \E w \in Workers : WorkerStep(w)
    <3>1. lpc' = "destroyed" => lpc = "destroyed" /\ tasks = <<>> /\ \A w \in Workers : wpc[w] = "idle"
      BY <1>2, <2>2, Zenon
         DEF WorkerStep, TaskBegins, StrandPops, StrandIsEmpty, TaskEnds, ReplySucceeds,
                        ReplyFails, ReplyStalls, StrandGivesUp, Inv, Strands
    <3> QED
      BY <2>2, <3>1, Zenon
         DEF WorkerStep, TaskBegins, StrandPops, StrandIsEmpty, TaskEnds, ReplySucceeds,
                        ReplyFails, ReplyStalls, StrandGivesUp
  <2>3. CASE ClientStep \/ StopStores \/ StopWakes \/ KeventBlocks \/ Destroyed \/ UNCHANGED vars
    <3>1. UNCHANGED file /\ (lpc' = "destroyed" => lpc = "destroyed")
      BY <2>3, Zenon
         DEF ClientStep, Connect, Send, HalfClose, Reset, StopStores, StopWakes,
             KeventBlocks,
                  Destroyed, vars, kernel
    <3> QED
      BY <1>2, <3>1, Zenon
  <2>4. CASE LoopStep /\ ~DestroyCloses
    <3>1. lpc' # "destroyed"
      BY <2>4, Zenon
         DEF LoopStep, RunBegins, LoopChecks, KeventReturns, BatchEnds, HandleWake,
             HandleListen,
                  HandleClient, Accept, AcceptCannotRegister, AcceptEnds, Reads, SplitLine, SplitEnds,
                  Dispatches, Drops, DestroyDrains
    <3> QED
      BY <3>1, Zenon
  <2> QED
    BY <1>2, <2>1, <2>2, <2>3, <2>4, Zenon DEF Next
<1> QED
  BY <1>1, <1>2, ServerInvariant, PTL DEF Spec
=============================================================================
