------------------------- MODULE FrameServerProofs -------------------------
(***************************************************************************)
(* What holds of the frame server for any number of FIFOs, subscribers and *)
(* frames, any queue length, and both implementations.                     *)
(***************************************************************************)
EXTENDS FrameServer, SequenceTheorems, TLAPS

\* Next, flat: one disjunct per action.
LEMMA NextCases ==
  ASSUME Next
  PROVE  \/ \E f \in Fifos : Drain(f) \/ PollerStops(f) \/ LockBroker(f) \/ UnlockBroker(f)
         \/ \E f \in Fifos, c \in Clients : Offer(f, c)
         \/ \E c \in Clients :
              \/ \E tokens \in Requests : Subscribe(c, tokens)
              \/ GivesUp(c) \/ SendHello(c) \/ LoopAgain(c) \/ SendFails(c) \/ Accept(c)
              \/ Register(c) \/ Unregister(c) \/ Take(c) \/ SendLine(c)
         \/ Signal \/ StopAccepting \/ AcceptFails \/ JoinPollers \/ Exit
  BY Zenon DEF Next, Poller, PollerProgress, Client, ClientProgress, MainThread

-----------------------------------------------------------------------------
\* A poller that is about to publish has numbered a frame.
Numbered == \A f \in Fifos : ppc[f] \in {"publish", "fanout"} => frame[f] > 0

\* The frame a poller publishes is a frame.
LEMMA LineIsFrame ==
  ASSUME TypeOK, Numbered, NEW f \in Fifos, ppc[f] = "fanout"
  PROVE  [fifo |-> f, n |-> frame[f]] \in Frame
  BY FramesAssumption DEF TypeOK, Numbered, Frame

\* Taking a part of a queue leaves two sequences of lines.
LEMMA SplitLines ==
  ASSUME NEW s \in Lines, NEW k \in 0 .. Len(s)
  PROVE  /\ SubSeq(s, 1, k) \in Lines /\ SubSeq(s, k + 1, Len(s)) \in Lines
         /\ Len(SubSeq(s, k + 1, Len(s))) = Len(s) - k
         /\ SubSeq(s, 1, k) \o SubSeq(s, k + 1, Len(s)) = s
<1>1. Len(s) \in Nat /\ s \in Seq(Frame) /\ \A i \in 1 .. Len(s) : s[i] \in Frame
  BY DEF Lines
<1>2. k \in Int /\ k + 1 \in Int /\ Len(s) \in Int /\ 1 \in Int
  BY <1>1
<1>3. (\A i \in 1 .. k : s[i] \in Frame) /\ \A i \in (k + 1) .. Len(s) : s[i] \in Frame
  BY <1>1
<1>4. SubSeq(s, 1, k) \in Seq(Frame)
  BY <1>2, <1>3, SubSeqProperties, Zenon
<1>5. SubSeq(s, k + 1, Len(s)) \in Seq(Frame)
  BY <1>2, <1>3, SubSeqProperties, Zenon
<1>6. 1 \in 1 .. Len(s) + 1 /\ k \in 1 - 1 .. Len(s) /\ Len(s) \in k .. Len(s)
  BY <1>1
<1>7. SubSeq(s, 1, k) \o SubSeq(s, k + 1, Len(s)) = SubSeq(s, 1, Len(s))
  BY <1>1, <1>6, ConcatAdjacentSubSeq, Zenon
<1>8. SubSeq(s, 1, Len(s)) = s
  BY <1>1, SubSeqFull, Zenon
<1>9. Len(SubSeq(s, k + 1, Len(s))) = Len(s) - k
  BY <1>1
<1> QED BY <1>4, <1>5, <1>7, <1>8, <1>9 DEF Lines

\* What one swap or one get takes is a part of the queue.
LEMMA TakenInQueue ==
  ASSUME TypeOK, NEW c \in Clients
  PROVE  q[c] \in Lines /\ Taken(c) \in 0 .. Len(q[c])
<1>1. q[c] \in Lines /\ q[c] \in Seq(Frame) /\ Len(q[c]) \in Nat
  BY DEF TypeOK, Lines
<1>2. q[c] # <<>> => Len(q[c]) # 0
  BY <1>1
<1> QED BY <1>1, <1>2 DEF Taken

LEMMA TypeStep ==
  ASSUME TypeOK, Numbered, [Next]_vars
  PROVE  TypeOK' /\ Numbered'
<1> USE DEF TypeOK, Numbered
<1>1. ASSUME NEW f \in Fifos, Drain(f) PROVE TypeOK' /\ Numbered'
  BY <1>1, FramesAssumption DEF Drain, clientVars
<1>2. ASSUME NEW f \in Fifos, PollerStops(f) \/ LockBroker(f) \/ UnlockBroker(f)
      PROVE  TypeOK' /\ Numbered'
  BY <1>2 DEF PollerStops, LockBroker, UnlockBroker, clientVars
<1>3. ASSUME NEW f \in Fifos, NEW c \in Clients, Offer(f, c) PROVE TypeOK' /\ Numbered'
  <2>1. [fifo |-> f, n |-> frame[f]] \in Frame
    BY <1>3, LineIsFrame DEF Offer
  <2>2. Append(q[c], [fifo |-> f, n |-> frame[f]]) \in Lines
    BY <2>1 DEF Lines
  <2> DEFINE line == [fifo |-> f, n |-> frame[f]]
  <2>3. \/ q' = q \/ q' = [q EXCEPT ![c] = Append(@, line)]
    BY <1>3, Zenon DEF Offer
  <2>4. \/ dropped' = dropped \/ dropped' = [dropped EXCEPT ![c] = @ \cup {line}]
    BY <1>3, Zenon DEF Offer
  <2>5. q' \in [Clients -> Lines]
    BY <2>2, <2>3
  <2>6. dropped' \in [Clients -> SUBSET Frame]
    BY <2>1, <2>4, SMTT(30)
  <2> QED BY <1>3, <2>5, <2>6 DEF Offer, clientVars
<1>4. ASSUME NEW c \in Clients, NEW tokens \in Requests, Subscribe(c, tokens)
      PROVE  TypeOK' /\ Numbered'
  <2>1. Selects(tokens) \in SUBSET Fifos
    BY Zenon DEF Selects
  <2> QED BY <1>4, <2>1 DEF Subscribe, Goto, pollerVars
<1>10. ASSUME NEW c \in Clients, GivesUp(c) PROVE TypeOK' /\ Numbered'
  BY <1>10 DEF GivesUp, Goto, pollerVars
<1>11. ASSUME NEW c \in Clients, SendHello(c) \/ LoopAgain(c) PROVE TypeOK' /\ Numbered'
  BY <1>11 DEF SendHello, LoopAgain, Goto, pollerVars
<1>12. ASSUME NEW c \in Clients, SendFails(c) \/ Accept(c) \/ Unregister(c)
       PROVE  TypeOK' /\ Numbered'
  BY <1>12 DEF SendFails, Accept, Unregister, Goto, pollerVars
<1>5. ASSUME NEW c \in Clients, Register(c) PROVE TypeOK' /\ Numbered'
  <2>1. [f \in Fifos |-> Published(f)] \in [Fifos -> 0 .. MaxFrames]
    BY FramesAssumption DEF Published
  <2> QED BY <1>5, <2>1 DEF Register, Goto, pollerVars
<1>6. ASSUME NEW c \in Clients, Take(c) PROVE TypeOK' /\ Numbered'
  <2>1. SubSeq(q[c], 1, Taken(c)) \in Lines /\ LeftInQueue(c) \in Lines
    BY TakenInQueue, SplitLines DEF LeftInQueue
  <2> QED BY <1>6, <2>1 DEF Take, Goto, pollerVars
<1>7. ASSUME NEW c \in Clients, SendLine(c) PROVE TypeOK' /\ Numbered'
  <2>1. Append(sent[c], Head(batch[c])) \in Lines /\ Tail(batch[c]) \in Lines
    BY <1>7 DEF SendLine, Lines
  <2> QED BY <1>7, <2>1 DEF SendLine, Goto, pollerVars
<1>8. ASSUME Signal \/ StopAccepting \/ AcceptFails \/ JoinPollers \/ Exit
      PROVE  TypeOK' /\ Numbered'
  BY <1>8 DEF Signal, StopAccepting, AcceptFails, JoinPollers, Exit, pollerVars, clientVars
<1>9. CASE UNCHANGED vars
  BY <1>9 DEF vars, pollerVars, clientVars
<1> QED BY <1>1, <1>2, <1>3, <1>4, <1>5, <1>6, <1>7, <1>8, <1>9, <1>10, <1>11, <1>12,
           NextCases

\* Every variable keeps its type, whatever the threads do.
THEOREM TypeCorrect == Spec => [](TypeOK /\ Numbered)
<1>1. Init => TypeOK /\ Numbered
  <2> SUFFICES ASSUME Init PROVE TypeOK /\ Numbered
    OBVIOUS
  <2>1. <<>> \in Lines
    BY DEF Lines
  <2>2. 0 \in 0 .. MaxFrames
    BY FramesAssumption
  <2> QED BY <2>1, <2>2 DEF Init, TypeOK, Numbered
<1>2. TypeOK /\ Numbered /\ [Next]_vars => TypeOK' /\ Numbered'
  BY TypeStep
<1> QED BY <1>1, <1>2, PTL DEF Spec

-----------------------------------------------------------------------------
\* The broker mutex: a poller is in its fan-out loop exactly when it holds it,
\* and the loop only ever visits registered subscribers.
Mutex ==
    /\ \A f \in Fifos : ppc[f] = "fanout" <=> holder = f
    /\ \A f \in Fifos : todo[f] # {} => ppc[f] = "fanout"
    /\ \A f \in Fifos : todo[f] \subseteq subs

\* The broker's list against the state of each connection: the forwarding
\* loop runs only for registered connections, and add and remove bracket it.
Registered ==
    \A c \in Clients :
        /\ c \in subs => cpc[c] \in {"loop", "wait", "send", "remove"}
        /\ cpc[c] \in {"loop", "wait", "send"} => c \in subs

\* Once poc_server has joined its pollers they are over.
Joined == ~Python /\ main \in {"linger", "exited"} => \A f \in Fifos : ppc[f] = "done"

\* A queue is shortened by its own connection and lengthened below the limit.
BrokerInv == Mutex /\ Registered /\ Joined /\ QueueBounded

LEMMA BrokerInit == Init => BrokerInv
<1> SUFFICES ASSUME Init PROVE BrokerInv
  OBVIOUS
<1>1. Len(<<>>) <= QUEUE_MAX
  BY QueueAssumption
<1>2. QueueBounded
  BY <1>1 DEF Init, QueueBounded
<1>3. Mutex /\ Registered /\ Joined
  BY NoOneAssumption DEF Init, Mutex, Registered, Joined
<1> QED BY <1>2, <1>3 DEF BrokerInv

\* Every step keeps it: the pollers' steps first, then the subscribers', then
\* the main thread's.
LEMMA BrokerStep ==
  ASSUME TypeOK, BrokerInv, [Next]_vars
  PROVE  BrokerInv'
<1> USE DEF TypeOK, BrokerInv
<1>1. ASSUME NEW f \in Fifos, Drain(f) \/ PollerStops(f) PROVE BrokerInv'
  <2>1. Mutex' /\ Registered'
    BY <1>1 DEF Drain, PollerStops, clientVars, Mutex, Registered
  <2>2. Joined' /\ QueueBounded'
    BY <1>1 DEF Drain, PollerStops, Running, clientVars, Joined, Python, QueueBounded
  <2> QED BY <2>1, <2>2
<1>2. ASSUME NEW f \in Fifos, LockBroker(f) \/ UnlockBroker(f) PROVE BrokerInv'
  <2>1. ASSUME LockBroker(f) PROVE Mutex'
    <3>1. \A g \in Fifos : ppc[g] # "fanout" /\ todo[g] = {}
      BY <2>1, NoOneAssumption DEF LockBroker, BrokerFree, Mutex
    <3> QED BY <2>1, <3>1 DEF LockBroker, Mutex
  <2>3. ASSUME UnlockBroker(f) PROVE Mutex'
    <3>1. \A g \in Fifos : g # f => ppc[g] # "fanout" /\ todo[g] = {}
      BY <2>3 DEF UnlockBroker, Mutex
    <3>2. \A g \in Fifos : ppc'[g] # "fanout" /\ todo'[g] = {}
      BY <2>3, <3>1 DEF UnlockBroker
    <3> QED BY <2>3, <3>2, NoOneAssumption DEF UnlockBroker, Mutex
  <2>2. Registered' /\ Joined' /\ QueueBounded'
    BY <1>2 DEF LockBroker, UnlockBroker, Running, clientVars, Joined, Python, Registered,
       QueueBounded
  <2> QED BY <1>2, <2>1, <2>2, <2>3
<1>3. ASSUME NEW f \in Fifos, NEW c \in Clients, Offer(f, c) PROVE BrokerInv'
  <2>1. Mutex' /\ Registered' /\ Joined'
    BY <1>3 DEF Offer, clientVars, Mutex, Registered, Joined, Python
  <2>2. q' = q \/ (HasRoom(c) /\ q' = [q EXCEPT ![c] = Append(@, [fifo |-> f, n |-> frame[f]])])
    BY <1>3, Zenon DEF Offer
  <2>3. q[c] \in Seq(Frame)
    BY DEF Lines
  <2>4. Len(q[c]) < QUEUE_MAX => Len(Append(q[c], [fifo |-> f, n |-> frame[f]])) <= QUEUE_MAX
    BY <2>3, QueueAssumption
  <2>5. QueueBounded'
    BY <2>2, <2>4 DEF HasRoom, QueueBounded
  <2> QED BY <2>1, <2>5
<1>4. ASSUME NEW c \in Clients,
             \/ \E tokens \in Requests : Subscribe(c, tokens)
             \/ GivesUp(c) \/ SendHello(c) \/ LoopAgain(c)
      PROVE  BrokerInv'
  <2>1. Mutex' /\ Joined' /\ QueueBounded'
    BY <1>4 DEF Subscribe, GivesUp, SendHello, LoopAgain, pollerVars, Mutex, Joined, Python,
       QueueBounded
  <2>2. Registered'
    BY <1>4 DEF Subscribe, GivesUp, SendHello, LoopAgain, Goto, Registered
  <2> QED BY <2>1, <2>2
<1>5. ASSUME NEW c \in Clients, SendFails(c) \/ Accept(c) \/ SendLine(c) PROVE BrokerInv'
  <2>1. Mutex' /\ Joined' /\ QueueBounded'
    BY <1>5 DEF SendFails, Accept, SendLine, pollerVars, Mutex, Joined, Python, QueueBounded
  <2>2. Registered'
    BY <1>5 DEF SendFails, Accept, SendLine, Goto, Registered
  <2> QED BY <2>1, <2>2
<1>6. ASSUME NEW c \in Clients, Register(c) \/ Unregister(c) PROVE BrokerInv'
  <2>1. Mutex'
    BY <1>6, NoOneAssumption DEF Register, Unregister, BrokerFree, pollerVars, Mutex
  <2>2. Registered'
    BY <1>6 DEF Register, Unregister, Goto, Registered
  <2>3. Joined' /\ QueueBounded'
    BY <1>6 DEF Register, Unregister, pollerVars, Joined, Python, QueueBounded
  <2> QED BY <2>1, <2>2, <2>3
<1>7. ASSUME NEW c \in Clients, Take(c) PROVE BrokerInv'
  <2>1. Mutex' /\ Joined' /\ Registered'
    BY <1>7 DEF Take, Goto, pollerVars, Mutex, Joined, Python, Registered
  <2>2. Len(LeftInQueue(c)) <= Len(q[c]) /\ Len(q[c]) \in Nat /\ Len(LeftInQueue(c)) \in Nat
    BY TakenInQueue, SplitLines DEF LeftInQueue, Lines
  <2>3. QueueBounded'
    BY <1>7, <2>2, QueueAssumption DEF Take, QueueBounded
  <2> QED BY <2>1, <2>3
<1>8. ASSUME Signal \/ StopAccepting \/ AcceptFails \/ JoinPollers \/ Exit PROVE BrokerInv'
  <2>1. Mutex' /\ Registered' /\ QueueBounded'
    BY <1>8 DEF Signal, StopAccepting, AcceptFails, JoinPollers, Exit, pollerVars, clientVars,
                Mutex, Registered, QueueBounded
  <2>2. Joined'
    BY <1>8
       DEF Signal, StopAccepting, AcceptFails, JoinPollers, Exit, pollerVars, Joined, Python
  <2> QED BY <2>1, <2>2
<1>9. CASE UNCHANGED vars
  BY <1>9 DEF vars, pollerVars, clientVars, Mutex, Registered, Joined, Python, QueueBounded
<1> QED BY <1>1, <1>2, <1>3, <1>4, <1>5, <1>6, <1>7, <1>8, <1>9, NextCases

LEMMA BrokerInvariant == Spec => []BrokerInv
<1>1. BrokerInv /\ TypeOK /\ [Next]_vars => BrokerInv'
  BY BrokerStep
<1> QED BY <1>1, BrokerInit, TypeCorrect, PTL DEF Spec

\* No subscriber, however slow, makes the broker queue more than QUEUE_MAX
\* lines for it.
THEOREM QueuesBounded == Spec => []QueueBounded
<1>1. BrokerInv => QueueBounded
  BY DEF BrokerInv
<1> QED BY <1>1, BrokerInvariant, PTL

\* Nothing is queued for a connection that was closed.
THEOREM ClosedAreForgotten == Spec => []ClosedForgotten
<1>1. BrokerInv => ClosedForgotten
  BY DEF BrokerInv, Mutex, Registered, ClosedForgotten
<1> QED BY <1>1, BrokerInvariant, PTL

\* When poc_server lingers and returns from main, no poller holds the broker
\* mutex and none has a subscriber left to visit.
THEOREM ExitIsQuiet == Spec => []QuietExit
<1>1. TypeOK /\ BrokerInv => QuietExit
  BY NoOneAssumption DEF TypeOK, BrokerInv, Mutex, Joined, QuietExit
<1> QED BY <1>1, BrokerInvariant, TypeCorrect, PTL

-----------------------------------------------------------------------------
\* What a connection has taken from its queue and not yet sent: one line in
\* fifo_server.py, all that a queue holds in poc_server.
BatchMax == IF Python THEN 1 ELSE QUEUE_MAX
BatchBounded == \A c \in Clients : Len(batch[c]) <= BatchMax

LEMMA BatchStep ==
  ASSUME TypeOK, BrokerInv, BatchBounded, [Next]_vars
  PROVE  BatchBounded'
<1>1. ASSUME UNCHANGED <<batch, server>> PROVE BatchBounded'
  BY <1>1 DEF BatchBounded, BatchMax, Python
<1>2. ASSUME NEW c \in Clients, Take(c) PROVE BatchBounded'
  <2>1. Taken(c) \in 0 .. Len(q[c]) /\ q[c] \in Lines /\ Len(q[c]) <= QUEUE_MAX
    BY TakenInQueue DEF BrokerInv, QueueBounded
  <2>2. Len(SubSeq(q[c], 1, Taken(c))) = Taken(c)
    BY <2>1 DEF Lines
  <2>3. Taken(c) <= BatchMax
    <3>1. Len(q[c]) \in Nat /\ (q[c] = <<>> => Len(q[c]) = 0)
      BY <2>1 DEF Lines
    <3>. QED BY <2>1, <3>1 DEF Taken, BatchMax
  <2>4. batch' = [batch EXCEPT ![c] = SubSeq(q[c], 1, Taken(c))]
    BY <1>2 DEF Take
  <2>5. BatchMax' = BatchMax
    BY <1>2 DEF Take, BatchMax, Python
  <2>. QED BY <2>2, <2>3, <2>4, <2>5 DEF BatchBounded, TypeOK
<1>3. ASSUME NEW c \in Clients, SendLine(c) PROVE BatchBounded'
  <2>1. batch[c] \in Seq(Frame) /\ batch[c] # <<>> /\ batch' = [batch EXCEPT ![c] = Tail(@)]
    BY <1>3 DEF SendLine, TypeOK, Lines
  <2>2. Len(Tail(batch[c])) = Len(batch[c]) - 1 /\ Len(batch[c]) \in Nat
    BY <2>1
  <2>3. BatchMax \in Nat
    BY QueueAssumption DEF BatchMax
  <2>4. BatchMax' = BatchMax
    BY <1>3 DEF SendLine, BatchMax, Python
  <2>. QED BY <2>1, <2>2, <2>3, <2>4 DEF BatchBounded, TypeOK
<1>4. CASE UNCHANGED vars
  BY <1>1, <1>4 DEF vars, clientVars
<1>. QED BY <1>1, <1>2, <1>3, <1>4, NextCases
       DEF Drain, PollerStops, LockBroker, UnlockBroker, Offer, Subscribe, GivesUp, SendHello,
           LoopAgain, SendFails, Accept, Register, Unregister, Signal, StopAccepting,
           AcceptFails, JoinPollers, Exit, pollerVars, clientVars

\* "Frames are discarded for that client when it falls > QUEUE_MAX behind": a
\* subscriber of fifo_server.py is never further behind than its queue and the
\* one line that is being sent (client_thread's q.get, Broker.publish).
THEOREM BehindIsBounded == Spec => []NeverFurtherBehind
<1>1. Init => BatchBounded
  BY QueueAssumption DEF Init, BatchBounded, BatchMax
<1>2. TypeOK /\ BrokerInv /\ BatchBounded /\ [Next]_vars => BatchBounded'
  BY BatchStep
<1>3. ASSUME TypeOK, BrokerInv, BatchBounded
      PROVE  NeverFurtherBehind
  <2>. SUFFICES ASSUME Python, NEW c \in Clients
                PROVE  Len(batch[c]) + Len(q[c]) <= QUEUE_MAX + 1
    BY DEF NeverFurtherBehind
  <2>1. batch[c] \in Seq(Frame) /\ q[c] \in Seq(Frame)
    BY <1>3 DEF TypeOK, Lines
  <2>2. Len(batch[c]) <= 1 /\ Len(q[c]) <= QUEUE_MAX
    BY <1>3 DEF BatchBounded, BatchMax, BrokerInv, QueueBounded
  <2>3. Len(batch[c]) \in Nat /\ Len(q[c]) \in Nat
    BY <2>1
  <2>4. \A a, b, max \in Nat : a <= 1 /\ b <= max => a + b <= max + 1
    OBVIOUS
  <2>5. QUEUE_MAX \in Nat
    BY QueueAssumption
  <2>. QED BY <2>2, <2>3, <2>4, <2>5, Zenon
<1>4. TypeOK /\ BrokerInv /\ BatchBounded => NeverFurtherBehind
  BY <1>3
<1>. QED BY <1>1, <1>2, <1>4, BrokerInvariant, TypeCorrect, PTL DEF Spec

-----------------------------------------------------------------------------
\* Streams.  A connection's stream is what was sent, what is being sent and
\* what is queued; moving lines between the three leaves it as it is.

LEMMA LinesAssociate ==
  ASSUME NEW s \in Seq(Frame), NEW t \in Seq(Frame), NEW u \in Seq(Frame)
  PROVE  (s \o t) \o u = s \o (t \o u)
  BY ConcatAssociative

LEMMA StreamOfTake ==
  ASSUME NEW s \in Lines, NEW r \in Lines, NEW k \in 0 .. Len(r)
  PROVE  s \o SubSeq(r, 1, k) \o SubSeq(r, k + 1, Len(r)) = s \o <<>> \o r
<1>1. SubSeq(r, 1, k) \in Seq(Frame) /\ SubSeq(r, k + 1, Len(r)) \in Seq(Frame)
  BY SplitLines DEF Lines
<1>2. s \in Seq(Frame) /\ r \in Seq(Frame)
  BY DEF Lines
<1>3. (s \o SubSeq(r, 1, k)) \o SubSeq(r, k + 1, Len(r))
        = s \o (SubSeq(r, 1, k) \o SubSeq(r, k + 1, Len(r)))
  BY <1>1, <1>2, LinesAssociate
<1>4. s \o <<>> = s
  BY <1>2, ConcatEmptySeq, Zenon
<1>5. SubSeq(r, 1, k) \o SubSeq(r, k + 1, Len(r)) = r
  BY SplitLines
<1> QED BY <1>3, <1>4, <1>5, Zenon

LEMMA StreamOfSend ==
  ASSUME NEW s \in Lines, NEW b \in Lines, b # <<>>
  PROVE  Append(s, Head(b)) \o Tail(b) = s \o b
<1>1. s \in Seq(Frame) /\ b \in Seq(Frame)
  BY DEF Lines
<1>2. /\ Head(b) \in Frame /\ Tail(b) \in Seq(Frame) /\ Len(Tail(b)) = Len(b) - 1
      /\ \A i \in 1 .. Len(Tail(b)) : Tail(b)[i] = b[i + 1]
  BY <1>1, HeadTailProperties, Zenon
<1>3. Len(s) \in Nat /\ Len(b) \in Nat /\ Len(b) > 0 /\ Head(b) = b[1]
  BY <1>1
<1>4. /\ Append(s, Head(b)) \in Seq(Frame) /\ Len(Append(s, Head(b))) = Len(s) + 1
      /\ \A i \in 1 .. Len(s) : Append(s, Head(b))[i] = s[i]
      /\ Append(s, Head(b))[Len(s) + 1] = Head(b)
  BY <1>1, <1>2
<1> DEFINE a == Append(s, Head(b))
           t == Tail(b)
<1> HIDE DEF a, t
<1>5. a \in Seq(Frame) /\ Len(a) = Len(s) + 1 /\ t \in Seq(Frame) /\ Len(t) = Len(b) - 1
  BY <1>2, <1>4 DEF a, t
<1>6. (\A i \in 1 .. Len(s) : a[i] = s[i]) /\ a[Len(s) + 1] = b[1]
      /\ \A i \in 1 .. Len(t) : t[i] = b[i + 1]
  BY <1>2, <1>3, <1>4, Zenon DEF a, t
<1>7. /\ a \o t \in Seq(Frame) /\ Len(a \o t) = Len(a) + Len(t)
      /\ \A i \in 1 .. Len(a) + Len(t) :
            (a \o t)[i] = IF i <= Len(a) THEN a[i] ELSE t[i - Len(a)]
  BY <1>5, ConcatProperties, Zenon
<1>8. /\ s \o b \in Seq(Frame) /\ Len(s \o b) = Len(s) + Len(b)
      /\ \A i \in 1 .. Len(s) + Len(b) :
            (s \o b)[i] = IF i <= Len(s) THEN s[i] ELSE b[i - Len(s)]
  BY <1>1, ConcatProperties, Zenon
<1>9. Len(a \o t) = Len(s \o b)
  BY <1>3, <1>5, <1>7, <1>8
<1>10. ASSUME NEW i \in 1 .. Len(a \o t) PROVE (a \o t)[i] = (s \o b)[i]
  <2>1. i \in 1 .. Len(a) + Len(t) /\ i \in 1 .. Len(s) + Len(b)
    BY <1>3, <1>5, <1>7, <1>9
  <2>2. CASE i <= Len(s)
    BY <1>3, <1>5, <1>6, <1>7, <1>8, <2>1, <2>2
  <2>3. CASE i = Len(s) + 1
    BY <1>3, <1>5, <1>6, <1>7, <1>8, <2>1, <2>3
  <2>4. CASE i > Len(s) + 1
    <3>1. (a \o t)[i] = t[i - Len(a)] /\ (s \o b)[i] = b[i - Len(s)]
      BY <1>3, <1>5, <1>7, <1>8, <2>1, <2>4
    <3>2. i - Len(a) \in 1 .. Len(t) /\ (i - Len(a)) + 1 = i - Len(s)
      BY <1>3, <1>5, <2>1, <2>4
    <3> QED BY <1>6, <3>1, <3>2
  <2> QED BY <1>3, <2>1, <2>2, <2>3, <2>4
<1>11. a \o t = s \o b
  BY <1>7, <1>8, <1>9, <1>10, SeqEqual, Zenon
<1> QED BY <1>11 DEF a, t

LEMMA StreamOfOffer ==
  ASSUME NEW s \in Lines, NEW b \in Lines, NEW r \in Lines, NEW l \in Frame
  PROVE  s \o b \o Append(r, l) = Append(s \o b \o r, l)
<1> DEFINE sb == s \o b
<1>1. sb \in Seq(Frame)
  BY ConcatProperties, Zenon DEF Lines
<1> HIDE DEF sb
<1>2. r \in Seq(Frame) /\ <<l>> \in Seq(Frame)
  BY DEF Lines
<1>3. Append(r, l) = r \o <<l>>
  BY <1>2, AppendIsConcat, Zenon
<1>4. sb \o r \in Seq(Frame)
  BY <1>1, <1>2, ConcatProperties, Zenon
<1>5. Append(sb \o r, l) = (sb \o r) \o <<l>>
  BY <1>4, AppendIsConcat, Zenon
<1>6. (sb \o r) \o <<l>> = sb \o (r \o <<l>>)
  BY <1>1, <1>2, LinesAssociate
<1>7. sb \o Append(r, l) = Append(sb \o r, l)
  BY <1>3, <1>5, <1>6, Zenon
<1> QED BY <1>7 DEF sb

LEMMA StreamType ==
  ASSUME TypeOK, NEW c \in Clients
  PROVE  Stream(c) \in Seq(Frame)
<1>1. sent[c] \in Seq(Frame) /\ batch[c] \in Seq(Frame) /\ q[c] \in Seq(Frame)
  BY DEF TypeOK, Lines
<1>2. sent[c] \o batch[c] \in Seq(Frame)
  BY <1>1, ConcatProperties, Zenon
<1> QED BY <1>1, <1>2, ConcatProperties, Zenon DEF Stream

\* Nothing is queued for a connection before it is registered, and no line is
\* left over from the last batch when the next one is taken.
Fresh ==
    \A c \in Clients :
        /\ cpc[c] \in {"off", "request", "hello", "add"} => q[c] = <<>> /\ sent[c] = <<>>
        /\ cpc[c] \in {"off", "request", "hello", "add", "loop", "wait"} => batch[c] = <<>>

LEMMA FreshStep ==
  ASSUME TypeOK, Numbered, BrokerInv, Fresh, [Next]_vars
  PROVE  Fresh'
<1> USE DEF TypeOK, Fresh
<1>1. ASSUME NEW f \in Fifos, NEW c \in Clients, Offer(f, c) PROVE Fresh'
  <2>1. cpc[c] \notin {"off", "request", "hello", "add"}
    BY <1>1 DEF Offer, BrokerInv, Mutex, Registered
  <2>2. \A d \in Clients : d # c => q'[d] = q[d]
    BY <1>1 DEF Offer
  <2> QED BY <1>1, <2>1, <2>2 DEF Offer, clientVars
<1>2. ASSUME NEW c \in Clients, SendLine(c) PROVE Fresh'
  <2>1. batch[c] \in Seq(Frame)
    BY DEF Lines
  <2>2. Tail(batch[c]) \in Seq(Frame) /\ Len(Tail(batch[c])) = Len(batch[c]) - 1
    BY <1>2, <2>1, HeadTailProperties, Zenon DEF SendLine
  <2>3. Tail(batch[c]) # <<>> => Len(Tail(batch[c])) \in Nat \ {0}
    BY <2>2, EmptySeq, Zenon
  <2>4. Len(batch[c]) = 1 => Tail(batch[c]) = <<>>
    BY <2>2, <2>3
  <2> QED BY <1>2, <2>4 DEF SendLine, Goto
<1>3. ASSUME NEW c \in Clients, Take(c) PROVE Fresh'
  <2>1. q[c] = <<>> => SubSeq(q[c], 1, Taken(c)) = <<>>
    <3>1. Len(<<>>) = 0 /\ 0 \in Int /\ 1 \in Int /\ 0 < 1
      OBVIOUS
    <3>2. SubSeq(<<>>, 1, 0) = <<>>
      BY <3>1, SubSeqEmpty, Zenon
    <3> QED BY <3>1, <3>2 DEF Taken
  <2> QED BY <1>3, <2>1 DEF Take, Goto
<1>4. ASSUME NEW c \in Clients,
             \/ \E tokens \in Requests : Subscribe(c, tokens)
             \/ GivesUp(c) \/ SendHello(c) \/ LoopAgain(c) \/ SendFails(c) \/ Accept(c)
             \/ Register(c) \/ Unregister(c)
      PROVE  Fresh'
  <2>1. UNCHANGED <<q, sent, batch>>
    BY <1>4 DEF Subscribe, GivesUp, SendHello, LoopAgain, SendFails, Accept, Register, Unregister
  <2>2. \A d \in Clients : d # c => cpc'[d] = cpc[d]
    BY <1>4 DEF Subscribe, GivesUp, SendHello, LoopAgain, SendFails, Accept, Register,
                Unregister, Goto
  <2>3. /\ cpc'[c] \in {"off", "request", "hello", "add"}
             => cpc[c] \in {"off", "request", "hello", "add"}
        /\ cpc'[c] \in {"off", "request", "hello", "add", "loop", "wait"}
             => cpc[c] \in {"off", "request", "hello", "add", "loop", "wait"}
    BY <1>4 DEF Subscribe, GivesUp, SendHello, LoopAgain, SendFails, Accept, Register,
                Unregister, Goto
  <2> QED BY <2>1, <2>2, <2>3
<1>5. ASSUME \/ \E f \in Fifos : Drain(f) \/ PollerStops(f) \/ LockBroker(f) \/ UnlockBroker(f)
             \/ Signal \/ StopAccepting \/ AcceptFails \/ JoinPollers \/ Exit
      PROVE  Fresh'
  BY <1>5 DEF Drain, PollerStops, LockBroker, UnlockBroker, Signal, StopAccepting, AcceptFails,
              JoinPollers, Exit, clientVars
<1>6. CASE UNCHANGED vars
  BY <1>6 DEF vars, clientVars
<1> QED BY <1>1, <1>2, <1>3, <1>4, <1>5, <1>6, NextCases

\* A step leaves every stream alone, but for the line a fan-out appends.
LEMMA StreamStep ==
  ASSUME TypeOK, Numbered, Fresh, [Next]_vars, NEW c \in Clients
  PROVE  \/ Stream(c)' = Stream(c)
         \/ \E f \in Fifos :
              /\ Offer(f, c) /\ Wants(c, f)
              /\ Stream(c)' = Append(Stream(c), [fifo |-> f, n |-> frame[f]])
<1> USE DEF TypeOK
<1>1. ASSUME NEW f \in Fifos, NEW d \in Clients, Offer(f, d)
      PROVE  \/ Stream(c)' = Stream(c)
             \/ /\ Offer(f, c) /\ Wants(c, f)
                /\ Stream(c)' = Append(Stream(c), [fifo |-> f, n |-> frame[f]])
  <2> DEFINE line == [fifo |-> f, n |-> frame[f]]
  <2>1. UNCHANGED <<sent, batch>>
    BY <1>1 DEF Offer, clientVars
  <2>2. CASE q'[c] = q[c]
    BY <2>1, <2>2 DEF Stream
  <2>3. CASE q'[c] # q[c]
    <3>1. c = d /\ Wants(c, f) /\ q'[c] = Append(q[c], line)
      BY <1>1, <2>3 DEF Offer
    <3>2. line \in Frame
      BY <1>1, LineIsFrame DEF Offer
    <3>3. sent[c] \o batch[c] \o Append(q[c], line) = Append(sent[c] \o batch[c] \o q[c], line)
      BY <3>2, StreamOfOffer, SMTT(30)
    <3> QED BY <1>1, <2>1, <3>1, <3>3 DEF Stream
  <2> QED BY <2>2, <2>3
<1>2. ASSUME NEW d \in Clients, Take(d) PROVE Stream(c)' = Stream(c)
  <2>1. CASE d # c
    BY <1>2, <2>1 DEF Take, Stream
  <2>2. CASE d = c
    <3>1. sent'[c] = sent[c] /\ batch[c] = <<>>
      BY <1>2, <2>2 DEF Take, Goto, Fresh
    <3>2. batch'[c] = SubSeq(q[c], 1, Taken(c)) /\ q'[c] = SubSeq(q[c], Taken(c) + 1, Len(q[c]))
      BY <1>2, <2>2 DEF Take, LeftInQueue
    <3>3. sent[c] \in Lines /\ q[c] \in Lines /\ Taken(c) \in 0 .. Len(q[c])
      BY TakenInQueue
    <3>4. sent[c] \o SubSeq(q[c], 1, Taken(c)) \o SubSeq(q[c], Taken(c) + 1, Len(q[c]))
            = sent[c] \o <<>> \o q[c]
      BY <3>3, StreamOfTake
    <3> QED BY <3>1, <3>2, <3>4 DEF Stream
  <2> QED BY <2>1, <2>2
<1>3. ASSUME NEW d \in Clients, SendLine(d) PROVE Stream(c)' = Stream(c)
  <2>1. CASE d # c
    BY <1>3, <2>1 DEF SendLine, Stream
  <2>2. CASE d = c
    <3>1. Append(sent[c], Head(batch[c])) \o Tail(batch[c]) = sent[c] \o batch[c]
      BY <1>3, <2>2, StreamOfSend DEF SendLine
    <3>2. /\ sent'[c] = Append(sent[c], Head(batch[c])) /\ batch'[c] = Tail(batch[c])
          /\ q'[c] = q[c]
      BY <1>3, <2>2 DEF SendLine
    <3> QED BY <3>1, <3>2 DEF Stream
  <2> QED BY <2>1, <2>2
<1>4. ASSUME UNCHANGED <<sent, batch, q>> PROVE Stream(c)' = Stream(c)
  BY <1>4 DEF Stream
<1>5. ASSUME \/ \E f \in Fifos : Drain(f) \/ PollerStops(f) \/ LockBroker(f) \/ UnlockBroker(f)
             \/ \E d \in Clients :
                  \/ \E tokens \in Requests : Subscribe(d, tokens)
                  \/ GivesUp(d) \/ SendHello(d) \/ LoopAgain(d) \/ SendFails(d) \/ Accept(d)
                  \/ Register(d) \/ Unregister(d)
             \/ Signal \/ StopAccepting \/ AcceptFails \/ JoinPollers \/ Exit
             \/ UNCHANGED vars
      PROVE  UNCHANGED <<sent, batch, q>>
  BY <1>5 DEF Drain, PollerStops, LockBroker, UnlockBroker, Subscribe, GivesUp, SendHello,
              LoopAgain, SendFails, Accept, Register, Unregister, Signal, StopAccepting,
              AcceptFails, JoinPollers, Exit, clientVars, vars
<1> QED BY <1>1, <1>2, <1>3, <1>4, <1>5, NextCases

LEMMA LinesOfAppend ==
  ASSUME NEW s \in Seq(Frame), NEW l \in Frame
  PROVE  {Append(s, l)[i] : i \in 1 .. Len(Append(s, l))} = {s[i] : i \in 1 .. Len(s)} \cup {l}
<1> DEFINE a == Append(s, l)
<1>1. /\ Len(s) \in Nat /\ Len(a) = Len(s) + 1 /\ a[Len(s) + 1] = l
      /\ \A i \in 1 .. Len(s) : a[i] = s[i]
  OBVIOUS
<1> HIDE DEF a
<1>2. \A i \in 1 .. Len(a) : i \in 1 .. Len(s) \/ i = Len(s) + 1
  BY <1>1
<1>3. (\A i \in 1 .. Len(s) : i \in 1 .. Len(a)) /\ Len(s) + 1 \in 1 .. Len(a)
  BY <1>1
<1>4. {a[i] : i \in 1 .. Len(a)} = {s[i] : i \in 1 .. Len(s)} \cup {l}
  BY <1>1, <1>2, <1>3, Zenon
<1> QED BY <1>4 DEF a

LEMMA InStreamStep ==
  ASSUME TypeOK, Numbered, Fresh, [Next]_vars, NEW c \in Clients
  PROVE  \/ InStream(c)' = InStream(c)
         \/ \E f \in Fifos :
              /\ Offer(f, c) /\ Wants(c, f)
              /\ InStream(c)' = InStream(c) \cup {[fifo |-> f, n |-> frame[f]]}
<1>1. CASE Stream(c)' = Stream(c)
  BY <1>1 DEF InStream
<1>2. ASSUME NEW f \in Fifos, Offer(f, c), Wants(c, f),
             Stream(c)' = Append(Stream(c), [fifo |-> f, n |-> frame[f]])
      PROVE  InStream(c)' = InStream(c) \cup {[fifo |-> f, n |-> frame[f]]}
  <2>1. [fifo |-> f, n |-> frame[f]] \in Frame
    BY <1>2, LineIsFrame DEF Offer
  <2>2. Stream(c) \in Seq(Frame)
    BY StreamType
  <2> QED BY <1>2, <2>1, <2>2, LinesOfAppend DEF InStream
<1> QED BY <1>1, <1>2, StreamStep

\* How far the pollers are: publication never goes back; a fan-out starts with
\* every subscriber to visit, and only a visit takes one off the list.
Advances(g) ==
    /\ Published(g) \in Nat /\ Published(g)' \in Nat /\ Published(g) <= Published(g)'
    /\ \A d \in todo'[g] : (d \in todo[g] /\ frame'[g] = frame[g]) \/ Published(g) < frame'[g]
    /\ \A n \in Nat : Published(g) < n /\ n <= Published(g)'
          => n = frame'[g] /\ todo'[g] = subs /\ UNCHANGED <<subs, cpc, since>>
    /\ \A d \in todo[g] : /\ frame'[g] = frame[g] /\ ppc'[g] = "fanout"
                          /\ d \in todo'[g] \/ Offer(g, d)

LEMMA Advance ==
  ASSUME TypeOK, Numbered, BrokerInv, [Next]_vars, NEW g \in Fifos
  PROVE  Advances(g)
<1> USE FramesAssumption DEF TypeOK, Advances
<1>0. Published(g) \in Nat /\ frame[g] \in Nat /\ (todo[g] # {} => ppc[g] = "fanout")
  BY DEF Published, Numbered, BrokerInv, Mutex
<1>1. ASSUME UNCHANGED <<ppc, frame, todo>> PROVE Advances(g)
  BY <1>0, <1>1 DEF Published
<1>2. ASSUME NEW f \in Fifos, Drain(f) PROVE Advances(g)
  <2>1. CASE f = g
    BY <1>0, <1>2, <2>1 DEF Drain, Published
  <2>2. CASE f # g
    BY <1>0, <1>2, <2>2 DEF Drain, Published
  <2> QED BY <2>1, <2>2
<1>3. ASSUME NEW f \in Fifos, PollerStops(f) \/ UnlockBroker(f) PROVE Advances(g)
  BY <1>0, <1>3 DEF PollerStops, UnlockBroker, Published
<1>4. ASSUME NEW f \in Fifos, LockBroker(f) PROVE Advances(g)
  <2>1. CASE f = g
    <3>1. /\ Published(g) = frame[g] - 1 /\ Published(g)' = frame[g] /\ frame[g] > 0
          /\ frame' = frame /\ todo'[g] = subs /\ UNCHANGED <<subs, cpc, since>>
      BY <1>4, <2>1 DEF LockBroker, Published, Numbered, clientVars
    <3>2. todo[g] = {}
      BY <1>0, <1>4, <2>1 DEF LockBroker
    <3>3. \A k, n \in Nat : k - 1 < n /\ n <= k => n = k
      OBVIOUS
    <3>6. \A n \in Nat : frame[g] - 1 < n /\ n <= frame[g] => n = frame[g]
      BY <1>0, <3>3, Zenon
    <3>4. \A d \in todo'[g] : Published(g) < frame'[g]
      BY <1>0, <3>1
    <3>5. Published(g) \in Nat /\ Published(g)' \in Nat /\ Published(g) <= Published(g)'
      BY <1>0, <3>1
    <3> QED BY <3>1, <3>2, <3>4, <3>5, <3>6
  <2>2. CASE f # g
    BY <1>0, <1>4, <2>2 DEF LockBroker, Published
  <2> QED BY <2>1, <2>2
<1>5. ASSUME NEW f \in Fifos, NEW c \in Clients, Offer(f, c) PROVE Advances(g)
  <2>1. UNCHANGED <<ppc, frame>> /\ todo' = [todo EXCEPT ![f] = @ \ {c}]
    BY <1>5, Zenon DEF Offer
  <2>2. \A d \in todo[g] : d \in todo'[g] \/ Offer(g, d)
    BY <1>5, <2>1
  <2> QED BY <1>0, <2>1, <2>2 DEF Published
<1>6. ASSUME \/ \E c \in Clients :
                  \/ \E tokens \in Requests : Subscribe(c, tokens)
                  \/ GivesUp(c) \/ SendHello(c) \/ LoopAgain(c) \/ SendFails(c) \/ Accept(c)
                  \/ Register(c) \/ Unregister(c) \/ Take(c) \/ SendLine(c)
             \/ Signal \/ StopAccepting \/ AcceptFails \/ JoinPollers \/ Exit
             \/ UNCHANGED vars
      PROVE  UNCHANGED <<ppc, frame, todo>>
  BY <1>6 DEF Subscribe, GivesUp, SendHello, LoopAgain, SendFails, Accept, Register, Unregister,
              Take, SendLine, Signal, StopAccepting, AcceptFails, JoinPollers, Exit, pollerVars, vars
<1> QED BY <1>1, <1>2, <1>3, <1>4, <1>5, <1>6, NextCases

\* What a step may do to the rest of a connection's state.
KeepsConnection(c) ==
    /\ names'[c] = names[c] \/ cpc[c] = "request"
    /\ since'[c] = since[c] \/ Register(c)
    /\ c \in subs' => c \in subs \/ Register(c)
    /\ cpc'[c] \in {"loop", "wait", "send"} => cpc[c] \in {"loop", "wait", "send"} \/ Register(c)
    /\ dropped[c] \subseteq dropped'[c]

LEMMA ConnectionStep ==
  ASSUME TypeOK, BrokerInv, [Next]_vars, NEW c \in Clients
  PROVE  KeepsConnection(c)
<1> USE DEF TypeOK, KeepsConnection
<1>1. ASSUME NEW f \in Fifos, NEW d \in Clients, Offer(f, d) PROVE KeepsConnection(c)
  <2>1. UNCHANGED <<names, since, subs, cpc>>
    BY <1>1 DEF Offer, clientVars
  <2>2. dropped' = dropped \/ dropped' = [dropped EXCEPT ![d] = @ \cup {[fifo |-> f, n |-> frame[f]]}]
    BY <1>1, Zenon DEF Offer
  <2> QED BY <2>1, <2>2
<1>2. ASSUME \/ \E f \in Fifos : Drain(f) \/ PollerStops(f) \/ LockBroker(f) \/ UnlockBroker(f)
             \/ Signal \/ StopAccepting \/ AcceptFails \/ JoinPollers \/ Exit
             \/ UNCHANGED vars
      PROVE  UNCHANGED <<names, since, subs, cpc, dropped>>
  BY <1>2 DEF Drain, PollerStops, LockBroker, UnlockBroker, Signal, StopAccepting, AcceptFails,
              JoinPollers, Exit, clientVars, vars
<1>3. ASSUME NEW d \in Clients, NEW tokens \in Requests, Subscribe(d, tokens) PROVE KeepsConnection(c)
  BY <1>3 DEF Subscribe, Goto
<1>4. ASSUME NEW d \in Clients,
             \/ GivesUp(d) \/ SendHello(d) \/ LoopAgain(d) \/ SendFails(d) \/ Accept(d)
             \/ Unregister(d)
      PROVE  KeepsConnection(c)
  BY <1>4 DEF GivesUp, SendHello, LoopAgain, SendFails, Accept, Unregister, Goto
<1>5. ASSUME NEW d \in Clients, Take(d) \/ SendLine(d) PROVE KeepsConnection(c)
  BY <1>5 DEF Take, SendLine, Goto
<1>6. ASSUME NEW d \in Clients, Register(d) PROVE KeepsConnection(c)
  <2>1. CASE d = c
    BY <1>6, <2>1 DEF Register
  <2>2. CASE d # c
    BY <1>6, <2>2 DEF Register, Goto
  <2> QED BY <2>1, <2>2
<1> QED BY <1>1, <1>2, <1>3, <1>4, <1>5, <1>6, NextCases

\* Where streams stand against the pollers: no stream is ahead of what was
\* published, and a subscriber still to be visited has neither the frame being
\* published nor a later start.
History ==
    \A c \in Clients :
        /\ \A l \in InStream(c) :
              l.n <= Published(l.fifo) /\ (c \in todo[l.fifo] => l.n < frame[l.fifo])
        /\ c \in subs => \A f \in Fifos :
              since[c][f] <= Published(f) /\ (c \in todo[f] => since[c][f] < frame[f])

StreamInv == Fresh /\ History /\ StreamOrdered /\ CleanStart /\ NothingLost

AllInv == TypeOK /\ Numbered /\ BrokerInv /\ StreamInv

\* A line of a stream is a frame.
LEMMA InStreamType ==
  ASSUME TypeOK, NEW c \in Clients, NEW l \in InStream(c)
  PROVE  l.fifo \in Fifos /\ l.n \in Nat
<1>1. Stream(c) \in Seq(Frame)
  BY StreamType
<1>2. l \in Frame
  BY <1>1 DEF InStream
<1> QED BY <1>2, FramesAssumption DEF Frame

\* While no poller holds the mutex no fan-out is under way.
LEMMA NothingToVisit ==
  ASSUME BrokerInv, BrokerFree
  PROVE  \A f \in Fifos : todo[f] = {}
  BY NoOneAssumption DEF BrokerInv, Mutex, BrokerFree

LEMMA HistoryStep ==
  ASSUME AllInv, [Next]_vars
  PROVE  History'
<1> USE DEF AllInv, StreamInv
<1>1. ASSUME NEW c \in Clients, NEW l \in InStream(c)'
      PROVE  l.n <= Published(l.fifo)' /\ (c \in todo'[l.fifo] => l.n < frame'[l.fifo])
  <2>1. CASE l \in InStream(c)
    <3> DEFINE g == l.fifo
    <3>1. g \in Fifos /\ l.n \in Nat /\ l.n <= Published(g) /\ (c \in todo[g] => l.n < frame[g])
      BY <2>1, InStreamType DEF History
    <3>2. Advances(g)
      BY <3>1, Advance
    <3>3. frame'[g] \in Nat
      BY <3>1, TypeStep, FramesAssumption DEF TypeOK
    <3> QED BY <3>1, <3>2, <3>3 DEF Advances
  <2>2. ASSUME NEW f \in Fifos, Offer(f, c), l = [fifo |-> f, n |-> frame[f]]
        PROVE  l.n <= Published(l.fifo)' /\ (c \in todo'[l.fifo] => l.n < frame'[l.fifo])
    <3>1. l.fifo = f /\ l.n = frame[f] /\ frame[f] \in Nat
      BY <2>2, FramesAssumption DEF TypeOK
    <3>2. Published(f)' = frame[f] /\ c \notin todo'[f]
      BY <2>2 DEF Offer, Published, TypeOK
    <3> QED BY <3>1, <3>2
  <2> QED BY <1>1, <2>1, <2>2, InStreamStep
<1>2. ASSUME NEW c \in Clients, c \in subs', NEW f \in Fifos
      PROVE  since'[c][f] <= Published(f)' /\ (c \in todo'[f] => since'[c][f] < frame'[f])
  <2>1. Advances(f) /\ KeepsConnection(c) /\ frame'[f] \in Nat
    BY Advance, ConnectionStep, TypeStep, FramesAssumption DEF TypeOK
  <2>2. CASE Register(c)
    <3>1. since'[c][f] = Published(f) /\ todo' = todo
      BY <2>2 DEF Register, pollerVars, TypeOK
    <3>2. todo[f] = {}
      BY <2>2, NothingToVisit DEF Register
    <3> QED BY <2>1, <3>1, <3>2 DEF Advances
  <2>3. CASE ~Register(c)
    <3>1. since'[c] = since[c] /\ c \in subs
      BY <1>2, <2>1, <2>3 DEF KeepsConnection
    <3>2. since[c][f] \in Nat
      BY FramesAssumption DEF TypeOK
    <3>3. since[c][f] <= Published(f) /\ (c \in todo[f] => since[c][f] < frame[f])
      BY <3>1 DEF History
    <3> QED BY <2>1, <3>1, <3>2, <3>3 DEF Advances
  <2> QED BY <2>2, <2>3
<1> QED BY <1>1, <1>2 DEF History

\* An appended line comes after every line of its FIFO.
LEMMA OrderedStep ==
  ASSUME AllInv, [Next]_vars
  PROVE  StreamOrdered'
<1> USE DEF AllInv, StreamInv
<1> SUFFICES ASSUME NEW c \in Clients,
                    NEW i \in 1 .. Len(Stream(c)'), NEW j \in 1 .. Len(Stream(c)'),
                    i < j, Stream(c)'[i].fifo = Stream(c)'[j].fifo
             PROVE  Stream(c)'[i].n < Stream(c)'[j].n
  BY Zenon DEF StreamOrdered
<1>1. CASE Stream(c)' = Stream(c)
  BY <1>1 DEF StreamOrdered
<1>2. ASSUME NEW f \in Fifos, Offer(f, c),
             Stream(c)' = Append(Stream(c), [fifo |-> f, n |-> frame[f]])
      PROVE  Stream(c)'[i].n < Stream(c)'[j].n
  <2> DEFINE s == Stream(c)
             line == [fifo |-> f, n |-> frame[f]]
  <2>1. s \in Seq(Frame) /\ line \in Frame
    BY <1>2, StreamType, LineIsFrame DEF Offer
  <2>2. /\ Len(s) \in Nat /\ Len(Append(s, line)) = Len(s) + 1
        /\ Append(s, line)[Len(s) + 1] = line
        /\ \A k \in 1 .. Len(s) : Append(s, line)[k] = s[k]
    BY <2>1
  <2>3. i \in 1 .. Len(s) /\ (j \in 1 .. Len(s) \/ j = Len(s) + 1)
    BY <1>2, <2>2
  <2>4. CASE j \in 1 .. Len(s)
    BY <1>2, <2>2, <2>3, <2>4 DEF StreamOrdered
  <2>5. CASE j = Len(s) + 1
    <3>1. s[i] \in InStream(c) /\ s[i].fifo = f
      BY <1>2, <2>2, <2>3, <2>5 DEF InStream
    <3>2. c \in todo[f]
      BY <1>2 DEF Offer
    <3>3. s[i].n < frame[f]
      BY <3>1, <3>2 DEF History
    <3> QED BY <1>2, <2>2, <2>3, <2>5, <3>3
  <2> QED BY <2>3, <2>4, <2>5
<1> QED BY <1>1, <1>2, StreamStep

LEMMA CleanStep ==
  ASSUME AllInv, [Next]_vars
  PROVE  CleanStart'
<1> USE DEF AllInv, StreamInv
<1> SUFFICES ASSUME NEW c \in Clients, NEW l \in InStream(c)'
             PROVE  l.fifo \in names'[c] /\ since'[c][l.fifo] < l.n
  BY Zenon DEF CleanStart
<1>1. KeepsConnection(c)
  BY ConnectionStep
<1>2. CASE l \in InStream(c)
  <2>1. InStream(c) # {} => cpc[c] \notin {"request", "add"}
    <3>1. ASSUME cpc[c] \in {"request", "add"} PROVE Stream(c) = <<>>
      BY <3>1 DEF Fresh, Stream
    <3> QED BY <3>1 DEF InStream
  <2>2. names'[c] = names[c] /\ since'[c] = since[c]
    BY <1>1, <1>2, <2>1 DEF KeepsConnection, Register, Goto
  <2> QED BY <1>2, <2>2 DEF CleanStart
<1>3. ASSUME NEW f \in Fifos, Offer(f, c), Wants(c, f), l = [fifo |-> f, n |-> frame[f]]
      PROVE  l.fifo \in names'[c] /\ since'[c][l.fifo] < l.n
  <2>1. names' = names /\ since' = since /\ c \in todo[f] /\ c \in subs
    BY <1>3 DEF Offer, clientVars, BrokerInv, Mutex
  <2>2. since[c][f] < frame[f]
    BY <2>1 DEF History
  <2> QED BY <1>3, <2>1, <2>2 DEF Wants
<1> QED BY <1>2, <1>3, InStreamStep

LEMMA NothingLostStep ==
  ASSUME AllInv, [Next]_vars
  PROVE  NothingLost'
<1> USE DEF AllInv, StreamInv
<1> SUFFICES ASSUME NEW c \in Clients, cpc'[c] \in {"loop", "wait", "send"},
                    NEW f \in names'[c], NEW n \in 1 .. MaxFrames,
                    since'[c][f] < n, n <= Published(f)', ~(n = frame'[f] /\ c \in todo'[f])
             PROVE  [fifo |-> f, n |-> n] \in InStream(c)' \cup dropped'[c]
  BY Zenon DEF NothingLost
<1>1. f \in Fifos /\ n \in Nat
  BY TypeStep, FramesAssumption DEF TypeOK
<1>2. Advances(f) /\ KeepsConnection(c)
  BY <1>1, Advance, ConnectionStep
<1>3. ~Register(c)
  <2> SUFFICES ASSUME Register(c) PROVE FALSE
    OBVIOUS
  <2>1. since'[c][f] = Published(f) /\ UNCHANGED <<ppc, frame>>
    BY <1>1 DEF Register, pollerVars, TypeOK
  <2>2. Published(f)' = Published(f)
    BY <2>1 DEF Published
  <2> QED BY <1>1, <1>2, <2>1, <2>2 DEF Advances
<1>4. cpc[c] \in {"loop", "wait", "send"} /\ names'[c] = names[c] /\ since'[c] = since[c]
  BY <1>2, <1>3 DEF KeepsConnection
<1>5. InStream(c) \subseteq InStream(c)' /\ dropped[c] \subseteq dropped'[c]
  BY <1>2, InStreamStep DEF KeepsConnection
<1>6. CASE n <= Published(f) /\ ~(n = frame[f] /\ c \in todo[f])
  BY <1>1, <1>4, <1>5, <1>6 DEF NothingLost
<1>7. CASE ~(n <= Published(f))
  <2>1. n = frame'[f] /\ todo'[f] = subs
    BY <1>1, <1>2, <1>7 DEF Advances
  <2>2. c \in subs
    BY <1>4 DEF BrokerInv, Registered
  <2> QED BY <2>1, <2>2
<1>8. CASE n = frame[f] /\ c \in todo[f]
  <2>1. Offer(f, c)
    BY <1>2, <1>8 DEF Advances
  <2>2. f \in names[c]
    BY <1>4
  <2>3. CASE q' # q
    <3>1. q'[c] = Append(q[c], [fifo |-> f, n |-> frame[f]])
      BY <2>1, <2>3 DEF Offer, TypeOK
    <3>2. UNCHANGED <<sent, batch>>
      BY <2>1 DEF Offer, clientVars
    <3>3. [fifo |-> f, n |-> frame[f]] \in Frame
      BY <1>1, <2>1, LineIsFrame DEF Offer
    <3>4. Stream(c)' = Append(Stream(c), [fifo |-> f, n |-> frame[f]])
      <4>1. sent[c] \in Lines /\ batch[c] \in Lines /\ q[c] \in Lines
        BY DEF TypeOK
      <4>2. sent[c] \o batch[c] \o Append(q[c], [fifo |-> f, n |-> frame[f]])
              = Append(Stream(c), [fifo |-> f, n |-> frame[f]])
        BY <3>3, <4>1, StreamOfOffer, Zenon DEF Stream
      <4>. QED BY <3>1, <3>2, <4>2, Zenon DEF Stream
    <3>5. InStream(c)' = InStream(c) \cup {[fifo |-> f, n |-> frame[f]]}
      BY <3>3, <3>4, StreamType, LinesOfAppend DEF InStream
    <3> QED BY <1>8, <3>5
  <2>4. CASE q' = q
    <3>1. dropped' = [dropped EXCEPT ![c] = @ \cup {[fifo |-> f, n |-> frame[f]]}]
      <4>1. q[c] \in Seq(Frame)
        BY DEF TypeOK, Lines
      <4>2. Append(q[c], [fifo |-> f, n |-> frame[f]]) # q[c]
        BY <4>1
      <4> QED BY <2>1, <2>2, <2>4, <4>2 DEF Offer, Wants, TypeOK
    <3> QED BY <1>8, <3>1 DEF TypeOK
  <2> QED BY <2>3, <2>4
<1> QED BY <1>6, <1>7, <1>8

LEMMA StreamInit == Init => StreamInv
<1> SUFFICES ASSUME Init PROVE StreamInv
  OBVIOUS
<1>1. Fresh
  BY DEF Init, Fresh
<1>2. \A c \in Clients : Stream(c) = <<>>
  BY DEF Init, Stream
<1>3. \A c \in Clients : InStream(c) = {}
  BY <1>2 DEF InStream
<1>4. History /\ CleanStart
  BY <1>3 DEF Init, History, CleanStart
<1>5. StreamOrdered
  BY <1>2 DEF StreamOrdered
<1>6. NothingLost
  BY DEF Init, NothingLost
<1> QED BY <1>1, <1>4, <1>5, <1>6 DEF StreamInv

LEMMA StreamInvariant == Spec => []StreamInv
<1>1. TypeOK /\ Numbered /\ BrokerInv /\ StreamInv /\ [Next]_vars => StreamInv'
  <2> SUFFICES ASSUME TypeOK, Numbered, BrokerInv, StreamInv, [Next]_vars PROVE StreamInv'
    OBVIOUS
  <2>1. AllInv
    BY DEF AllInv
  <2>2. Fresh'
    BY FreshStep DEF StreamInv
  <2> QED BY <2>1, <2>2, HistoryStep, OrderedStep, CleanStep, NothingLostStep DEF StreamInv
<1> QED BY <1>1, StreamInit, BrokerInvariant, TypeCorrect, PTL DEF Spec

\* A subscriber sees the frames of a FIFO in the order they were drained and
\* none twice, whatever the pollers do while its queue is taken.
THEOREM StreamsOrdered == Spec => []StreamOrdered
<1>1. StreamInv => StreamOrdered
  BY DEF StreamInv
<1> QED BY <1>1, StreamInvariant, PTL

\* A late subscriber gets only what it asked for and nothing published before
\* it was registered.
THEOREM StartsClean == Spec => []CleanStart
<1>1. StreamInv => CleanStart
  BY DEF StreamInv
<1> QED BY <1>1, StreamInvariant, PTL

\* A frame published to a connected subscriber is in its stream, unless the
\* broker dropped it at a full queue.
THEOREM NoFrameLost == Spec => []NothingLost
<1>1. StreamInv => NothingLost
  BY DEF StreamInv
<1> QED BY <1>1, StreamInvariant, PTL
=============================================================================
