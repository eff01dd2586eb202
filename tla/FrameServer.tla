---------------------------- MODULE FrameServer ----------------------------
(***************************************************************************)
(* The frame server: `poc_server serve` (apps/poc_server/main.cpp) and its *)
(* Python twin scripts/fifo_server.py.  One poller thread per capture FIFO *)
(* numbers the frames it drains and publishes them through the broker; one *)
(* thread per TCP subscriber forwards what the broker queued for it; the   *)
(* main thread accepts subscribers until SIGINT or SIGTERM.                *)
(*                                                                         *)
(* Each step is what a thread does between two points where another one    *)
(* can interfere: taking the broker mutex, one pass of the fan-out loop    *)
(* (one subscriber's mutex), one swap of a subscriber's queue, one send.   *)
(* How a poller gets a frame out of the hardware is CapturePoller's        *)
(* subject; here a frame is its FIFO and its number.                       *)
(***************************************************************************)
EXTENDS Naturals, Sequences

CONSTANTS
    Fifos,       \* the capture FIFOs the server was started with
    Clients,     \* TCP connections
    QUEUE_MAX,   \* per-subscriber frame queue before dropping
    MaxFrames,   \* bound: frames drained from each FIFO
    Servers,     \* which of the two implementations may run
    NoOne        \* nobody holds the broker mutex

ASSUME QueueAssumption   == QUEUE_MAX \in Nat \ {0}
ASSUME FramesAssumption  == MaxFrames \in Nat
ASSUME VariantAssumption == Servers \subseteq {"poc_server", "fifo_server.py"}
ASSUME NoOneAssumption   == NoOne \notin Fifos

VARIABLES
    server,      \* the implementation that runs
    g_stop,      \* set by the signal handler
    main,        \* the main thread: "accept", "join", "linger", "exited"
    ppc,         \* pollers: "poll", "publish", "fanout", "done"
    frame,       \* frames each poller has numbered so far
    holder,      \* the poller that holds the broker mutex, or NoOne
    subs,        \* Broker::subs
    todo,        \* subscribers the fan-out loop of a poller has yet to visit
    cpc,         \* client threads
    names,       \* Client::names
    q,           \* Client::q
    batch,       \* lines taken from q and not yet sent
    sent,        \* history: lines handed to the socket
    since,       \* history: frames already published when c registered
    dropped      \* history: frames the broker discarded for c

pollerVars == <<ppc, frame, todo>>
clientVars == <<cpc, names, batch, sent, since>>
vars == <<server, g_stop, main, holder, subs, q, dropped, pollerVars, clientVars>>

\* What differs between the two is marked with this.
Python == server = "fifo_server.py"

\* A frame on the wire: "fifo" and "frame" of the JSON object.
Frame == [fifo : Fifos, n : 1 .. MaxFrames]

\* Frames of f whose publication is over: the counter runs one ahead while
\* the poller waits for the mutex.
Published(f) == IF ppc[f] = "publish" THEN frame[f] - 1 ELSE frame[f]

Running == main # "exited"       \* returning from main ends every thread

\* (mutants) no mutex; a queue one line longer; everyone gets everything.
BrokerNeverLocked == TRUE
HasRoomOffByOne(c) == Len(q[c]) <= QUEUE_MAX
WantsAll(c, f) == TRUE

\* The lock_guard at the top of Broker::add, remove and publish.
BrokerFree == holder = NoOne

\* The two tests publish makes of a subscriber.
Wants(c, f) == f \in names[c]
HasRoom(c)  == Len(q[c]) < QUEUE_MAX

---------------------------------------------------------------------------
\* fifo_poller, from the moment a complete frame has been read.

Drain(f) ==
    /\ Running /\ ppc[f] = "poll" /\ ~g_stop
    /\ frame[f] < MaxFrames
    /\ frame' = [frame EXCEPT ![f] = @ + 1]
    /\ ppc' = [ppc EXCEPT ![f] = "publish"]
    /\ UNCHANGED <<server, g_stop, main, holder, subs, q, dropped, todo, clientVars>>

PollerStops(f) ==
    /\ Running /\ ppc[f] = "poll" /\ g_stop
    /\ ppc' = [ppc EXCEPT ![f] = "done"]
    /\ UNCHANGED <<server, g_stop, main, holder, subs, q, dropped, frame, todo, clientVars>>

\* Broker::publish takes the broker mutex ...
LockBroker(f) ==
    /\ Running /\ ppc[f] = "publish" /\ BrokerFree
    /\ holder' = f
    /\ todo' = [todo EXCEPT ![f] = subs]
    /\ ppc' = [ppc EXCEPT ![f] = "fanout"]
    /\ UNCHANGED <<server, g_stop, main, subs, q, dropped, frame, clientVars>>

\* (mutant) A full queue is waited for.
OfferWaits(f, c) ==
    /\ Running /\ ppc[f] = "fanout" /\ c \in todo[f]
    /\ Wants(c, f) => HasRoom(c)
    /\ q' = IF Wants(c, f) THEN [q EXCEPT ![c] = Append(@, [fifo |-> f, n |-> frame[f]])] ELSE q
    /\ todo' = [todo EXCEPT ![f] = @ \ {c}]
    /\ UNCHANGED <<server, g_stop, main, holder, subs, dropped, ppc, frame, clientVars>>

\* ... and visits each subscriber once (the order of the vector is left
\* open): it is not subscribed to f, or its queue is full, or it gets the line.
Offer(f, c) ==
    LET line == [fifo |-> f, n |-> frame[f]]
    IN  /\ Running /\ ppc[f] = "fanout" /\ c \in todo[f]
        /\ \/ /\ ~Wants(c, f)
              /\ UNCHANGED <<q, dropped>>
           \/ /\ Wants(c, f) /\ ~HasRoom(c)
              /\ dropped' = [dropped EXCEPT ![c] = @ \cup {line}]
              /\ UNCHANGED q
           \/ /\ Wants(c, f) /\ HasRoom(c)
              /\ q' = [q EXCEPT ![c] = Append(@, line)]
              /\ UNCHANGED dropped
        /\ todo' = [todo EXCEPT ![f] = @ \ {c}]
        /\ UNCHANGED <<server, g_stop, main, holder, subs, ppc, frame, clientVars>>

UnlockBroker(f) ==
    /\ Running /\ ppc[f] = "fanout" /\ todo[f] = {}
    /\ holder' = NoOne
    /\ ppc' = [ppc EXCEPT ![f] = "poll"]
    /\ UNCHANGED <<server, g_stop, main, subs, q, dropped, frame, todo, clientVars>>

PollerProgress(f) ==
    \/ PollerStops(f) \/ LockBroker(f) \/ UnlockBroker(f)
    \/ \E c \in Clients : Offer(f, c)

Poller(f) == Drain(f) \/ PollerProgress(f)

---------------------------------------------------------------------------
\* client_thread.

Goto(c, at, to) == Running /\ cpc[c] = at /\ cpc' = [cpc EXCEPT ![c] = to]

\* The names a request line selects: those that are served, or all of them
\* when none is or when it says "*".
Selects(tokens) ==
    IF tokens \cap Fifos = {} \/ "*" \in tokens THEN Fifos ELSE tokens \cap Fifos

Subscribe(c, tokens) ==
    /\ Goto(c, "request", "hello")
    /\ names' = [names EXCEPT ![c] = Selects(tokens)]
    /\ UNCHANGED <<server, g_stop, main, holder, subs, q, dropped, pollerVars, batch, sent, since>>

\* No line within 30 s, or the peer is gone, or the hello line cannot be
\* sent.  fifo_server.py leaves through its finally block, which asks the
\* broker to forget a queue it never saw.
GivesUp(c) ==
    /\ \E at \in {"request", "hello"} : Goto(c, at, IF Python THEN "remove" ELSE "closed")
    /\ UNCHANGED <<server, g_stop, main, holder, subs, q, dropped, pollerVars, names, batch, sent, since>>

SendHello(c) ==
    /\ Goto(c, "hello", "add")
    /\ UNCHANGED <<server, g_stop, main, holder, subs, q, dropped, pollerVars, names, batch, sent, since>>

\* Broker::add.
Register(c) ==
    /\ BrokerFree
    /\ Goto(c, "add", "loop")
    /\ subs' = subs \cup {c}
    /\ since' = [since EXCEPT ![c] = [f \in Fifos |-> Published(f)]]
    /\ UNCHANGED <<server, g_stop, main, holder, q, dropped, pollerVars, names, batch, sent>>

\* The loop condition, tested before each wait.
LoopAgain(c) ==
    /\ Goto(c, "loop", IF g_stop THEN "remove" ELSE "wait")
    /\ UNCHANGED <<server, g_stop, main, holder, subs, q, dropped, pollerVars, names, batch, sent, since>>

\* (mutants) The queue is copied, not swapped; the rest of it is discarded.
QueueCopied(c) == q[c]
QueueCleared(c) == <<>>

\* wait_for returns: lines are there, g_stop is set, or a second is over.
\* poc_server swaps the whole queue out, fifo_server.py takes one line.
Taken(c) == IF Python /\ q[c] # <<>> THEN 1 ELSE Len(q[c])
LeftInQueue(c) == SubSeq(q[c], Taken(c) + 1, Len(q[c]))

Take(c) ==
    /\ Goto(c, "wait", IF q[c] = <<>> THEN "loop" ELSE "send")
    /\ batch' = [batch EXCEPT ![c] = SubSeq(q[c], 1, Taken(c))]
    /\ q' = [q EXCEPT ![c] = LeftInQueue(c)]
    /\ UNCHANGED <<server, g_stop, main, holder, subs, dropped, pollerVars, names, sent, since>>

\* (mutant) The send loop leaves after its first line.
SendOneLine(c) ==
    /\ batch[c] # <<>>
    /\ Goto(c, "send", "loop")
    /\ sent' = [sent EXCEPT ![c] = Append(@, Head(batch[c]))]
    /\ batch' = [batch EXCEPT ![c] = <<>>]
    /\ UNCHANGED <<server, g_stop, main, holder, subs, q, dropped, pollerVars, names, since>>

SendLine(c) ==
    /\ batch[c] # <<>>
    /\ Goto(c, "send", IF Len(batch[c]) = 1 THEN "loop" ELSE "send")
    /\ sent' = [sent EXCEPT ![c] = Append(@, Head(batch[c]))]
    /\ batch' = [batch EXCEPT ![c] = Tail(@)]
    /\ UNCHANGED <<server, g_stop, main, holder, subs, q, dropped, pollerVars, names, since>>

\* The peer has gone, or has not read for 10 s; the rest of the batch and of
\* the queue is lost with the connection.
SendFails(c) ==
    /\ Goto(c, "send", "remove")
    /\ UNCHANGED <<server, g_stop, main, holder, subs, q, dropped, pollerVars, names, batch, sent, since>>

\* Broker::remove, then close.
Unregister(c) ==
    /\ BrokerFree
    /\ Goto(c, "remove", "closed")
    /\ subs' = subs \ {c}
    /\ UNCHANGED <<server, g_stop, main, holder, q, dropped, pollerVars, names, batch, sent, since>>

Requests == SUBSET (Fifos \cup {"*", "junk"})

ClientProgress(c) ==
    \/ SendHello(c) \/ Register(c) \/ LoopAgain(c) \/ Take(c) \/ SendLine(c) \/ Unregister(c)

Client(c) ==
    \/ \E tokens \in Requests : Subscribe(c, tokens)
    \/ GivesUp(c) \/ SendFails(c) \/ ClientProgress(c)

---------------------------------------------------------------------------
\* The main thread and the signal handler.  Testing g_stop and accepting
\* (or draining a frame) is one step: what follows the test touches nothing
\* that another thread reads, so a signal in between changes nothing.

Accept(c) ==
    /\ main = "accept" /\ ~g_stop
    /\ Goto(c, "off", "request")
    /\ UNCHANGED <<server, g_stop, main, holder, subs, q, dropped, pollerVars, names, batch, sent, since>>

Signal ==
    /\ Running /\ ~g_stop
    /\ g_stop' = TRUE
    /\ UNCHANGED <<server, main, holder, subs, q, dropped, pollerVars, clientVars>>

\* poc_server joins its pollers and lingers for 1.2 s before it returns;
\* fifo_server.py returns at once and its daemon threads die with it.
StopAccepting ==
    /\ main = "accept" /\ g_stop
    /\ main' = IF Python THEN "exited" ELSE "join"
    /\ UNCHANGED <<server, g_stop, holder, subs, q, dropped, pollerVars, clientVars>>

\* fifo_server.py also leaves its loop when accept fails.
AcceptFails ==
    /\ Python /\ main = "accept"
    /\ main' = "exited"
    /\ UNCHANGED <<server, g_stop, holder, subs, q, dropped, pollerVars, clientVars>>

\* (mutants) Nobody is joined; subscribers are joined too.
JoinNobody ==
    /\ main = "join"
    /\ main' = "linger"
    /\ UNCHANGED <<server, g_stop, holder, subs, q, dropped, pollerVars, clientVars>>
JoinEveryone ==
    /\ main = "join" /\ \A f \in Fifos : ppc[f] = "done"
    /\ \A c \in Clients : cpc[c] \in {"off", "closed"}
    /\ main' = "linger"
    /\ UNCHANGED <<server, g_stop, holder, subs, q, dropped, pollerVars, clientVars>>

JoinPollers ==
    /\ main = "join" /\ \A f \in Fifos : ppc[f] = "done"
    /\ main' = "linger"
    /\ UNCHANGED <<server, g_stop, holder, subs, q, dropped, pollerVars, clientVars>>

Exit ==
    /\ main = "linger"
    /\ main' = "exited"
    /\ UNCHANGED <<server, g_stop, holder, subs, q, dropped, pollerVars, clientVars>>

MainThread == StopAccepting \/ JoinPollers \/ Exit

---------------------------------------------------------------------------
Init ==
    /\ server \in Servers
    /\ g_stop = FALSE /\ main = "accept"
    \* a fifo_server.py poller that cannot map its FIFO ends at once
    /\ ppc \in [Fifos -> IF Python THEN {"poll", "done"} ELSE {"poll"}]
    /\ frame = [f \in Fifos |-> 0]
    /\ todo = [f \in Fifos |-> {}]
    /\ holder = NoOne /\ subs = {}
    /\ cpc = [c \in Clients |-> "off"]
    /\ names = [c \in Clients |-> {}]
    /\ q = [c \in Clients |-> <<>>]
    /\ batch = [c \in Clients |-> <<>>]
    /\ sent = [c \in Clients |-> <<>>]
    /\ since = [c \in Clients |-> [f \in Fifos |-> 0]]
    /\ dropped = [c \in Clients |-> {}]

Next ==
    \/ \E f \in Fifos : Poller(f)
    \/ \E c \in Clients : Client(c) \/ Accept(c)
    \/ Signal \/ MainThread \/ AcceptFails

Spec == Init /\ [][Next]_vars

\* Pollers and the main thread run; a subscriber may stall for ever, in a
\* send or without sending its request.
ServerFairness == (\A f \in Fifos : WF_vars(PollerProgress(f))) /\ WF_vars(MainThread)

FairSpec == Spec /\ ServerFairness

---------------------------------------------------------------------------
Lines == Seq(Frame)

TypeOK ==
    /\ server \in Servers
    /\ g_stop \in BOOLEAN /\ main \in {"accept", "join", "linger", "exited"}
    /\ ppc \in [Fifos -> {"poll", "publish", "fanout", "done"}]
    /\ frame \in [Fifos -> 0 .. MaxFrames]
    /\ holder \in Fifos \cup {NoOne}
    /\ subs \subseteq Clients /\ todo \in [Fifos -> SUBSET Clients]
    /\ cpc \in [Clients -> {"off", "request", "hello", "add", "loop", "wait",
                            "send", "remove", "closed"}]
    /\ names \in [Clients -> SUBSET Fifos]
    /\ q \in [Clients -> Lines] /\ batch \in [Clients -> Lines]
    /\ sent \in [Clients -> Lines]
    /\ since \in [Clients -> [Fifos -> 0 .. MaxFrames]]
    /\ dropped \in [Clients -> SUBSET Frame]

\* Everything queued for c so far, in the order it reaches the socket.
Stream(c) == sent[c] \o batch[c] \o q[c]
InStream(c) == {Stream(c)[i] : i \in 1 .. Len(Stream(c))}

\* "Per-client queue": no subscriber, however slow, makes the server hold
\* more than QUEUE_MAX lines for it in its queue.
QueueBounded == \A c \in Clients : Len(q[c]) <= QUEUE_MAX

\* A subscriber sees the frames of a FIFO in the order they were drained and
\* none twice, although its queue is swapped out while pollers publish.
StreamOrdered ==
    \A c \in Clients : \A i, j \in 1 .. Len(Stream(c)) :
        i < j /\ Stream(c)[i].fifo = Stream(c)[j].fifo => Stream(c)[i].n < Stream(c)[j].n

\* "Late subscribers start clean": a subscriber gets only FIFOs it asked for,
\* and no frame that was published before it was registered.
CleanStart ==
    \A c \in Clients : \A l \in InStream(c) :
        l.fifo \in names[c] /\ since[c][l.fifo] < l.n

\* While a subscriber is served, each frame published since it registered is
\* in its stream unless the broker dropped it at a full queue: no frame slips
\* through between add, publish and the swap of the queue.
NothingLost ==
    \A c \in Clients : cpc[c] \in {"loop", "wait", "send"} =>
        \A f \in names[c] : \A n \in 1 .. MaxFrames :
            since[c][f] < n /\ n <= Published(f) /\ ~(n = frame[f] /\ c \in todo[f])
            => [fifo |-> f, n |-> n] \in InStream(c) \cup dropped[c]

\* While poc_server lingers, and when it returns from main, no poller holds
\* the broker mutex or is in its fan-out.  This is about pollers only: a
\* detached subscriber thread may then be in Broker::add or Broker::remove,
\* each of which is one step here.
QuietExit == ~Python /\ main \in {"linger", "exited"} =>
                 holder \notin Fifos /\ \A f \in Fifos : todo[f] = {}

\* A closed connection is out of the broker, although it may leave while a
\* poller iterates over the subscribers: no fan-out has it still to visit, so
\* nothing is queued for it again.
ClosedForgotten ==
    \A c \in Clients : cpc[c] = "closed" =>
        c \notin subs /\ \A f \in Fifos : c \notin todo[f]

\* "Slow subscribers are dropped-from, not waited-for": a drained frame is
\* published though no subscriber ever reads.
PollersNeverWait ==
    \A f \in Fifos : ppc[f] = "publish" ~> (ppc[f] = "poll" \/ main = "exited")

\* SIGINT or SIGTERM ends the server though no subscriber ever reads.
StopEnds == g_stop ~> main = "exited"

\* A queued line reaches a subscriber that reads what it is sent, unless the
\* connection or the server ends.
Delivered ==
    (\A c \in Clients : WF_vars(ClientProgress(c))) =>
    \A c \in Clients : \A l \in Frame :
        (\E i \in 1 .. Len(q[c]) : q[c][i] = l)
          ~> \/ \E i \in 1 .. Len(sent[c]) : sent[c][i] = l
             \/ cpc[c] = "closed" \/ main = "exited"

\* "Frames are discarded for that client when it falls > QUEUE_MAX behind":
\* apart from the line being sent, no client of fifo_server.py is further
\* behind.  (poc_server, which swaps the queue out, allows twice as much.)
NeverFurtherBehind ==
    Python => \A c \in Clients : Len(batch[c]) + Len(q[c]) <= QUEUE_MAX + 1
============================================================================
