------------------------- MODULE FilterBenchProofs -------------------------
(***************************************************************************)
(* Proofs about FilterBench, for every set of configurations and every     *)
(* delay of the filter.                                                    *)
(***************************************************************************)
EXTENDS FilterBench, FiniteSetTheorems, SequenceTheorems, TLAPS

---------------------------------------------------------------------------
\* What travels: the commands of the configurations, and what the filter holds.

Commands == UNION {{gen_cmd(c.rows[n]) : n \in DOMAIN c.rows} : c \in Configs}
Inputs == {Properties(from_dict(c)) : c \in Commands}
Entries == [cmd : Inputs, since : Nat]

TravelInv ==
    /\ now \in Nat
    /\ _commands \in Seq(Commands)
    /\ pipe \in Seq(Entries)
    /\ out \in Entries \cup {Nothing}

\* What the filter holds was logged.
LoggedInv ==
    /\ \A n \in 1 .. Len(pipe) : KeyOf(pipe[n].cmd) \in DOMAIN _msgs
    /\ out # Nothing => KeyOf(out.cmd) \in DOMAIN _msgs

\* Nothing is in the filter before a configuration is loaded, and the set of
\* orders is missing only where there are no securities.
OrdersInv ==
    /\ pc = "load" => config = Missing /\ pipe = <<>> /\ out = Nothing
    /\ Loaded =>
          /\ config \in Configs
          /\ \/ _orderids = NoSet /\ config.securities = <<>>
             \/ _orderids \in SUBSET OrderIds

RaiseInv == TravelInv /\ LoggedInv /\ OrdersInv /\ KeyFound

---------------------------------------------------------------------------
\* A command goes to the filter with the key it is logged under.
LEMMA KeyOfCommand ==
    ASSUME NEW c \in Commands
    PROVE  /\ KeyOf(Properties(from_dict(c))) = msg_key(from_dict(c))
           /\ cmd_orderid_str(from_dict(c)) \in OrderIds
           /\ Properties(from_dict(c)) \in Inputs
           /\ Properties(from_dict(c)) # NoCommand
<1>1. PICK f \in Configs : \E n \in DOMAIN f.rows : c = gen_cmd(f.rows[n])
  BY DEF Commands
<1>. PICK n \in DOMAIN f.rows : c = gen_cmd(f.rows[n])
  BY <1>1
<1>2. /\ KeyOf(Properties(from_dict(c))) = msg_key(from_dict(c))
      /\ Properties(from_dict(c)) \in Inputs
  BY DEF KeyOf, Key, Properties, from_dict, msg_key, cmd_orderid_str, from_u64, Inputs
<1>3. cmd_orderid_str(from_dict(c)) = f.rows[n].orderid
  BY DEF cmd_orderid_str, from_dict, from_u64, to_u64, gen_cmd
<1>4. cmd_orderid_str(from_dict(c)) \in OrderIds
  BY <1>3 DEF OrderIds
<1>5. Properties(from_dict(c)) # NoCommand
  BY DEF Properties, NoCommand
<1>. QED BY <1>2, <1>4, <1>5

\* What a cycle of the filter does to what it holds: nothing comes out of it but
\* what it held and what it took.
LEMMA CycleKeepsEntries ==
    ASSUME TravelInv, NEW in \in Inputs \cup {NoCommand}, NEW seen, FilterCycle(in, seen)
    PROVE  /\ now' \in Nat /\ pipe' \in Seq(Entries) /\ out' \in Entries \cup {Nothing}
           /\ \A n \in 1 .. Len(pipe') :
                 \/ \E m \in 1 .. Len(pipe) : pipe'[n] = pipe[m]
                 \/ in # NoCommand /\ pipe'[n].cmd = in
           /\ \/ out' = Nothing
              \/ \E m \in 1 .. Len(pipe) : out' = pipe[m]
              \/ in # NoCommand /\ out'.cmd = in
<1>. DEFINE p == Taken(in)
<1>1. /\ p \in Seq(Entries)
      /\ \A n \in 1 .. Len(p) :
            \/ n \in 1 .. Len(pipe) /\ p[n] = pipe[n]
            \/ in # NoCommand /\ p[n].cmd = in
  <2>1. CASE p = pipe
    BY <2>1 DEF TravelInv
  <2>2. CASE in # NoCommand /\ p = Append(pipe, [cmd |-> in, since |-> now])
    <3>1. [cmd |-> in, since |-> now] \in Entries
      BY <2>2 DEF TravelInv, Entries
    <3>. HIDE DEF p
    <3>2. p \in Seq(Entries) /\ Len(p) = Len(pipe) + 1
      BY <2>2, <3>1 DEF TravelInv
    <3>3. \A n \in 1 .. Len(pipe) : p[n] = pipe[n]
      BY <2>2, <3>1 DEF TravelInv
    <3>4. p[Len(pipe) + 1].cmd = in
      BY <2>2, <3>1 DEF TravelInv
    <3>. QED BY <2>2, <3>2, <3>3, <3>4 DEF TravelInv
  <2>. QED BY <2>1, <2>2 DEF Taken
<1>2. now' \in Nat
  BY DEF FilterCycle, TravelInv
<1>3. CASE p # <<>> /\ out' = Head(p) /\ pipe' = Tail(p)
  <2>1. /\ pipe' \in Seq(Entries) /\ out' \in Entries
        /\ out' = p[1] /\ 1 \in 1 .. Len(p)
        /\ \A n \in 1 .. Len(pipe') : n + 1 \in 1 .. Len(p) /\ pipe'[n] = p[n + 1]
    BY <1>1, <1>3
  <2>. QED BY <1>1, <1>2, <2>1
<1>4. CASE out' = Nothing /\ pipe' = p
  BY <1>1, <1>2, <1>4
<1>. QED BY <1>3, <1>4 DEF FilterCycle, Show

LEMMA CycleKeepsLogged ==
    ASSUME TravelInv, LoggedInv, NEW in \in Inputs \cup {NoCommand}, NEW seen, FilterCycle(in, seen),
           DOMAIN _msgs \subseteq DOMAIN _msgs',
           in # NoCommand => KeyOf(in) \in DOMAIN _msgs'
    PROVE  LoggedInv'
<1>1. ASSUME NEW n \in 1 .. Len(pipe')
      PROVE  KeyOf(pipe'[n].cmd) \in DOMAIN _msgs'
  <2>1. CASE \E m \in 1 .. Len(pipe) : pipe'[n] = pipe[m]
    BY <2>1 DEF LoggedInv
  <2>2. CASE in # NoCommand /\ pipe'[n].cmd = in
    BY <2>2
  <2>. QED BY <2>1, <2>2, CycleKeepsEntries
<1>2. ASSUME out' # Nothing
      PROVE  KeyOf(out'.cmd) \in DOMAIN _msgs'
  <2>1. CASE \E m \in 1 .. Len(pipe) : out' = pipe[m]
    BY <2>1 DEF LoggedInv
  <2>2. CASE in # NoCommand /\ out'.cmd = in
    BY <2>2
  <2>. QED BY <1>2, <2>1, <2>2, CycleKeepsEntries
<1>. QED BY <1>1, <1>2 DEF LoggedInv, KeyOf

---------------------------------------------------------------------------
LEMMA LoadKeepsRaiseInv ==
    ASSUME RaiseInv, NEW path \in Configs \cup {Missing}, NEW backup \in Configs \cup {Missing},
           Load(path, backup)
    PROVE  RaiseInv'
<1>. DEFINE c == IF path # Missing THEN path ELSE backup
<1>1. CASE c = Missing
  BY <1>1 DEF Load, RaiseInv, TravelInv, LoggedInv, OrdersInv, KeyFound, Loaded, python, filter
<1>2. CASE c # Missing
  <2>1. /\ c \in Configs /\ pc' = "watchlist" /\ config' = c /\ _commands' = gen_messages(c)
        /\ _orderids' = IF c.securities = <<>> THEN NoSet ELSE {}
        /\ UNCHANGED <<now, filter>>
        /\ pc = "load"
    BY <1>2 DEF Load
  <2>2. _commands' \in Seq(Commands)
    <3>1. c.rows \in Seq(Row)
      BY <2>1, ConfigsAssumption
    <3>2. \A n \in 1 .. Len(c.rows) : gen_cmd(c.rows[n]) \in Commands
      BY <2>1, <3>1 DEF Commands
    <3>3. gen_messages(c) = [n \in 1 .. Len(c.rows) |-> gen_cmd(c.rows[n])]
      BY <3>1 DEF gen_messages
    <3>4. Len(c.rows) \in Nat
      BY <3>1
    <3>. HIDE DEF c
    <3>. QED BY <2>1, <3>2, <3>3, <3>4
  <2>3. TravelInv'
    BY <2>1, <2>2 DEF RaiseInv, TravelInv, filter
  <2>4. LoggedInv'
    BY <2>1 DEF RaiseInv, OrdersInv, LoggedInv, filter
  <2>5. OrdersInv' /\ KeyFound'
    BY <2>1 DEF OrdersInv, Loaded, KeyFound
  <2>. QED BY <2>3, <2>4, <2>5 DEF RaiseInv
<1>. QED BY <1>1, <1>2

\* What log_command_send does to the messages and to the orders.
LEMMA LogCommandSend ==
    ASSUME NEW c \in Commands, OrdersInv, Loaded, log_command_send(from_dict(c))
    PROVE  /\ DOMAIN _msgs' = DOMAIN _msgs \cup {msg_key(from_dict(c))}
           /\ RaisesAttributeError(from_dict(c)) => _orderids' = _orderids
           /\ \/ _orderids' = _orderids
              \/ _orderids # NoSet /\ _orderids' = _orderids \cup {cmd_orderid_str(from_dict(c))}
           /\ _orderids # NoSet => _orderids' \in SUBSET OrderIds
<1>. DEFINE ob == from_dict(c)
<1>1. DOMAIN _msgs' = DOMAIN _msgs \cup {msg_key(ob)}
  BY DEF log_command_send
<1>2. \/ _orderids' = _orderids
      \/ ~RaisesAttributeError(ob) /\ cmd_type_str(ob) = "AddOrder" /\ Expected(ob)
            /\ _orderids' = _orderids \cup {cmd_orderid_str(ob)}
  BY DEF log_command_send
<1>3. cmd_orderid_str(ob) \in OrderIds
  BY KeyOfCommand
<1>4. RaisesAttributeError(ob) => _orderids' = _orderids
  BY DEF log_command_send
<1>. HIDE DEF ob
<1>5. \/ _orderids' = _orderids
      \/ _orderids # NoSet /\ _orderids' = _orderids \cup {cmd_orderid_str(ob)}
  BY <1>2 DEF RaisesAttributeError
<1>6. _orderids # NoSet => _orderids' \in SUBSET OrderIds
  BY <1>3, <1>5 DEF OrdersInv
<1>. QED BY <1>1, <1>4, <1>5, <1>6 DEF ob

LEMMA NextCommand ==
    ASSUME TravelInv, _commands # <<>>, get_next_command
    PROVE  \E c \in Commands :
              c = Head(_commands) /\ ob_cmd' = from_dict(c) /\ _commands' \in Seq(Commands)
BY DEF TravelInv, get_next_command

LEMMA SendKeepsRaiseInv ==
    ASSUME RaiseInv, SendCommand
    PROVE  RaiseInv'
<1>1. PICK c \in Commands :
         c = Head(_commands) /\ ob_cmd' = from_dict(c) /\ _commands' \in Seq(Commands)
  BY NextCommand DEF SendCommand, RaiseInv
<1>. DEFINE ob == from_dict(c)
            in == Properties(ob)
<1>2. /\ ~RaisesAttributeError(ob) /\ log_command_send(ob) /\ FilterCycle(in, FALSE)
      /\ UNCHANGED <<pc, config>> /\ pc = "send" /\ Loaded
  BY <1>1 DEF SendCommand, Loaded
<1>3. /\ KeyOf(in) = msg_key(ob) /\ in \in Inputs /\ in # NoCommand
  BY KeyOfCommand
<1>4. /\ DOMAIN _msgs' = DOMAIN _msgs \cup {msg_key(ob)}
      /\ \/ _orderids' = _orderids
         \/ _orderids # NoSet /\ _orderids' = _orderids \cup {cmd_orderid_str(ob)}
      /\ _orderids # NoSet => _orderids' \in SUBSET OrderIds
  BY <1>2, LogCommandSend DEF RaiseInv
<1>. HIDE DEF ob, in
<1>5. TravelInv'
  BY <1>1, <1>2, <1>3, CycleKeepsEntries DEF RaiseInv, TravelInv
<1>6. LoggedInv'
  BY <1>2, <1>3, <1>4, CycleKeepsLogged DEF RaiseInv
<1>7. OrdersInv' /\ KeyFound'
  BY <1>2, <1>4 DEF RaiseInv, OrdersInv, Loaded, KeyFound
<1>. QED BY <1>5, <1>6, <1>7 DEF RaiseInv

LEMMA RaiseKeepsRaiseInv ==
    ASSUME RaiseInv, RaiseAttributeError
    PROVE  RaiseInv'
<1>1. PICK c \in Commands :
         c = Head(_commands) /\ ob_cmd' = from_dict(c) /\ _commands' \in Seq(Commands)
  BY NextCommand DEF RaiseAttributeError, RaiseInv
<1>2. /\ RaisesAttributeError(from_dict(c)) /\ log_command_send(from_dict(c))
      /\ UNCHANGED <<config, i, now, filter>> /\ pc = "send" /\ pc' = "raised" /\ Loaded
  BY <1>1 DEF RaiseAttributeError, Loaded
<1>3. DOMAIN _msgs \subseteq DOMAIN _msgs'
  BY <1>2, LogCommandSend DEF RaiseInv
<1>4. _orderids = NoSet
  BY <1>2 DEF RaisesAttributeError
<1>5. config.securities = <<>>
  BY <1>2, <1>4, NoSetAssumption DEF RaiseInv, OrdersInv
<1>6. TravelInv' /\ LoggedInv'
  BY <1>1, <1>2, <1>3 DEF RaiseInv, TravelInv, LoggedInv, KeyOf, filter
<1>7. OrdersInv' /\ KeyFound'
  BY <1>2, <1>5 DEF OrdersInv, Loaded, KeyFound
<1>. QED BY <1>6, <1>7 DEF RaiseInv

LEMMA ReceiveKeepsRaiseInv ==
    ASSUME RaiseInv, Receive
    PROVE  RaiseInv'
<1>1. /\ pc \in {"receive", "logged", "armed"} /\ Loaded /\ out # Nothing
      /\ log_command_receive(out.cmd.orderid, out.cmd.seq_no)
      /\ FilterCycle(NoCommand, TRUE)
      /\ UNCHANGED <<config, _commands, _orderids>>
  BY DEF Receive, Loaded
<1>2. KeyOf(out.cmd) \in DOMAIN _msgs
  BY <1>1 DEF RaiseInv, LoggedInv
<1>3. pc' = "logged" /\ DOMAIN _msgs' = DOMAIN _msgs
  BY <1>1, <1>2 DEF log_command_receive, KeyOf
<1>4. TravelInv'
  BY <1>1, CycleKeepsEntries DEF RaiseInv, TravelInv
<1>5. LoggedInv'
  BY <1>1, <1>3, CycleKeepsLogged DEF RaiseInv
<1>6. OrdersInv' /\ KeyFound'
  BY <1>1, <1>3 DEF RaiseInv, OrdersInv, Loaded, KeyFound
<1>. QED BY <1>4, <1>5, <1>6 DEF RaiseInv

\* The periods in which the bench only waits.
LEMMA WaitKeepsRaiseInv ==
    ASSUME RaiseInv, MissEdge \/ WaitForValid
    PROVE  RaiseInv'
<1>1. /\ pc \in {"receive", "logged"} /\ pc' \in {"receive", "armed"}
      /\ FilterCycle(NoCommand, FALSE) /\ UNCHANGED python
  BY DEF MissEdge, WaitForValid
<1>2. TravelInv'
  BY <1>1, CycleKeepsEntries DEF RaiseInv, TravelInv, python
<1>3. LoggedInv'
  BY <1>1, CycleKeepsLogged DEF RaiseInv, python
<1>4. OrdersInv' /\ KeyFound'
  BY <1>1 DEF RaiseInv, OrdersInv, Loaded, KeyFound, python
<1>. QED BY <1>2, <1>3, <1>4 DEF RaiseInv

LEMMA BlindKeepsRaiseInv ==
    ASSUME RaiseInv, ReceiveBlind
    PROVE  RaiseInv'
<1>1. /\ Loaded /\ FilterCycle(NoCommand, FALSE) /\ blind' = blind \cup {now}
      /\ UNCHANGED <<config, _commands, _orderids>> /\ pc' \in {"logged", "raised"}
      /\ DOMAIN _msgs' = DOMAIN _msgs
  BY DEF ReceiveBlind, Loaded, log_command_receive
<1>2. TravelInv'
  BY <1>1, CycleKeepsEntries DEF RaiseInv, TravelInv
<1>3. LoggedInv'
  BY <1>1, CycleKeepsLogged DEF RaiseInv
<1>4. OrdersInv'
  BY <1>1 DEF RaiseInv, OrdersInv, Loaded
<1>5. KeyFound'
  <2>1. now \in Nat /\ now' = now + 1
    BY <1>1 DEF FilterCycle, RaiseInv, TravelInv
  <2>2. now' - 1 = now
    BY <2>1
  <2>. QED BY <1>1, <2>2 DEF KeyFound
<1>. QED BY <1>2, <1>3, <1>4, <1>5 DEF RaiseInv

THEOREM RaiseInvariant == Spec => []RaiseInv
<1>1. Init => RaiseInv
  BY DEF Init, RaiseInv, TravelInv, LoggedInv, OrdersInv, KeyFound, Loaded
<1>2. ASSUME RaiseInv, [Next]_vars
      PROVE  RaiseInv'
  <2>. USE DEF RaiseInv, TravelInv, LoggedInv, OrdersInv, KeyFound, Loaded, KeyOf
  <2>1. ASSUME NEW path \in Configs \cup {Missing}, NEW backup \in Configs \cup {Missing},
               Load(path, backup)
        PROVE  RaiseInv'
    BY <1>2, <2>1, LoadKeepsRaiseInv
  <2>2. CASE SendWatchList
    BY <1>2, <2>2 DEF SendWatchList, python
  <2>3. CASE EndWatchList
    BY <1>2, <2>3 DEF EndWatchList, filter
  <2>4. CASE SendCommand
    BY <1>2, <2>4, SendKeepsRaiseInv
  <2>5. CASE RaiseAttributeError
    BY <1>2, <2>5, RaiseKeepsRaiseInv
  <2>6. CASE EndSend
    BY <1>2, <2>6 DEF EndSend, python, filter
  <2>7. CASE Receive
    BY <1>2, <2>7, ReceiveKeepsRaiseInv
  <2>8. CASE MissEdge \/ WaitForValid
    BY <1>2, <2>8, WaitKeepsRaiseInv
  <2>9. CASE ReceiveBlind
    BY <1>2, <2>9, BlindKeepsRaiseInv
  <2>10. CASE Finish
    BY <1>2, <2>10 DEF Finish, python, filter
  <2>11. CASE UNCHANGED vars
    BY <1>2, <2>11 DEF vars, python, filter
  <2>. QED BY <1>2, <2>1, <2>2, <2>3, <2>4, <2>5, <2>6, <2>7, <2>8, <2>9, <2>10, <2>11 DEF Next
<1>. QED BY <1>1, <1>2, PTL DEF Spec

\* Whatever the configurations and the delays, the Python side raises only where
\* it found no configuration or one without securities, or at an edge where the
\* filter showed nothing: above all the filter never shows a command that was not
\* logged before (log_command_receive).
THEOREM KeysAreFound == Spec => []KeyFound
BY RaiseInvariant, PTL DEF RaiseInv

---------------------------------------------------------------------------
\* The count. What the commands 1 .. k of a configuration c did to its orders.

WatchOf(c) == {c.watchlist[n] : n \in 1 .. Len(c.watchlist)}
OpensOf(c, m, o) ==
    c.rows[m].type = "AddOrder" /\ c.rows[m].orderid = o /\ c.rows[m].symbol \in WatchOf(c)
DeletesOf(c, m, o) == c.rows[m].type = "DeleteOrder" /\ c.rows[m].orderid = o

Opened(c, k, o) == \E m \in 1 .. k : OpensOf(c, m, o)
Closed(c, k, o) ==
    \E d \in 1 .. k :
        /\ DeletesOf(c, d, o)
        /\ \A m \in d + 1 .. k : ~OpensOf(c, m, o)
        /\ \E m \in 1 .. d : OpensOf(c, m, o)
StaleTo(c, k) ==
    {n \in 1 .. k : c.rows[n].type # "AddOrder" /\ Closed(c, n - 1, c.rows[n].orderid)}

LEMMA OpenedNext ==
    ASSUME NEW c, NEW k \in Nat, NEW o
    PROVE  Opened(c, k + 1, o) <=> Opened(c, k, o) \/ OpensOf(c, k + 1, o)
BY DEF Opened

LEMMA ClosedNext ==
    ASSUME NEW c, NEW k \in Nat, NEW o
    PROVE  Closed(c, k + 1, o) <=>
              /\ ~OpensOf(c, k + 1, o)
              /\ Closed(c, k, o) \/ (DeletesOf(c, k + 1, o) /\ Opened(c, k, o))
<1>1. ASSUME Closed(c, k + 1, o)
      PROVE  /\ ~OpensOf(c, k + 1, o)
             /\ Closed(c, k, o) \/ (DeletesOf(c, k + 1, o) /\ Opened(c, k, o))
  <2>1. PICK d \in 1 .. k + 1 :
            /\ DeletesOf(c, d, o)
            /\ \A m \in d + 1 .. k + 1 : ~OpensOf(c, m, o)
            /\ \E m \in 1 .. d : OpensOf(c, m, o)
    BY <1>1 DEF Closed
  <2>2. CASE d = k + 1
    <3>1. ~OpensOf(c, d, o)
      BY <2>1 DEF DeletesOf, OpensOf
    <3>. QED BY <2>1, <2>2, <3>1 DEF Opened
  <2>3. CASE d \in 1 .. k
    BY <2>1, <2>3 DEF Closed
  <2>. QED BY <2>2, <2>3
<1>2. ASSUME ~OpensOf(c, k + 1, o), Closed(c, k, o)
      PROVE  Closed(c, k + 1, o)
  <2>1. PICK d \in 1 .. k :
            /\ DeletesOf(c, d, o)
            /\ \A m \in d + 1 .. k : ~OpensOf(c, m, o)
            /\ \E m \in 1 .. d : OpensOf(c, m, o)
    BY <1>2 DEF Closed
  <2>2. \A m \in d + 1 .. k + 1 : ~OpensOf(c, m, o)
    BY <1>2, <2>1
  <2>. QED BY <2>1, <2>2 DEF Closed
<1>3. ASSUME DeletesOf(c, k + 1, o), Opened(c, k, o)
      PROVE  Closed(c, k + 1, o)
  <2>1. \E m \in 1 .. k + 1 : OpensOf(c, m, o)
    BY <1>3 DEF Opened
  <2>2. \A m \in (k + 1) + 1 .. k + 1 : ~OpensOf(c, m, o)
    OBVIOUS
  <2>. QED BY <1>3, <2>1, <2>2 DEF Closed
<1>. QED BY <1>1, <1>2, <1>3

LEMMA StaleNext ==
    ASSUME NEW c, NEW k \in Nat
    PROVE  /\ IsFiniteSet(StaleTo(c, k))
           /\ StaleTo(c, k + 1) =
                 IF c.rows[k + 1].type # "AddOrder" /\ Closed(c, k, c.rows[k + 1].orderid)
                 THEN StaleTo(c, k) \cup {k + 1} ELSE StaleTo(c, k)
           /\ k + 1 \notin StaleTo(c, k)
<1>1. IsFiniteSet(1 .. k)
  BY FS_Interval
<1>2. IsFiniteSet(StaleTo(c, k))
  BY <1>1, FS_Subset DEF StaleTo
<1>3. \A n \in 1 .. k + 1 : n \in 1 .. k \/ n = k + 1
  OBVIOUS
<1>4. 1 .. k \subseteq 1 .. k + 1 /\ k + 1 \in 1 .. k + 1 /\ k + 1 \notin 1 .. k
  OBVIOUS
<1>5. (k + 1) - 1 = k
  OBVIOUS
<1>. QED BY <1>2, <1>3, <1>4, <1>5 DEF StaleTo

LEMMA ClosedIsOpened ==
    ASSUME NEW c, NEW k \in Nat, NEW o, Closed(c, k, o)
    PROVE  Opened(c, k, o)
BY DEF Closed, Opened

---------------------------------------------------------------------------
\* What of a row arrives at the filter and at the Python side.

LEMMA Numbers == \A a, b : to_u64(a) = to_u64(b) => a = b
<1>1. \A a, b : to_u64(a) = to_u64(b) => to_u64(a).u64 = to_u64(b).u64
  OBVIOUS
<1>2. \A a : to_u64(a).u64 = a
  BY DEF to_u64
<1>. QED BY <1>1, <1>2

LEMMA RowArrives ==
    ASSUME NEW row \in Row
    PROVE  LET ob == from_dict(gen_cmd(row))
               in == Properties(ob)
           IN  /\ cmd_type_str(ob) = row.type /\ TypeOf(in) = row.type
               /\ cmd_orderid_str(ob) = row.orderid /\ in.orderid = to_u64(row.orderid)
               /\ cmd_symbol_str(ob) = row.symbol /\ in.symbol = to_u64(row.symbol)
<1>. DEFINE t == CHOOSE t \in DOMAIN CmdType : CmdType[t] = row.type
            ob == from_dict(gen_cmd(row))
<1>1. \E n \in DOMAIN CmdType : CmdType[n] = row.type
  BY DEF Row
<1>2. t \in DOMAIN CmdType /\ CmdType[t] = row.type
  BY <1>1
<1>3. t \in Int
  BY <1>2 DEF CmdType
<1>. HIDE DEF t
<1>4. (t - 1) + 1 = t
  BY <1>3
<1>5. ob._cmd_type = t - 1
  BY DEF from_dict, gen_cmd, t
<1>6. cmd_type_str(ob) = row.type /\ TypeOf(Properties(ob)) = row.type
  BY <1>2, <1>4, <1>5 DEF cmd_type_str, TypeOf, Properties
<1>7. /\ cmd_orderid_str(ob) = row.orderid /\ Properties(ob).orderid = to_u64(row.orderid)
      /\ cmd_symbol_str(ob) = row.symbol /\ Properties(ob).symbol = to_u64(row.symbol)
  BY DEF cmd_orderid_str, cmd_symbol_str, from_u64, to_u64, Properties, from_dict, gen_cmd
<1>. QED BY <1>6, <1>7

\* Everything the filter let through is in one of three places.
Held == Len(shown) + Len(pipe) + (IF out = Nothing THEN 0 ELSE 1)
Shown == [cmd : Inputs, since : Nat, at : Nat, seen : BOOLEAN]

LEMMA CycleCounts ==
    ASSUME TravelInv, shown \in Seq(Shown), NEW in \in Inputs \cup {NoCommand},
           NEW seen \in BOOLEAN, FilterCycle(in, seen)
    PROVE  /\ shown' \in Seq(Shown)
           /\ Held' = Held + (IF in # NoCommand /\ LetsThrough(in) THEN 1 ELSE 0)
<1>. DEFINE p == Taken(in)
            e == [cmd |-> out.cmd, since |-> out.since, at |-> now, seen |-> seen]
<1>1. Nothing \notin Entries
  <2>1. NoCommand \notin Inputs
    BY KeyOfCommand DEF Inputs
  <2>. QED BY <2>1 DEF Nothing, Entries
<1>2. /\ p \in Seq(Entries)
      /\ Len(p) = Len(pipe) + (IF in # NoCommand /\ LetsThrough(in) THEN 1 ELSE 0)
  <2>1. CASE in # NoCommand /\ LetsThrough(in)
    <3>1. [cmd |-> in, since |-> now] \in Entries
      BY <2>1 DEF TravelInv, Entries
    <3>2. p = Append(pipe, [cmd |-> in, since |-> now])
      BY <2>1 DEF Taken
    <3>. HIDE DEF p
    <3>. QED BY <2>1, <3>1, <3>2 DEF TravelInv
  <2>2. CASE ~(in # NoCommand /\ LetsThrough(in))
    BY <2>2 DEF Taken, TravelInv
  <2>. QED BY <2>1, <2>2
<1>3. out # Nothing => e \in Shown
  BY DEF TravelInv, Entries, Shown
<1>4. /\ shown' = IF out = Nothing THEN shown ELSE Append(shown, e)
      /\ \/ p # <<>> /\ out' = Head(p) /\ pipe' = Tail(p)
         \/ out' = Nothing /\ pipe' = p
  BY DEF FilterCycle, Show
<1>. HIDE DEF p, e
<1>5. /\ shown' \in Seq(Shown)
      /\ Len(shown') = Len(shown) + (IF out = Nothing THEN 0 ELSE 1)
  BY <1>3, <1>4
<1>6. Len(pipe') + (IF out' = Nothing THEN 0 ELSE 1) = Len(p)
  BY <1>1, <1>2, <1>4
<1>7. Len(pipe') \in Nat /\ Len(p) \in Nat /\ Len(pipe) \in Nat /\ Len(shown) \in Nat
  <2>1. pipe' \in Seq(Entries)
    BY CycleKeepsEntries
  <2>. QED BY <1>2, <2>1 DEF TravelInv
<1>. DEFINE took == IF in # NoCommand /\ LetsThrough(in) THEN 1 ELSE 0
            there == IF out = Nothing THEN 0 ELSE 1
            there1 == IF out' = Nothing THEN 0 ELSE 1
<1>8. took \in Nat /\ there \in Nat /\ there1 \in Nat
  OBVIOUS
<1>9. /\ Held = Len(shown) + Len(pipe) + there /\ Held' = Len(shown') + Len(pipe') + there1
      /\ Len(p) = Len(pipe) + took /\ Len(shown') = Len(shown) + there /\ Len(pipe') + there1 = Len(p)
  BY <1>2, <1>5, <1>6 DEF Held
<1>. HIDE DEF took, there, there1
<1>10. Held' = Held + took
  BY <1>7, <1>8, <1>9
<1>. QED BY <1>5, <1>10 DEF took

---------------------------------------------------------------------------
\* The invariant behind CountsRight: the watch list and the orders are the same
\* for the filter and for the Python side but for orders that were deleted.

NumSent == Len(config.rows) - Len(_commands)
Remembered(o) == _orderids # NoSet /\ o \in _orderids

CommandsInv ==
    /\ Len(_commands) <= Len(config.rows)
    /\ \A n \in 1 .. Len(_commands) : _commands[n] = gen_cmd(config.rows[NumSent + n])

OpenInv ==
    \A o \in OrderIds :
        /\ Remembered(o) <=> Opened(config, NumSent, o)
        /\ to_u64(o) \in known <=> Opened(config, NumSent, o) /\ ~Closed(config, NumSent, o)

CountInv ==
    /\ shown \in Seq(Shown) /\ _expected_msgs_count \in Nat
    /\ pc = "load" => listed = {} /\ i = 0
    /\ pc \in {"load", "watchlist"} => known = {} /\ Held = 0
    /\ pc = "watchlist" =>
          /\ i \in 0 .. Len(config.watchlist)
          /\ \A s \in STRING : to_u64(s) \in listed <=> \E n \in 1 .. i : config.watchlist[n] = s
    /\ Loaded /\ pc # "watchlist" =>
          \A s \in STRING : to_u64(s) \in listed <=> s \in WatchOf(config)
    /\ Loaded =>
          /\ CommandsInv /\ OpenInv
          /\ _expected_msgs_count = Held + Cardinality(StaleTo(config, NumSent))

LEMMA SendKeepsCountInv ==
    ASSUME RaiseInv, CountInv, SendCommand
    PROVE  CountInv'
<1>. DEFINE k == NumSent
            row == config.rows[k + 1]
            o == row.orderid
            c == gen_cmd(row)
            ob == from_dict(c)
            in == Properties(ob)
            add == row.type = "AddOrder"
<1>1. /\ pc = "send" /\ Loaded /\ _commands # <<>> /\ _commands \in Seq(Commands)
      /\ config \in Configs /\ config.rows \in Seq(Row)
      /\ _orderids = NoSet \/ _orderids \in SUBSET OrderIds
  BY ConfigsAssumption DEF SendCommand, Loaded, RaiseInv, TravelInv, OrdersInv
<1>2. /\ k \in Nat /\ k + 1 \in 1 .. Len(config.rows) /\ Head(_commands) = c
      /\ Len(_commands') = Len(_commands) - 1
      /\ \A n \in 1 .. Len(_commands') : _commands'[n] = _commands[n + 1]
  <2>1. Len(_commands) \in Nat /\ Len(_commands) >= 1 /\ Len(config.rows) \in Nat
    BY <1>1
  <2>2. Len(_commands) <= Len(config.rows) /\ _commands[1] = c
    BY <1>1, <2>1 DEF CountInv, CommandsInv
  <2>3. _commands' = Tail(_commands)
    BY DEF SendCommand, get_next_command
  <2>. QED BY <1>1, <2>1, <2>2, <2>3 DEF NumSent
<1>3. /\ row \in Row /\ o \in OrderIds /\ c \in Commands /\ row.symbol \in STRING
  <2>1. k + 1 \in DOMAIN config.rows /\ row \in Row
    BY <1>1, <1>2
  <2>2. o \in OrderIds
    BY <1>1, <2>1 DEF OrderIds
  <2>3. c \in Commands
    BY <1>1, <2>1 DEF Commands
  <2>. HIDE DEF row
  <2>4. row.symbol \in STRING
    BY <2>1 DEF Row
  <2>. QED BY <2>1, <2>2, <2>3, <2>4
<1>4. /\ config' = config /\ pc' = pc /\ i' = i
      /\ ob_cmd' = ob /\ ~RaisesAttributeError(ob) /\ log_command_send(ob) /\ FilterCycle(in, FALSE)
  BY <1>2 DEF SendCommand, get_next_command
<1>5. /\ cmd_type_str(ob) = row.type /\ TypeOf(in) = row.type
      /\ cmd_orderid_str(ob) = o /\ in.orderid = to_u64(o)
      /\ cmd_symbol_str(ob) = row.symbol /\ in.symbol = to_u64(row.symbol)
      /\ in \in Inputs /\ in # NoCommand
  BY <1>3, RowArrives, KeyOfCommand
<1>6. NumSent' = k + 1
  BY <1>1, <1>2, <1>4 DEF NumSent
<1>. HIDE DEF k, ob, in, c
<1>7. _watch_list = WatchOf(config)
  BY DEF _watch_list, WatchOf
<1>8. /\ Remembered(o) <=> Opened(config, k, o)
      /\ to_u64(o) \in known <=> Opened(config, k, o) /\ ~Closed(config, k, o)
      /\ to_u64(row.symbol) \in listed <=> row.symbol \in WatchOf(config)
      /\ Closed(config, k, o) => Opened(config, k, o)
  BY <1>1, <1>2, <1>3, ClosedIsOpened DEF CountInv, OpenInv, k
<1>9. LetsThrough(in) <=> IF add THEN row.symbol \in WatchOf(config)
                         ELSE Opened(config, k, o) /\ ~Closed(config, k, o)
  BY <1>5, <1>8 DEF LetsThrough
<1>10. Counted(ob) <=> IF add THEN row.symbol \in WatchOf(config) ELSE Opened(config, k, o)
  BY <1>4, <1>5, <1>7, <1>8 DEF Counted, Expected, Remembered, RaisesAttributeError
<1>11. CommandsInv'
  <2>1. \A n \in 1 .. Len(_commands') : n + 1 \in 1 .. Len(_commands) /\ k + (n + 1) = (k + 1) + n
    BY <1>1, <1>2
  <2>. QED BY <1>1, <1>2, <1>4, <1>6, <2>1 DEF CountInv, CommandsInv, k
<1>12. OpenInv'
  <2>. SUFFICES ASSUME NEW x \in OrderIds
                PROVE  /\ Remembered(x)' <=> Opened(config, k + 1, x)
                       /\ to_u64(x) \in known' <=> Opened(config, k + 1, x) /\ ~Closed(config, k + 1, x)
    BY <1>4, <1>6 DEF OpenInv
  <2>1. /\ Opened(config, k + 1, x) <=> Opened(config, k, x) \/ OpensOf(config, k + 1, x)
        /\ Closed(config, k + 1, x) <=>
              /\ ~OpensOf(config, k + 1, x)
              /\ Closed(config, k, x) \/ (DeletesOf(config, k + 1, x) /\ Opened(config, k, x))
    BY <1>2, OpenedNext, ClosedNext
  <2>2. /\ Remembered(x) <=> Opened(config, k, x)
        /\ to_u64(x) \in known <=> Opened(config, k, x) /\ ~Closed(config, k, x)
    BY <1>1 DEF CountInv, OpenInv, k
  <2>3. /\ OpensOf(config, k + 1, x) <=> add /\ o = x /\ row.symbol \in WatchOf(config)
        /\ DeletesOf(config, k + 1, x) <=> row.type = "DeleteOrder" /\ o = x
    BY DEF OpensOf, DeletesOf
  <2>4. Remembered(x)' <=> Remembered(x) \/ OpensOf(config, k + 1, x)
    <3>1. _orderids' = IF add /\ row.symbol \in WatchOf(config) THEN _orderids \cup {o} ELSE _orderids
      BY <1>4, <1>5, <1>7 DEF log_command_send, Expected
    <3>2. add /\ row.symbol \in WatchOf(config) => _orderids # NoSet
      BY <1>4, <1>5, <1>7 DEF RaisesAttributeError, Expected
    <3>3. add /\ row.symbol \in WatchOf(config) => _orderids' # NoSet
      BY <1>1, <1>3, <3>1, <3>2, NoSetAssumption
    <3>. QED BY <2>3, <3>1, <3>2, <3>3 DEF Remembered
  <2>5. to_u64(x) \in known' <=>
           \/ OpensOf(config, k + 1, x)
           \/ to_u64(x) \in known /\ ~DeletesOf(config, k + 1, x)
    <3>1. known' = KnownAfter(in)
      BY <1>4, <1>5 DEF FilterCycle
    <3>2. KnownAfter(in) =
             IF add /\ row.symbol \in WatchOf(config) THEN known \cup {to_u64(o)}
             ELSE IF row.type = "DeleteOrder" THEN known \ {to_u64(o)} ELSE known
      BY <1>5, <1>8 DEF KnownAfter
    <3>3. to_u64(x) = to_u64(o) <=> x = o
      BY Numbers
    <3>. QED BY <2>3, <3>1, <3>2, <3>3
  <2>6. ~(OpensOf(config, k + 1, x) /\ DeletesOf(config, k + 1, x))
    BY DEF OpensOf, DeletesOf
  <2>. QED BY <2>1, <2>2, <2>4, <2>5, <2>6
<1>13. _expected_msgs_count' \in Nat /\ shown' \in Seq(Shown)
       /\ _expected_msgs_count' = Held' + Cardinality(StaleTo(config, k + 1))
  <2>. DEFINE stale == ~add /\ Closed(config, k, o)
  <2>1. /\ shown' \in Seq(Shown) /\ Held' = Held + (IF LetsThrough(in) THEN 1 ELSE 0)
    BY <1>4, <1>5, CycleCounts DEF RaiseInv, CountInv
  <2>2. _expected_msgs_count' = _expected_msgs_count + (IF Counted(ob) THEN 1 ELSE 0)
    BY <1>4 DEF log_command_send
  <2>3. Cardinality(StaleTo(config, k + 1)) = Cardinality(StaleTo(config, k)) + (IF stale THEN 1 ELSE 0)
    <3>1. /\ IsFiniteSet(StaleTo(config, k)) /\ k + 1 \notin StaleTo(config, k)
          /\ StaleTo(config, k + 1) = IF stale THEN StaleTo(config, k) \cup {k + 1} ELSE StaleTo(config, k)
      BY <1>2, StaleNext
    <3>. HIDE DEF stale
    <3>2. Cardinality(StaleTo(config, k)) \in Nat
      BY <3>1, FS_CardinalityType
    <3>3. CASE stale
      BY <3>1, <3>3, FS_AddElement
    <3>4. CASE ~stale
      BY <3>1, <3>2, <3>4
    <3>. QED BY <3>3, <3>4
  <2>4. Cardinality(StaleTo(config, k)) \in Nat
    BY <1>2, StaleNext, FS_CardinalityType
  <2>5. Held \in Nat
    BY DEF Held, RaiseInv, TravelInv, CountInv
  <2>6. /\ _expected_msgs_count \in Nat
        /\ _expected_msgs_count = Held + Cardinality(StaleTo(config, k))
    BY <1>1 DEF CountInv, k
  <2>7. (IF Counted(ob) THEN 1 ELSE 0) = (IF LetsThrough(in) THEN 1 ELSE 0) + (IF stale THEN 1 ELSE 0)
    BY <1>8, <1>9, <1>10
  <2>. DEFINE a == IF Counted(ob) THEN 1 ELSE 0
              b == IF LetsThrough(in) THEN 1 ELSE 0
              d == IF stale THEN 1 ELSE 0
              f == Cardinality(StaleTo(config, k))
  <2>8. a \in Nat /\ b \in Nat /\ d \in Nat
    OBVIOUS
  <2>. HIDE DEF a, b, d, f
  <2>9. _expected_msgs_count + a \in Nat /\ _expected_msgs_count + a = (Held + b) + (f + d)
    BY <2>4, <2>5, <2>6, <2>7, <2>8 DEF a, b, d, f
  <2>. QED BY <2>1, <2>2, <2>3, <2>9 DEF a, b, d, f
<1>14. listed' = listed
  BY <1>4 DEF FilterCycle
<1>. QED BY <1>1, <1>4, <1>6, <1>11, <1>12, <1>13, <1>14 DEF CountInv, Loaded

LEMMA LoadKeepsCountInv ==
    ASSUME RaiseInv, CountInv, NEW path \in Configs \cup {Missing}, NEW backup \in Configs \cup {Missing},
           Load(path, backup)
    PROVE  CountInv'
<1>. DEFINE c == IF path # Missing THEN path ELSE backup
<1>1. pc = "load" /\ UNCHANGED <<i, now, filter>>
  BY DEF Load
<1>2. CASE c = Missing
  <2>1. pc' = "raised" /\ UNCHANGED python
    BY <1>2 DEF Load
  <2>. QED BY <1>1, <2>1 DEF CountInv, Loaded, python, filter
<1>3. CASE c # Missing
  <2>1. /\ c \in Configs /\ pc' = "watchlist" /\ config' = c /\ _commands' = gen_messages(c)
        /\ _orderids' = IF c.securities = <<>> THEN NoSet ELSE {}
        /\ _expected_msgs_count' = 0
    BY <1>3 DEF Load
  <2>2. c.rows \in Seq(Row) /\ c.watchlist \in Seq(STRING)
    BY <2>1, ConfigsAssumption
  <2>. HIDE DEF c
  <2>3. /\ Len(_commands') = Len(c.rows) /\ Len(c.rows) \in Nat
        /\ \A n \in 1 .. Len(c.rows) : _commands'[n] = gen_cmd(c.rows[n])
    BY <2>1, <2>2 DEF gen_messages
  <2>4. NumSent' = 0
    BY <2>1, <2>3 DEF NumSent
  <2>5. CommandsInv'
    BY <2>1, <2>3, <2>4 DEF CommandsInv
  <2>6. OpenInv'
    <3>1. \A x : ~Opened(c, 0, x) /\ ~Remembered(x)'
      BY <2>1 DEF Opened, Remembered
    <3>. QED BY <1>1, <2>1, <2>4, <3>1 DEF OpenInv, CountInv, filter
  <2>7. _expected_msgs_count' = Held' + Cardinality(StaleTo(config', NumSent'))
    <3>1. StaleTo(c, 0) = {}
      BY DEF StaleTo
    <3>2. Held' = 0
      BY <1>1 DEF CountInv, Held, filter
    <3>3. config' = c /\ _expected_msgs_count' = 0
      BY <2>1
    <3>4. StaleTo(config', NumSent') = {}
      BY <2>4, <3>1, <3>3, Zenon
    <3>5. Cardinality(StaleTo(config', NumSent')) = 0
      BY <3>4, FS_EmptySet, Zenon
    <3>. HIDE DEF c, StaleTo
    <3>. QED BY <3>2, <3>3, <3>5
  <2>8. Len(c.watchlist) \in Nat
    BY <2>2
  <2>9. known' = {} /\ Held' = 0 /\ shown' \in Seq(Shown)
    BY <1>1 DEF CountInv, Held, filter
  <2>10. /\ i' \in 0 .. Len(config'.watchlist)
         /\ \A s \in STRING : to_u64(s) \in listed' <=> \E n \in 1 .. i' : config'.watchlist[n] = s
    BY <1>1, <2>8 DEF CountInv, filter
  <2>11. pc' # "load" /\ _expected_msgs_count' \in Nat
    BY <2>1
  <2>. QED BY <2>1, <2>5, <2>6, <2>7, <2>9, <2>10, <2>11 DEF CountInv
<1>. QED BY <1>2, <1>3

LEMMA WatchListKeepsCountInv ==
    ASSUME RaiseInv, CountInv, SendWatchList \/ EndWatchList
    PROVE  CountInv'
<1>1. /\ pc = "watchlist" /\ Loaded /\ config' = config /\ _commands' = _commands
      /\ UNCHANGED <<_orderids, _expected_msgs_count, known, pipe, out, shown>>
  BY DEF SendWatchList, EndWatchList, Loaded, python, filter
<1>2. Len(config.watchlist) \in Nat /\ config.watchlist \in Seq(STRING)
  BY <1>1, ConfigsAssumption DEF RaiseInv, OrdersInv
<1>3. Held' = Held /\ NumSent' = NumSent /\ (CommandsInv <=> CommandsInv') /\ (OpenInv <=> OpenInv')
  BY <1>1 DEF Held, NumSent, CommandsInv, OpenInv, Remembered
<1>4. CASE SendWatchList
  <2>1. /\ pc' = "watchlist" /\ i < Len(config.watchlist) /\ i' = i + 1
        /\ listed' = listed \cup {to_u64(config.watchlist[i + 1])}
    BY <1>1, <1>4 DEF SendWatchList, watchlist_get_size, watchlist_get_item
  <2>2. i \in 0 .. Len(config.watchlist) /\ i' \in 0 .. Len(config.watchlist)
    BY <1>1, <1>2, <2>1 DEF CountInv
  <2>3. ASSUME NEW s \in STRING
        PROVE  to_u64(s) \in listed' <=> \E n \in 1 .. i' : config.watchlist[n] = s
    <3>1. to_u64(s) \in listed' <=> to_u64(s) \in listed \/ config.watchlist[i + 1] = s
      BY <2>1, Numbers
    <3>2. to_u64(s) \in listed <=> \E n \in 1 .. i : config.watchlist[n] = s
      BY <1>1 DEF CountInv
    <3>3. \A n : n \in 1 .. i' <=> n \in 1 .. i \/ n = i + 1
      BY <1>2, <2>1, <2>2
    <3>. QED BY <3>1, <3>2, <3>3
  <2>. QED BY <1>1, <1>3, <2>1, <2>2, <2>3 DEF CountInv, Loaded
<1>5. CASE EndWatchList
  <2>1. pc' = "send" /\ i = Len(config.watchlist) /\ listed' = listed
    BY <1>5 DEF EndWatchList, watchlist_get_size, filter
  <2>2. \A s \in STRING : to_u64(s) \in listed' <=> s \in WatchOf(config)
    BY <1>1, <2>1 DEF CountInv, WatchOf
  <2>. QED BY <1>1, <1>3, <2>1, <2>2 DEF CountInv, Loaded
<1>. QED BY <1>4, <1>5

\* After the send loop the count stays, and what the filter holds only moves.
LEMMA ReceiveKeepsCountInv ==
    ASSUME RaiseInv, CountInv, Receive \/ MissEdge \/ ReceiveBlind \/ WaitForValid
    PROVE  CountInv'
<1>1. PICK seen \in BOOLEAN : FilterCycle(NoCommand, seen)
  BY DEF Receive, MissEdge, ReceiveBlind, WaitForValid
<1>2. /\ Loaded /\ pc # "watchlist" /\ pc' \in {"receive", "logged", "armed", "raised"}
      /\ UNCHANGED <<config, _commands, _orderids, _expected_msgs_count>>
  BY DEF Receive, MissEdge, ReceiveBlind, WaitForValid, Loaded, python, log_command_receive
<1>3. shown' \in Seq(Shown) /\ Held' = Held
  <2>1. Held \in Nat
    BY DEF Held, RaiseInv, TravelInv, CountInv
  <2>. QED BY <1>1, <2>1, CycleCounts DEF RaiseInv, CountInv
<1>4. known' = known /\ listed' = listed
  BY <1>1 DEF FilterCycle
<1>5. NumSent' = NumSent /\ (CommandsInv <=> CommandsInv') /\ (OpenInv <=> OpenInv')
  BY <1>2, <1>4 DEF NumSent, CommandsInv, OpenInv, Remembered
<1>. QED BY <1>2, <1>3, <1>4, <1>5 DEF CountInv, Loaded

LEMMA CountInvStep ==
    ASSUME RaiseInv, CountInv, [Next]_vars
    PROVE  CountInv'
<1>1. ASSUME NEW path \in Configs \cup {Missing}, NEW backup \in Configs \cup {Missing},
             Load(path, backup)
      PROVE  CountInv'
  BY <1>1, LoadKeepsCountInv
<1>2. CASE SendWatchList \/ EndWatchList
  BY <1>2, WatchListKeepsCountInv
<1>3. CASE SendCommand
  BY <1>3, SendKeepsCountInv
<1>4. CASE RaiseAttributeError
  <2>1. /\ pc' = "raised" /\ shown' = shown
        /\ \E ob : log_command_send(ob)
    BY <1>4 DEF RaiseAttributeError, filter
  <2>2. _expected_msgs_count' \in Nat
    BY <2>1 DEF log_command_send, CountInv
  <2>. QED BY <2>1, <2>2 DEF CountInv, Loaded
<1>5. CASE Receive \/ MissEdge \/ ReceiveBlind \/ WaitForValid
  BY <1>5, ReceiveKeepsCountInv
<1>6. CASE EndSend \/ Finish \/ UNCHANGED vars
  <2>1. /\ UNCHANGED <<python, filter>>
        /\ \/ pc' = pc /\ i' = i
           \/ pc' \in {"receive", "finished"} /\ Loaded /\ pc # "watchlist"
    BY <1>6 DEF EndSend, Finish, vars, Loaded
  <2>2. Held' = Held /\ NumSent' = NumSent /\ (CommandsInv <=> CommandsInv') /\ (OpenInv <=> OpenInv')
    BY <2>1 DEF Held, NumSent, CommandsInv, OpenInv, Remembered, python, filter
  <2>. QED BY <2>1, <2>2 DEF CountInv, Loaded, python, filter
<1>. QED BY <1>1, <1>2, <1>3, <1>4, <1>5, <1>6 DEF Next

LEMMA StaleIsStaleTo ==
    ASSUME Loaded, CommandsInv, TravelInv, config.rows \in Seq(Row)
    PROVE  Stale = StaleTo(config, NumSent)
<1>1. NumSent \in 0 .. Len(config.rows)
  BY DEF NumSent, CommandsInv, TravelInv
<1>2. Sent = SubSeq(config.rows, 1, NumSent)
  BY DEF Sent, NumSent
<1>3. DOMAIN Sent = 1 .. NumSent /\ \A n \in 1 .. NumSent : Sent[n] = config.rows[n]
  BY <1>1, <1>2
<1>4. ASSUME NEW m \in 1 .. NumSent, NEW o PROVE Opens(Sent[m], o) <=> OpensOf(config, m, o)
  BY <1>3 DEF Opens, OpensOf, _watch_list, WatchOf
<1>5. ASSUME NEW n \in 1 .. NumSent
      PROVE  n \in Stale <=> n \in StaleTo(config, NumSent)
  <2>. DEFINE o == config.rows[n].orderid
  <2>1. /\ 1 .. n - 1 \subseteq 1 .. NumSent
        /\ \A d \in 1 .. n - 1 : d + 1 .. n - 1 \subseteq 1 .. NumSent /\ 1 .. d \subseteq 1 .. NumSent
    BY <1>1
  <2>2. \A d \in 1 .. n - 1 :
          (/\ Sent[d].type = "DeleteOrder" /\ Sent[d].orderid = Sent[n].orderid
           /\ \A m \in d + 1 .. n - 1 : ~Opens(Sent[m], Sent[n].orderid)
           /\ \E m \in 1 .. d : Opens(Sent[m], Sent[n].orderid))
          <=>
          (/\ DeletesOf(config, d, o)
           /\ \A m \in d + 1 .. n - 1 : ~OpensOf(config, m, o)
           /\ \E m \in 1 .. d : OpensOf(config, m, o))
    BY <1>3, <1>4, <2>1 DEF DeletesOf
  <2>. QED BY <1>3, <2>2 DEF Stale, StaleTo, Closed
<1>. QED BY <1>3, <1>5 DEF Stale, StaleTo

THEOREM CountInvariant == Spec => [](RaiseInv /\ CountInv)
<1>1. Init => CountInv
  BY DEF Init, CountInv, Loaded, Held, Nothing
<1>2. RaiseInv /\ CountInv /\ [Next]_vars => CountInv'
  BY CountInvStep
<1>. QED BY <1>1, <1>2, RaiseInvariant, PTL DEF Spec

\* For every configuration, and however long the filter holds a command: what
\* log_command_send counts is what the filter lets through and, on top of it,
\* exactly the commands for orders of listed securities already deleted.
THEOREM CountsRightHolds == Spec => []CountsRight
<1>1. ASSUME RaiseInv, CountInv
      PROVE  CountsRight
  <2>. SUFFICES ASSUME Loaded
                PROVE  _expected_msgs_count = Held + Cardinality(Stale)
    BY DEF CountsRight, Held
  <2>1. config.rows \in Seq(Row)
    BY <1>1, ConfigsAssumption DEF RaiseInv, OrdersInv
  <2>2. Stale = StaleTo(config, NumSent)
    BY <1>1, <2>1, StaleIsStaleTo DEF RaiseInv, CountInv
  <2>. QED BY <1>1, <2>2 DEF CountInv
<1>. QED BY <1>1, CountInvariant, PTL

---------------------------------------------------------------------------
\* What the receive loop saw, and what it missed.

\* What is written down of the command on the output.
Seen(seen) == [cmd |-> out.cmd, since |-> out.since, at |-> now, seen |-> seen]

LEMMA ShownNext ==
    ASSUME TravelInv, shown \in Seq(Shown), NEW in, NEW seen \in BOOLEAN, FilterCycle(in, seen)
    PROVE  /\ Len(shown) \in Nat /\ DOMAIN shown = 1 .. Len(shown) /\ DOMAIN shown' = 1 .. Len(shown')
           /\ \A n \in 1 .. Len(shown) : n \in 1 .. Len(shown') /\ shown'[n] = shown[n]
           /\ \A n \in 1 .. Len(shown') :
                 \/ n \in 1 .. Len(shown) /\ shown'[n] = shown[n]
                 \/ out # Nothing /\ shown'[n] = Seen(seen)
           /\ out # Nothing => Len(shown) + 1 \in 1 .. Len(shown') /\ shown'[Len(shown) + 1] = Seen(seen)
<1>1. CASE out = Nothing
  BY <1>1 DEF FilterCycle
<1>2. CASE out # Nothing
  <2>1. Seen(seen) \in Shown
    BY <1>2 DEF TravelInv, Entries, Shown, Seen
  <2>2. shown' = Append(shown, Seen(seen))
    BY <1>2 DEF FilterCycle, Seen
  <2>3. /\ Len(shown') = Len(shown) + 1 /\ shown'[Len(shown) + 1] = Seen(seen)
        /\ shown' \in Seq(Shown) /\ Len(shown) \in Nat
        /\ \A n \in 1 .. Len(shown) : shown'[n] = shown[n]
    BY <2>1, <2>2
  <2>4. \A n \in 1 .. Len(shown') : n \in 1 .. Len(shown) \/ n = Len(shown) + 1
    BY <2>3
  <2>5. DOMAIN shown = 1 .. Len(shown) /\ DOMAIN shown' = 1 .. Len(shown')
    BY <2>3
  <2>. QED BY <1>2, <2>3, <2>4, <2>5
<1>. QED BY <1>1, <1>2

\* Commands are shown one at a time, the bench is armed only behind one it did
\* not see, and logs an empty bus nowhere else.
MissInv ==
    /\ \A t \in blind : t \in Nat /\ t < now
    /\ \A n \in 1 .. Len(shown) : shown[n].at < now
    /\ \A m, n \in 1 .. Len(shown) : m < n => shown[m].at < shown[n].at
    /\ pc = "armed" =>
          Len(shown) >= 1 /\ ~shown[Len(shown)].seen /\ shown[Len(shown)].at + 1 = now
    /\ \A t \in blind : \E n \in 1 .. Len(shown) : ~shown[n].seen /\ shown[n].at + 1 = t

\* The loop counter of the receive loop is the number of commands seen or made up for.
TakenOf(log, times) == {n \in 1 .. Len(log) : log[n].seen \/ log[n].at + 1 \in times}

SeenInv ==
    /\ MissInv
    /\ i \in Nat
    /\ pc \in {"load", "watchlist", "send"} => TakenOf(shown, blind) = {} /\ blind = {}
    /\ pc \in {"receive", "logged", "armed", "finished"} => i = Cardinality(TakenOf(shown, blind))
    /\ pc = "finished" => i >= _expected_msgs_count

LEMMA TakenFinite ==
    ASSUME shown \in Seq(Shown)
    PROVE  /\ IsFiniteSet(TakenOf(shown, blind)) /\ Len(shown) \in Nat
           /\ Len(shown) + 1 \notin TakenOf(shown, blind)
<1>1. Len(shown) \in Nat
  OBVIOUS
<1>2. TakenOf(shown, blind) \in SUBSET (1 .. Len(shown)) /\ Len(shown) + 1 \notin 1 .. Len(shown)
  BY <1>1 DEF TakenOf
<1>3. IsFiniteSet(1 .. Len(shown))
  BY <1>1, FS_Interval
<1>. QED BY <1>1, <1>2, <1>3, FS_Subset

\* A cycle adds at most what was on the output, and that is the latest of all.
LEMMA MissNext ==
    ASSUME TravelInv, shown \in Seq(Shown), MissInv, NEW in, NEW seen \in BOOLEAN, FilterCycle(in, seen)
    PROVE  /\ now \in Nat /\ now' = now + 1
           /\ \A n \in 1 .. Len(shown') : shown'[n].at < now'
           /\ \A m, n \in 1 .. Len(shown') : m < n => shown'[m].at < shown'[n].at
           /\ \A t \in blind : t \in Nat /\ t < now'
           /\ \A t \in blind : \E n \in 1 .. Len(shown') : ~shown'[n].seen /\ shown'[n].at + 1 = t
           /\ out # Nothing /\ ~seen =>
                 Len(shown') >= 1 /\ ~shown'[Len(shown')].seen /\ shown'[Len(shown')].at + 1 = now'
<1>1. now \in Nat /\ now' = now + 1
  BY DEF FilterCycle, TravelInv
<1>2. /\ Len(shown) \in Nat
      /\ \A n \in 1 .. Len(shown) : n \in 1 .. Len(shown') /\ shown'[n] = shown[n]
  BY ShownNext
<1>3. \A n \in 1 .. Len(shown) : shown[n].at \in Nat /\ shown[n].at < now
  <2>1. \A n \in 1 .. Len(shown) : shown[n] \in Shown
    OBVIOUS
  <2>. QED BY <2>1 DEF MissInv, Shown
<1>4. Seen(seen).at = now /\ Seen(seen).seen = seen
  BY DEF Seen
<1>5. \/ shown' = shown /\ out = Nothing
      \/ /\ out # Nothing /\ Len(shown') = Len(shown) + 1
         /\ shown'[Len(shown) + 1] = Seen(seen)
  <2>1. CASE out = Nothing
    BY <2>1 DEF FilterCycle
  <2>2. CASE out # Nothing
    <3>1. shown' = Append(shown, Seen(seen))
      BY <2>2 DEF FilterCycle, Seen
    <3>. QED BY <2>2, <3>1, <1>2
  <2>. QED BY <2>1, <2>2
<1>6. \A n \in 1 .. Len(shown') :
         \/ n \in 1 .. Len(shown) /\ shown'[n] = shown[n]
         \/ out # Nothing /\ n = Len(shown) + 1 /\ shown'[n] = Seen(seen)
  BY <1>2, <1>5
<1>7. \A n \in 1 .. Len(shown') : shown'[n].at < now'
  BY <1>1, <1>3, <1>4, <1>6
<1>8. ASSUME NEW m \in 1 .. Len(shown'), NEW n \in 1 .. Len(shown'), m < n
      PROVE  shown'[m].at < shown'[n].at
  <2>1. m \in 1 .. Len(shown) /\ shown'[m] = shown[m]
    BY <1>2, <1>5, <1>6, <1>8
  <2>. QED BY <1>3, <1>4, <1>6, <1>8, <2>1 DEF MissInv
<1>9. \A t \in blind : t \in Nat /\ t < now'
  BY <1>1 DEF MissInv
<1>10. \A t \in blind : \E n \in 1 .. Len(shown') : ~shown'[n].seen /\ shown'[n].at + 1 = t
  BY <1>2 DEF MissInv
<1>11. out # Nothing /\ ~seen =>
         Len(shown') >= 1 /\ ~shown'[Len(shown')].seen /\ shown'[Len(shown')].at + 1 = now'
  BY <1>1, <1>2, <1>4, <1>5
<1>. QED BY <1>1, <1>7, <1>8, <1>9, <1>10, <1>11

LEMMA TakenGrows ==
    ASSUME TravelInv, shown \in Seq(Shown), MissInv, NEW in, NEW seen \in BOOLEAN, FilterCycle(in, seen)
    PROVE  TakenOf(shown', blind) = IF seen /\ out # Nothing THEN TakenOf(shown, blind) \cup {Len(shown) + 1}
                                    ELSE TakenOf(shown, blind)
<1>1. now \in Nat /\ now + 1 \notin blind
  <2>1. now \in Nat /\ \A t \in blind : t \in Nat /\ t < now
    BY DEF TravelInv, MissInv
  <2>. QED BY <2>1
<1>2. CASE out = Nothing
  BY <1>2 DEF FilterCycle
<1>3. CASE out # Nothing
  <2>1. Seen(seen) \in Shown /\ Seen(seen).seen = seen /\ Seen(seen).at = now
    BY <1>3 DEF TravelInv, Entries, Shown, Seen
  <2>2. shown' = Append(shown, Seen(seen))
    BY <1>3 DEF FilterCycle, Seen
  <2>3. /\ Len(shown') = Len(shown) + 1 /\ shown'[Len(shown) + 1] = Seen(seen)
        /\ Len(shown) \in Nat
        /\ \A n \in 1 .. Len(shown) : shown'[n] = shown[n]
    BY <2>1, <2>2
  <2>4. \A n : n \in 1 .. Len(shown) + 1 <=> n \in 1 .. Len(shown) \/ n = Len(shown) + 1
    BY <2>3
  <2>. QED BY <1>1, <1>3, <2>1, <2>3, <2>4 DEF TakenOf
<1>. QED BY <1>2, <1>3

\* An edge logged without a command makes up for the command shown just before,
\* and for no other.
LEMMA BlindMakesUp ==
    ASSUME TravelInv, shown \in Seq(Shown), MissInv, pc = "armed"
    PROVE  /\ TakenOf(shown, blind \cup {now}) = TakenOf(shown, blind) \cup {Len(shown)}
           /\ Len(shown) \notin TakenOf(shown, blind)
           /\ \E n \in 1 .. Len(shown) : ~shown[n].seen /\ shown[n].at + 1 = now
<1>1. /\ Len(shown) \in Nat /\ Len(shown) \in 1 .. Len(shown)
      /\ ~shown[Len(shown)].seen /\ shown[Len(shown)].at + 1 = now
  BY DEF MissInv
<1>2. \A n \in 1 .. Len(shown) : shown[n].at \in Nat
  <2>1. \A n \in 1 .. Len(shown) : shown[n] \in Shown
    OBVIOUS
  <2>. QED BY <2>1 DEF Shown
<1>3. now \in Nat /\ now \notin blind
  <2>1. now \in Nat /\ \A t \in blind : t \in Nat /\ t < now
    BY DEF TravelInv, MissInv
  <2>. QED BY <2>1
<1>4. \A n \in 1 .. Len(shown) : shown[n].at + 1 = now <=> n = Len(shown)
  <2>1. ASSUME NEW n \in 1 .. Len(shown), shown[n].at + 1 = now, n # Len(shown)
        PROVE  FALSE
    <3>1. n < Len(shown)
      BY <1>1, <2>1
    <3>2. shown[n].at < shown[Len(shown)].at
      BY <1>1, <3>1 DEF MissInv
    <3>. QED BY <1>1, <1>2, <2>1, <3>2
  <2>. QED BY <1>1, <2>1
<1>5. TakenOf(shown, blind \cup {now}) = TakenOf(shown, blind) \cup {Len(shown)}
  BY <1>1, <1>4 DEF TakenOf
<1>6. Len(shown) \notin TakenOf(shown, blind)
  BY <1>1, <1>3 DEF TakenOf
<1>. QED BY <1>1, <1>5, <1>6

LEMMA MissInvStep ==
    ASSUME RaiseInv, CountInv, MissInv, [Next]_vars
    PROVE  MissInv'
<1>1. CASE SendCommand \/ Receive \/ WaitForValid
  <2>1. PICK in : \E seen \in BOOLEAN : FilterCycle(in, seen)
    BY <1>1 DEF SendCommand, Receive, WaitForValid
  <2>2. blind' = blind /\ pc' # "armed"
    BY <1>1 DEF SendCommand, Receive, WaitForValid, log_command_receive
  <2>. QED BY <2>1, <2>2, MissNext DEF RaiseInv, CountInv, MissInv
<1>2. CASE MissEdge
  <2>1. FilterCycle(NoCommand, FALSE) /\ blind' = blind /\ out # Nothing
    BY <1>2 DEF MissEdge
  <2>. QED BY <2>1, MissNext DEF RaiseInv, CountInv, MissInv
<1>3. CASE ReceiveBlind
  <2>1. /\ FilterCycle(NoCommand, FALSE) /\ blind' = blind \cup {now} /\ pc = "armed" /\ out = Nothing
        /\ pc' # "armed"
    BY <1>3 DEF ReceiveBlind, log_command_receive
  <2>2. shown' = shown
    BY <2>1 DEF FilterCycle
  <2>3. \E n \in 1 .. Len(shown) : ~shown[n].seen /\ shown[n].at + 1 = now
    BY BlindMakesUp, <2>1 DEF RaiseInv, CountInv
  <2>4. now \in Nat /\ now' = now + 1
    BY <2>1 DEF FilterCycle, RaiseInv, TravelInv
  <2>5. \A t \in blind' : t \in Nat /\ t < now'
    BY <2>1, <2>4 DEF MissInv
  <2>6. \A n \in 1 .. Len(shown') : shown'[n].at < now'
    BY <2>1, MissNext DEF RaiseInv, CountInv
  <2>7. \A t \in blind' : \E n \in 1 .. Len(shown') : ~shown'[n].seen /\ shown'[n].at + 1 = t
    BY <2>1, <2>2, <2>3 DEF MissInv
  <2>8. \A m, n \in 1 .. Len(shown') : m < n => shown'[m].at < shown'[n].at
    BY <2>2 DEF MissInv
  <2>. QED BY <2>1, <2>5, <2>6, <2>7, <2>8 DEF MissInv
<1>4. CASE UNCHANGED <<now, shown, blind>> /\ (pc' = "armed" => pc = "armed")
  BY <1>4 DEF MissInv
<1>5. ASSUME NEW path \in Configs \cup {Missing}, NEW backup \in Configs \cup {Missing},
             Load(path, backup)
      PROVE  UNCHANGED <<now, shown, blind>> /\ (pc' = "armed" => pc = "armed")
  BY <1>5 DEF Load, filter
<1>6. CASE SendWatchList \/ EndWatchList \/ RaiseAttributeError \/ EndSend \/ Finish \/ UNCHANGED vars
  <2>1. UNCHANGED <<now, shown, blind>> /\ (pc' = "armed" => pc = "armed")
    BY <1>6 DEF SendWatchList, EndWatchList, RaiseAttributeError, EndSend, Finish, vars, filter
  <2>. QED BY <1>4, <2>1
<1>. QED BY <1>1, <1>2, <1>3, <1>4, <1>5, <1>6 DEF Next

LEMMA SeenInvStep ==
    ASSUME RaiseInv, CountInv, SeenInv, [Next]_vars
    PROVE  SeenInv'
<1>. DEFINE taken == TakenOf(shown, blind)
<1>1. MissInv /\ MissInv' /\ TravelInv /\ shown \in Seq(Shown)
  BY MissInvStep DEF SeenInv, RaiseInv, CountInv
<1>2. IsFiniteSet(taken) /\ Len(shown) \in Nat /\ Len(shown) + 1 \notin taken
  BY <1>1, TakenFinite
<1>3. CASE UNCHANGED <<shown, blind, i, _expected_msgs_count>> /\ (pc' = pc \/ pc' = "raised")
  BY <1>1, <1>3 DEF SeenInv, TakenOf
<1>4. ASSUME NEW path \in Configs \cup {Missing}, NEW backup \in Configs \cup {Missing},
             Load(path, backup)
      PROVE  SeenInv'
  <2>1. /\ UNCHANGED <<shown, blind, i>> /\ pc = "load" /\ pc' \in {"watchlist", "raised"}
    BY <1>4 DEF Load, filter
  <2>. QED BY <1>1, <2>1 DEF SeenInv, TakenOf
<1>5. CASE SendWatchList \/ EndWatchList
  <2>1. /\ UNCHANGED <<shown, blind>> /\ i' \in {i, i + 1} /\ pc = "watchlist"
        /\ pc' \in {"watchlist", "send"}
    BY <1>5 DEF SendWatchList, EndWatchList, filter
  <2>. QED BY <1>1, <2>1 DEF SeenInv, TakenOf
<1>6. CASE SendCommand
  <2>1. /\ \E in : FilterCycle(in, FALSE)
        /\ blind' = blind /\ pc = "send" /\ pc' = "send" /\ i' = i
    BY <1>6 DEF SendCommand
  <2>2. TakenOf(shown', blind) = taken
    BY <1>1, <2>1, TakenGrows
  <2>. QED BY <1>1, <2>1, <2>2 DEF SeenInv
<1>7. CASE RaiseAttributeError
  <2>1. pc' = "raised" /\ i' = i
    BY <1>7 DEF RaiseAttributeError
  <2>. QED BY <1>1, <2>1 DEF SeenInv
<1>8. CASE EndSend
  <2>1. /\ pc = "send" /\ pc' = "receive" /\ i' = 0 /\ shown' = shown /\ blind' = blind
    BY <1>8 DEF EndSend, filter
  <2>2. TakenOf(shown', blind') = {}
    BY <2>1 DEF SeenInv, TakenOf
  <2>. QED BY <1>1, <2>1, <2>2, FS_EmptySet DEF SeenInv
<1>9. CASE Receive
  <2>1. /\ FilterCycle(NoCommand, TRUE) /\ pc' \in {"logged", "raised"} /\ i' = i + 1
        /\ out # Nothing /\ pc \in {"receive", "logged", "armed"} /\ blind' = blind
    BY <1>9 DEF Receive, log_command_receive
  <2>2. TakenOf(shown', blind) = taken \cup {Len(shown) + 1}
    BY <1>1, <2>1, TakenGrows
  <2>3. Cardinality(TakenOf(shown', blind)) = Cardinality(taken) + 1
    BY <1>2, <2>2, FS_AddElement
  <2>. QED BY <1>1, <2>1, <2>3 DEF SeenInv
<1>10. CASE MissEdge \/ WaitForValid
  <2>1. /\ FilterCycle(NoCommand, FALSE) /\ i' = i /\ pc' \in {"receive", "armed"}
        /\ pc \in {"receive", "logged"} /\ blind' = blind
    BY <1>10 DEF MissEdge, WaitForValid
  <2>2. TakenOf(shown', blind) = taken
    BY <1>1, <2>1, TakenGrows
  <2>. QED BY <1>1, <2>1, <2>2 DEF SeenInv
<1>11. CASE ReceiveBlind
  <2>1. /\ FilterCycle(NoCommand, FALSE) /\ i' = i + 1 /\ pc' \in {"logged", "raised"}
        /\ pc = "armed" /\ out = Nothing /\ blind' = blind \cup {now}
    BY <1>11 DEF ReceiveBlind, log_command_receive
  <2>2. shown' = shown
    BY <2>1 DEF FilterCycle
  <2>3. /\ TakenOf(shown, blind \cup {now}) = taken \cup {Len(shown)} /\ Len(shown) \notin taken
    BY <1>1, <2>1, BlindMakesUp
  <2>4. Cardinality(TakenOf(shown', blind')) = Cardinality(taken) + 1
    BY <1>2, <2>1, <2>2, <2>3, FS_AddElement
  <2>. QED BY <1>1, <2>1, <2>4 DEF SeenInv
<1>12. CASE Finish
  <2>1. /\ UNCHANGED <<shown, blind, i, _expected_msgs_count>> /\ pc \in {"receive", "logged"}
        /\ pc' = "finished" /\ i >= _expected_msgs_count
    BY <1>12 DEF Finish, python, filter
  <2>. QED BY <1>1, <2>1 DEF SeenInv, TakenOf
<1>13. CASE UNCHANGED vars
  <2>1. UNCHANGED <<shown, blind, i, _expected_msgs_count, pc>>
    BY <1>13 DEF vars, python, filter
  <2>. QED BY <1>3, <2>1
<1>. QED BY <1>4, <1>5, <1>6, <1>7, <1>8, <1>9, <1>10, <1>11, <1>12, <1>13 DEF Next

THEOREM SeenInvariant == Spec => [](RaiseInv /\ CountInv /\ SeenInv)
<1>1. Init => SeenInv
  <2>. SUFFICES ASSUME Init PROVE SeenInv
    OBVIOUS
  <2>1. shown = <<>> /\ blind = {} /\ pc = "load" /\ i = 0 /\ Len(shown) = 0
    BY DEF Init
  <2>. QED BY <2>1 DEF SeenInv, MissInv, TakenOf
<1>2. RaiseInv /\ CountInv /\ SeenInv /\ [Next]_vars => SeenInv'
  BY SeenInvStep
<1>. QED BY <1>1, <1>2, CountInvariant, PTL DEF Spec

\* A bench that gets to its results left nothing in the filter: each command was
\* seen, or an edge was logged in its place just behind it. The loop counter
\* cannot reach the count while one is missing, and the count is never short (the
\* loop over get_expected_msgs_count and get_results).
THEOREM FinishedSawAllHolds == Spec => []FinishedSawAll
<1>1. ASSUME RaiseInv, CountInv, SeenInv
      PROVE  FinishedSawAll
  <2>. DEFINE taken == TakenOf(shown, blind)
  <2>. SUFFICES ASSUME pc = "finished"
                PROVE  /\ pipe = <<>> /\ out = Nothing /\ Stale = {}
                       /\ \A n \in DOMAIN shown : shown[n].seen \/ shown[n].at + 1 \in blind
    BY DEF FinishedSawAll
  <2>1. Loaded /\ pc # "watchlist"
    BY DEF Loaded
  <2>2. shown \in Seq(Shown) /\ pipe \in Seq(Entries) /\ NumSent \in Nat /\ config.rows \in Seq(Row)
    BY <1>1, <2>1, ConfigsAssumption DEF CountInv, RaiseInv, TravelInv, OrdersInv, CommandsInv, NumSent
  <2>3. /\ IsFiniteSet(StaleTo(config, NumSent)) /\ Cardinality(StaleTo(config, NumSent)) \in Nat
        /\ Cardinality(StaleTo(config, NumSent)) = 0 => StaleTo(config, NumSent) = {}
    BY <2>2, StaleNext, FS_CardinalityType, FS_EmptySet
  <2>4. Cardinality(taken) >= Held + Cardinality(StaleTo(config, NumSent))
    BY <1>1, <2>1 DEF CountInv, SeenInv
  <2>5. /\ IsFiniteSet(1 .. Len(shown)) /\ Cardinality(1 .. Len(shown)) = Len(shown)
        /\ Len(shown) \in Nat
    <3>1. Len(shown) \in Nat
      BY <2>2
    <3>. QED BY <3>1, FS_Interval
  <2>6. /\ Cardinality(taken) \in Nat
        /\ Cardinality(taken) <= Len(shown)
        /\ Cardinality(taken) = Len(shown) => taken = 1 .. Len(shown)
    <3>1. taken \subseteq 1 .. Len(shown)
      BY DEF TakenOf
    <3>. HIDE DEF taken
    <3>. QED BY <2>5, <3>1, FS_Subset, FS_CardinalityType
  <2>. HIDE DEF taken
  <2>7. Len(pipe) \in Nat
    BY <2>2
  <2>8. /\ Len(pipe) = 0 /\ out = Nothing /\ Cardinality(taken) = Len(shown)
        /\ Cardinality(StaleTo(config, NumSent)) = 0
    BY <2>3, <2>4, <2>5, <2>6, <2>7 DEF Held
  <2>9. pipe = <<>>
    BY <2>2, <2>8
  <2>10. Stale = {}
    BY <1>1, <2>1, <2>2, <2>3, <2>8, StaleIsStaleTo DEF RaiseInv, CountInv
  <2>11. ASSUME NEW n \in DOMAIN shown
         PROVE  shown[n].seen \/ shown[n].at + 1 \in blind
    <3>1. n \in taken
      BY <2>2, <2>6, <2>8
    <3>. QED BY <3>1 DEF taken, TakenOf
  <2>. QED BY <2>8, <2>9, <2>10, <2>11
<1>. QED BY <1>1, SeenInvariant, PTL

---------------------------------------------------------------------------
\* The results.
KeyAt(c, n) == Key(c.rows[n].orderid, c.rows[n].seq_no)

\* What is in the filter, on its output and was shown are different commands.
Apart ==
    /\ \A a, b \in 1 .. Len(pipe) : a # b => KeyOf(pipe[a].cmd) # KeyOf(pipe[b].cmd)
    /\ out # Nothing => \A a \in 1 .. Len(pipe) : KeyOf(pipe[a].cmd) # KeyOf(out.cmd)
    /\ \A n \in 1 .. Len(shown) :
          /\ out # Nothing => KeyOf(shown[n].cmd) # KeyOf(out.cmd)
          /\ \A a \in 1 .. Len(pipe) : KeyOf(pipe[a].cmd) # KeyOf(shown[n].cmd)

\* Each of them was logged when the filter took it.
Times ==
    /\ \A n \in 1 .. Len(pipe) : _msgs[KeyOf(pipe[n].cmd)].sent_time = pipe[n].since
    /\ out # Nothing => _msgs[KeyOf(out.cmd)].sent_time = out.since
    /\ \A n \in 1 .. Len(shown) : KeyOf(shown[n].cmd) \in DOMAIN _msgs

\* The two halves of ResultsTrue that speak of the messages.
SeenResults ==
    \A n \in DOMAIN shown :
        shown[n].seen =>
            /\ _msgs[KeyOf(shown[n].cmd)].sent_time = shown[n].since
            /\ _msgs[KeyOf(shown[n].cmd)].recv_time \in {shown[n].at} \cup blind
OtherResults ==
    \A k \in DOMAIN _msgs :
        _msgs[k].recv_time \notin {0} \cup blind =>
            \E n \in DOMAIN shown : shown[n].seen /\ KeyOf(shown[n].cmd) = k

ResultsInv ==
    /\ _msgs \in [DOMAIN _msgs -> [sent_time : Nat, recv_time : Nat]]
    /\ Loaded => \A k \in DOMAIN _msgs : \E n \in 1 .. NumSent : k = KeyAt(config, n)
    /\ Apart /\ Times /\ SeenResults /\ OtherResults

LEMMA CycleKeepsApart ==
    ASSUME TravelInv, LoggedInv, shown \in Seq(Shown), Apart, Times,
           NEW in \in Inputs \cup {NoCommand}, NEW seen \in BOOLEAN, FilterCycle(in, seen),
           in # NoCommand => KeyOf(in) \notin DOMAIN _msgs
    PROVE  /\ Apart'
           /\ \A n \in 1 .. Len(pipe') :
                 \/ \E m \in 1 .. Len(pipe) : pipe'[n] = pipe[m]
                 \/ in # NoCommand /\ pipe'[n] = [cmd |-> in, since |-> now]
           /\ \/ out' = Nothing
              \/ \E m \in 1 .. Len(pipe) : out' = pipe[m]
              \/ in # NoCommand /\ out' = [cmd |-> in, since |-> now]
<1>. DEFINE p == Taken(in)
            new == [cmd |-> in, since |-> now]
            e == Seen(seen)
<1>1. /\ p \in Seq(Entries) /\ Len(p) \in Nat
      /\ \A n \in 1 .. Len(p) :
            \/ n \in 1 .. Len(pipe) /\ p[n] = pipe[n]
            \/ in # NoCommand /\ p[n] = new /\ n = Len(pipe) + 1
  <2>1. CASE p = pipe
    BY <2>1 DEF TravelInv
  <2>2. CASE in # NoCommand /\ p = Append(pipe, new)
    <3>1. new \in Entries
      BY <2>2 DEF TravelInv, Entries
    <3>. HIDE DEF p, new
    <3>2. /\ p \in Seq(Entries) /\ Len(p) = Len(pipe) + 1 /\ Len(pipe) \in Nat
          /\ \A n \in 1 .. Len(pipe) : p[n] = pipe[n]
          /\ p[Len(pipe) + 1] = new
      BY <2>2, <3>1 DEF TravelInv
    <3>3. \A n \in 1 .. Len(p) : n \in 1 .. Len(pipe) \/ n = Len(pipe) + 1
      BY <3>2
    <3>. QED BY <2>2, <3>2, <3>3
  <2>. QED BY <2>1, <2>2 DEF Taken
<1>. DEFINE K(n) == KeyOf(p[n].cmd)
<1>2. in # NoCommand =>
        /\ \A a \in 1 .. Len(pipe) : KeyOf(pipe[a].cmd) # KeyOf(new.cmd)
        /\ out # Nothing => KeyOf(out.cmd) # KeyOf(new.cmd)
        /\ \A n \in 1 .. Len(shown) : KeyOf(shown[n].cmd) # KeyOf(new.cmd)
  <2>1. new.cmd = in
    OBVIOUS
  <2>. HIDE DEF new
  <2>. QED BY <2>1 DEF LoggedInv, Times
<1>. HIDE DEF new
<1>3. /\ \A a, b \in 1 .. Len(p) : a # b => K(a) # K(b)
      /\ out # Nothing => \A a \in 1 .. Len(p) : K(a) # KeyOf(out.cmd)
      /\ \A n \in 1 .. Len(shown) : \A a \in 1 .. Len(p) : K(a) # KeyOf(shown[n].cmd)
  <2>. HIDE DEF p
  <2>1. ASSUME NEW a \in 1 .. Len(p), NEW b \in 1 .. Len(p), a # b PROVE K(a) # K(b)
    BY <1>1, <1>2, <2>1 DEF Apart
  <2>2. ASSUME out # Nothing, NEW a \in 1 .. Len(p) PROVE K(a) # KeyOf(out.cmd)
    BY <1>1, <1>2, <2>2 DEF Apart
  <2>3. ASSUME NEW n \in 1 .. Len(shown), NEW a \in 1 .. Len(p) PROVE K(a) # KeyOf(shown[n].cmd)
    BY <1>1, <1>2 DEF Apart
  <2>. QED BY <2>1, <2>2, <2>3
<1>4. Len(shown) \in Nat
  OBVIOUS
<1>5. \A n \in 1 .. Len(shown') :
         \/ n \in 1 .. Len(shown) /\ KeyOf(shown'[n].cmd) = KeyOf(shown[n].cmd)
         \/ out # Nothing /\ KeyOf(shown'[n].cmd) = KeyOf(out.cmd)
  <2>1. e.cmd = out.cmd
    BY DEF Seen
  <2>. HIDE DEF e
  <2>. QED BY <2>1, ShownNext DEF e
<1>6. \A n \in 1 .. Len(shown') : \A a \in 1 .. Len(p) : K(a) # KeyOf(shown'[n].cmd)
  <2>. HIDE DEF K
  <2>. QED BY <1>3, <1>5
<1>. HIDE DEF p
<1>7. CASE p # <<>> /\ out' = Head(p) /\ pipe' = Tail(p)
  <2>1. /\ out' = p[1] /\ 1 \in 1 .. Len(p) /\ Len(pipe') = Len(p) - 1
        /\ \A n \in 1 .. Len(pipe') : n + 1 \in 1 .. Len(p) /\ pipe'[n] = p[n + 1] /\ n + 1 # 1
    BY <1>1, <1>7
  <2>2. ASSUME NEW a \in 1 .. Len(pipe'), NEW b \in 1 .. Len(pipe'), a # b
        PROVE  KeyOf(pipe'[a].cmd) # KeyOf(pipe'[b].cmd)
    <3>1. a + 1 # b + 1
      BY <2>2
    <3>. QED BY <1>3, <2>1, <3>1
  <2>3. \A a \in 1 .. Len(pipe') : KeyOf(pipe'[a].cmd) # KeyOf(out'.cmd)
    BY <1>3, <2>1
  <2>4. \A n \in 1 .. Len(shown') :
           /\ KeyOf(shown'[n].cmd) # KeyOf(out'.cmd)
           /\ \A a \in 1 .. Len(pipe') : KeyOf(pipe'[a].cmd) # KeyOf(shown'[n].cmd)
    BY <1>6, <2>1
  <2>5. Apart'
    BY <2>2, <2>3, <2>4 DEF Apart, KeyOf
  <2>. QED BY <1>1, <2>1, <2>5 DEF new
<1>8. CASE out' = Nothing /\ pipe' = p
  <2>1. Apart'
    BY <1>3, <1>6, <1>8 DEF Apart, KeyOf
  <2>. QED BY <1>1, <1>8, <2>1 DEF new
<1>. QED BY <1>7, <1>8 DEF FilterCycle, Show, p

\* The command sent next was not logged before.
LEMMA NextRow ==
    ASSUME KeysUnique, RaiseInv, CountInv, ResultsInv, pc = "send", _commands # <<>>, get_next_command
    PROVE  \E c \in Commands :
              /\ ob_cmd' = from_dict(c) /\ NumSent \in Nat
              /\ msg_key(from_dict(c)) = KeyAt(config, NumSent + 1)
              /\ msg_key(from_dict(c)) \notin DOMAIN _msgs
              /\ Len(_commands') = Len(_commands) - 1 /\ Len(_commands) \in Nat
              /\ Len(config.rows) \in Nat
<1>. DEFINE k == NumSent
            row == config.rows[k + 1]
            c == gen_cmd(row)
            ob == from_dict(c)
<1>1. /\ Loaded /\ _commands \in Seq(Commands) /\ config \in Configs /\ config.rows \in Seq(Row)
  BY ConfigsAssumption DEF Loaded, RaiseInv, TravelInv, OrdersInv
<1>2. Len(_commands) \in Nat /\ Len(_commands) >= 1 /\ Len(config.rows) \in Nat
  BY <1>1
<1>3. Len(_commands) <= Len(config.rows) /\ _commands[1] = c
  BY <1>1, <1>2 DEF CountInv, CommandsInv
<1>4. /\ k \in Nat /\ k + 1 \in 1 .. Len(config.rows) /\ _commands' = Tail(_commands)
  BY <1>2, <1>3 DEF NumSent, get_next_command
<1>5. /\ ob_cmd' = ob /\ Len(_commands') = Len(_commands) - 1
  BY <1>1, <1>2, <1>3, <1>4 DEF get_next_command
<1>6. k + 1 \in DOMAIN config.rows /\ row \in Row /\ c \in Commands
  BY <1>1, <1>4 DEF Commands
<1>7. msg_key(ob) = KeyAt(config, k + 1)
  <2>1. cmd_orderid_str(ob) = row.orderid
    BY <1>6, RowArrives
  <2>2. ob._cmd_seq_no = row.seq_no
    BY DEF from_dict, gen_cmd
  <2>. QED BY <2>1, <2>2 DEF msg_key, KeyAt
<1>8. KeyAt(config, k + 1) \notin DOMAIN _msgs
  <2>. SUFFICES ASSUME KeyAt(config, k + 1) \in DOMAIN _msgs PROVE FALSE
    OBVIOUS
  <2>1. PICK n \in 1 .. k : KeyAt(config, k + 1) = KeyAt(config, n)
    BY <1>1 DEF ResultsInv
  <2>2. n \in DOMAIN config.rows /\ n # k + 1
    BY <1>1, <1>4
  <2>3. /\ config.rows[k + 1].orderid = config.rows[n].orderid
        /\ config.rows[k + 1].seq_no = config.rows[n].seq_no
    BY <2>1 DEF KeyAt, Key
  <2>. QED BY <1>1, <1>6, <2>2, <2>3 DEF KeysUnique
<1>. QED BY <1>2, <1>4, <1>5, <1>6, <1>7, <1>8

\* Logging it leaves the other messages alone.
LEMMA LoggedNext ==
    ASSUME ResultsInv, now \in Nat, NEW ob, msg_key(ob) \notin DOMAIN _msgs, log_command_send(ob)
    PROVE  /\ DOMAIN _msgs' = DOMAIN _msgs \cup {msg_key(ob)}
           /\ \A k \in DOMAIN _msgs : _msgs'[k] = _msgs[k]
           /\ _msgs'[msg_key(ob)] = [sent_time |-> now, recv_time |-> 0]
           /\ _msgs' \in [DOMAIN _msgs' -> [sent_time : Nat, recv_time : Nat]]
<1>1. _msgs \in [DOMAIN _msgs -> [sent_time : Nat, recv_time : Nat]]
  BY DEF ResultsInv
<1>2. _msgs' = [k \in DOMAIN _msgs \cup {msg_key(ob)} |->
                   IF k = msg_key(ob) THEN [sent_time |-> now, recv_time |-> 0] ELSE _msgs[k]]
  BY DEF log_command_send
<1>3. [sent_time |-> now, recv_time |-> 0] \in [sent_time : Nat, recv_time : Nat]
  OBVIOUS
<1>. QED BY <1>1, <1>2, <1>3

LEMMA SendKeepsResults ==
    ASSUME KeysUnique, RaiseInv, CountInv, ResultsInv, SendCommand
    PROVE  ResultsInv'
<1>1. PICK c \in Commands :
         /\ ob_cmd' = from_dict(c) /\ NumSent \in Nat
         /\ msg_key(from_dict(c)) = KeyAt(config, NumSent + 1)
         /\ msg_key(from_dict(c)) \notin DOMAIN _msgs
         /\ Len(_commands') = Len(_commands) - 1 /\ Len(_commands) \in Nat /\ Len(config.rows) \in Nat
  BY NextRow DEF SendCommand
<1>. DEFINE ob == from_dict(c)
            in == Properties(ob)
            key == msg_key(ob)
<1>2. /\ log_command_send(ob) /\ FilterCycle(in, FALSE) /\ config' = config /\ now \in Nat
      /\ Loaded /\ Loaded'
  BY <1>1 DEF SendCommand, Loaded, RaiseInv, TravelInv
<1>3. KeyOf(in) = key /\ in \in Inputs /\ in # NoCommand
  BY KeyOfCommand
<1>4. /\ DOMAIN _msgs' = DOMAIN _msgs \cup {key}
      /\ \A k \in DOMAIN _msgs : _msgs'[k] = _msgs[k]
      /\ _msgs'[key] = [sent_time |-> now, recv_time |-> 0]
      /\ _msgs' \in [DOMAIN _msgs' -> [sent_time : Nat, recv_time : Nat]]
  BY <1>1, <1>2, LoggedNext
<1>5. /\ key = KeyAt(config, NumSent + 1) /\ key \notin DOMAIN _msgs /\ NumSent' = NumSent + 1
  BY <1>1, <1>2 DEF NumSent
<1>. HIDE DEF ob, in, key
<1>6. \A k \in DOMAIN _msgs' : \E n \in 1 .. NumSent' : k = KeyAt(config', n)
  <2>1. \A n \in 1 .. NumSent + 1 : KeyAt(config', n) = KeyAt(config, n)
    BY <1>2
  <2>2. NumSent + 1 \in 1 .. NumSent' /\ \A n \in 1 .. NumSent : n \in 1 .. NumSent'
    BY <1>1, <1>5
  <2>. QED BY <1>2, <1>4, <1>5, <2>1, <2>2 DEF ResultsInv
<1>7. /\ TravelInv /\ LoggedInv /\ shown \in Seq(Shown) /\ Apart /\ Times /\ SeenResults /\ OtherResults
  BY DEF RaiseInv, CountInv, ResultsInv
<1>8. /\ Apart'
      /\ \A n \in 1 .. Len(pipe') :
            \/ \E m \in 1 .. Len(pipe) : pipe'[n] = pipe[m]
            \/ pipe'[n] = [cmd |-> in, since |-> now]
      /\ \/ out' = Nothing
         \/ \E m \in 1 .. Len(pipe) : out' = pipe[m]
         \/ out' = [cmd |-> in, since |-> now]
  BY <1>2, <1>3, <1>5, <1>7, CycleKeepsApart
<1>9. \A n \in 1 .. Len(shown') :
         \/ n \in 1 .. Len(shown) /\ shown'[n] = shown[n]
         \/ out # Nothing /\ shown'[n] = Seen(FALSE)
  BY <1>2, <1>7, ShownNext
<1>10. Seen(FALSE).cmd = out.cmd /\ ~Seen(FALSE).seen
  BY DEF Seen
<1>11. /\ [cmd |-> in, since |-> now].cmd = in /\ [cmd |-> in, since |-> now].since = now
       /\ [sent_time |-> now, recv_time |-> 0].sent_time = now
       /\ [sent_time |-> now, recv_time |-> 0].recv_time = 0
  OBVIOUS
<1>12. \A m \in 1 .. Len(pipe) : _msgs'[KeyOf(pipe[m].cmd)].sent_time = pipe[m].since
  BY <1>4, <1>7 DEF Times, LoggedInv
<1>13. Times'
  <2>1. \A n \in 1 .. Len(pipe') : _msgs'[KeyOf(pipe'[n].cmd)].sent_time = pipe'[n].since
    BY <1>3, <1>4, <1>8, <1>11, <1>12
  <2>2. out' # Nothing => _msgs'[KeyOf(out'.cmd)].sent_time = out'.since
    BY <1>3, <1>4, <1>8, <1>11, <1>12
  <2>3. \A n \in 1 .. Len(shown') : KeyOf(shown'[n].cmd) \in DOMAIN _msgs'
    BY <1>4, <1>7, <1>9, <1>10 DEF Times, LoggedInv
  <2>. QED BY <2>1, <2>2, <2>3 DEF Times, KeyOf
<1>14. /\ DOMAIN shown = 1 .. Len(shown) /\ DOMAIN shown' = 1 .. Len(shown')
       /\ \A n \in 1 .. Len(shown) : n \in 1 .. Len(shown') /\ shown'[n] = shown[n]
  BY <1>2, <1>7, ShownNext
<1>15. SeenResults' /\ OtherResults'
  <2>1. ASSUME NEW n \in DOMAIN shown', shown'[n].seen
        PROVE  /\ _msgs'[KeyOf(shown'[n].cmd)].sent_time = shown'[n].since
               /\ _msgs'[KeyOf(shown'[n].cmd)].recv_time \in {shown'[n].at} \cup blind
    <3>1. n \in DOMAIN shown /\ shown'[n] = shown[n]
      BY <1>9, <1>10, <1>14, <2>1
    <3>2. KeyOf(shown[n].cmd) \in DOMAIN _msgs
      BY <1>7, <1>14, <3>1 DEF Times
    <3>. QED BY <1>4, <1>7, <2>1, <3>1, <3>2 DEF SeenResults
  <2>2. ASSUME NEW k \in DOMAIN _msgs', _msgs'[k].recv_time \notin {0} \cup blind
        PROVE  \E n \in DOMAIN shown' : shown'[n].seen /\ KeyOf(shown'[n].cmd) = k
    <3>1. k \in DOMAIN _msgs /\ _msgs[k].recv_time \notin {0} \cup blind
      BY <1>4, <1>11, <2>2
    <3>. QED BY <1>7, <1>14, <3>1 DEF OtherResults
  <2>3. blind' = blind
    BY DEF SendCommand
  <2>. QED BY <2>1, <2>2, <2>3 DEF SeenResults, OtherResults, KeyOf
<1>. QED BY <1>2, <1>4, <1>6, <1>8, <1>13, <1>15 DEF ResultsInv

\* Writing down when a command was received leaves when it was sent.
LEMMA ReceivedNext ==
    ASSUME ResultsInv, now \in Nat, NEW key \in DOMAIN _msgs, _msgs' = [_msgs EXCEPT ![key].recv_time = now]
    PROVE  /\ DOMAIN _msgs' = DOMAIN _msgs
           /\ \A k \in DOMAIN _msgs :
                 _msgs'[k].sent_time = _msgs[k].sent_time /\ (k # key => _msgs'[k] = _msgs[k])
           /\ _msgs'[key] = [sent_time |-> _msgs[key].sent_time, recv_time |-> now]
           /\ _msgs' \in [DOMAIN _msgs' -> [sent_time : Nat, recv_time : Nat]]
<1>1. _msgs \in [DOMAIN _msgs -> [sent_time : Nat, recv_time : Nat]]
  BY DEF ResultsInv
<1>2. /\ DOMAIN _msgs' = DOMAIN _msgs
      /\ \A k \in DOMAIN _msgs : k # key => _msgs'[k] = _msgs[k]
      /\ _msgs'[key] = [_msgs[key] EXCEPT !.recv_time = now]
  BY <1>1
<1>3. _msgs'[key] = [sent_time |-> _msgs[key].sent_time, recv_time |-> now]
  BY <1>1, <1>2
<1>4. /\ _msgs'[key].sent_time = _msgs[key].sent_time
      /\ _msgs'[key] \in [sent_time : Nat, recv_time : Nat]
  BY <1>1, <1>3
<1>5. _msgs' \in [DOMAIN _msgs' -> [sent_time : Nat, recv_time : Nat]]
  <2>1. \A k \in DOMAIN _msgs : _msgs'[k] \in [sent_time : Nat, recv_time : Nat]
    BY <1>1, <1>2, <1>4
  <2>2. _msgs' = [k \in DOMAIN _msgs' |-> _msgs'[k]]
    BY <1>1
  <2>. QED BY <1>2, <2>1, <2>2
<1>. QED BY <1>2, <1>3, <1>4, <1>5

\* A cycle without a command, in which the time of what is on the output may be
\* written down: everything else that was in the filter keeps its own times.
LEMMA CycleKeepsTimes ==
    ASSUME TravelInv, LoggedInv, shown \in Seq(Shown), Apart, Times, NEW seen \in BOOLEAN,
           FilterCycle(NoCommand, seen), DOMAIN _msgs' = DOMAIN _msgs,
           \A k \in DOMAIN _msgs : _msgs'[k].sent_time = _msgs[k].sent_time
    PROVE  Apart' /\ Times'
<1>1. /\ Apart'
      /\ \A n \in 1 .. Len(pipe') : \E m \in 1 .. Len(pipe) : pipe'[n] = pipe[m]
      /\ out' = Nothing \/ \E m \in 1 .. Len(pipe) : out' = pipe[m]
  BY CycleKeepsApart
<1>2. \A m \in 1 .. Len(pipe) : _msgs'[KeyOf(pipe[m].cmd)].sent_time = pipe[m].since
  BY DEF Times, LoggedInv
<1>3. \A n \in 1 .. Len(shown') :
         \/ n \in 1 .. Len(shown) /\ shown'[n] = shown[n]
         \/ out # Nothing /\ shown'[n] = Seen(seen)
  BY ShownNext
<1>4. Seen(seen).cmd = out.cmd
  BY DEF Seen
<1>5. \A n \in 1 .. Len(shown') : KeyOf(shown'[n].cmd) \in DOMAIN _msgs'
  BY <1>3, <1>4 DEF Times, LoggedInv
<1>6. \A n \in 1 .. Len(pipe') : _msgs'[KeyOf(pipe'[n].cmd)].sent_time = pipe'[n].since
  BY <1>1, <1>2
<1>7. out' # Nothing => _msgs'[KeyOf(out'.cmd)].sent_time = out'.since
  BY <1>1, <1>2
<1>. QED BY <1>1, <1>5, <1>6, <1>7 DEF Times, KeyOf

LEMMA ReceiveKeepsResults ==
    ASSUME RaiseInv, CountInv, ResultsInv, Receive
    PROVE  ResultsInv'
<1>. DEFINE key == KeyOf(out.cmd)
            e == Seen(TRUE)
<1>1. /\ TravelInv /\ LoggedInv /\ shown \in Seq(Shown) /\ Apart /\ Times /\ SeenResults /\ OtherResults /\ now \in Nat
  BY DEF RaiseInv, CountInv, ResultsInv, TravelInv
<1>2. /\ out # Nothing /\ FilterCycle(NoCommand, TRUE) /\ Loaded
      /\ UNCHANGED <<config, _commands>> /\ key \in DOMAIN _msgs
      /\ _msgs' = [_msgs EXCEPT ![key].recv_time = now]
  BY <1>1 DEF Receive, Loaded, LoggedInv, log_command_receive, KeyOf
<1>. HIDE DEF key
<1>3. /\ DOMAIN _msgs' = DOMAIN _msgs
      /\ \A k \in DOMAIN _msgs :
            _msgs'[k].sent_time = _msgs[k].sent_time /\ (k # key => _msgs'[k] = _msgs[k])
      /\ _msgs'[key] = [sent_time |-> _msgs[key].sent_time, recv_time |-> now]
      /\ _msgs' \in [DOMAIN _msgs' -> [sent_time : Nat, recv_time : Nat]]
  BY <1>1, <1>2, ReceivedNext
<1>4. Apart' /\ Times'
  BY <1>1, <1>2, <1>3, CycleKeepsTimes
<1>5. e.cmd = out.cmd /\ e.since = out.since /\ e.at = now /\ e.seen
  BY DEF Seen
<1>. HIDE DEF e
<1>6. /\ DOMAIN shown = 1 .. Len(shown) /\ DOMAIN shown' = 1 .. Len(shown')
      /\ \A n \in 1 .. Len(shown) : n \in 1 .. Len(shown') /\ shown'[n] = shown[n]
      /\ \A n \in 1 .. Len(shown') :
            (n \in 1 .. Len(shown) /\ shown'[n] = shown[n]) \/ shown'[n] = e
      /\ Len(shown) + 1 \in 1 .. Len(shown') /\ shown'[Len(shown) + 1] = e
  BY <1>1, <1>2, ShownNext DEF e
<1>7. ASSUME NEW n \in DOMAIN shown', shown'[n].seen
      PROVE  /\ _msgs'[KeyOf(shown'[n].cmd)].sent_time = shown'[n].since
             /\ _msgs'[KeyOf(shown'[n].cmd)].recv_time \in {shown'[n].at} \cup blind
  <2>1. CASE n \in 1 .. Len(shown) /\ shown'[n] = shown[n]
    <3>1. KeyOf(shown[n].cmd) \in DOMAIN _msgs /\ KeyOf(shown[n].cmd) # key
      BY <1>1, <1>2, <2>1 DEF Times, Apart, key
    <3>. QED BY <1>1, <1>3, <1>6, <1>7, <2>1, <3>1 DEF SeenResults
  <2>2. CASE shown'[n] = e
    <3>1. KeyOf(e.cmd) = key /\ _msgs[key].sent_time = e.since
      BY <1>1, <1>2, <1>5 DEF Times, key
    <3>. QED BY <1>3, <1>5, <2>2, <3>1
  <2>. QED BY <1>6, <2>1, <2>2
<1>8. ASSUME NEW k \in DOMAIN _msgs', _msgs'[k].recv_time \notin {0} \cup blind
      PROVE  \E n \in DOMAIN shown' : shown'[n].seen /\ KeyOf(shown'[n].cmd) = k
  <2>1. CASE k = key
    BY <1>5, <1>6, <2>1 DEF key
  <2>2. CASE k # key
    <3>1. k \in DOMAIN _msgs /\ _msgs[k].recv_time \notin {0} \cup blind
      BY <1>3, <1>8, <2>2
    <3>. QED BY <1>1, <1>6, <3>1 DEF OtherResults
  <2>. QED BY <2>1, <2>2
<1>9. SeenResults' /\ OtherResults'
  <2>1. blind' = blind
    BY DEF Receive
  <2>. QED BY <1>7, <1>8, <2>1 DEF SeenResults, OtherResults, KeyOf
<1>10. \A k \in DOMAIN _msgs' : \E n \in 1 .. NumSent' : k = KeyAt(config', n)
  BY <1>2, <1>3 DEF ResultsInv, NumSent
<1>. QED BY <1>3, <1>4, <1>9, <1>10 DEF ResultsInv

\* What is logged at an edge where nothing is shown falls on the time of some
\* command that was sent, and is known by its time.
LEMMA BlindKeepsResults ==
    ASSUME RaiseInv, CountInv, ResultsInv, ReceiveBlind
    PROVE  ResultsInv'
<1>1. /\ TravelInv /\ LoggedInv /\ shown \in Seq(Shown) /\ Apart /\ Times /\ SeenResults /\ OtherResults
      /\ now \in Nat
  BY DEF RaiseInv, CountInv, ResultsInv, TravelInv
<1>2. /\ out = Nothing /\ FilterCycle(NoCommand, FALSE) /\ Loaded /\ UNCHANGED <<config, _commands>>
      /\ blind' = blind \cup {now}
      /\ \/ _msgs' = _msgs
         \/ \E key \in DOMAIN _msgs : _msgs' = [_msgs EXCEPT ![key].recv_time = now]
  BY DEF ReceiveBlind, Loaded, log_command_receive
<1>3. shown' = shown
  BY <1>2 DEF FilterCycle
<1>4. /\ DOMAIN _msgs' = DOMAIN _msgs
      /\ \A k \in DOMAIN _msgs :
            /\ _msgs'[k].sent_time = _msgs[k].sent_time
            /\ _msgs'[k].recv_time = _msgs[k].recv_time \/ _msgs'[k].recv_time = now
      /\ _msgs' \in [DOMAIN _msgs' -> [sent_time : Nat, recv_time : Nat]]
  <2>1. CASE _msgs' = _msgs
    BY <2>1 DEF ResultsInv
  <2>2. ASSUME NEW key \in DOMAIN _msgs, _msgs' = [_msgs EXCEPT ![key].recv_time = now]
        PROVE  /\ DOMAIN _msgs' = DOMAIN _msgs
               /\ \A k \in DOMAIN _msgs :
                     /\ _msgs'[k].sent_time = _msgs[k].sent_time
                     /\ _msgs'[k].recv_time = _msgs[k].recv_time \/ _msgs'[k].recv_time = now
               /\ _msgs' \in [DOMAIN _msgs' -> [sent_time : Nat, recv_time : Nat]]
    <3>1. /\ DOMAIN _msgs' = DOMAIN _msgs
          /\ \A k \in DOMAIN _msgs :
                _msgs'[k].sent_time = _msgs[k].sent_time /\ (k # key => _msgs'[k] = _msgs[k])
          /\ _msgs'[key] = [sent_time |-> _msgs[key].sent_time, recv_time |-> now]
          /\ _msgs' \in [DOMAIN _msgs' -> [sent_time : Nat, recv_time : Nat]]
      BY <1>1, <2>2, ReceivedNext
    <3>2. _msgs'[key].recv_time = now
      BY <3>1
    <3>. QED BY <3>1, <3>2
  <2>. QED BY <1>2, <2>1, <2>2
<1>5. Apart' /\ Times'
  BY <1>1, <1>2, <1>4, CycleKeepsTimes
<1>6. SeenResults'
  <2>1. ASSUME NEW n \in DOMAIN shown, shown[n].seen
        PROVE  /\ _msgs'[KeyOf(shown[n].cmd)].sent_time = shown[n].since
               /\ _msgs'[KeyOf(shown[n].cmd)].recv_time \in {shown[n].at} \cup blind'
    <3>1. DOMAIN shown = 1 .. Len(shown)
      BY <1>1
    <3>2. KeyOf(shown[n].cmd) \in DOMAIN _msgs
      BY <1>1, <3>1 DEF Times
    <3>. QED BY <1>1, <1>2, <1>4, <2>1, <3>2 DEF SeenResults
  <2>. QED BY <1>3, <2>1 DEF SeenResults, KeyOf
<1>7. OtherResults'
  <2>1. ASSUME NEW k \in DOMAIN _msgs', _msgs'[k].recv_time \notin {0} \cup blind'
        PROVE  \E n \in DOMAIN shown : shown[n].seen /\ KeyOf(shown[n].cmd) = k
    <3>1. k \in DOMAIN _msgs /\ _msgs[k].recv_time \notin {0} \cup blind
      BY <1>2, <1>4, <2>1
    <3>. QED BY <1>1, <3>1 DEF OtherResults
  <2>. QED BY <1>3, <2>1 DEF OtherResults, KeyOf
<1>8. \A k \in DOMAIN _msgs' : \E n \in 1 .. NumSent' : k = KeyAt(config', n)
  BY <1>2, <1>4 DEF ResultsInv, NumSent
<1>. QED BY <1>4, <1>5, <1>6, <1>7, <1>8 DEF ResultsInv

LEMMA WaitKeepsResults ==
    ASSUME RaiseInv, CountInv, ResultsInv, MissEdge \/ WaitForValid
    PROVE  ResultsInv'
<1>1. /\ TravelInv /\ LoggedInv /\ shown \in Seq(Shown) /\ Apart /\ Times /\ SeenResults /\ OtherResults
  BY DEF RaiseInv, CountInv, ResultsInv
<1>2. FilterCycle(NoCommand, FALSE) /\ Loaded /\ UNCHANGED <<config, _commands, _msgs>>
  BY DEF MissEdge, WaitForValid, Loaded, python
<1>3. Apart' /\ Times'
  BY <1>1, <1>2, CycleKeepsTimes
<1>4. /\ DOMAIN shown = 1 .. Len(shown) /\ DOMAIN shown' = 1 .. Len(shown')
      /\ \A n \in 1 .. Len(shown) : n \in 1 .. Len(shown') /\ shown'[n] = shown[n]
      /\ \A n \in 1 .. Len(shown') :
            (n \in 1 .. Len(shown) /\ shown'[n] = shown[n]) \/ shown'[n] = Seen(FALSE)
  BY <1>1, <1>2, ShownNext
<1>5. ~Seen(FALSE).seen
  BY DEF Seen
<1>6. SeenResults' /\ OtherResults'
  <2>1. blind' = blind
    BY DEF MissEdge, WaitForValid
  <2>2. SeenResults'
    BY <1>1, <1>2, <1>4, <1>5, <2>1 DEF SeenResults, KeyOf
  <2>3. OtherResults'
    BY <1>1, <1>2, <1>4, <2>1 DEF OtherResults, KeyOf
  <2>. QED BY <2>2, <2>3
<1>7. \A k \in DOMAIN _msgs' : \E n \in 1 .. NumSent' : k = KeyAt(config', n)
  BY <1>2 DEF ResultsInv, NumSent
<1>8. _msgs' \in [DOMAIN _msgs' -> [sent_time : Nat, recv_time : Nat]]
  BY <1>2 DEF ResultsInv
<1>. QED BY <1>3, <1>6, <1>7, <1>8 DEF ResultsInv

LEMMA RaiseKeepsResults ==
    ASSUME KeysUnique, RaiseInv, CountInv, ResultsInv, RaiseAttributeError
    PROVE  ResultsInv'
<1>1. PICK c \in Commands :
         ob_cmd' = from_dict(c) /\ msg_key(from_dict(c)) \notin DOMAIN _msgs
  BY NextRow DEF RaiseAttributeError
<1>. DEFINE ob == from_dict(c)
            key == msg_key(ob)
<1>2. /\ log_command_send(ob) /\ pc' = "raised" /\ UNCHANGED filter /\ now \in Nat
  BY <1>1 DEF RaiseAttributeError, RaiseInv, TravelInv
<1>3. /\ DOMAIN _msgs' = DOMAIN _msgs \cup {key}
      /\ \A k \in DOMAIN _msgs : _msgs'[k] = _msgs[k]
      /\ _msgs'[key] = [sent_time |-> now, recv_time |-> 0]
      /\ _msgs' \in [DOMAIN _msgs' -> [sent_time : Nat, recv_time : Nat]]
  BY <1>1, <1>2, LoggedNext
<1>4. LoggedInv /\ shown \in Seq(Shown) /\ Apart /\ Times /\ SeenResults /\ OtherResults
  BY DEF RaiseInv, CountInv, ResultsInv
<1>5. Apart'
  BY <1>2, <1>4 DEF Apart, KeyOf, filter
<1>. HIDE DEF ob, key
<1>6. Times'
  BY <1>2, <1>3, <1>4 DEF Times, LoggedInv, KeyOf, filter
<1>7. SeenResults' /\ OtherResults'
  <2>1. ASSUME NEW n \in DOMAIN shown, shown[n].seen
        PROVE  /\ _msgs'[KeyOf(shown[n].cmd)].sent_time = shown[n].since
               /\ _msgs'[KeyOf(shown[n].cmd)].recv_time \in {shown[n].at} \cup blind
    <3>1. DOMAIN shown = 1 .. Len(shown)
      BY <1>4
    <3>2. KeyOf(shown[n].cmd) \in DOMAIN _msgs
      BY <1>4, <3>1 DEF Times
    <3>. QED BY <1>3, <1>4, <2>1, <3>2 DEF SeenResults
  <2>2. ASSUME NEW k \in DOMAIN _msgs', _msgs'[k].recv_time \notin {0} \cup blind
        PROVE  \E n \in DOMAIN shown : shown[n].seen /\ KeyOf(shown[n].cmd) = k
    <3>1. [sent_time |-> now, recv_time |-> 0].recv_time = 0
      OBVIOUS
    <3>. QED BY <1>3, <1>4, <2>2, <3>1 DEF OtherResults
  <2>3. shown' = shown /\ blind' = blind
    BY <1>2 DEF filter, RaiseAttributeError
  <2>. QED BY <2>1, <2>2, <2>3 DEF SeenResults, OtherResults, KeyOf
<1>. QED BY <1>2, <1>3, <1>5, <1>6, <1>7 DEF ResultsInv, Loaded

LEMMA LoadKeepsResults ==
    ASSUME CountInv, RaiseInv, ResultsInv, NEW path \in Configs \cup {Missing},
           NEW backup \in Configs \cup {Missing}, Load(path, backup)
    PROVE  ResultsInv'
<1>1. UNCHANGED <<filter, blind>> /\ (_msgs' = <<>> \/ (pc' = "raised" /\ _msgs' = _msgs)) /\ pc = "load"
  BY DEF Load, python
<1>2. shown \in Seq(Shown) /\ pipe \in Seq(Entries) /\ Held = 0
  BY <1>1 DEF CountInv, RaiseInv, TravelInv
<1>3. Len(shown) = 0 /\ Len(pipe) = 0 /\ out = Nothing
  <2>1. Len(shown) \in Nat /\ Len(pipe) \in Nat
    BY <1>2
  <2>. QED BY <1>2, <2>1 DEF Held
<1>4. Apart' /\ Times'
  BY <1>1, <1>3 DEF Apart, Times, filter
<1>5. CASE _msgs' = <<>>
  <2>1. DOMAIN _msgs' = {} /\ _msgs' \in [{} -> [sent_time : Nat, recv_time : Nat]] /\ DOMAIN shown = {}
    BY <1>2, <1>3, <1>5
  <2>2. SeenResults' /\ OtherResults'
    BY <1>1, <2>1 DEF SeenResults, OtherResults, filter
  <2>. QED BY <1>4, <2>1, <2>2 DEF ResultsInv
<1>6. CASE pc' = "raised" /\ _msgs' = _msgs
  <2>1. SeenResults' /\ OtherResults'
    BY <1>1, <1>6 DEF ResultsInv, SeenResults, OtherResults, filter, KeyOf
  <2>. QED BY <1>4, <1>6, <2>1 DEF ResultsInv, Loaded
<1>. QED BY <1>1, <1>5, <1>6

\* The steps that touch neither the messages nor what was shown.
LEMMA RestKeepsResults ==
    ASSUME ResultsInv, UNCHANGED <<config, _commands, _msgs, pipe, out, shown, blind>>, Loaded' => Loaded
    PROVE  ResultsInv'
BY DEF ResultsInv, Apart, Times, SeenResults, OtherResults, KeyOf, NumSent

\* If the keys of each configuration are its own: however long the filter holds a
\* command, every delta of get_results is the time between log_command_send and
\* log_command_receive of that very command, and none is of a command the bench
\* did not see, but for those that end at an edge where nothing was shown; and
\* the edge before such a one is one whose command the bench missed.
THEOREM ResultsTrueHolds == KeysUnique => (Spec => []ResultsTrue)
<1>. SUFFICES ASSUME KeysUnique PROVE Spec => []ResultsTrue
  OBVIOUS
<1>1. Init => ResultsInv
  BY DEF Init, ResultsInv, Loaded, Apart, Times, SeenResults, OtherResults, Nothing
<1>2. ASSUME RaiseInv, CountInv, ResultsInv, [Next]_vars
      PROVE  ResultsInv'
  <2>1. ASSUME NEW path \in Configs \cup {Missing}, NEW backup \in Configs \cup {Missing},
               Load(path, backup)
        PROVE  ResultsInv'
    BY <1>2, <2>1, LoadKeepsResults
  <2>2. CASE SendWatchList \/ EndWatchList \/ EndSend \/ Finish \/ UNCHANGED vars
    <3>1. UNCHANGED <<config, _commands, _msgs, pipe, out, shown, blind>> /\ (Loaded' => Loaded)
      BY <2>2 DEF SendWatchList, EndWatchList, EndSend, Finish, vars, python, filter, Loaded
    <3>. QED BY <1>2, <3>1, RestKeepsResults
  <2>3. CASE SendCommand
    BY <1>2, <2>3, SendKeepsResults
  <2>4. CASE RaiseAttributeError
    BY <1>2, <2>4, RaiseKeepsResults
  <2>5. CASE Receive
    BY <1>2, <2>5, ReceiveKeepsResults
  <2>6. CASE MissEdge \/ WaitForValid
    BY <1>2, <2>6, WaitKeepsResults
  <2>7. CASE ReceiveBlind
    BY <1>2, <2>7, BlindKeepsResults
  <2>. QED BY <1>2, <2>1, <2>2, <2>3, <2>4, <2>5, <2>6, <2>7 DEF Next
<1>3. ASSUME CountInv, ResultsInv, SeenInv
      PROVE  ResultsTrue
  <2>1. DOMAIN shown = 1 .. Len(shown)
    BY <1>3 DEF CountInv
  <2>. QED BY <1>3, <2>1 DEF ResultsInv, SeenResults, OtherResults, SeenInv, MissInv, ResultsTrue
<1>. QED BY <1>1, <1>2, <1>3, SeenInvariant, PTL DEF Spec
============================================================================
