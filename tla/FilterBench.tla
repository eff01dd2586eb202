---------------------------- MODULE FilterBench ----------------------------
(***************************************************************************)
(* The test bench of the order filter: filter_tb.sv of Market.Data.Filter, *)
(* and the Python objects of ip_export/filter_msg_gen.py it calls.  The    *)
(* bench loads a configuration, writes the watch list, sends all commands, *)
(* one per clock period, and then receives as many as the Python side      *)
(* expects.  The filter IP is external: it takes one command per cycle,    *)
(* lets those through that concern a security of the watch list, in their  *)
(* order and after any delay, and shows each for one cycle.                *)
(*                                                                         *)
(* A command of a configuration is a row of its csv table, with the fields *)
(* the bench and the filter tell apart.  Time is counted in cycles.        *)
(***************************************************************************)
EXTENDS Integers, Sequences, FiniteSets

CONSTANTS
    Configs,    \* [rows, watchlist, securities]: configurations the bench may load
    Missing,    \* path of a file that is not there
    NoSet,      \* an attribute that was never assigned
    MaxDelay    \* bound: cycles a command stays at the head of the filter's queue

VARIABLES
    pc,          \* where the bench is
    config,      \* the configuration loaded
    _commands,   \* commands not sent yet
    ob_cmd,      \* the one OBCommand, filled by get_next_command
    _msgs,       \* [key -> sent_time, recv_time]
    _orderids,   \* orders of listed securities, or NoSet
    _expected_msgs_count,
    i,           \* loop counter of the bench
    now,         \* $time
    listed,      \* the filter: symbols of its watch list
    known,       \* the filter: its orders
    pipe,        \* the filter: commands it has yet to show, and when they came in
    wait,        \* the filter: cycles the first of them has been there
    out,         \* the filter: the command on its output, or Nothing
    shown,       \* history: what was shown and when, and whether the bench saw it
    blind        \* history: the edges at which the bench logged a bus that showed nothing

python == <<config, _commands, ob_cmd, _msgs, _orderids, _expected_msgs_count>>
filter == <<listed, known, pipe, wait, out, shown>>
vars == <<pc, python, i, now, filter, blind>>

NoCommand == [type |-> "none"]                  \* the valid bit at the input is low
Nothing == [cmd |-> NoCommand, since |-> 0]     \* and at the output

---------------------------------------------------------------------------
\* The configuration.

\* Types are numbered from 0.
CmdType == <<"Time", "AddOrder", "OrderExecuted", "OrderExecutedAtPrice", "ReduceSize",
             "ModifyOrder", "DeleteOrder", "GetEverything", "GetAllOrders", "GetTop">>

\* The columns of the csv table that are modelled.
Row == [type : {CmdType[n] : n \in DOMAIN CmdType}, orderid : STRING, symbol : STRING,
        seconds : Nat, seq_no : Nat]

ASSUME ConfigsAssumption == \A c \in Configs : c.rows \in Seq(Row) /\ c.watchlist \in Seq(STRING)
ASSUME MissingAssumption == Missing \notin Configs

\* NoSet is no set of orders.
OrderIds == UNION {{c.rows[n].orderid : n \in DOMAIN c.rows} : c \in Configs}
ASSUME NoSetAssumption == \A S \in SUBSET OrderIds : S # NoSet

\* FieldConverter, external: order numbers and symbols as 64-bit numbers, the
\* latter padded with blanks, and back.
to_u64(text) == [u64 |-> text]
from_u64(number) == number.u64

\* gen_cmd: nanoseconds are filled from the column of the seconds.
gen_cmd(row) ==
    [cmd_type |-> (CHOOSE t \in DOMAIN CmdType : CmdType[t] = row.type) - 1,
     cmd_orderid |-> to_u64(row.orderid), cmd_symbol |-> to_u64(row.symbol),
     cmd_seconds |-> row.seconds, cmd_nanoseconds |-> row.seconds, cmd_seq_no |-> row.seq_no]

gen_messages(c) == [n \in DOMAIN c.rows |-> gen_cmd(c.rows[n])]

\* The first path that names a file is loaded; without one the constructor
\* raises.  (It would also take a configuration for a path, if that were too
\* long for a file name; the bench never passes one.)
Load(path, backup) ==
    /\ pc = "load"
    /\ LET c == IF path # Missing THEN path ELSE backup
       IN  IF c = Missing
           THEN pc' = "raised" /\ UNCHANGED python
           ELSE /\ pc' = "watchlist"
                /\ config' = c
                /\ _commands' = gen_messages(c)
                \* set up in the loop over the securities
                /\ _orderids' = IF c.securities = <<>> THEN NoSet ELSE {}
                /\ _msgs' = <<>> /\ _expected_msgs_count' = 0
                /\ UNCHANGED ob_cmd
    /\ UNCHANGED <<i, now, filter, blind>>

_watch_list == {config.watchlist[n] : n \in 1 .. Len(config.watchlist)}
watchlist_get_size == Len(config.watchlist)
watchlist_get_item(idx) == to_u64(config.watchlist[idx + 1])

\* An OBCommand is new with zeros and filled from a command, field by field.
from_dict(in_dict) ==
    [_cmd_type |-> in_dict.cmd_type, _cmd_orderid |-> in_dict.cmd_orderid,
     _cmd_symbol |-> in_dict.cmd_symbol, _cmd_seconds |-> in_dict.cmd_seconds,
     _cmd_nanoseconds |-> in_dict.cmd_nanoseconds, _cmd_seq_no |-> in_dict.cmd_seq_no]

OBCommand ==
    [_cmd_type |-> 0, _cmd_orderid |-> 0, _cmd_symbol |-> 0, _cmd_seconds |-> 0,
     _cmd_nanoseconds |-> 0, _cmd_seq_no |-> 0]

cmd_type_str(ob) == CmdType[ob._cmd_type + 1]
cmd_orderid_str(ob) == from_u64(ob._cmd_orderid)
cmd_symbol_str(ob) == from_u64(ob._cmd_symbol)

\* Its properties, which the bench puts on the input of the filter.
Properties(ob) ==
    [type |-> ob._cmd_type, orderid |-> ob._cmd_orderid, symbol |-> ob._cmd_symbol,
     seconds |-> ob._cmd_seconds, nanoseconds |-> ob._cmd_nanoseconds, seq_no |-> ob._cmd_seq_no]

---------------------------------------------------------------------------
\* The filter, external: one clock cycle with the command in, or NoCommand, at
\* its input.

\* A listed order is forgotten once it is deleted.
TypeOf(c) == CmdType[c.type + 1]

LetsThrough(c) == IF TypeOf(c) = "AddOrder" THEN c.symbol \in listed ELSE c.orderid \in known

KnownAfter(c) ==
    CASE TypeOf(c) = "AddOrder" /\ c.symbol \in listed -> known \cup {c.orderid}
      [] TypeOf(c) = "DeleteOrder" -> known \ {c.orderid}
      [] OTHER -> known

Taken(in) ==
    IF in # NoCommand /\ LetsThrough(in) THEN Append(pipe, [cmd |-> in, since |-> now]) ELSE pipe

\* What is on the output now gives way to the first command held, or to none.
Show(p) ==
    \/ /\ p # <<>>
       /\ out' = Head(p) /\ pipe' = Tail(p) /\ wait' = 0
    \/ /\ p = <<>> \/ wait < MaxDelay
       /\ out' = Nothing /\ pipe' = p /\ wait' = IF p = <<>> THEN 0 ELSE wait + 1

FilterCycle(in, seen) ==
    /\ Show(Taken(in))
    /\ known' = IF in = NoCommand THEN known ELSE KnownAfter(in)
    /\ shown' = IF out = Nothing THEN shown
                ELSE Append(shown, [cmd |-> out.cmd, since |-> out.since, at |-> now, seen |-> seen])
    /\ now' = now + 1
    /\ UNCHANGED listed

---------------------------------------------------------------------------
\* The bench.

\* Step #1: the length and the symbols of the watch list, one per period.
SendWatchList ==
    /\ pc = "watchlist" /\ i < watchlist_get_size
    /\ listed' = listed \cup {watchlist_get_item(i)}
    /\ i' = i + 1
    /\ UNCHANGED <<pc, python, now, known, pipe, wait, out, shown, blind>>

EndWatchList ==
    /\ pc = "watchlist" /\ i = watchlist_get_size
    /\ pc' = "send" /\ ob_cmd' = OBCommand
    /\ UNCHANGED <<config, _commands, _msgs, _orderids, _expected_msgs_count, i, now, filter, blind>>

\* f'{orderid}-{seq_no}'; (mutant) commands are told apart by their order alone.
OrderAsKey(orderid, seq_no) == <<orderid, 1>>
Key(orderid, seq_no) == <<orderid, seq_no>>

\* (mutants) Orders that are not of the watch list are counted too; the order
\* is not remembered; the key logged is not the one looked up.
CountsAll(ob) == TRUE
CountsAddsOnly(ob) == cmd_type_str(ob) = "AddOrder" /\ cmd_symbol_str(ob) \in _watch_list
KeyOfOrder(ob) == Key(cmd_orderid_str(ob), 1)

\* Should this message pass through the filter?
Expected(ob) ==
    IF cmd_type_str(ob) = "AddOrder" THEN cmd_symbol_str(ob) \in _watch_list
    ELSE cmd_orderid_str(ob) \in _orderids

msg_key(ob) == Key(cmd_orderid_str(ob), ob._cmd_seq_no)

\* The set is missing when it is asked, and when it is added to: the message is
\* logged by then, and one that is added is counted.
RaisesAttributeError(ob) ==
    _orderids = NoSet /\ (cmd_type_str(ob) = "AddOrder" => Expected(ob))

Counted(ob) == IF _orderids = NoSet /\ cmd_type_str(ob) # "AddOrder" THEN FALSE ELSE Expected(ob)

log_command_send(ob) ==
    /\ _msgs' = [k \in DOMAIN _msgs \cup {msg_key(ob)} |->
                    IF k = msg_key(ob) THEN [sent_time |-> now, recv_time |-> 0] ELSE _msgs[k]]
    /\ _expected_msgs_count' = _expected_msgs_count + IF Counted(ob) THEN 1 ELSE 0
    /\ _orderids' = IF ~RaisesAttributeError(ob) /\ cmd_type_str(ob) = "AddOrder" /\ Expected(ob)
                    THEN _orderids \cup {cmd_orderid_str(ob)} ELSE _orderids

get_next_command ==
    /\ ob_cmd' = from_dict(Head(_commands))
    /\ _commands' = Tail(_commands)

\* Step #2: the next command is logged and at the input for one period.  What
\* the filter shows meanwhile nobody sees.
SendCommand ==
    /\ pc = "send" /\ _commands # <<>>
    /\ get_next_command
    /\ ~RaisesAttributeError(ob_cmd')
    /\ log_command_send(ob_cmd')
    /\ FilterCycle(Properties(ob_cmd'), FALSE)
    /\ UNCHANGED <<pc, config, i, blind>>

RaiseAttributeError ==
    /\ pc = "send" /\ _commands # <<>>
    /\ get_next_command
    /\ RaisesAttributeError(ob_cmd')
    /\ log_command_send(ob_cmd')
    /\ pc' = "raised"
    /\ UNCHANGED <<config, i, now, filter, blind>>

EndSend ==
    /\ pc = "send" /\ _commands = <<>>
    /\ pc' = "receive" /\ i' = 0
    /\ UNCHANGED <<python, now, filter, blind>>

\* Step #3: wait for the valid bit, and then for the next clock edge, at which
\* the command is logged.  The edge comes before the output changes.
log_command_receive(orderid, seq_no) ==
    LET key == Key(from_u64(orderid), seq_no)
    IN  IF key \in DOMAIN _msgs
        THEN _msgs' = [_msgs EXCEPT ![key].recv_time = now] /\ pc' = "logged"
        ELSE pc' = "raised" /\ UNCHANGED _msgs

Receive ==
    /\ pc \in {"receive", "logged", "armed"} /\ i < _expected_msgs_count /\ out # Nothing
    /\ log_command_receive(out.cmd.orderid, out.cmd.seq_no)
    /\ i' = i + 1
    /\ FilterCycle(NoCommand, TRUE)
    /\ UNCHANGED <<config, _commands, ob_cmd, _orderids, _expected_msgs_count, blind>>

\* A period after the last edge the bench is back in the very time step of the
\* next one, and the simulator may have run that first: then the wait passes on
\* the valid bit of the command still there, which is not logged at this edge.
\* At the next one something is, and the valid bit is not looked at again.
MissEdge ==
    /\ pc = "logged" /\ i < _expected_msgs_count /\ out # Nothing
    /\ pc' = "armed"
    /\ FilterCycle(NoCommand, FALSE)
    /\ UNCHANGED <<python, i, blind>>

\* What the other lines of the output hold while the valid bit is low is up to
\* the IP: zeros, or any of the commands that went in.
Leftovers ==
    {[orderid |-> to_u64(""), seq_no |-> 0]}
    \cup {Properties(from_dict(gen_cmd(config.rows[n]))) : n \in DOMAIN config.rows}

ReceiveBlind ==
    /\ pc = "armed" /\ out = Nothing
    /\ \E bus \in Leftovers : log_command_receive(bus.orderid, bus.seq_no)
    /\ i' = i + 1 /\ blind' = blind \cup {now}
    /\ FilterCycle(NoCommand, FALSE)
    /\ UNCHANGED <<config, _commands, ob_cmd, _orderids, _expected_msgs_count>>

\* When the filter has nothing to show the wait has no end.
WaitForValid ==
    /\ pc \in {"receive", "logged"} /\ i < _expected_msgs_count /\ out = Nothing /\ pipe # <<>>
    /\ pc' = "receive"
    /\ FilterCycle(NoCommand, FALSE)
    /\ UNCHANGED <<python, i, blind>>

\* get_results, and the end.
Finish ==
    /\ pc \in {"receive", "logged"} /\ i >= _expected_msgs_count
    /\ pc' = "finished"
    /\ UNCHANGED <<python, i, now, filter, blind>>

Init ==
    /\ pc = "load" /\ config = Missing /\ _commands = <<>> /\ ob_cmd = NoCommand
    /\ _msgs = <<>> /\ _orderids = NoSet /\ _expected_msgs_count = 0 /\ i = 0 /\ now = 0
    /\ listed = {} /\ known = {} /\ pipe = <<>> /\ wait = 0 /\ out = Nothing /\ shown = <<>>
    /\ blind = {}

Next ==
    \/ \E path, backup \in Configs \cup {Missing} : Load(path, backup)
    \/ SendWatchList \/ EndWatchList
    \/ SendCommand \/ RaiseAttributeError \/ EndSend
    \/ Receive \/ MissEdge \/ ReceiveBlind \/ WaitForValid \/ Finish

\* The simulation goes on while anything happens.
Spec == Init /\ [][Next]_vars /\ WF_vars(Next)

---------------------------------------------------------------------------
Loaded == pc \notin {"load", "raised"}

\* Commands sent for an order of a listed security after its deletion.
Sent == IF Loaded THEN SubSeq(config.rows, 1, Len(config.rows) - Len(_commands)) ELSE <<>>

Opens(row, orderid) ==
    row.type = "AddOrder" /\ row.orderid = orderid /\ row.symbol \in _watch_list

Stale ==
    {n \in DOMAIN Sent :
        /\ Sent[n].type # "AddOrder"
        /\ \E d \in 1 .. n - 1 :
              /\ Sent[d].type = "DeleteOrder" /\ Sent[d].orderid = Sent[n].orderid
              /\ \A m \in d + 1 .. n - 1 : ~Opens(Sent[m], Sent[n].orderid)
              /\ \E m \in 1 .. d : Opens(Sent[m], Sent[n].orderid)}

\* log_command_send expects exactly what the filter lets through, and on top of
\* it the commands for orders already deleted, which the bench never forgets:
\* after one of those it waits for ever.
CountsRight ==
    Loaded =>
        _expected_msgs_count =
            Len(shown) + Len(pipe) + (IF out = Nothing THEN 0 ELSE 1) + Cardinality(Stale)

KeyOf(c) == Key(from_u64(c.orderid), c.seq_no)

\* No two commands of a configuration are of the same order and have the same
\* sequence number: without that a result could be another command's.
KeysUnique ==
    \A c \in Configs : \A m, n \in DOMAIN c.rows :
        c.rows[m].orderid = c.rows[n].orderid /\ c.rows[m].seq_no = c.rows[n].seq_no => m = n

\* Each delta of get_results is the time the filter took for that very command,
\* though one object carried all of them and their order is told by key only --
\* unless its end is an edge at which nothing was shown, and such an edge always
\* follows one at which a command was shown and not seen.
ResultsTrue ==
    /\ \A n \in DOMAIN shown :
          shown[n].seen =>
              /\ _msgs[KeyOf(shown[n].cmd)].sent_time = shown[n].since
              /\ _msgs[KeyOf(shown[n].cmd)].recv_time \in {shown[n].at} \cup blind
    /\ \A k \in DOMAIN _msgs :
          _msgs[k].recv_time \notin {0} \cup blind =>
              \E n \in DOMAIN shown : shown[n].seen /\ KeyOf(shown[n].cmd) = k
    /\ \A t \in blind : \E n \in DOMAIN shown : ~shown[n].seen /\ shown[n].at + 1 = t

\* The bench reports results only after the filter has shown all it let through,
\* each command seen or made up for by whatever was logged at the edge behind
\* it; and never when it counted a command for a deleted order.
FinishedSawAll ==
    pc = "finished" =>
        /\ pipe = <<>> /\ out = Nothing /\ Stale = {}
        /\ \A n \in DOMAIN shown : shown[n].seen \/ shown[n].at + 1 \in blind

\* The Python side raises only where there is no configuration, or one without
\* securities, or at an edge where nothing was shown: the key of a command that
\* the filter does show is always one that log_command_send made.
KeyFound ==
    pc = "raised" => config = Missing \/ config.securities = <<>> \/ now - 1 \in blind

\* The bench gets to its end unless the filter showed a command while nobody
\* looked, during the send loop or at a missed edge, or a deleted order was used.
Ends ==
    (pc = "receive") ~>
        (pc = "finished" \/ Stale # {} \/ \E n \in DOMAIN shown : ~shown[n].seen)
============================================================================
