-------------------------- MODULE MCFilterBench ---------------------------
(***************************************************************************)
(* FilterBench for TLC.  The rows are those of bench_1.cfg in kind: orders *)
(* of listed and unlisted securities, modified, executed and deleted.      *)
(***************************************************************************)
EXTENDS FilterBench

Cmd(type, orderid, symbol, seq_no) ==
    [type |-> type, orderid |-> orderid, symbol |-> symbol, seconds |-> 100, seq_no |-> seq_no]

\* Two commands of one order, and an order nobody listed.
Mixed == <<
    Cmd("AddOrder", "O1", "AAPL", 1), Cmd("AddOrder", "O2", "TSLA", 2),
    Cmd("ModifyOrder", "O1", "", 3), Cmd("ModifyOrder", "O2", "", 4),
    Cmd("DeleteOrder", "O1", "", 5) >>

\* An order that is used after its deletion, one whose number comes back.
Deleted == <<
    Cmd("AddOrder", "O1", "MSFT", 1), Cmd("DeleteOrder", "O1", "", 2),
    Cmd("ReduceSize", "O1", "", 3), Cmd("AddOrder", "O1", "AAPL", 4),
    Cmd("OrderExecuted", "O1", "", 5) >>

BenchConfigs ==
    {[rows |-> rows, watchlist |-> <<"MSFT", "AAPL">>, securities |-> <<"TSLA">>] :
        rows \in {Mixed, Deleted, <<>>}}
    \cup
    {[rows |-> Mixed, watchlist |-> <<"AAPL">>, securities |-> <<>>],
     [rows |-> Mixed, watchlist |-> <<"GE">>, securities |-> <<"TSLA">>]}

\* In each of them every command has a key of its own.
ASSUME KeysTellApart == KeysUnique
============================================================================
