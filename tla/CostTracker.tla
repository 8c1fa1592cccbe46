----------------------------- MODULE CostTracker -----------------------------
(***************************************************************************)
(* router/cost.py in each worker process: the usage rows in SQLite, shared   *)
(* by the workers, and the pool of connections each worker keeps.           *)
(*                                                                         *)
(* The connections are in the default mode of the sqlite3 module: an INSERT  *)
(* begins a transaction that only commit or rollback end, and record_usage   *)
(* does not roll back when the INSERT raises.  The database is in WAL mode:  *)
(* one writer at a time, others wait for 5 s and then raise, and a read in a *)
(* transaction sees the rows there were at its first read.                  *)
(***************************************************************************)
EXTENDS Integers, Service

CONSTANTS
  PoolSize,    \* _pool_size, 3 in the code
  MaxStalls,   \* bound of the model: commits that outlast the 5 s
  Nobody       \* no worker

ASSUME CostAssumption ==
  /\ Nobody \notin Workers
  /\ PoolSize \in Nat \ {0}
  /\ MaxStalls \in Nat

VARIABLES
  rows,      \* the number of rows in usage_records
  turn,      \* the connection at the head of _pool: each call takes it and
             \* puts it back at the end before any other does
  tx,        \* the transaction of each connection: NoTx, Begun, or the number
             \* of rows at its first read
  writer,    \* the worker that has held the write lock for 5 s
  stalls,    \* such commits so far
  timeouts   \* history: writes of each worker that raised for the lock

costVars == <<rows, turn, tx, writer, stalls, timeouts>>

Connection == 1 .. PoolSize
NoTx  == -1
Begun == -2

\* A worker whose commit stalls does nothing else: the call is synchronous.
Runs(w) == writer # w

Current(w) == tx[w][turn[w]]
\* The connection sees every row there is, or has not looked yet.
UpToDate(w) == Current(w) \in {NoTx, Begun, rows}
Open(w) == {c \in Connection : tx[w][c] # NoTx}

-----------------------------------------------------------------------------
CostInit ==
  /\ rows = 0
  /\ turn = [w \in Workers |-> (1 % PoolSize) + 1]   \* _init_db took the first
  /\ tx = [w \in Workers |-> [c \in Connection |-> NoTx]]
  /\ writer = Nobody
  /\ stalls = 0
  /\ timeouts = [w \in Workers |-> 0]

\* get_connection around an operation that leaves the connection in state s.
Use(w, s) ==
  /\ tx' = [tx EXCEPT ![w][turn[w]] = s]
  /\ turn' = [turn EXCEPT ![w] = (@ % PoolSize) + 1]

\* record_usage: insert and commit.
RecordSucceeds(w) ==
  /\ writer = Nobody
  /\ UpToDate(w)
  /\ rows' = rows + 1
  /\ Use(w, NoTx)
  /\ UNCHANGED <<writer, stalls, timeouts>>

\* The commit outlasts the patience of the other workers.
RecordStalls(w) ==
  /\ writer = Nobody
  /\ UpToDate(w)
  /\ stalls < MaxStalls
  /\ writer' = w
  /\ stalls' = stalls + 1
  /\ UNCHANGED <<rows, turn, tx, timeouts>>

StallCommits(w) ==
  /\ writer = w
  /\ writer' = Nobody
  /\ rows' = rows + 1
  /\ Use(w, NoTx)
  /\ UNCHANGED <<stalls, timeouts>>

StallFails(w) ==
  /\ writer = w
  /\ writer' = Nobody
  /\ Use(w, NoTx)
  /\ UNCHANGED <<rows, stalls, timeouts>>

\* The disk is full or fails: SQLite rolls back by itself.
RecordFails(w) ==
  /\ writer = Nobody
  /\ UpToDate(w)
  /\ Use(w, NoTx)
  /\ UNCHANGED <<rows, writer, stalls, timeouts>>

\* Another worker has the lock: the INSERT raises and leaves its transaction.
RecordTimesOut(w) ==
  /\ writer \notin {Nobody, w}
  /\ UpToDate(w)
  /\ timeouts' = [timeouts EXCEPT ![w] = @ + 1]
  /\ Use(w, IF Current(w) = NoTx THEN Begun ELSE Current(w))
  /\ UNCHANGED <<rows, writer, stalls>>

\* A transaction that has read cannot write on top of rows it does not see.
RecordRefused(w) ==
  /\ ~UpToDate(w)
  /\ Use(w, Current(w))
  /\ UNCHANGED <<rows, writer, stalls, timeouts>>

\* Mutated form: a read begins a transaction as well.
ReadBegins(w) ==
  /\ Use(w, IF Current(w) \in {NoTx, Begun} THEN rows ELSE Current(w))
  /\ UNCHANGED <<rows, writer, stalls, timeouts>>

\* get_total_cost, check_budget, export_usage_data and the other queries.
Read(w) ==
  /\ Use(w, IF Current(w) = Begun THEN rows ELSE Current(w))
  /\ UNCHANGED <<rows, writer, stalls, timeouts>>

\* cost_dashboard: totals, budget, hours and models, a connection each; a pool
\* of three is gone through once and its first connection used again.
Dashboard(w) ==
  /\ tx' = [tx EXCEPT ![w] = [c \in Connection |->
              IF @[c] = Begun /\ (c - turn[w]) % PoolSize < 4 THEN rows ELSE @[c]]]
  /\ turn' = [turn EXCEPT ![w] = ((@ + 3) % PoolSize) + 1]
  /\ UNCHANGED <<rows, writer, stalls, timeouts>>

\* New connections; a commit of the old process is done or rolled back.
RestartCost(w, committed) ==
  /\ committed => writer = w
  /\ rows' = IF committed THEN rows + 1 ELSE rows
  /\ writer' = IF writer = w THEN Nobody ELSE writer
  /\ tx' = [tx EXCEPT ![w] = [c \in Connection |-> NoTx]]
  /\ turn' = [turn EXCEPT ![w] = (1 % PoolSize) + 1]
  /\ timeouts' = [timeouts EXCEPT ![w] = 0]
  /\ UNCHANGED stalls
=============================================================================
