-------------------------------- MODULE DbNodes --------------------------------
(***************************************************************************)
(* The database nodes (db_nodes/): PostgreSQL in its native and its contrib *)
(* form, TimescaleDB, SQL Server, SQLite and InfluxDB.  Several query nodes *)
(* share the pool of a config node, which the first of them creates under a *)
(* write lock after it looked under a read lock.  A query that times out is *)
(* given up by the node only: its statement stays with the connection, and *)
(* the connection goes back to the pool.                                   *)
(* The pool library, the databases and their drivers are external.         *)
(***************************************************************************)
EXTENDS Integers, Sequences, FiniteSets, SequencesExt

CONSTANTS
    DbKinds,   \* subset of {"postgres", "contrib", "timescale", "mssql", "sqlite", "influx"}
    DbMax,     \* pool_max_size
    DbQueries, \* bound on queries
    DbRows,    \* bound on the rows of a result
    DbPerMsg   \* rowsPerMsg of a contrib node that splits

ASSUME DbAssumption == DbMax \in Nat /\ DbRows \in Nat /\ DbPerMsg \in Nat \ {0}

VARIABLES
    dbKind,
    dbPools,    \* pools created so far; nodes use the latest
    dbReaders, dbWriter,  \* who holds the lock of the pool
    dbConns,    \* every connection: its pool, its user, whether it is up, the statements it still has to run
    dbQ,        \* every query: where it is, its pool and connection, its outcome, what was sent on
    dbApplied   \* how often the database ran its statement

dbVars == <<dbKind, dbPools, dbReaders, dbWriter, dbConns, dbQ, dbApplied>>
Pooled == dbKind \in {"postgres", "contrib", "timescale", "mssql"}

DbInit ==
    /\ dbKind \in DbKinds
    /\ dbPools = 0 /\ dbReaders = {} /\ dbWriter = 0
    /\ dbConns = IF dbKind = "sqlite" THEN <<[pool |-> 0, user |-> 0, up |-> TRUE, todo |-> <<>>]>> ELSE <<>>
    /\ dbQ = <<>> /\ dbApplied = <<>>

Upd(j, at) == dbQ' = [dbQ EXCEPT ![j].at = at]
Give(conns, c) == IF c = 0 THEN conns ELSE [conns EXCEPT ![c].user = 0]
\* The one message (native) or error (contrib) of a query that failed; its connection is returned.
Fail(j, outcome) ==
    /\ dbQ' = [dbQ EXCEPT ![j].at = "done", ![j].outcome = outcome, ![j].conn = 0,
                          ![j].out = IF dbKind = "contrib" THEN <<>> ELSE <<"error">>]
    /\ dbConns' = Give(dbConns, dbQ[j].conn)

QueryComes ==
    /\ Len(dbQ) < DbQueries
    /\ dbQ' = Append(dbQ, [at |-> "prepare", pool |-> 0, conn |-> 0, outcome |-> "none", rows |-> <<>>, out |-> <<>>])
    /\ dbApplied' = Append(dbApplied, 0)
    /\ UNCHANGED <<dbKind, dbPools, dbReaders, dbWriter, dbConns>>

\* prepare, render_query, build_line_protocol: the template or the parameters may be refused.
Prepare(j) ==
    /\ dbQ[j].at = "prepare"
    /\ \/ Upd(j, IF Pooled THEN "look" ELSE "run") /\ UNCHANGED dbConns
       \/ dbKind \in {"contrib", "influx"} /\ Fail(j, "refused")
    /\ UNCHANGED <<dbKind, dbPools, dbReaders, dbWriter, dbApplied>>

---------------------------------------------------------------------------
(* get_pool.                                                               *)

\* Under the read lock: a pool that exists is waited on with the lock held.
Look(j) ==
    /\ dbQ[j].at = "look" /\ dbWriter = 0
    /\ IF dbPools > 0
       THEN /\ dbReaders' = dbReaders \cup {j}
            /\ dbQ' = [dbQ EXCEPT ![j].at = "get", ![j].pool = dbPools]
       ELSE Upd(j, "create") /\ UNCHANGED dbReaders
    /\ UNCHANGED <<dbKind, dbPools, dbWriter, dbConns, dbApplied>>

\* A mistake: no second look under the write lock.
NeedsPoolAlways == TRUE
\* Under the write lock: somebody else may have created it meanwhile.
NeedsPool == dbPools = 0

CreatePool(j) ==
    /\ dbQ[j].at = "create" /\ dbWriter = 0 /\ dbReaders = {}
    /\ \/ /\ dbWriter' = j
          /\ dbPools' = IF NeedsPool THEN dbPools + 1 ELSE dbPools
          /\ dbQ' = [dbQ EXCEPT ![j].at = "get", ![j].pool = dbPools']
          /\ UNCHANGED dbConns
       \/ NeedsPool /\ Fail(j, "refused") /\ UNCHANGED <<dbWriter, dbPools>>
    /\ UNCHANGED <<dbKind, dbReaders, dbApplied>>

Unlock(j) == dbReaders' = dbReaders \ {j} /\ dbWriter' = IF dbWriter = j THEN 0 ELSE dbWriter

InPool(p) == {c \in DOMAIN dbConns : dbConns[c].pool = p /\ dbConns[c].up}
\* Recycling: a PostgreSQL connection only has to be open; SQL Server answers
\* SELECT 1 first, after whatever it still has to run.
Reusable(c) == dbConns[c].user = 0 /\ (dbKind = "mssql" => dbConns[c].todo = <<>>)

GetConnection(j) ==
    /\ dbQ[j].at = "get"
    /\ \/ \E c \in InPool(dbQ[j].pool) :
             /\ Reusable(c)
             /\ dbConns' = [dbConns EXCEPT ![c].user = j]
             /\ dbQ' = [dbQ EXCEPT ![j].at = "run", ![j].conn = c]
       \/ /\ Cardinality(InPool(dbQ[j].pool)) < DbMax
          /\ \/ /\ dbConns' = Append(dbConns, [pool |-> dbQ[j].pool, user |-> j, up |-> TRUE, todo |-> <<>>])
                /\ dbQ' = [dbQ EXCEPT ![j].at = "run", ![j].conn = Len(dbConns) + 1]
             \/ Fail(j, "refused")
       \/ \* wait_timeout: TimescaleDB and SQL Server only.
          dbKind \in {"timescale", "mssql"} /\ Fail(j, "refused")
    /\ Unlock(j)
    /\ UNCHANGED <<dbKind, dbPools, dbApplied>>

---------------------------------------------------------------------------
(* The query.                                                              *)

\* The statement is on its way; SQLite's task waits for the mutex of the one
\* connection, InfluxDB gets a request of its own.
Execute(j) ==
    /\ dbQ[j].at = "run"
    /\ IF dbKind = "influx"
       THEN /\ dbConns' = Append(dbConns, [pool |-> 0, user |-> 0, up |-> TRUE, todo |-> <<j>>])
            /\ Upd(j, "wait")
       ELSE LET c == IF dbKind = "sqlite" THEN 1 ELSE dbQ[j].conn IN
            /\ dbConns' = [dbConns EXCEPT ![c].todo = Append(@, j)]
            /\ Upd(j, "wait")
    /\ UNCHANGED <<dbKind, dbPools, dbReaders, dbWriter, dbApplied>>

\* The database runs the next statement of a connection; a node that gave up is not told.
Serve(c) ==
    /\ dbConns[c].todo # <<>> /\ dbConns[c].up
    /\ LET j == Head(dbConns[c].todo)
           rest == [dbConns EXCEPT ![c].todo = Tail(@)] IN
       \/ /\ dbApplied' = [dbApplied EXCEPT ![j] = @ + 1]
          /\ IF dbQ[j].at # "wait" THEN dbConns' = rest /\ UNCHANGED dbQ
             ELSE \E n \in 0 .. DbRows :
                    /\ dbQ' = [dbQ EXCEPT ![j].at = "send", ![j].outcome = "rows", ![j].conn = 0,
                                          ![j].rows = [i \in 1 .. n |-> <<j, i>>]]
                    /\ dbConns' = Give(rest, dbQ[j].conn)
       \/ \* an error of the statement
          /\ UNCHANGED dbApplied
          /\ IF dbQ[j].at # "wait" THEN dbConns' = rest /\ UNCHANGED dbQ
             ELSE /\ dbQ' = [dbQ EXCEPT ![j].at = "done", ![j].outcome = "error", ![j].conn = 0,
                                        ![j].out = IF dbKind = "contrib" THEN <<>> ELSE <<"error">>]
                  /\ dbConns' = Give(rest, dbQ[j].conn)
    /\ UNCHANGED <<dbKind, dbPools, dbReaders, dbWriter>>

\* tokio::time::timeout: the node gives up, the statement does not.
QueryTimeout(j) ==
    /\ dbQ[j].at = "wait"
    /\ Fail(j, "timeout")
    /\ UNCHANGED <<dbKind, dbPools, dbReaders, dbWriter, dbApplied>>

\* A connection breaks, before or after its statement was run.
ConnectionLost(c) ==
    /\ dbConns[c].up /\ dbKind # "sqlite"
    /\ LET js == {j \in DOMAIN dbQ : dbQ[j].at = "wait" /\ Contains(dbConns[c].todo, j)} IN
       /\ dbQ' = [j \in DOMAIN dbQ |-> IF j \notin js THEN dbQ[j]
                    ELSE [dbQ[j] EXCEPT !.at = "done", !.outcome = "error", !.conn = 0,
                                        !.out = IF dbKind = "contrib" THEN <<>> ELSE <<"error">>]]
       /\ dbConns' = [dbConns EXCEPT ![c].up = FALSE, ![c].todo = <<>>,
                                     ![c].user = IF @ \in js THEN 0 ELSE @]
       /\ \E ran \in BOOLEAN :
             dbApplied' = IF ran /\ dbConns[c].todo # <<>>
                          THEN [dbApplied EXCEPT ![Head(dbConns[c].todo)] = @ + 1] ELSE dbApplied
    /\ UNCHANGED <<dbKind, dbPools, dbReaders, dbWriter>>

---------------------------------------------------------------------------
(* The answer.                                                             *)

\* send_contrib with split: rows in groups of rowsPerMsg, and one message without rows
\* for an empty result; only the last one carries the count and complete.
Groups(rows) == IF rows = <<>> THEN 1 ELSE (Len(rows) + DbPerMsg - 1) \div DbPerMsg
Group(rows, k) == SubSeq(rows, (k - 1) * DbPerMsg + 1, IF k * DbPerMsg < Len(rows) THEN k * DbPerMsg ELSE Len(rows))

SendPart(j) ==
    /\ dbQ[j].at = "send"
    /\ LET q == dbQ[j]
           k == Len(q.out) + 1
       IN IF dbKind = "contrib"
          THEN dbQ' = [dbQ EXCEPT ![j].out = Append(@, [rows |-> Group(q.rows, k), index |-> k - 1,
                                                        count |-> IF k = Groups(q.rows) THEN k ELSE 0]),
                                  ![j].at = IF k = Groups(q.rows) THEN "done" ELSE "send"]
          ELSE dbQ' = [dbQ EXCEPT ![j].out = <<"rows">>, ![j].at = "done"]
    /\ UNCHANGED <<dbKind, dbPools, dbReaders, dbWriter, dbConns, dbApplied>>

DbStep(j) == Prepare(j) \/ Look(j) \/ CreatePool(j) \/ GetConnection(j) \/ Execute(j) \/ QueryTimeout(j) \/ SendPart(j)
DbNext == QueryComes \/ (\E j \in DOMAIN dbQ : DbStep(j)) \/ \E c \in DOMAIN dbConns : Serve(c) \/ ConnectionLost(c)

DbSpec == DbInit /\ [][DbNext]_dbVars

---------------------------------------------------------------------------
\* The parts of a result: part k holds the rows behind those of the k - 1 parts before
\* it, the parts hold all rows, only an empty result has an empty part, and only the last
\* part has the count.
PartsHold(rows, parts) ==
    /\ Len(parts) * DbPerMsg >= Len(rows)
    /\ \A k \in DOMAIN parts :
          /\ DOMAIN parts[k].rows = {r \in 1 .. DbPerMsg : (k - 1) * DbPerMsg + r <= Len(rows)}
          /\ \A r \in DOMAIN parts[k].rows : parts[k].rows[r] = rows[(k - 1) * DbPerMsg + r]
          /\ parts[k].rows = <<>> => rows = <<>> /\ Len(parts) = 1
          /\ parts[k].count = IF k = Len(parts) THEN Len(parts) ELSE 0

\* Queries that share a config node: there are never more open connections
\* than pool_max_size, and each has one user; a statement runs at most once, and
\* has run when its rows are reported, while one that is reported as failed for
\* a parameter or a connection it never got has not; the parts of a result
\* that is split hold its rows, in order, and only the last one has the count
\* (get_pool, run_query, do_query, send_contrib).
DbSound ==
    /\ Pooled => Cardinality({c \in DOMAIN dbConns : dbConns[c].up}) <= DbMax
    /\ \A j \in DOMAIN dbQ :
          /\ dbQ[j].conn # 0 /\ dbConns[dbQ[j].conn].up => dbConns[dbQ[j].conn].user = j
          /\ dbApplied[j] <= 1
          /\ dbQ[j].outcome = "rows" => dbApplied[j] = 1
          /\ dbQ[j].outcome = "refused" => dbApplied[j] = 0
          /\ (dbQ[j].at = "done" /\ dbQ[j].outcome = "rows" /\ dbKind = "contrib") => PartsHold(dbQ[j].rows, dbQ[j].out)
=============================================================================
