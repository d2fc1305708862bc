------------------------------ MODULE MysqlCla ------------------------------
(***************************************************************************)
(* The mysql convergence layer: mysqlclo inserts bundles into a table in   *)
(* batches, mysqlcli takes the rows of its own node from a table, injects  *)
(* them and deletes them in one transaction.                               *)
(***************************************************************************)
EXTENDS StoreBp

CONSTANTS
    Own,       \* bundles whose source EID the receiver's pattern matches
    MaxRows    \* bound: rows ever inserted

VARIABLES
    dbUp,      \* the server can be reached
    rows,      \* rows of the table: their id and their bundle
    lastId,    \* AUTO_INCREMENT
    cloConn,   \* mysqlclo has a connection that is alive
    cliConn,   \* so has mysqlcli
    selected,  \* rows the receiver's transaction has yet to inject
    consumed   \* ids it has injected and will delete

sqlVars == <<dbUp, rows, lastId, cloConn, cliConn, selected, consumed>>

SqlInit ==
    /\ dbUp = TRUE /\ rows = {} /\ lastId = 0
    /\ cloConn = FALSE /\ cliConn = FALSE
    /\ selected = {} /\ consumed = {}

\* The server goes away with the connections, or comes back.
SqlServer ==
    /\ dbUp' = ~dbUp
    /\ IF dbUp THEN Fault ELSE UNCHANGED faults
    /\ cloConn' = FALSE /\ cliConn' = FALSE
    /\ UNCHANGED <<bpVars, cloVars, rpc, rows, lastId, selected, consumed>>

-----------------------------------------------------------------------------
(* mysqlclo. *)

SqlStart == CloStart(TRUE) /\ UNCHANGED sqlVars
SqlDequeue == Dequeue /\ UNCHANGED sqlVars
\* Too big for the buffer, or no memory for a copy.
SqlGiveBack == GiveBack /\ UNCHANGED sqlVars
\* The ZCO cannot be read.
SqlBreakOff == BreakOff /\ UNCHANGED sqlVars
SqlLeaveLoop == LeaveLoop /\ UNCHANGED sqlVars
SqlTellEnd == TellEnd /\ UNCHANGED sqlVars
SqlJoined == Joined /\ UNCHANGED sqlVars

\* Waits for room in the batch.
SqlBuffer == (Len(pend) < BatchMax \/ ~running) /\ Buffer /\ UNCHANGED sqlVars

SqlTakeBatch == TakeBatch /\ UNCHANGED sqlVars
SqlFlushEnds == FlushEnds /\ UNCHANGED sqlVars

\* The reconnect loop, which is left with a connection or when told to end.
SqlConnect ==
    /\ fpc = "send"
    /\ \/ ~cloConn /\ running /\ dbUp /\ cloConn' = TRUE /\ fpc' = fpc
       \/ (cloConn \/ ~running) /\ fpc' = "insert" /\ cloConn' = cloConn
    /\ UNCHANGED <<bpVars, mpc, hand, running, pend, batch, ok, cliVars, dbUp, rows,
                   lastId, cliConn, selected, consumed>>

\* Mutant of SqlInsert: an INSERT that failed is not noticed.
SqlInsertUnchecked ==
    /\ fpc = "insert"
    /\ ok' = cloConn
    /\ \E kept \in 0 .. Len(batch) :
          /\ cloConn /\ lastId + kept <= MaxRows
          /\ rows' = rows \cup {[id |-> lastId + i, of |-> batch[i]] : i \in 1 .. kept}
          /\ lastId' = lastId + kept
    /\ fpc' = "settle"
    /\ UNCHANGED <<bp, acquired, stranded, mpc, hand, running, pend, batch, cliVars,
                   dbUp, cloConn, cliConn, selected, consumed>>

\* insertBatch: all rows or none; a COMMIT whose answer is lost may have worked.
SqlInsert ==
    /\ fpc = "insert"
    /\ \E committed \in BOOLEAN, heard \in BOOLEAN :
          /\ heard => committed
          /\ committed => lastId + Len(batch) <= MaxRows
          /\ heard => cloConn
          /\ committed => cloConn
          /\ ok' = heard
          /\ cloConn' = (cloConn /\ heard)
          /\ rows' = IF committed
                     THEN rows \cup {[id |-> lastId + i, of |-> batch[i]] :
                                        i \in 1 .. Len(batch)}
                     ELSE rows
          /\ lastId' = IF committed THEN lastId + Len(batch) ELSE lastId
    /\ fpc' = "settle"
    /\ UNCHANGED <<bp, acquired, stranded, mpc, hand, running, pend, batch, cliVars,
                   dbUp, cliConn, selected, consumed>>

SqlSettle == SettleBatch /\ UNCHANGED sqlVars

SqlClo ==
    \/ SqlStart \/ SqlDequeue \/ SqlGiveBack \/ SqlBreakOff \/ SqlLeaveLoop
    \/ SqlTellEnd \/ SqlJoined \/ SqlBuffer
    \/ SqlTakeBatch \/ SqlFlushEnds \/ SqlConnect \/ SqlInsert \/ SqlSettle

-----------------------------------------------------------------------------
(* mysqlcli. *)

SqlCliStart ==
    /\ rpc = "ended"
    /\ rpc' = "idle"
    /\ UNCHANGED <<faults, bpVars, cloVars, sqlVars>>

SqlCliConnect ==
    /\ rpc = "idle" /\ ~cliConn /\ dbUp
    /\ cliConn' = TRUE
    /\ UNCHANGED <<bpVars, cloVars, cliVars, dbUp, rows, lastId, cloConn, selected,
                   consumed>>

\* The rows of our node with the lowest ids, up to a batch of them.
SqlSelect ==
    /\ rpc = "idle" /\ cliConn
    /\ LET mine == {r \in rows : r.of \in Own}
       IN selected' = {r \in mine :
             Cardinality({q \in mine : q.id < r.id}) < BatchMax}
    /\ selected' # {}
    /\ consumed' = {}
    /\ rpc' = "inject"
    /\ UNCHANGED <<faults, bpVars, cloVars, dbUp, rows, lastId, cloConn, cliConn>>

SqlInject ==
    /\ rpc = "inject" /\ selected # {}
    /\ LET r == CHOOSE q \in selected : \A s \in selected : q.id <= s.id IN
          /\ Acquire({r.of})
          /\ selected' = selected \ {r}
          /\ consumed' = consumed \cup {r.id}
    /\ UNCHANGED <<bp, stranded, cloVars, cliVars, dbUp, rows, lastId, cloConn,
                   cliConn>>

\* BP cannot acquire, or the daemon dies: the transaction is rolled back.
SqlRollback ==
    /\ rpc = "inject"
    /\ selected' = {} /\ consumed' = {}
    /\ cliConn' = FALSE
    /\ rpc' \in {"idle", "ended"} /\ Fault
    /\ UNCHANGED <<bpVars, cloVars, dbUp, rows, lastId, cloConn>>

\* DELETE and COMMIT, in effect or not; an error drops the connection.
SqlDelete ==
    /\ rpc = "inject" /\ selected = {}
    /\ \/ cliConn /\ rows' = {r \in rows : r.id \notin consumed}
          /\ UNCHANGED <<cliConn, faults>>
       \/ cliConn /\ rows' = {r \in rows : r.id \notin consumed}
          /\ cliConn' = FALSE /\ Fault
       \/ cliConn /\ rows' = rows /\ cliConn' = FALSE /\ Fault
       \/ ~cliConn /\ UNCHANGED <<rows, cliConn, faults>>
    /\ consumed' = {}
    /\ rpc' = "idle"
    /\ UNCHANGED <<bpVars, cloVars, dbUp, lastId, cloConn, selected>>

SqlCliStop ==
    /\ rpc = "idle"
    /\ CliEnds /\ cliConn' = FALSE
    /\ UNCHANGED <<bpVars, cloVars, dbUp, rows, lastId, cloConn, selected, consumed>>

SqlCliStep == SqlCliStart \/ SqlCliConnect \/ SqlSelect \/ SqlInject \/ SqlDelete
SqlCli == SqlCliStep \/ SqlRollback \/ SqlCliStop

SqlNext == SqlServer \/ SqlClo \/ SqlCli

InTable(b) == \E r \in rows : r.of = b
=============================================================================
