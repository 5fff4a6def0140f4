---------------------------- MODULE OrdersProofs ----------------------------
(***************************************************************************)
(* Proofs about Orders for any number of orders, transfers, chains,        *)
(* handlers and creators, with or without failing statements.              *)
(***************************************************************************)
EXTENDS Orders, TLAPS

-----------------------------------------------------------------------------
(* The steps the proofs are about *)

\* Any event a watcher can hand over. MaxConfirmations only bounds the counts
\* for TLC; the proofs, and the gateway, do without it.
TrueEvent == {ev \in TransferEvent : ev.amount = TxAmount[ev.tx]}

Step == Next \/ \E h \in Handler, ev \in TrueEvent : OnTransfer(h, ev)

\* The events of Next are among them.
LEMMA EventsAreTrue == Events \subseteq TrueEvent
  BY OrdersAssumption DEF Events, TrueEvent, TransferEvent

\* What is shown of every Step holds of every step of the service.
LEMMA NextIsStep == [Next]_vars => [Step]_vars
  BY DEF Step

-----------------------------------------------------------------------------
(* Type correctness *)

\* What each handler works on: the strengthening that makes TypeOK inductive.
\* Past "idle" there is an event, of the handler's chain and with the amount
\* of its transfer; the transaction of ClaimUnderpaid has picked a row.
WorkOK ==
    \A h \in Handler :
        /\ pc[h] # "idle" => /\ call[h] \in TransferEvent
                             /\ call[h].amount = TxAmount[call[h].tx]
                             /\ TxChain[call[h].tx] = HandlerChain[h]
        /\ pc[h] = "mark" => best[h] \in Order
        /\ pc[h] \notin {"mark", "review"} => best[h] = NULL

TypeInv == TypeOK /\ WorkOK

\* Empty tables and idle actors have their types.
LEMMA InitTypeInv == Init => TypeInv
  BY OrdersAssumption DEF Init, TypeInv, TypeOK, WorkOK, Row, NoRow, Status

\* What the definitions of the row changes return.
LEMMA RowTypes ==
    ASSUME NEW row \in Row, NEW ev \in TransferEvent, now \in Nat
    PROVE  /\ Advanced(row, ev) \in Row
           /\ Matched(row, ev) \in Row
           /\ Underpaid(row, ev) \in Row
           /\ [row EXCEPT !.status = "expired"] \in Row
  BY DEF Advanced, Matched, Underpaid, StatusAt, Row, Status, TransferEvent

\* A row that CreateOrder inserts is a row of the table.
LEMMA NewRowType ==
    ASSUME NEW chain \in Chain, NEW expected \in Nat, now \in Nat
    PROVE  NewRow(chain, expected) \in Row
  <1>1. NoRow \in Row
    BY DEF NoRow, Row, Status
  <1>2. Required[chain] \in Nat /\ now + Expiry \in Nat
    BY OrdersAssumption
  <1>3. ASSUME NEW row \in Row, NEW required \in Nat, NEW expires \in Nat
        PROVE  [row EXCEPT !.status = "pending", !.chain = chain, !.expected = expected,
                           !.required = required, !.expires = expires] \in Row
    BY DEF Row, Status
  <1> QED
    BY <1>1, <1>2, <1>3 DEF NewRow

\* Replacing one row by a row keeps the type of the table.
LEMMA TableTypes ==
    ASSUME TypeOK, NEW o \in Order, NEW ev \in TransferEvent
    PROVE  /\ [orders EXCEPT ![o] = Advanced(@, ev)] \in [Order -> Row]
           /\ [orders EXCEPT ![o] = Matched(@, ev)] \in [Order -> Row]
           /\ [orders EXCEPT ![o] = Underpaid(@, ev)] \in [Order -> Row]
  <1>1. orders \in [Order -> Row] /\ orders[o] \in Row /\ now \in Nat
    BY DEF TypeOK
  <1>2. /\ Advanced(orders[o], ev) \in Row
        /\ Matched(orders[o], ev) \in Row
        /\ Underpaid(orders[o], ev) \in Row
    BY <1>1, RowTypes
  <1> QED
    BY <1>1, <1>2

\* The log, and what the actors have still to insert, is well-formed.
LogOK == audit \subseteq AuditEntry /\ owed \in [Actor -> SUBSET AuditEntry]

\* Owing well-formed entries keeps it so.
LEMMA LogType ==
    ASSUME NEW a, NEW entries \in SUBSET AuditEntry, LogOK, Log(a, entries)
    PROVE  LogOK'
  BY DEF Log, LogOK

\* So does an insert of audit.Log, lost or not.
LEMMA InsertType ==
    ASSUME NEW a \in Actor, LogOK, AuditInsert(a)
    PROVE  LogOK'
  BY DEF AuditInsert, LogOK

\* An entry about an order or a transfer is well-formed.
LEMMA EntryType ==
    ASSUME NEW e \in AuditEvent, NEW o \in Order \cup {NULL}, NEW t \in Tx \cup {NULL}
    PROVE  Entry(e, o, t) \in AuditEntry
  BY DEF Entry, AuditEntry

\* What logProgress writes is well-formed.
LEMMA ProgressType ==
    ASSUME NEW o \in Order, NEW t \in Tx, NEW status
    PROVE  Progress(o, t, status) \subseteq AuditEntry
  BY EntryType DEF Progress, AuditEvent

\* No step leaves the types.
LEMMA StepTypeInv == TypeInv /\ [Step]_vars => TypeInv'
  <1> SUFFICES ASSUME TypeInv, [Step]_vars
               PROVE  TypeInv'
    OBVIOUS
  <1> USE OrdersAssumption
  <1>1. ASSUME NEW c \in Creator, NEW chain \in Chain, NEW base \in BaseAmounts,
               CreateOrder(c, chain, base)
        PROVE  TypeInv'
    BY <1>1 DEF TypeInv, TypeOK, WorkOK, CreateOrder, Request, tables, handlerVars
  <1>2. ASSUME NEW c \in Creator, NEW offset \in OffsetMin..OffsetMax, InsertCollides(c, offset)
        PROVE  TypeInv'
    BY <1>2 DEF TypeInv, TypeOK, WorkOK, InsertCollides, Request, tables, handlerVars
  <1>3. ASSUME NEW c \in Creator, NEW offset \in OffsetMin..OffsetMax, NEW o \in Order,
               InsertOrder(c, o, offset)
        PROVE  TypeInv'
    <2>1. request[c] \in Request /\ request[c].base + offset \in Nat
      BY <1>3 DEF TypeInv, TypeOK, InsertOrder, Request
    <2>2. NewRow(request[c].chain, request[c].base + offset) \in Row
      BY <2>1, NewRowType DEF TypeInv, TypeOK, Request
    <2>3. LogOK'
      <3>1. {Entry("order_created", o, NULL)} \in SUBSET AuditEntry
        BY EntryType DEF AuditEvent
      <3> QED
        BY <3>1, <1>3, LogType DEF InsertOrder, TypeInv, TypeOK, LogOK
    <2> QED
      BY <1>3, <2>2, <2>3 DEF TypeInv, TypeOK, WorkOK, InsertOrder, LogOK, handlerVars
  <1>4. ASSUME NEW c \in Creator, CreateFails(c)
        PROVE  TypeInv'
    BY <1>4 DEF TypeInv, TypeOK, WorkOK, CreateFails, tables, handlerVars
  <1>5. ASSUME NEW h \in Handler, NEW ev \in TrueEvent, OnTransfer(h, ev)
        PROVE  TypeInv'
    <2>1. ev \in TransferEvent /\ ev.amount = TxAmount[ev.tx]
      BY DEF TrueEvent
    <2>2. LogOK'
      <3>1. {Entry("transfer_observed", NULL, ev.tx)} \in SUBSET AuditEntry
        BY <2>1, EntryType DEF AuditEvent, TransferEvent
      <3> QED
        BY <3>1, <1>5, LogType DEF OnTransfer, TypeInv, TypeOK, LogOK
    <2>3. /\ pc' \in [Handler -> Statement \cup {"idle"}]
          /\ call' \in [Handler -> TransferEvent \cup {NULL}]
      BY <1>5, <2>1 DEF OnTransfer, Goto, Statement, TypeInv, TypeOK
    <2> QED
      BY <1>5, <2>1, <2>2, <2>3 DEF TypeInv, TypeOK, WorkOK, OnTransfer, LogOK, Goto
  <1>6. ASSUME NEW h \in Handler, UpdateConfirmations(h)
        PROVE  TypeInv'
    <2>0. TypeOK /\ orders \in [Order -> Row]
      BY DEF TypeInv, TypeOK
    <2>1. call[h] \in TransferEvent /\ call[h].tx \in Tx
      BY <1>6 DEF UpdateConfirmations, TypeInv, WorkOK, TransferEvent
    <2>2. orders' \in [Order -> Row]
      BY <1>6, <2>1, TableTypes, <2>0 DEF UpdateConfirmations, Advancing
    <2>3. LogOK'
      BY <1>6, <2>1, LogType, ProgressType
      DEF UpdateConfirmations, TypeInv, TypeOK, LogOK, Advancing
    <2>4. WorkOK' /\ pc' \in [Handler -> Statement \cup {"idle"}]
                 /\ call' \in [Handler -> TransferEvent \cup {NULL}]
                 /\ best' \in [Handler -> Order \cup {NULL}]
      BY <1>6 DEF UpdateConfirmations, TypeInv, TypeOK, WorkOK, Return, Goto, Statement
    <2> QED
      BY <1>6, <2>2, <2>3, <2>4 DEF UpdateConfirmations, TypeInv, TypeOK, LogOK
  <1>7. ASSUME NEW h \in Handler, TxAlreadyClaimed(h)
        PROVE  TypeInv'
    BY <1>7 DEF TypeInv, TypeOK, WorkOK, TxAlreadyClaimed, Return, Goto, Statement, tables
  <1>8. ASSUME NEW h \in Handler, ClaimExactMatch(h)
        PROVE  TypeInv'
    <2>0. TypeOK /\ orders \in [Order -> Row]
      BY DEF TypeInv, TypeOK
    <2>1. call[h] \in TransferEvent /\ call[h].tx \in Tx
      BY <1>8 DEF ClaimExactMatch, TypeInv, WorkOK, TransferEvent
    <2>2. orders' \in [Order -> Row]
      <3>1. \/ orders' = orders
            \/ \E o \in Order : orders' = [orders EXCEPT ![o] = Matched(@, call[h])]
        BY <1>8 DEF ClaimExactMatch, Matches, Claimable
      <3> QED
        BY <3>1, <2>0, <2>1, TableTypes
    <2>3. LogOK'
      <3>1. ASSUME NEW o \in Order
            PROVE  {Entry("order_matched", o, call[h].tx)}
                     \cup Progress(o, call[h].tx, StatusAt(orders[o], call[h].confirmations))
                   \in SUBSET AuditEntry
        BY <2>1, EntryType, ProgressType DEF AuditEvent
      <3> QED
        BY <1>8, <3>1, LogType DEF ClaimExactMatch, TypeInv, TypeOK, LogOK, Matches, Claimable
    <2>4. WorkOK' /\ pc' \in [Handler -> Statement \cup {"idle"}]
                 /\ call' \in [Handler -> TransferEvent \cup {NULL}]
                 /\ best' \in [Handler -> Order \cup {NULL}]
      <3>1. \/ Return(h)
            \/ Goto(h, "under") /\ UNCHANGED <<call, best>>
        BY <1>8 DEF ClaimExactMatch
      <3>2. pc[h] = "exact"
        BY <1>8 DEF ClaimExactMatch
      <3> QED
        BY <3>1, <3>2 DEF TypeInv, TypeOK, WorkOK, Return, Goto, Statement
    <2> QED
      BY <1>8, <2>2, <2>3, <2>4 DEF ClaimExactMatch, TypeInv, TypeOK, LogOK
  <1>9. ASSUME NEW h \in Handler, ClaimUnderpaid(h)
        PROVE  TypeInv'
    BY <1>9 DEF ClaimUnderpaid, TypeInv, TypeOK, WorkOK, Goto, Statement, tables
  <1>10. ASSUME NEW h \in Handler, MarkUnderpaid(h)
         PROVE  TypeInv'
    <2>0. TypeOK /\ orders \in [Order -> Row]
      BY DEF TypeInv, TypeOK
    <2>1. call[h] \in TransferEvent /\ call[h].tx \in Tx /\ best[h] \in Order
      BY <1>10 DEF MarkUnderpaid, TypeInv, WorkOK, TransferEvent
    <2>2. orders' \in [Order -> Row]
      BY <1>10, <2>1, TableTypes, <2>0 DEF MarkUnderpaid
    <2>3. LogOK'
      <3>1. {Entry("order_underpaid", best[h], call[h].tx)} \in SUBSET AuditEntry
        BY <2>1, EntryType DEF AuditEvent
      <3> QED
        BY <1>10, <3>1, LogType DEF MarkUnderpaid, TypeInv, TypeOK, LogOK
    <2>4. WorkOK' /\ pc' \in [Handler -> Statement \cup {"idle"}]
                 /\ call' \in [Handler -> TransferEvent \cup {NULL}]
                 /\ best' \in [Handler -> Order \cup {NULL}]
      BY <1>10 DEF MarkUnderpaid, TypeInv, TypeOK, WorkOK, Return, Goto, Statement
    <2>5. lock' \in [Order -> Handler \cup {Sweeper, NULL}]
      BY <1>10 DEF MarkUnderpaid, TypeInv, TypeOK, Unlocked
    <2> QED
      BY <1>10, <2>2, <2>3, <2>4, <2>5 DEF MarkUnderpaid, TypeInv, TypeOK, LogOK
  <1>11. ASSUME NEW h \in Handler, LogReviewItem(h)
         PROVE  TypeInv'
    <2>1. call[h].tx \in Tx /\ best[h] \in Order \cup {NULL}
      BY <1>11 DEF LogReviewItem, TypeInv, TypeOK, WorkOK, TransferEvent
    <2>2. reviews' \in [Tx -> Review \cup {NULL}]
      BY <1>11, <2>1 DEF LogReviewItem, TypeInv, TypeOK, Review
    <2> QED
      BY <1>11, <2>2 DEF LogReviewItem, TypeInv, TypeOK, WorkOK, Return
  <1>12. ASSUME NEW h \in Handler, StatementFails(h)
         PROVE  TypeInv'
    BY <1>12 DEF StatementFails, TypeInv, TypeOK, WorkOK, Return, Unlocked, tables
  <1>19. ASSUME NEW h \in Handler, Rollback(h)
         PROVE  TypeInv'
    <2>1. call[h] \in TransferEvent /\ call[h].tx \in Tx
      BY <1>19 DEF Rollback, TypeInv, WorkOK, TransferEvent
    <2>2. LogOK'
      <3>1. {Entry("transfer_unmatched", NULL, call[h].tx)} \in SUBSET AuditEntry
        BY <2>1, EntryType DEF AuditEvent
      <3> QED
        BY <3>1, <1>19, LogType DEF Rollback, TypeInv, TypeOK, LogOK
    <2>3. WorkOK' /\ pc' \in [Handler -> Statement \cup {"idle"}]
                 /\ lock' \in [Order -> Handler \cup {Sweeper, NULL}]
      BY <1>19 DEF Rollback, TypeInv, TypeOK, WorkOK, Goto, Statement, Unlocked
    <2> QED
      BY <1>19, <2>2, <2>3 DEF Rollback, TypeInv, TypeOK, LogOK
  <1>20. ASSUME NEW a \in Actor, AuditInsert(a)
         PROVE  TypeInv'
    <2>1. LogOK'
      BY <1>20, InsertType DEF TypeInv, TypeOK, LogOK
    <2> QED
      BY <1>20, <2>1 DEF AuditInsert, TypeInv, TypeOK, WorkOK, LogOK, handlerVars
  <1>13. CASE ExpirePastDue
    BY <1>13 DEF ExpirePastDue, PastDue, TypeInv, TypeOK, WorkOK, tables, handlerVars
  <1>14. ASSUME NEW o \in Order, ExpireRow(o)
         PROVE  TypeInv'
    BY <1>14 DEF ExpireRow, TypeInv, TypeOK, WorkOK, tables, handlerVars
  <1>15. CASE ExpireCommit
    <2>1. orders' \in [Order -> Row]
      <3>1. \A o \in Order : orders[o] \in Row
        BY DEF TypeInv, TypeOK
      <3>2. \A o \in Order : [orders[o] EXCEPT !.status = "expired"] \in Row
        BY <3>1 DEF Row, Status
      <3> QED
        BY <1>15, <3>1, <3>2 DEF ExpireCommit
    <2>2. LogOK'
      <3>1. {Entry("order_expired", o, NULL) : o \in Expiring} \in SUBSET AuditEntry
        BY EntryType DEF AuditEvent, Expiring
      <3> QED
        BY <1>15, <3>1, LogType DEF ExpireCommit, TypeInv, TypeOK, LogOK
    <2> QED
      BY <1>15, <2>1, <2>2 DEF ExpireCommit, TypeInv, TypeOK, WorkOK, LogOK, Unlocked, handlerVars
  <1>16. CASE ExpireFails
    BY <1>16 DEF ExpireFails, TypeInv, TypeOK, WorkOK, Unlocked, tables, handlerVars
  <1>17. CASE Tick
    BY <1>17 DEF Tick, TypeInv, TypeOK, WorkOK, tables, handlerVars
  <1>18. CASE UNCHANGED vars
    BY <1>18 DEF vars, TypeInv, TypeOK, WorkOK
  <1> QED
    BY <1>1, <1>2, <1>3, <1>4, <1>5, <1>6, <1>7, <1>8, <1>9, <1>10, <1>11, <1>12,
       <1>13, <1>14, <1>15, <1>16, <1>17, <1>18, <1>19, <1>20, EventsAreTrue
    DEF Step, Next, CreatorStep, HandlerStep, ExpiryStep, Actor

\* Every column and every local variable keeps its type, whatever the actors
\* of the service do.
THEOREM TypeCorrect == Spec => []TypeOK
  <1>1. Spec => []TypeInv
    BY InitTypeInv, StepTypeInv, NextIsStep, PTL DEF Spec
  <1> QED
    BY <1>1, PTL DEF TypeInv

-----------------------------------------------------------------------------
(* Row locks *)

\* What ClaimExactMatch does to the table and to its handler.
LEMMA ExactMatchOutcome ==
    ASSUME NEW h \in Handler, ClaimExactMatch(h)
    PROVE  /\ pc[h] = "exact"
           /\ UNCHANGED <<reviews, lock, now, request, sweep>>
           /\ \/ \E o \in Matches(h) :
                    /\ ~ IndexRefuses(call[h].tx)
                    /\ orders' = [orders EXCEPT ![o] = Matched(@, call[h])]
                    /\ Return(h)
              \/ Return(h) /\ UNCHANGED orders
              \/ Goto(h, "under") /\ UNCHANGED <<orders, call, best>>
  BY DEF ClaimExactMatch

\* The lock discipline, with what makes it inductive: a transaction about to
\* mark its row holds the lock on it, the row is what the query selected and
\* the loop accepted, and the expiry statement visits rows only while it runs.
PickedOK ==
    \A h \in Handler : pc[h] = "mark" =>
        /\ lock[best[h]] = h
        /\ orders[best[h]].chain = HandlerChain[h]
        /\ orders[best[h]].expected > call[h].amount
        /\ ~ GapTooLarge(orders[best[h]].expected, call[h].amount)

LockInv ==
    /\ LocksBelongToTransactions
    /\ PickedOK
    /\ sweep.todo # {} => sweep.running

\* No lock is held at the start.
LEMMA InitLockInv == Init => LockInv
  BY OrdersAssumption DEF Init, LockInv, LocksBelongToTransactions, PickedOK

\* Every step keeps the lock discipline of ClaimUnderpaid and ExpirePastDue.
LEMMA StepLockInv == TypeInv /\ LockInv /\ [Step]_vars => LockInv'
  <1> SUFFICES ASSUME TypeInv, LockInv, [Step]_vars
               PROVE  LockInv'
    OBVIOUS
  <1> USE OrdersAssumption DEF LockInv, LocksBelongToTransactions, PickedOK
  <1>0. /\ orders \in [Order -> Row]
        /\ lock \in [Order -> Handler \cup {Sweeper, NULL}]
        /\ pc \in [Handler -> Statement \cup {"idle"}]
        /\ call \in [Handler -> TransferEvent \cup {NULL}]
        /\ best \in [Handler -> Order \cup {NULL}]
        /\ sweep \in [running: BOOLEAN, todo: SUBSET Order]
        /\ \A h \in Handler : pc[h] = "mark" => best[h] \in Order
    BY DEF TypeInv, TypeOK, WorkOK
  <1>1. ASSUME NEW c \in Creator, NEW chain \in Chain, NEW base \in BaseAmounts,
               CreateOrder(c, chain, base)
        PROVE  LockInv'
    BY <1>1 DEF CreateOrder, tables, handlerVars
  <1>2. ASSUME NEW c \in Creator, NEW offset \in OffsetMin..OffsetMax, InsertCollides(c, offset)
        PROVE  LockInv'
    BY <1>2 DEF InsertCollides, tables, handlerVars
  <1>3. ASSUME NEW c \in Creator, NEW offset \in OffsetMin..OffsetMax, NEW o \in Order,
               InsertOrder(c, o, offset)
        PROVE  LockInv'
    <2>1. /\ orders[o].status = "absent"
          /\ \A p \in Order \ {o} : orders'[p] = orders[p]
      BY <1>3, <1>0 DEF InsertOrder
    <2>2. lock[o] = NULL
      BY <2>1
    <2> QED
      BY <1>0, <1>3, <2>1, <2>2 DEF InsertOrder, handlerVars
  <1>4. ASSUME NEW c \in Creator, CreateFails(c)
        PROVE  LockInv'
    BY <1>4 DEF CreateFails, tables, handlerVars
  <1>5. ASSUME NEW h \in Handler, NEW ev \in TrueEvent, OnTransfer(h, ev)
        PROVE  LockInv'
    BY <1>0, <1>5 DEF OnTransfer, Goto
  <1>6. ASSUME NEW h \in Handler, UpdateConfirmations(h)
        PROVE  LockInv'
    <2>1. \A p \in Order : orders[p].status = "pending" => orders'[p] = orders[p]
      BY <1>0, <1>6 DEF UpdateConfirmations, Advancing
    <2>2. UNCHANGED <<lock, sweep>> /\ pc[h] = "update"
      BY <1>6 DEF UpdateConfirmations
    <2>3. \A g \in Handler \ {h} : pc'[g] = pc[g] /\ call'[g] = call[g] /\ best'[g] = best[g]
      BY <1>0, <1>6 DEF UpdateConfirmations, Return, Goto
    <2>4. pc'[h] # "mark"
      BY <1>0, <1>6 DEF UpdateConfirmations, Return, Goto
    <2> QED
      BY <1>0, <2>1, <2>2, <2>3, <2>4
  <1>7. ASSUME NEW h \in Handler, TxAlreadyClaimed(h)
        PROVE  LockInv'
    BY <1>0, <1>7 DEF TxAlreadyClaimed, Return, Goto, tables
  <1>8. ASSUME NEW h \in Handler, ClaimExactMatch(h)
        PROVE  LockInv'
    <2>1. UNCHANGED <<lock, sweep>> /\ pc[h] = "exact"
      BY <1>8, ExactMatchOutcome
    <2>2. \A p \in Order : lock[p] # NULL => orders'[p] = orders[p]
      BY <1>0, <1>8, ExactMatchOutcome DEF Matches, Claimable
    <2>3. Return(h) \/ (Goto(h, "under") /\ UNCHANGED <<call, best>>)
      BY <1>8, ExactMatchOutcome
    <2>4. \A g \in Handler \ {h} : pc'[g] = pc[g] /\ call'[g] = call[g] /\ best'[g] = best[g]
      BY <1>0, <2>3 DEF Return, Goto
    <2>5. pc'[h] # "mark"
      BY <1>0, <2>3 DEF Return, Goto
    <2> QED
      BY <1>0, <2>1, <2>2, <2>4, <2>5
  <1>9. ASSUME NEW h \in Handler, ClaimUnderpaid(h)
        PROVE  LockInv'
    <2>1. /\ UNCHANGED <<orders, call, sweep>> /\ pc[h] = "under"
          /\ lock' = [p \in Order |-> IF p \in Shortfalls(h) THEN h ELSE lock[p]]
      BY <1>9 DEF ClaimUnderpaid, tables
    <2>2. \A p \in Shortfalls(h) : /\ p \in Order /\ lock[p] = NULL
                                   /\ orders[p].status = "pending"
                                   /\ orders[p].chain = HandlerChain[h]
                                   /\ orders[p].expected > call[h].amount
      BY DEF Shortfalls, Claimable
    <2>3. CASE Goto(h, "rollback") /\ UNCHANGED best
      <3>1. LocksBelongToTransactions'
        BY <1>0, <2>1, <2>2, <2>3 DEF Goto
      <3>2. PickedOK'
        BY <1>0, <2>1, <2>2, <2>3 DEF Goto
      <3> QED
        BY <2>1, <3>1, <3>2
    <2>4. ASSUME NEW o \in Order, IsBest(o, h), best' = [best EXCEPT ![h] = o], Goto(h, "mark")
          PROVE  LockInv'
      <3>1. o \in Shortfalls(h) /\ ~ GapTooLarge(orders[o].expected, call[h].amount)
        BY <2>4 DEF IsBest, Acceptable
      <3>2. LocksBelongToTransactions'
        BY <1>0, <2>1, <2>2, <2>4 DEF Goto
      <3>3. PickedOK'
        BY <1>0, <2>1, <2>2, <2>4, <3>1 DEF Goto
      <3> QED
        BY <2>1, <3>2, <3>3
    <2> QED
      BY <1>9, <2>3, <2>4 DEF ClaimUnderpaid
  <1>10. ASSUME NEW h \in Handler, MarkUnderpaid(h)
         PROVE  LockInv'
    <2>1. lock[best[h]] = h /\ best[h] \in Order /\ pc[h] = "mark"
      BY <1>0, <1>10 DEF MarkUnderpaid
    <2>2. \A p \in Order : p # best[h] => orders'[p] = orders[p]
      BY <1>0, <1>10 DEF MarkUnderpaid
    <2>3. lock' = Unlocked(h) /\ UNCHANGED sweep
      BY <1>10 DEF MarkUnderpaid
    <2>4. \A g \in Handler \ {h} : pc'[g] = pc[g] /\ call'[g] = call[g] /\ best'[g] = best[g]
      BY <1>0, <1>10 DEF MarkUnderpaid, Return, Goto
    <2>5. pc'[h] # "mark"
      BY <1>0, <1>10 DEF MarkUnderpaid, Return, Goto
    <2> QED
      BY <1>0, <2>1, <2>2, <2>3, <2>4, <2>5 DEF Unlocked
  <1>11. ASSUME NEW h \in Handler, LogReviewItem(h)
         PROVE  LockInv'
    BY <1>0, <1>11 DEF LogReviewItem, Return
  <1>12. ASSUME NEW h \in Handler, StatementFails(h)
         PROVE  LockInv'
    BY <1>0, <1>12 DEF StatementFails, Return, Unlocked, tables
  <1>19. ASSUME NEW h \in Handler, Rollback(h)
         PROVE  LockInv'
    BY <1>0, <1>19 DEF Rollback, Goto, Unlocked
  <1>20. ASSUME NEW a \in Actor, AuditInsert(a)
         PROVE  LockInv'
    BY <1>20 DEF AuditInsert, handlerVars
  <1>13. CASE ExpirePastDue
    BY <1>13 DEF ExpirePastDue, tables, handlerVars
  <1>14. ASSUME NEW o \in Order, ExpireRow(o)
         PROVE  LockInv'
    BY <1>0, <1>14 DEF ExpireRow, tables, handlerVars
  <1>15. CASE ExpireCommit
    <2>1. \A p \in Order : lock[p] # Sweeper => orders'[p] = orders[p]
      BY <1>15 DEF ExpireCommit, Expiring
    <2>2. lock' = Unlocked(Sweeper) /\ UNCHANGED handlerVars /\ sweep'.todo = {}
      BY <1>15 DEF ExpireCommit
    <2> QED
      BY <1>0, <2>1, <2>2 DEF Unlocked, handlerVars
  <1>16. CASE ExpireFails
    BY <1>0, <1>16 DEF ExpireFails, Unlocked, tables, handlerVars
  <1>17. CASE Tick
    BY <1>17 DEF Tick, tables, handlerVars
  <1>18. CASE UNCHANGED vars
    BY <1>18 DEF vars
  <1> QED
    BY <1>1, <1>2, <1>3, <1>4, <1>5, <1>6, <1>7, <1>8, <1>9, <1>10, <1>11, <1>12,
       <1>13, <1>14, <1>15, <1>16, <1>17, <1>18, <1>19, <1>20, EventsAreTrue
    DEF Step, Next, CreatorStep, HandlerStep, ExpiryStep, Actor

\* A row lock that outlives a statement belongs to an open transaction on a
\* pending row, whichever statements fail and whatever they interleave with.
THEOREM LocksHeld == Spec => []LocksBelongToTransactions
  <1>1. Spec => []TypeInv
    BY InitTypeInv, StepTypeInv, NextIsStep, PTL DEF Spec
  <1>2. Spec => []LockInv
    BY <1>1, InitLockInv, StepLockInv, NextIsStep, PTL DEF Spec
  <1> QED
    BY <1>2, PTL DEF LockInv

-----------------------------------------------------------------------------
(* The five ways the table of orders changes *)

Opens(o) ==
    \E chain \in Chain, expected \in Nat :
        /\ orders[o].status = "absent"
        /\ Colliding(chain, expected) = {}
        /\ orders' = [orders EXCEPT ![o] = NewRow(chain, expected)]

Advances(o, h) ==
    /\ o \in Advancing(call[h])
    /\ orders' = [orders EXCEPT ![o] = Advanced(@, call[h])]

Credits(o, h) ==
    /\ o \in Matches(h)
    /\ ~ Claimed(call[h].tx)
    /\ orders' = [orders EXCEPT ![o] = Matched(@, call[h])]

Shorts(o, h) ==
    /\ pc[h] = "mark" /\ o = best[h]
    /\ ~ Claimed(call[h].tx)
    /\ orders' = [orders EXCEPT ![o] = Underpaid(@, call[h])]

Expires ==
    orders' = [o \in Order |-> IF o \in Expiring
                               THEN [orders[o] EXCEPT !.status = "expired"] ELSE orders[o]]

\* A statement of CreateOrder or of the expiry loop opens an order, expires
\* some, or leaves the table alone.
LEMMA ServiceTable ==
    ASSUME TypeInv,
           \/ \E c \in Creator : \/ \E chain \in Chain, base \in BaseAmounts :
                                      CreateOrder(c, chain, base)
                                 \/ CreatorStep(c)
           \/ ExpiryStep \/ ExpireFails \/ Tick
    PROVE  UNCHANGED orders \/ (\E o \in Order : Opens(o)) \/ Expires
  <1>1. ASSUME NEW c \in Creator, NEW offset \in OffsetMin..OffsetMax, NEW o \in Order,
               InsertOrder(c, o, offset)
        PROVE  Opens(o)
    <2>1. request[c] \in Request /\ request[c].chain \in Chain
                                /\ request[c].base + offset \in Nat
      BY <1>1, OrdersAssumption DEF InsertOrder, TypeInv, TypeOK, Request
    <2> QED
      BY <1>1, <2>1 DEF InsertOrder, Opens
  <1>2. CASE ExpireCommit
    BY <1>2 DEF ExpireCommit, Expires
  <1>3. CASE \/ \E c \in Creator :
                  \/ \E chain \in Chain, base \in BaseAmounts : CreateOrder(c, chain, base)
                  \/ \E offset \in OffsetMin..OffsetMax : InsertCollides(c, offset)
                  \/ CreateFails(c) \/ AuditInsert(c)
             \/ ExpirePastDue \/ (\E o \in Order : ExpireRow(o))
             \/ ExpireFails \/ AuditInsert(Sweeper) \/ Tick
    BY <1>3 DEF CreateOrder, InsertCollides, CreateFails, ExpirePastDue, ExpireRow,
                ExpireFails, AuditInsert, Tick, tables
  <1> QED BY <1>1, <1>2, <1>3 DEF CreatorStep, ExpiryStep

\* A statement of OnTransfer advances, credits or underpays one order with the
\* transfer of the call, or leaves the table alone.
LEMMA HandlerTable ==
    ASSUME TypeInv, NEW h \in Handler, HandlerStep(h) \/ StatementFails(h)
    PROVE  \/ UNCHANGED orders
           \/ /\ pc[h] # "idle"
              /\ \E o \in Order : Advances(o, h) \/ Credits(o, h) \/ Shorts(o, h)
  <1>1. ASSUME UpdateConfirmations(h)
        PROVE  pc[h] # "idle" /\ (UNCHANGED orders \/ \E o \in Order : Advances(o, h))
    BY <1>1 DEF UpdateConfirmations, Advances, Advancing
  <1>2. ASSUME ClaimExactMatch(h)
        PROVE  pc[h] # "idle" /\ (UNCHANGED orders \/ \E o \in Order : Credits(o, h))
    BY <1>2, ExactMatchOutcome DEF Credits, IndexRefuses, Matches, Claimable
  <1>3. ASSUME MarkUnderpaid(h)
        PROVE  pc[h] # "idle" /\ (UNCHANGED orders \/ \E o \in Order : Shorts(o, h))
    BY <1>3 DEF MarkUnderpaid, Shorts, IndexRefuses, TypeInv, WorkOK
  <1>4. ASSUME \/ TxAlreadyClaimed(h) \/ ClaimUnderpaid(h) \/ Rollback(h) \/ LogReviewItem(h)
               \/ StatementFails(h) \/ AuditInsert(h)
        PROVE  UNCHANGED orders
    BY <1>4 DEF TxAlreadyClaimed, ClaimUnderpaid, Rollback, LogReviewItem, StatementFails,
                AuditInsert, tables
  <1> QED BY <1>1, <1>2, <1>3, <1>4 DEF HandlerStep

\* The only ways a step changes the table of orders: the cases that every
\* later argument about money goes through.
LEMMA TableStep ==
    ASSUME TypeInv, [Step]_vars
    PROVE  \/ UNCHANGED orders
           \/ \E o \in Order : Opens(o)
           \/ \E o \in Order, h \in Handler :
                  pc[h] # "idle" /\ (Advances(o, h) \/ Credits(o, h) \/ Shorts(o, h))
           \/ Expires
  <1>1. CASE \/ \E h \in Handler, ev \in TrueEvent : OnTransfer(h, ev)
             \/ UNCHANGED vars
    BY <1>1 DEF OnTransfer, vars
  <1> QED
    BY <1>1, ServiceTable, HandlerTable, EventsAreTrue DEF Step, Next

-----------------------------------------------------------------------------
(* Money: what the rows say about the transfers attributed to them *)

MoneyInv ==
    /\ UnpaidHoldNothing
    /\ TxClaimedOnce
    /\ PendingAmountsDistinct
    /\ ConfirmedAtThreshold
    /\ CreditSound
    /\ ShortfallSound

\* An empty table attributes nothing.
LEMMA InitMoneyInv == Init => MoneyInv
  BY DEF Init, NoRow, MoneyInv, UnpaidHoldNothing, TxClaimedOnce, PendingAmountsDistinct,
         ConfirmedAtThreshold, CreditSound, ShortfallSound

\* The fields of the row each change leaves behind.
LEMMA NewRowFields ==
    ASSUME NEW chain \in Chain, NEW expected \in Nat
    PROVE  LET row == NewRow(chain, expected) IN
           /\ row.status = "pending" /\ row.chain = chain /\ row.expected = expected
           /\ row.tx = NULL /\ row.received = NULL
  BY DEF NewRow, NoRow

\* UpdateConfirmations changes the count and the status, nothing else.
LEMMA AdvancedFields ==
    ASSUME NEW row \in Row, NEW ev \in TransferEvent
    PROVE  LET new == Advanced(row, ev) IN
           /\ new.tx = row.tx /\ new.chain = row.chain /\ new.expected = row.expected
           /\ new.received = row.received /\ new.required = row.required
           /\ new.confirmations = ev.confirmations
           /\ new.status = StatusAt(row, ev.confirmations)
           /\ row.confirmedAt = NULL =>
                new.confirmedAt = IF new.status = "confirmed" THEN now ELSE NULL
  BY DEF Advanced, Row, StatusAt

\* ClaimExactMatch attributes the event's transfer.
LEMMA MatchedFields ==
    ASSUME NEW row \in Row, NEW ev \in TransferEvent
    PROVE  LET new == Matched(row, ev) IN
           /\ new.tx = ev.tx /\ new.chain = row.chain /\ new.expected = row.expected
           /\ new.received = ev.amount /\ new.required = row.required
           /\ new.confirmations = ev.confirmations
           /\ new.status = StatusAt(row, ev.confirmations)
           /\ new.confirmedAt = IF new.status = "confirmed" THEN now ELSE NULL
  BY DEF Matched, Row, StatusAt

\* ClaimUnderpaid attributes the event's transfer and marks the order.
LEMMA UnderpaidFields ==
    ASSUME NEW row \in Row, NEW ev \in TransferEvent
    PROVE  LET new == Underpaid(row, ev) IN
           /\ new.tx = ev.tx /\ new.chain = row.chain /\ new.expected = row.expected
           /\ new.received = ev.amount /\ new.status = "underpaid"
  BY DEF Underpaid, Row

\* Every change of the table keeps the money invariants.
LEMMA StepMoneyInv == TypeInv /\ LockInv /\ MoneyInv /\ [Step]_vars => MoneyInv'
  <1> SUFFICES ASSUME TypeInv, LockInv, MoneyInv, [Step]_vars
               PROVE  MoneyInv'
    OBVIOUS
  <1> USE DEF MoneyInv, UnpaidHoldNothing, TxClaimedOnce, PendingAmountsDistinct,
              ConfirmedAtThreshold, CreditSound, ShortfallSound
  <1>0. /\ orders \in [Order -> Row] /\ now \in Nat /\ NULL \notin Nat \cup Tx \cup Order
        /\ \A h \in Handler : pc[h] # "idle" =>
              /\ call[h] \in TransferEvent /\ call[h].tx \in Tx /\ call[h].amount \in Nat
              /\ call[h].amount = TxAmount[call[h].tx]
              /\ TxChain[call[h].tx] = HandlerChain[h]
    BY OrdersAssumption DEF TypeInv, TypeOK, WorkOK, TransferEvent
  <1>1. CASE UNCHANGED orders
    BY <1>1
  <1>2. ASSUME NEW o \in Order, Opens(o)
        PROVE  MoneyInv'
    <2>1. PICK chain \in Chain, expected \in Nat :
            /\ Colliding(chain, expected) = {}
            /\ orders' = [orders EXCEPT ![o] = NewRow(chain, expected)]
      BY <1>2 DEF Opens
    <2>2. /\ orders'[o] = NewRow(chain, expected)
          /\ \A p \in Order \ {o} : orders'[p] = orders[p]
      BY <1>0, <2>1
    <2>3. \A p \in Order : orders[p].status = "pending" /\ orders[p].chain = chain
                            => orders[p].expected # expected
      BY <2>1 DEF Colliding
    <2> QED
      BY <2>2, <2>3, NewRowFields
  <1>3. ASSUME NEW o \in Order, NEW h \in Handler, pc[h] # "idle", Advances(o, h)
        PROVE  MoneyInv'
    <2>1. /\ orders'[o] = Advanced(orders[o], call[h])
          /\ \A p \in Order \ {o} : orders'[p] = orders[p]
          /\ orders[o].status = "confirming" /\ orders[o] \in Row
      BY <1>0, <1>3 DEF Advances, Advancing
    <2>2. call[h] \in TransferEvent
      BY <1>0, <1>3
    <2>3. /\ orders'[o].tx = orders[o].tx /\ orders'[o].chain = orders[o].chain
          /\ orders'[o].expected = orders[o].expected
          /\ orders'[o].received = orders[o].received
          /\ orders'[o].required = orders[o].required
          /\ orders'[o].confirmations = call[h].confirmations
          /\ orders'[o].status = StatusAt(orders[o], call[h].confirmations)
          /\ orders[o].confirmedAt = NULL =>
               orders'[o].confirmedAt = IF orders'[o].status = "confirmed" THEN now ELSE NULL
      BY <2>1, <2>2, AdvancedFields
    <2> QED
      BY <1>0, <2>1, <2>3 DEF StatusAt
  <1>4. ASSUME NEW o \in Order, NEW h \in Handler, pc[h] # "idle", Credits(o, h)
        PROVE  MoneyInv'
    <2>1. /\ orders'[o] = Matched(orders[o], call[h])
          /\ \A p \in Order \ {o} : orders'[p] = orders[p]
          /\ orders[o].status = "pending" /\ orders[o] \in Row
          /\ orders[o].chain = HandlerChain[h]
          /\ WithinTolerance(orders[o].expected, call[h].amount)
          /\ \A p \in Order : orders[p].tx # call[h].tx
      BY <1>0, <1>4 DEF Credits, Matches, Claimable, Claimed
    <2>2. call[h] \in TransferEvent
      BY <1>0, <1>4
    <2>3. /\ orders'[o].tx = call[h].tx /\ orders'[o].chain = orders[o].chain
          /\ orders'[o].expected = orders[o].expected
          /\ orders'[o].received = call[h].amount
          /\ orders'[o].required = orders[o].required
          /\ orders'[o].confirmations = call[h].confirmations
          /\ orders'[o].status = StatusAt(orders[o], call[h].confirmations)
          /\ orders'[o].confirmedAt = IF orders'[o].status = "confirmed" THEN now ELSE NULL
      BY <2>1, <2>2, MatchedFields
    <2> QED
      BY <1>0, <1>4, <2>1, <2>3 DEF StatusAt
  <1>5. ASSUME NEW o \in Order, NEW h \in Handler, pc[h] # "idle", Shorts(o, h)
        PROVE  MoneyInv'
    <2>1. /\ orders'[o] = Underpaid(orders[o], call[h])
          /\ \A p \in Order \ {o} : orders'[p] = orders[p]
          /\ orders[o] \in Row
          /\ \A p \in Order : orders[p].tx # call[h].tx
      BY <1>0, <1>5 DEF Shorts, Claimed
    <2>2. /\ orders[o].chain = HandlerChain[h]
          /\ call[h].amount < orders[o].expected
          /\ ~ GapTooLarge(orders[o].expected, call[h].amount)
      <3>1. /\ orders[o].chain = HandlerChain[h]
            /\ orders[o].expected > call[h].amount
            /\ ~ GapTooLarge(orders[o].expected, call[h].amount)
        BY <1>5 DEF Shorts, LockInv, PickedOK
      <3>2. orders[o].expected \in Nat /\ call[h].amount \in Nat
        BY <1>0, <1>5, <2>1 DEF Row
      <3> QED
        BY <3>1, <3>2
    <2>3. call[h] \in TransferEvent
      BY <1>0, <1>5
    <2>4. /\ orders'[o].tx = call[h].tx /\ orders'[o].chain = orders[o].chain
          /\ orders'[o].expected = orders[o].expected
          /\ orders'[o].status = "underpaid"
      BY <2>1, <2>3, UnderpaidFields
    <2> QED
      BY <1>0, <1>5, <2>1, <2>2, <2>4
  <1>6. CASE Expires
    <2>1. \A p \in Order : IF p \in Expiring
                           THEN /\ orders'[p].status = "expired"
                                /\ orders'[p].tx = orders[p].tx
                                /\ orders'[p].received = orders[p].received
                                /\ orders[p].status = "pending"
                           ELSE orders'[p] = orders[p]
      <3>1. \A p \in Expiring : orders[p].status = "pending"
        BY OrdersAssumption DEF Expiring, LockInv, LocksBelongToTransactions
      <3>2. \A p \in Expiring : p \in Order /\ orders[p] \in Row
        BY <1>0 DEF Expiring
      <3> QED
        BY <1>6, <3>1, <3>2 DEF Expires, Row
    <2> QED
      BY <1>0, <2>1
  <1> QED
    BY <1>1, <1>2, <1>3, <1>4, <1>5, <1>6, TableStep

\* The three inductive invariants hold together in every reachable state.
LEMMA Invariants == Spec => [](TypeInv /\ LockInv /\ MoneyInv)
  <1>1. Spec => []TypeInv
    BY InitTypeInv, StepTypeInv, NextIsStep, PTL DEF Spec
  <1>2. Spec => []LockInv
    BY <1>1, InitLockInv, StepLockInv, NextIsStep, PTL DEF Spec
  <1>3. Spec => []MoneyInv
    BY <1>1, <1>2, InitMoneyInv, StepMoneyInv, NextIsStep, PTL DEF Spec
  <1> QED
    BY <1>1, <1>2, <1>3, PTL

\* One transfer pays for one order: the tx_hash index holds up under every
\* interleaving of handlers.
THEOREM TransfersPayOnce == Spec => []TxClaimedOnce
  BY Invariants, PTL DEF MoneyInv

\* No two pending orders of a chain ever expect the same amount.
THEOREM AmountsStayDistinct == Spec => []PendingAmountsDistinct
  BY Invariants, PTL DEF MoneyInv

\* Pending and expired orders hold no money: expiry and claims exclude each
\* other.
THEOREM NothingHeldUnpaid == Spec => []UnpaidHoldNothing
  BY Invariants, PTL DEF MoneyInv

\* An order is credited only for a transfer of its chain within tolerance.
THEOREM CreditsAreSound == Spec => []CreditSound
  BY Invariants, PTL DEF MoneyInv

\* It is confirmed exactly from its own threshold on.
THEOREM ConfirmedInTime == Spec => []ConfirmedAtThreshold
  BY Invariants, PTL DEF MoneyInv

\* It is underpaid only by a smaller transfer within the configured gap.
THEOREM ShortfallsAreSound == Spec => []ShortfallSound
  BY Invariants, PTL DEF MoneyInv

-----------------------------------------------------------------------------
(* What a step may never do *)

\* No single step changes a finished row.
LEMMA StepFreezesFinal ==
    ASSUME TypeInv, LockInv, MoneyInv, [Step]_vars
    PROVE  \A o \in Order : orders[o].status \in Final => orders'[o] = orders[o]
  <1> USE DEF Final
  <1>0. orders \in [Order -> Row]
    BY DEF TypeInv, TypeOK
  <1>1. ASSUME NEW o \in Order, Opens(o)
        PROVE  \A p \in Order : orders[p].status \in Final => orders'[p] = orders[p]
    BY <1>0, <1>1 DEF Opens
  <1>2. ASSUME NEW o \in Order, NEW h \in Handler, Advances(o, h) \/ Credits(o, h)
        PROVE  \A p \in Order : orders[p].status \in Final => orders'[p] = orders[p]
    BY <1>0, <1>2 DEF Advances, Advancing, Credits, Matches, Claimable
  <1>3. ASSUME NEW o \in Order, NEW h \in Handler, Shorts(o, h)
        PROVE  \A p \in Order : orders[p].status \in Final => orders'[p] = orders[p]
    <2>1. orders[o].status = "pending"
      <3>1. lock[o] = h /\ h # NULL
        BY <1>3, OrdersAssumption DEF Shorts, LockInv, PickedOK
      <3> QED
        BY <3>1 DEF LockInv, LocksBelongToTransactions
    <2> QED
      BY <1>0, <1>3, <2>1 DEF Shorts
  <1>4. CASE Expires
    <2>1. \A p \in Expiring : orders[p].status = "pending"
      BY OrdersAssumption DEF Expiring, LockInv, LocksBelongToTransactions
    <2> QED
      BY <1>4, <2>1 DEF Expires
  <1> QED
    BY <1>1, <1>2, <1>3, <1>4, TableStep

\* Nothing touches a confirmed, underpaid or expired order again.
THEOREM FinalIsFinal == Spec => FinalRowsFrozen
  BY Invariants, StepFreezesFinal, NextIsStep, PTL DEF Spec, FinalRowsFrozen

\* No single step lowers a count or moves an attribution.
LEMMA StepKeepsProgress ==
    ASSUME TypeInv, LockInv, MoneyInv, [Step]_vars
    PROVE  \A o \in Order : orders[o].tx # NULL =>
              /\ orders'[o].tx = orders[o].tx
              /\ orders'[o].confirmations >= orders[o].confirmations
  <1> DEFINE Kept(p) == orders[p].tx # NULL =>
                          /\ orders'[p].tx = orders[p].tx
                          /\ orders'[p].confirmations >= orders[p].confirmations
  <1>0. /\ orders \in [Order -> Row]
        /\ \A p \in Order : orders[p] \in Row /\ orders[p].confirmations \in Nat
        /\ \A h \in Handler : pc[h] # "idle" => call[h] \in TransferEvent
    BY DEF TypeInv, TypeOK, WorkOK, Row
  <1>1. \A p \in Order : orders'[p] = orders[p] => Kept(p)
    BY <1>0
  <1>2. ASSUME NEW o \in Order, Opens(o)
        PROVE  \A p \in Order : Kept(p)
    <2>1. orders[o].tx = NULL
      BY <1>2 DEF Opens, MoneyInv, UnpaidHoldNothing
    <2>2. \A p \in Order \ {o} : orders'[p] = orders[p]
      BY <1>0, <1>2 DEF Opens
    <2> QED
      BY <1>1, <2>1, <2>2
  <1>3. ASSUME NEW o \in Order, NEW h \in Handler, pc[h] # "idle", Advances(o, h)
        PROVE  \A p \in Order : Kept(p)
    <2>1. /\ call[h].confirmations >= orders[o].confirmations
          /\ orders'[o] = Advanced(orders[o], call[h])
          /\ \A p \in Order \ {o} : orders'[p] = orders[p]
      BY <1>0, <1>3 DEF Advances, Advancing
    <2>2. call[h] \in TransferEvent /\ orders[o] \in Row
      BY <1>0, <1>3
    <2>3. orders'[o].tx = orders[o].tx /\ orders'[o].confirmations = call[h].confirmations
      BY <2>1, <2>2, AdvancedFields
    <2> QED
      BY <1>1, <2>1, <2>3
  <1>4. ASSUME NEW o \in Order, NEW h \in Handler, Credits(o, h)
        PROVE  \A p \in Order : Kept(p)
    <2>1. orders[o].tx = NULL /\ \A p \in Order \ {o} : orders'[p] = orders[p]
      BY <1>0, <1>4 DEF Credits, Matches, Claimable
    <2> QED
      BY <1>1, <2>1
  <1>5. ASSUME NEW o \in Order, NEW h \in Handler, Shorts(o, h)
        PROVE  \A p \in Order : Kept(p)
    <2>1. lock[o] = h /\ h # NULL
      BY <1>5, OrdersAssumption DEF Shorts, LockInv, PickedOK
    <2>2. orders[o].tx = NULL
      BY <2>1 DEF LockInv, LocksBelongToTransactions, MoneyInv, UnpaidHoldNothing
    <2>3. \A p \in Order \ {o} : orders'[p] = orders[p]
      BY <1>0, <1>5 DEF Shorts
    <2> QED
      BY <1>1, <2>2, <2>3
  <1>6. CASE Expires
    <2>1. \A p \in Expiring : orders[p].tx = NULL
      BY OrdersAssumption
      DEF Expiring, LockInv, LocksBelongToTransactions, MoneyInv, UnpaidHoldNothing
    <2>2. \A p \in Order : p \notin Expiring => orders'[p] = orders[p]
      BY <1>6 DEF Expires
    <2> QED
      BY <1>1, <2>1, <2>2
  <1> QED
    BY <1>1, <1>2, <1>3, <1>4, <1>5, <1>6, TableStep

\* Whatever the order in which events arrive, a count never falls and an
\* attribution never moves to another transfer.
THEOREM ProgressIsMonotone == Spec => ProgressNeverRegresses
  BY Invariants, StepKeepsProgress, NextIsStep, PTL DEF Spec, ProgressNeverRegresses

-----------------------------------------------------------------------------
(* Which of several orders is underpaid *)

\* An expected amount whose gap is too large is above every one whose gap is
\* acceptable: the share that is missing grows with the amount.
LEMMA TooLargeIsLarger ==
    ASSUME NEW e \in Nat, NEW d \in Nat, NEW amount \in Nat,
           ~ GapTooLarge(e, amount), GapTooLarge(d, amount)
    PROVE  e < d
  <1> DEFINE share == 100 - MaxGapPercent
  <1>0. MaxGapPercent \in Int /\ share \in Int
    BY MatchingAssumption
  <1>1. share * e <= 100 * amount
    <2>1. (e - amount) * 100 <= MaxGapPercent * e
      BY <1>0 DEF GapTooLarge
    <2> QED
      BY <1>0, <2>1
  <1>2. share * d > 100 * amount
    <2>1. (d - amount) * 100 > MaxGapPercent * d
      BY <1>0 DEF GapTooLarge
    <2> QED
      BY <1>0, <2>1
  <1> HIDE DEF share
  <1>3. share > 0
    <2>1. share <= 0 => share * d <= 0
      BY <1>0
    <2> QED
      BY <1>0, <1>2, <2>1
  <1>4. d <= e => share * d <= share * e
    BY <1>0, <1>3
  <1>5. share * d \in Int /\ share * e \in Int
    BY <1>0
  <1> QED
    BY <1>1, <1>2, <1>4, <1>5

\* The order that wins against all acceptable ones expects the least.
LEMMA WinnerIsSmallest ==
    ASSUME NEW e \in Nat, NEW S \in SUBSET Nat, NEW amount \in Nat,
           WinsOver(e, S, amount), NEW d \in S
    PROVE  e <= d
  <1>1. CASE e <= d
    BY <1>1
  <1>2. CASE SmallerGap(e, d, amount)
    <2>1. (e - amount) * d < (d - amount) * e
      BY <1>2 DEF SmallerGap
    <2>2. amount * e < amount * d
      <3>1. /\ (e - amount) * d = e * d - amount * d
            /\ (d - amount) * e = d * e - amount * e
            /\ e * d = d * e
        OBVIOUS
      <3>2. e * d \in Int /\ amount * d \in Int /\ amount * e \in Int
        OBVIOUS
      <3> QED
        BY <2>1, <3>1, <3>2
    <2>3. d <= e => amount * d <= amount * e
      OBVIOUS
    <2>4. amount * d \in Int /\ amount * e \in Int
      OBVIOUS
    <2> QED
      BY <2>2, <2>3, <2>4
  <1> QED
    BY <1>1, <1>2 DEF WinsOver

\* What ClaimUnderpaid picks expects no more than any row the query returned.
LEMMA BestIsClosest ==
    ASSUME TypeInv, NEW h \in Handler, pc[h] # "idle",
           NEW o \in Order, IsBest(o, h), NEW p \in Shortfalls(h)
    PROVE  orders[o].expected <= orders[p].expected
  <1>0. /\ call[h].amount \in Nat /\ p \in Order
        /\ \A q \in Order : orders[q].expected \in Nat
    BY DEF TypeInv, TypeOK, WorkOK, Row, TransferEvent, Shortfalls, Claimable
  <1>1. CASE GapTooLarge(orders[p].expected, call[h].amount)
    <2>1. ~ GapTooLarge(orders[o].expected, call[h].amount)
      BY DEF IsBest, Acceptable
    <2>2. orders[o].expected < orders[p].expected
      BY <1>0, <1>1, <2>1, TooLargeIsLarger
    <2> QED
      BY <1>0, <2>2
  <1>2. CASE ~ GapTooLarge(orders[p].expected, call[h].amount)
    <2> DEFINE amounts == {orders[q].expected : q \in Acceptable(h)}
    <2>1. orders[p].expected \in amounts
      BY <1>2 DEF Acceptable
    <2>2. amounts \in SUBSET Nat
      BY <1>0 DEF Acceptable, Shortfalls, Claimable
    <2>3. WinsOver(orders[o].expected, amounts, call[h].amount)
      BY DEF IsBest
    <2> HIDE DEF amounts
    <2> QED
      BY <1>0, <2>1, <2>2, <2>3, WinnerIsSmallest
  <1> QED
    BY <1>1, <1>2

\* Only ClaimUnderpaid picks an order.
LEMMA OnlyUnderPicks ==
    ASSUME TypeInv, [Step]_vars, NEW h \in Handler, best[h] = NULL, best'[h] # NULL
    PROVE  pc[h] # "idle" /\ \E o \in Order : IsBest(o, h) /\ best'[h] = o
  <1>0. best \in [Handler -> Order \cup {NULL}]
    BY DEF TypeInv, TypeOK
  <1>1. ASSUME NEW g \in Handler, \/ UpdateConfirmations(g) \/ TxAlreadyClaimed(g)
                                  \/ ClaimExactMatch(g) \/ MarkUnderpaid(g) \/ Rollback(g)
                                  \/ LogReviewItem(g) \/ StatementFails(g)
        PROVE  FALSE
    <2>1. Return(g) \/ UNCHANGED best
      BY <1>1 DEF UpdateConfirmations, TxAlreadyClaimed, ClaimExactMatch, MarkUnderpaid,
                  Rollback, LogReviewItem, StatementFails
    <2> QED
      BY <1>0, <2>1 DEF Return
  <1>2. ASSUME NEW g \in Handler, ClaimUnderpaid(g)
        PROVE  pc[h] # "idle" /\ \E o \in Order : IsBest(o, h) /\ best'[h] = o
    <2>1. PICK o \in Order : IsBest(o, g) /\ best' = [best EXCEPT ![g] = o]
      BY <1>2 DEF ClaimUnderpaid
    <2>2. g = h
      BY <1>0, <2>1
    <2> QED
      BY <1>0, <1>2, <2>1, <2>2 DEF ClaimUnderpaid
  <1>3. CASE \/ \E c \in Creator :
                  \/ \E chain \in Chain, base \in BaseAmounts : CreateOrder(c, chain, base)
                  \/ CreatorStep(c)
             \/ \E g \in Handler, ev \in TrueEvent : OnTransfer(g, ev)
             \/ \E g \in Handler : AuditInsert(g)
             \/ ExpiryStep \/ ExpireFails \/ Tick \/ UNCHANGED vars
    BY <1>3 DEF CreateOrder, CreatorStep, InsertCollides, InsertOrder, CreateFails, OnTransfer,
                AuditInsert, ExpiryStep, ExpirePastDue, ExpireRow, ExpireCommit, ExpireFails, Tick,
                handlerVars, vars
  <1> QED
    BY <1>1, <1>2, <1>3, EventsAreTrue DEF Step, Next, HandlerStep

\* An underpayment is attributed to the closest order it falls short of: the
\* orders the loop skips for their gap are further away than the one it keeps.
THEOREM ClosestIsUnderpaid == Spec => UnderpaysClosest
  <1>1. TypeInv /\ [Step]_vars =>
          [\A h \in Handler : best[h] = NULL /\ best'[h] # NULL =>
             \A p \in Shortfalls(h) : orders[best'[h]].expected <= orders[p].expected]_vars
    BY OnlyUnderPicks, BestIsClosest
  <1> QED
    BY <1>1, Invariants, NextIsStep, PTL DEF Spec, UnderpaysClosest

-----------------------------------------------------------------------------
(* Refinement *)

\* Every step of the service is a move of the settlement or none.
LEMMA StepSettles ==
    ASSUME TypeInv, LockInv, MoneyInv, [Step]_vars
    PROVE  [Promise!Next]_(Promise!vars)
  <1> DEFINE st == [o \in Order |-> orders[o].status]
             pb == [o \in Order |-> orders[o].tx]
  <1>0. /\ orders \in [Order -> Row]
        /\ \A p \in Order : orders[p] \in Row
        /\ \A h \in Handler : pc[h] # "idle" => call[h] \in TransferEvent /\ call[h].tx \in Tx
    BY DEF TypeInv, TypeOK, WorkOK, TransferEvent
  <1>1. CASE UNCHANGED orders
    BY <1>1 DEF Promise!vars
  <1>2. ASSUME NEW o \in Order, Opens(o)
        PROVE  Promise!Open(o)
    <2>1. PICK chain \in Chain, expected \in Nat :
            orders[o].status = "absent" /\ orders' = [orders EXCEPT ![o] = NewRow(chain, expected)]
      BY <1>2 DEF Opens
    <2>2. /\ orders'[o].status = "pending" /\ orders'[o].tx = NULL
          /\ orders[o].tx = NULL
          /\ \A p \in Order \ {o} : orders'[p] = orders[p]
      BY <1>0, <2>1, NewRowFields DEF MoneyInv, UnpaidHoldNothing
    <2>3. st' = [st EXCEPT ![o] = "pending"] /\ pb' = pb
      BY <2>2
    <2> QED
      BY <2>1, <2>3 DEF Promise!Open
  <1>3. ASSUME NEW o \in Order, NEW h \in Handler, pc[h] # "idle", Advances(o, h)
        PROVE  Promise!Confirm(o) \/ UNCHANGED Promise!vars
    <2>1. /\ orders[o].status = "confirming"
          /\ orders'[o] = Advanced(orders[o], call[h])
          /\ \A p \in Order \ {o} : orders'[p] = orders[p]
      BY <1>0, <1>3 DEF Advances, Advancing
    <2>2. call[h] \in TransferEvent /\ orders[o] \in Row
      BY <1>0, <1>3
    <2>3. orders'[o].tx = orders[o].tx /\ orders'[o].status \in {"confirming", "confirmed"}
      BY <2>1, <2>2, AdvancedFields DEF StatusAt
    <2>4. pb' = pb /\ (st' = st \/ st' = [st EXCEPT ![o] = "confirmed"])
      BY <2>1, <2>3
    <2> QED
      BY <2>1, <2>4 DEF Promise!Confirm, Promise!vars
  <1>4. ASSUME NEW o \in Order, NEW h \in Handler, pc[h] # "idle", Credits(o, h) \/ Shorts(o, h)
        PROVE  \E outcome \in {"confirming", "confirmed", "underpaid"} :
                 Promise!Settle(o, call[h].tx, outcome)
    <2>1. call[h] \in TransferEvent /\ orders[o] \in Row
      BY <1>0, <1>4
    <2>2. /\ orders'[o] = Matched(orders[o], call[h]) \/ orders'[o] = Underpaid(orders[o], call[h])
          /\ \A p \in Order \ {o} : orders'[p] = orders[p]
          /\ \A p \in Order : orders[p].tx # call[h].tx
      BY <1>0, <1>4 DEF Credits, Shorts, Claimed
    <2>3. orders[o].status = "pending"
      <3>1. CASE Credits(o, h)
        BY <3>1 DEF Credits, Matches, Claimable
      <3>2. CASE Shorts(o, h)
        BY <3>2, OrdersAssumption DEF Shorts, LockInv, PickedOK, LocksBelongToTransactions
      <3> QED
        BY <1>4, <3>1, <3>2
    <2>4. /\ orders'[o].tx = call[h].tx
          /\ orders'[o].status \in {"confirming", "confirmed", "underpaid"}
      BY <2>1, <2>2, MatchedFields, UnderpaidFields DEF StatusAt
    <2>5. /\ st' = [st EXCEPT ![o] = orders'[o].status]
          /\ pb' = [pb EXCEPT ![o] = call[h].tx]
      BY <2>2, <2>4
    <2> QED
      BY <2>2, <2>3, <2>4, <2>5 DEF Promise!Settle, Promise!Unused
  <1>5. CASE Expires
    <2>1. \A p \in Expiring : orders[p].status = "pending" /\ p \in Order
      BY OrdersAssumption DEF Expiring, LockInv, LocksBelongToTransactions
    <2>2. \A p \in Order : /\ orders'[p].tx = orders[p].tx
                           /\ orders'[p].status = IF p \in Expiring THEN "expired"
                                                  ELSE orders[p].status
      BY <1>0, <1>5, <2>1 DEF Expires, Row
    <2>3. pb' = pb /\ st' = [o \in Order |-> IF o \in Expiring THEN "expired" ELSE st[o]]
      BY <2>2
    <2>4. Expiring \in SUBSET Order
      BY <2>1
    <2>5. \E S \in SUBSET Order : Promise!Expire(S)
      <3>1. \A p \in Expiring : st[p] = "pending"
        BY <2>1
      <3> HIDE DEF st, pb
      <3> SUFFICES \E S \in SUBSET Order :
                     /\ \A p \in S : st[p] = "pending"
                     /\ st' = [p \in Order |-> IF p \in S THEN "expired" ELSE st[p]]
                     /\ pb' = pb
        BY DEF Promise!Expire, st, pb
      <3> QED
        BY <2>3, <2>4, <3>1
    <2> QED
      BY <2>5 DEF Promise!Next
  <1> QED
    BY <1>0, <1>1, <1>2, <1>3, <1>4, <1>5, TableStep DEF Promise!Next

\* The service implements the settlement it promises.
THEOREM ServiceSettles == Spec => Settles
  <1>1. Init => Promise!Init
    BY DEF Init, NoRow, Promise!Init
  <1> QED
    BY <1>1, Invariants, StepSettles, NextIsStep, PTL DEF Spec, Settles, Promise!Spec
=============================================================================
