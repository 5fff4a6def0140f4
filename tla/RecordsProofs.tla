---------------------------- MODULE RecordsProofs ----------------------------
(***************************************************************************)
(* Proofs about what Orders leaves behind for people: the review queue and *)
(* the audit log agree with the table of orders, for any number of orders, *)
(* transfers, handlers and creators.                                       *)
(***************************************************************************)
EXTENDS OrdersProofs

-----------------------------------------------------------------------------
(* The review queue *)

\* A handler that comes to LogReviewItem with an order has underpaid that very
\* order; since the row is final, it stays so until the item is written.
ReviewOK ==
    \A h \in Handler : pc[h] = "review" /\ best[h] # NULL =>
        orders[best[h]].status = "underpaid" /\ orders[best[h]].tx = call[h].tx

ReviewInv == ReviewNamesOrder /\ ReviewOK

\* Nothing is queued at the start.
LEMMA InitReviewInv == Init => ReviewInv
  BY DEF Init, ReviewInv, ReviewNamesOrder, ReviewOK

\* A handler comes to LogReviewItem with an order from MarkUnderpaid only.
LEMMA ReviewFromMark ==
    ASSUME TypeInv, [Step]_vars, NEW h \in Handler, pc'[h] = "review", best'[h] # NULL
    PROVE  /\ best'[h] \in Order /\ call'[h] = call[h] /\ best'[h] = best[h]
           /\ \/ pc[h] = "review"
              \/ pc[h] = "mark" /\ orders' = [orders EXCEPT ![best[h]] = Underpaid(@, call[h])]
  <1>0. /\ pc \in [Handler -> Statement \cup {"idle"}]
        /\ call \in [Handler -> TransferEvent \cup {NULL}]
        /\ best \in [Handler -> Order \cup {NULL}]
        /\ \A g \in Handler : pc[g] \notin {"mark", "review"} => best[g] = NULL
    BY DEF TypeInv, TypeOK, WorkOK
  <1>1. ASSUME NEW g \in Handler, \/ UpdateConfirmations(g) \/ TxAlreadyClaimed(g)
                                  \/ ClaimExactMatch(g) \/ LogReviewItem(g) \/ StatementFails(g)
        PROVE  g # h /\ pc'[h] = pc[h] /\ call'[h] = call[h] /\ best'[h] = best[h]
    <2>1. Return(g) \/ (\E s \in {"check", "exact", "under"} : Goto(g, s) /\ UNCHANGED <<call, best>>)
      BY <1>1 DEF UpdateConfirmations, TxAlreadyClaimed, ClaimExactMatch, LogReviewItem,
                  StatementFails
    <2> QED
      BY <1>0, <2>1 DEF Return, Goto
  <1>2. ASSUME NEW g \in Handler, NEW ev \in TrueEvent, OnTransfer(g, ev)
        PROVE  g # h /\ pc'[h] = pc[h] /\ call'[h] = call[h] /\ best'[h] = best[h]
    BY <1>0, <1>2 DEF OnTransfer, Goto
  <1>3. ASSUME NEW g \in Handler, ClaimUnderpaid(g)
        PROVE  g # h /\ pc'[h] = pc[h] /\ call'[h] = call[h] /\ best'[h] = best[h]
    <2>1. /\ pc[g] = "under" /\ UNCHANGED call
          /\ \/ Goto(g, "mark") /\ \E o \in Order : best' = [best EXCEPT ![g] = o]
             \/ Goto(g, "rollback") /\ UNCHANGED best
      BY <1>3 DEF ClaimUnderpaid, tables
    <2> QED
      BY <1>0, <2>1 DEF Goto
  <1>6. ASSUME NEW g \in Handler, Rollback(g)
        PROVE  g # h /\ pc'[h] = pc[h] /\ call'[h] = call[h] /\ best'[h] = best[h]
    BY <1>0, <1>6 DEF Rollback, Goto
  <1>4. ASSUME NEW g \in Handler, MarkUnderpaid(g)
        PROVE  /\ call'[h] = call[h] /\ best'[h] = best[h]
               /\ \/ pc'[h] = pc[h]
                  \/ pc[h] = "mark" /\ orders' = [orders EXCEPT ![best[h]] = Underpaid(@, call[h])]
    <2>1. /\ pc[g] = "mark"
          /\ \/ /\ orders' = [orders EXCEPT ![best[g]] = Underpaid(@, call[g])]
                /\ Goto(g, "review") /\ UNCHANGED <<call, best>>
             \/ Return(g)
      BY <1>4 DEF MarkUnderpaid
    <2> QED
      BY <1>0, <2>1 DEF Return, Goto
  <1>5. CASE \/ \E c \in Creator :
                  \/ \E chain \in Chain, base \in BaseAmounts : CreateOrder(c, chain, base)
                  \/ CreatorStep(c)
             \/ \E g \in Handler : AuditInsert(g)
             \/ ExpiryStep \/ ExpireFails \/ Tick \/ UNCHANGED vars
    <2>1. UNCHANGED handlerVars
      BY <1>5 DEF CreateOrder, CreatorStep, InsertCollides, InsertOrder, CreateFails, AuditInsert,
                  ExpiryStep, ExpirePastDue, ExpireRow, ExpireCommit, ExpireFails, Tick,
                  handlerVars, vars
    <2> QED
      BY <1>0, <2>1 DEF handlerVars
  <1> QED
    BY <1>0, <1>1, <1>2, <1>3, <1>4, <1>5, <1>6, EventsAreTrue DEF Step, Next, HandlerStep

\* The queue only grows, by what LogReviewItem writes.
LEMMA OnlyLogReviewItem ==
    ASSUME [Step]_vars
    PROVE  UNCHANGED reviews \/ \E h \in Handler : LogReviewItem(h)
  BY DEF Step, Next, CreateOrder, CreatorStep, InsertCollides, InsertOrder, CreateFails,
         OnTransfer, HandlerStep, UpdateConfirmations, TxAlreadyClaimed, ClaimExactMatch,
         ClaimUnderpaid, MarkUnderpaid, Rollback, StatementFails, AuditInsert, ExpiryStep,
         ExpirePastDue, ExpireRow, ExpireCommit, ExpireFails, Tick, tables, vars

\* Every step keeps the queue in agreement with the table.
LEMMA StepReviewInv ==
    TypeInv /\ LockInv /\ MoneyInv /\ ReviewInv /\ [Step]_vars => ReviewInv'
  <1> SUFFICES ASSUME TypeInv, LockInv, MoneyInv, ReviewInv, [Step]_vars
               PROVE  ReviewInv'
    OBVIOUS
  <1>0. /\ orders \in [Order -> Row]
        /\ reviews \in [Tx -> Review \cup {NULL}]
        /\ \A h \in Handler : pc[h] # "idle" => call[h] \in TransferEvent /\ call[h].tx \in Tx
        /\ best \in [Handler -> Order \cup {NULL}]
    BY DEF TypeInv, TypeOK, WorkOK, TransferEvent
  <1>1. \A o \in Order : orders[o].status = "underpaid" => orders'[o] = orders[o]
    BY StepFreezesFinal DEF Final
  <1>2. ReviewOK'
    <2> SUFFICES ASSUME NEW h \in Handler, pc'[h] = "review", best'[h] # NULL
                 PROVE  orders'[best'[h]].status = "underpaid" /\ orders'[best'[h]].tx = call'[h].tx
      BY DEF ReviewOK
    <2>1. /\ best'[h] \in Order /\ call'[h] = call[h] /\ best'[h] = best[h]
          /\ \/ pc[h] = "review"
             \/ pc[h] = "mark" /\ orders' = [orders EXCEPT ![best[h]] = Underpaid(@, call[h])]
      BY ReviewFromMark
    <2>2. CASE pc[h] = "review"
      BY <1>1, <2>1, <2>2 DEF ReviewInv, ReviewOK
    <2>3. CASE pc[h] = "mark" /\ orders' = [orders EXCEPT ![best[h]] = Underpaid(@, call[h])]
      <3>1. orders'[best[h]] = Underpaid(orders[best[h]], call[h])
        BY <1>0, <2>1, <2>3
      <3>2. orders[best[h]] \in Row /\ call[h] \in TransferEvent
        BY <1>0, <2>1, <2>3
      <3> QED
        BY <2>1, <3>1, <3>2, UnderpaidFields
    <2> QED
      BY <2>1, <2>2, <2>3
  <1>3. ReviewNamesOrder'
    <2>1. CASE UNCHANGED reviews
      <3>1. \A t \in Tx : reviews[t] # NULL /\ reviews[t].reason = "underpaid" /\ reviews[t].order # NULL
                           => reviews[t].order \in Order
        BY <1>0 DEF Review
      <3> QED
        BY <1>1, <2>1, <3>1 DEF ReviewInv, ReviewNamesOrder
    <2>2. ASSUME NEW h \in Handler, LogReviewItem(h), NEW t \in Tx, reviews'[t] # NULL
          PROVE  IF reviews'[t].reason = "underpaid"
                 THEN /\ reviews'[t].order # NULL
                      /\ orders'[reviews'[t].order].status = "underpaid"
                      /\ orders'[reviews'[t].order].tx = t
                 ELSE reviews'[t].order = NULL
      <3>1. /\ pc[h] = "review" /\ UNCHANGED orders
            /\ \/ UNCHANGED reviews
               \/ reviews' = [reviews EXCEPT ![call[h].tx] =
                                [reason |-> IF best[h] = NULL THEN "unmatched" ELSE "underpaid",
                                 order  |-> best[h]]]
        BY <2>2 DEF LogReviewItem
      <3>2. CASE reviews'[t] = reviews[t]
        BY <2>2, <3>1, <3>2 DEF ReviewInv, ReviewNamesOrder
      <3>3. CASE /\ t = call[h].tx
                 /\ reviews'[t] = [reason |-> IF best[h] = NULL THEN "unmatched" ELSE "underpaid",
                                   order  |-> best[h]]
        BY <3>1, <3>3 DEF ReviewInv, ReviewOK
      <3> QED
        BY <1>0, <3>1, <3>2, <3>3
    <2> QED
      BY <2>1, <2>2, OnlyLogReviewItem DEF ReviewNamesOrder
  <1> QED
    BY <1>2, <1>3 DEF ReviewInv

\* An underpaid item names the order its transfer underpaid, an unmatched one
\* none, whatever fails between the two statements and whoever else is at work.
THEOREM ReviewsNameOrders == Spec => []ReviewNamesOrder
  <1>1. Spec => []ReviewInv
    BY InitReviewInv, StepReviewInv, Invariants, NextIsStep, PTL DEF Spec
  <1> QED
    BY <1>1, PTL DEF ReviewInv

-----------------------------------------------------------------------------
(* The audit log, when its inserts succeed *)

\* An actor between two statements that change something owes no entry.
OwedOK ==
    /\ \A h \in Handler : pc[h] \in {"check", "exact", "under", "mark", "rollback"} => Ready(h)
    /\ \A c \in Creator : request[c] # NULL => Ready(c)
    /\ sweep.running => Ready(Sweeper)

\* What a handler works on is in the log, or about to be: with it the second
\* part of AuditTrail is inductive.
ObservedOK ==
    \A h \in Handler : pc[h] # "idle" =>
        LET e == Entry("transfer_observed", NULL, call[h].tx) IN
        e \in audit \/ (pc[h] = "update" /\ e \in owed[h])

AuditInv == AuditTrail /\ ObservedOK /\ OwedOK

\* An empty table has no history.
LEMMA InitAuditInv == Init => AuditInv
  BY OrdersAssumption
  DEF Init, NoRow, AuditInv, AuditTrail, Trail, ObservedOK, OwedOK, Ready, Actor, History

\* An actor that owes nothing comes to owe what it logs.
LEMMA LogAdds ==
    ASSUME TypeInv, NEW a \in Actor, Ready(a), NEW entries, Log(a, entries)
    PROVE  Trail' = Trail \cup entries
  <1>1. /\ \A b \in Actor : owed'[b] = IF b = a THEN entries ELSE owed[b]
        /\ audit' = audit /\ owed[a] = {}
    BY DEF Log, Ready, TypeInv, TypeOK
  <1> QED
    BY <1>1 DEF Trail

\* An insert that succeeds takes an entry from those owed to those logged.
LEMMA InsertKeeps ==
    ASSUME TypeInv, ~ AuditFaults, NEW a \in Actor, AuditInsert(a)
    PROVE  Trail' = Trail
  <1>1. PICK e \in owed[a] : owed' = [owed EXCEPT ![a] = @ \ {e}] /\ audit' = audit \cup {e}
    BY DEF AuditInsert
  <1>2. \A b \in Actor : owed'[b] = IF b = a THEN owed[a] \ {e} ELSE owed[b]
    BY <1>1 DEF TypeInv, TypeOK
  <1> QED
    BY <1>1, <1>2 DEF Trail

\* The fields of an entry.
LEMMA EntryFields ==
    ASSUME NEW e, NEW o, NEW t
    PROVE  Entry(e, o, t).event = e /\ Entry(e, o, t).order = o /\ Entry(e, o, t).tx = t
  BY DEF Entry

\* The history of an order is about that order.
LEMMA HistoryIsAbout ==
    ASSUME NEW o \in Order, NEW e \in History(o)
    PROVE  e.order = o
  BY EntryFields DEF History

\* The history that a row tells, of order o.
Told(o, row) ==
    (IF row.status = "absent" THEN {} ELSE {Entry("order_created", o, NULL)})
      \cup (IF row.status \in {"confirming", "confirmed"}
            THEN {Entry("order_matched", o, row.tx),
                  Entry("order_confirmation_progress", o, row.tx)} ELSE {})
      \cup (IF row.status = "confirmed" THEN {Entry("order_confirmed", o, row.tx)} ELSE {})
      \cup (IF row.status = "underpaid" THEN {Entry("order_underpaid", o, row.tx)} ELSE {})
      \cup (IF row.status = "expired"   THEN {Entry("order_expired", o, NULL)} ELSE {})

\* History is what the row of the order tells, before and after a step.
LEMMA HistoryTold ==
    \A o \in Order : History(o) = Told(o, orders[o]) /\ History(o)' = Told(o, orders'[o])
  BY DEF History, Told

\* A log that gains exactly what the histories gain stays in agreement.
LEMMA TrailGrows ==
    ASSUME NEW entries, Trail' = Trail \cup entries,
           {e \in Trail : e.order # NULL} = UNION {History(o) : o \in Order},
           \A e \in entries : e.order \in Order \cup {NULL},
           \A o \in Order : Told(o, orders'[o]) = Told(o, orders[o]) \cup {e \in entries : e.order = o}
    PROVE  {e \in Trail' : e.order # NULL} = UNION {History(o)' : o \in Order}
  <1>1. ASSUME NEW e \in Trail', e.order # NULL
        PROVE  \E o \in Order : e \in Told(o, orders'[o])
    <2>1. CASE e \in Trail
      <3>1. PICK o \in Order : e \in Told(o, orders[o])
        BY <1>1, <2>1, HistoryTold
      <3> QED
        BY <3>1
    <2>2. CASE e \in entries
      BY <1>1, <2>2
    <2> QED
      BY <2>1, <2>2
  <1>2. ASSUME NEW o \in Order, NEW e \in Told(o, orders'[o])
        PROVE  e \in Trail' /\ e.order # NULL
    <2>1. CASE e \in Told(o, orders[o])
      <3>1. e \in UNION {History(p) : p \in Order}
        BY <2>1, HistoryTold
      <3> QED
        BY <3>1
    <2>2. CASE e \in entries /\ e.order = o
      BY <2>2, OrdersAssumption
    <2> QED
      BY <1>2, <2>1, <2>2
  <1>3. \A o \in Order : History(o)' = Told(o, orders'[o])
    BY HistoryTold
  <1> QED
    BY <1>1, <1>2, <1>3

\* A change of the table of orders and what is logged with it.
NoChange ==
    /\ UNCHANGED orders
    /\ Trail \subseteq Trail' /\ \A e \in Trail' \ Trail : e.order = NULL

LoggedOpen(o) == Opens(o) /\ Trail' = Trail \cup {Entry("order_created", o, NULL)}

LoggedAdvance(o, h) ==
    /\ pc[h] # "idle" /\ Advances(o, h)
    /\ Trail' = Trail \cup Progress(o, call[h].tx, StatusAt(orders[o], call[h].confirmations))

LoggedCredit(o, h) ==
    /\ pc[h] = "exact" /\ Credits(o, h)
    /\ Trail' = Trail \cup ({Entry("order_matched", o, call[h].tx)} \cup
                            Progress(o, call[h].tx, StatusAt(orders[o], call[h].confirmations)))

LoggedShort(o, h) ==
    /\ pc[h] # "idle" /\ Shorts(o, h)
    /\ Trail' = Trail \cup {Entry("order_underpaid", o, call[h].tx)}

LoggedExpire == Expires /\ Trail' = Trail \cup {Entry("order_expired", o, NULL) : o \in Expiring}

\* Each of the five changes of the table goes with its entries.
LEMMA AuditStep ==
    ASSUME TypeInv, OwedOK, [Step]_vars, ~ AuditFaults
    PROVE  \/ NoChange
           \/ \E o \in Order : LoggedOpen(o)
           \/ \E o \in Order, h \in Handler :
                LoggedAdvance(o, h) \/ LoggedCredit(o, h) \/ LoggedShort(o, h)
           \/ LoggedExpire
  <1>0. ASSUME UNCHANGED <<orders, audit, owed>>
        PROVE  NoChange
    BY <1>0 DEF NoChange, Trail
  <1>1. ASSUME NEW c \in Creator, NEW offset \in OffsetMin..OffsetMax, NEW o \in Order,
               InsertOrder(c, o, offset)
        PROVE  LoggedOpen(o)
    <2>1. /\ request[c].chain \in Chain /\ request[c].base + offset \in Nat
      BY <1>1, OrdersAssumption DEF InsertOrder, TypeInv, TypeOK, Request
    <2>2. Ready(c) /\ c \in Actor /\ Log(c, {Entry("order_created", o, NULL)})
      BY <1>1 DEF InsertOrder, OwedOK, Actor
    <2>3. Trail' = Trail \cup {Entry("order_created", o, NULL)}
      BY <2>2, LogAdds
    <2> QED
      BY <1>1, <2>1, <2>3 DEF InsertOrder, Opens, LoggedOpen
  <1>2. ASSUME NEW h \in Handler, UpdateConfirmations(h)
        PROVE  NoChange \/ \E o \in Order : LoggedAdvance(o, h)
    <2>1. Ready(h) /\ h \in Actor
      BY <1>2 DEF UpdateConfirmations, Actor
    <2> QED
      BY <1>0, <1>2, <2>1, LogAdds DEF UpdateConfirmations, Advances, Advancing, LoggedAdvance
  <1>3. ASSUME NEW h \in Handler, ClaimExactMatch(h)
        PROVE  NoChange \/ \E o \in Order : LoggedCredit(o, h)
    <2>1. Ready(h) /\ h \in Actor
      BY <1>3 DEF ClaimExactMatch, OwedOK, Actor
    <2> QED
      BY <1>0, <1>3, <2>1, LogAdds
      DEF ClaimExactMatch, Credits, IndexRefuses, Matches, Claimable, LoggedCredit
  <1>4. ASSUME NEW h \in Handler, MarkUnderpaid(h)
        PROVE  NoChange \/ \E o \in Order : LoggedShort(o, h)
    <2>1. Ready(h) /\ h \in Actor
      BY <1>4 DEF MarkUnderpaid, OwedOK, Actor
    <2> QED
      BY <1>0, <1>4, <2>1, LogAdds
      DEF MarkUnderpaid, Shorts, IndexRefuses, TypeInv, WorkOK, LoggedShort
  <1>5. CASE ExpireCommit
    <2>1. Ready(Sweeper) /\ Sweeper \in Actor
      BY <1>5 DEF ExpireCommit, OwedOK, Actor
    <2> QED
      BY <1>5, <2>1, LogAdds DEF ExpireCommit, Expires, LoggedExpire
  <1>6. ASSUME NEW h \in Handler, NEW ev \in TrueEvent, OnTransfer(h, ev)
        PROVE  NoChange
    <2>1. UNCHANGED orders /\ Trail' = Trail \cup {Entry("transfer_observed", NULL, ev.tx)}
      BY <1>6, LogAdds DEF OnTransfer, Actor
    <2> QED
      BY <2>1, EntryFields DEF NoChange
  <1>7. ASSUME NEW h \in Handler, Rollback(h)
        PROVE  NoChange
    <2>1. Ready(h) /\ h \in Actor
      BY <1>7 DEF Rollback, OwedOK, Actor
    <2>2. /\ UNCHANGED orders
          /\ Trail' = Trail \cup {Entry("transfer_unmatched", NULL, call[h].tx)}
      BY <1>7, <2>1, LogAdds DEF Rollback
    <2> QED
      BY <2>2, EntryFields DEF NoChange
  <1>8. ASSUME NEW a \in Actor, AuditInsert(a)
        PROVE  NoChange
    BY <1>8, InsertKeeps DEF NoChange, AuditInsert
  <1>9. CASE \/ \E c \in Creator :
                  \/ \E chain \in Chain, base \in BaseAmounts : CreateOrder(c, chain, base)
                  \/ \E offset \in OffsetMin..OffsetMax : InsertCollides(c, offset)
                  \/ CreateFails(c)
             \/ \E h \in Handler : \/ TxAlreadyClaimed(h) \/ ClaimUnderpaid(h)
                                   \/ LogReviewItem(h) \/ StatementFails(h)
             \/ ExpirePastDue \/ (\E o \in Order : ExpireRow(o))
             \/ ExpireFails \/ Tick \/ UNCHANGED vars
    <2>1. UNCHANGED <<orders, audit, owed>>
      BY <1>9 DEF CreateOrder, InsertCollides, CreateFails, TxAlreadyClaimed, ClaimUnderpaid,
                  LogReviewItem, StatementFails, ExpirePastDue, ExpireRow, ExpireFails, Tick,
                  tables, vars
    <2> QED
      BY <1>0, <2>1
  <1> QED
    BY <1>1, <1>2, <1>3, <1>4, <1>5, <1>6, <1>7, <1>8, <1>9, EventsAreTrue
    DEF Step, Next, CreatorStep, HandlerStep, ExpiryStep, Actor

\* What a step does to the entries an actor owes.
LEMMA OwedStep ==
    ASSUME TypeInv, [Step]_vars
    PROVE  /\ audit \subseteq audit'
           /\ \A a \in Actor : \/ UNCHANGED owed[a]
                               \/ owed'[a] \subseteq owed[a] /\ AuditInsert(a)
                               \/ a \in Creator /\ request[a] # NULL /\ request'[a] = NULL
                               \/ a \in Handler /\ pc[a] = "idle" /\ pc'[a] = "update"
                               \/ a \in Handler /\ pc'[a] \in {"idle", "review"}
                               \/ a = Sweeper /\ ~ sweep'.running
  <1>0. /\ owed \in [Actor -> SUBSET AuditEntry]
        /\ pc \in [Handler -> Statement \cup {"idle"}]
        /\ request \in [Creator -> Request \cup {NULL}]
    BY DEF TypeInv, TypeOK
  <1>1. ASSUME NEW c \in Creator, NEW offset \in OffsetMin..OffsetMax, NEW o \in Order,
               InsertOrder(c, o, offset)
        PROVE  /\ audit' = audit /\ request[c] # NULL /\ request'[c] = NULL
               /\ \A a \in Actor \ {c} : owed'[a] = owed[a]
    BY <1>0, <1>1 DEF InsertOrder, Log
  <1>2. ASSUME NEW h \in Handler, NEW ev \in TrueEvent, OnTransfer(h, ev)
        PROVE  /\ audit' = audit /\ pc[h] = "idle" /\ pc'[h] = "update"
               /\ \A a \in Actor \ {h} : owed'[a] = owed[a]
    BY <1>0, <1>2 DEF OnTransfer, Log, Goto
  <1>3. ASSUME NEW h \in Handler,
               UpdateConfirmations(h) \/ ClaimExactMatch(h) \/ MarkUnderpaid(h) \/ Rollback(h)
        PROVE  /\ audit' = audit
               /\ \/ UNCHANGED owed
                  \/ /\ pc'[h] \in {"idle", "review"}
                     /\ \A a \in Actor \ {h} : owed'[a] = owed[a]
    BY <1>0, <1>3
    DEF UpdateConfirmations, ClaimExactMatch, MarkUnderpaid, Rollback, Log, Return, Goto
  <1>4. CASE ExpireCommit
    BY <1>0, <1>4 DEF ExpireCommit, Log
  <1>5. ASSUME NEW a \in Actor, AuditInsert(a)
        PROVE  /\ audit \subseteq audit' /\ owed'[a] \subseteq owed[a]
               /\ \A b \in Actor \ {a} : owed'[b] = owed[b]
    BY <1>0, <1>5 DEF AuditInsert
  <1>6. CASE \/ \E c \in Creator :
                  \/ \E chain \in Chain, base \in BaseAmounts : CreateOrder(c, chain, base)
                  \/ \E offset \in OffsetMin..OffsetMax : InsertCollides(c, offset)
                  \/ CreateFails(c)
             \/ \E h \in Handler : \/ TxAlreadyClaimed(h) \/ ClaimUnderpaid(h)
                                   \/ LogReviewItem(h) \/ StatementFails(h)
             \/ ExpirePastDue \/ (\E o \in Order : ExpireRow(o))
             \/ ExpireFails \/ Tick \/ UNCHANGED vars
    <2>1. UNCHANGED <<audit, owed>>
      BY <1>6 DEF CreateOrder, InsertCollides, CreateFails, TxAlreadyClaimed, ClaimUnderpaid,
                  LogReviewItem, StatementFails, ExpirePastDue, ExpireRow, ExpireFails, Tick,
                  tables, vars
    <2> QED
      BY <2>1
  <1> QED
    BY <1>1, <1>2, <1>3, <1>4, <1>5, <1>6, EventsAreTrue
    DEF Step, Next, CreatorStep, HandlerStep, ExpiryStep, Actor

\* An actor inserts what it owes before it goes on.
LEMMA StepOwedOK ==
    ASSUME TypeInv, OwedOK, [Step]_vars
    PROVE  OwedOK'
  <1>0. /\ Handler \subseteq Actor /\ Creator \subseteq Actor /\ Sweeper \in Actor
        /\ Sweeper \notin Handler \cup Creator /\ Handler \cap Creator = {}
        /\ pc \in [Handler -> Statement \cup {"idle"}]
        /\ request \in [Creator -> Request \cup {NULL}]
    BY OrdersAssumption DEF Actor, TypeInv, TypeOK
  <1>1. ASSUME NEW a \in Actor, Ready(a)
        PROVE  \/ owed'[a] = {}
               \/ a \in Creator /\ request'[a] = NULL
               \/ a \in Handler /\ pc'[a] \in {"idle", "update", "review"}
               \/ a = Sweeper /\ ~ sweep'.running
    BY <1>1, OwedStep DEF Ready
  <1>2. ASSUME NEW h \in Handler, pc'[h] \in {"check", "exact", "under", "mark", "rollback"}
        PROVE  Ready(h)
    <2>1. CASE pc[h] \in {"check", "exact", "under", "mark", "rollback"}
      BY <2>1 DEF OwedOK
    <2>2. CASE UpdateConfirmations(h)
      BY <2>2 DEF UpdateConfirmations
    <2>3. CASE pc[h] \notin {"check", "exact", "under", "mark", "rollback"} /\ ~ UpdateConfirmations(h)
      <3>1. pc'[h] # pc[h]
        BY <1>2, <2>3
      <3>2. ASSUME NEW g \in Handler, NEW ev \in TrueEvent, OnTransfer(g, ev)
            PROVE  FALSE
        BY <1>0, <1>2, <3>1, <3>2 DEF OnTransfer, Goto
      <3>3. ASSUME NEW g \in Handler, HandlerStep(g) \/ StatementFails(g)
            PROVE  FALSE
        <4>1. g = h
          BY <1>0, <3>1, <3>3
          DEF HandlerStep, UpdateConfirmations, TxAlreadyClaimed, ClaimExactMatch, ClaimUnderpaid,
              MarkUnderpaid, Rollback, LogReviewItem, AuditInsert, StatementFails, Return, Goto,
              handlerVars
        <4> QED
          BY <1>0, <1>2, <2>3, <3>1, <3>3, <4>1
          DEF HandlerStep, TxAlreadyClaimed, ClaimExactMatch, ClaimUnderpaid,
              MarkUnderpaid, Rollback, LogReviewItem, AuditInsert, StatementFails, Return, Goto,
              handlerVars
      <3>4. CASE \/ \E c \in Creator :
                      \/ \E chain \in Chain, base \in BaseAmounts : CreateOrder(c, chain, base)
                      \/ CreatorStep(c)
                 \/ ExpiryStep \/ ExpireFails \/ Tick \/ UNCHANGED vars
        <4>1. UNCHANGED pc
          BY <3>4 DEF CreateOrder, CreatorStep, InsertCollides, InsertOrder, CreateFails, AuditInsert,
                      ExpiryStep, ExpirePastDue, ExpireRow, ExpireCommit, ExpireFails, Tick,
                      handlerVars, vars
        <4> QED
          BY <3>1, <4>1
      <3> QED
        BY <3>2, <3>3, <3>4, EventsAreTrue DEF Step, Next
    <2> QED
      BY <2>1, <2>2, <2>3
  <1>3. ASSUME NEW c \in Creator, request'[c] # NULL
        PROVE  Ready(c)
    <2>1. CASE request[c] # NULL
      BY <2>1 DEF OwedOK
    <2>2. CASE request[c] = NULL
      <3>1. request'[c] # request[c]
        BY <1>3, <2>2
      <3>2. ASSUME NEW d \in Creator, NEW chain \in Chain, NEW base \in BaseAmounts,
                   CreateOrder(d, chain, base)
            PROVE  Ready(c)
        BY <1>0, <3>1, <3>2 DEF CreateOrder
      <3>3. ASSUME NEW d \in Creator, CreatorStep(d)
            PROVE  FALSE
        BY <1>0, <2>2, <3>1, <3>3
        DEF CreatorStep, InsertCollides, InsertOrder, CreateFails, AuditInsert
      <3>4. CASE \/ \E h \in Handler, ev \in TrueEvent : OnTransfer(h, ev)
                 \/ \E h \in Handler : HandlerStep(h) \/ StatementFails(h)
                 \/ ExpiryStep \/ ExpireFails \/ Tick \/ UNCHANGED vars
        <4>1. UNCHANGED request
          BY <3>4 DEF OnTransfer, HandlerStep, UpdateConfirmations, TxAlreadyClaimed,
                      ClaimExactMatch, ClaimUnderpaid, MarkUnderpaid, Rollback, LogReviewItem,
                      AuditInsert, StatementFails, ExpiryStep, ExpirePastDue, ExpireRow,
                      ExpireCommit, ExpireFails, Tick, vars
        <4> QED
          BY <3>1, <4>1
      <3> QED
        BY <3>2, <3>3, <3>4, EventsAreTrue DEF Step, Next
    <2> QED
      BY <2>1, <2>2
  <1>4. ASSUME sweep'.running
        PROVE  Ready(Sweeper)
    <2>1. CASE sweep.running
      BY <2>1 DEF OwedOK
    <2>2. CASE ~ sweep.running
      <3>1. sweep' # sweep
        BY <1>4, <2>2
      <3>2. ~ (ExpireCommit \/ ExpireFails)
        BY <1>4 DEF ExpireCommit, ExpireFails
      <3>3. ASSUME NEW o \in Order, ExpireRow(o)
            PROVE  FALSE
        <4>1. sweep \in [running: BOOLEAN, todo: SUBSET Order]
          BY DEF TypeInv, TypeOK
        <4> QED
          BY <1>4, <2>2, <3>3, <4>1 DEF ExpireRow
      <3>4. CASE ExpirePastDue
        BY <3>4 DEF ExpirePastDue
      <3>5. CASE \/ \E c \in Creator :
                      \/ \E chain \in Chain, base \in BaseAmounts : CreateOrder(c, chain, base)
                      \/ CreatorStep(c)
                 \/ \E h \in Handler, ev \in TrueEvent : OnTransfer(h, ev)
                 \/ \E h \in Handler : HandlerStep(h) \/ StatementFails(h)
                 \/ AuditInsert(Sweeper) \/ Tick \/ UNCHANGED vars
        <4>1. UNCHANGED sweep
          BY <3>5 DEF CreateOrder, CreatorStep, InsertCollides, InsertOrder, CreateFails,
                      OnTransfer, HandlerStep, UpdateConfirmations, TxAlreadyClaimed,
                      ClaimExactMatch, ClaimUnderpaid, MarkUnderpaid, Rollback, LogReviewItem,
                      AuditInsert, StatementFails, Tick, vars
        <4> QED
          BY <3>1, <4>1
      <3> QED
        BY <3>2, <3>3, <3>4, <3>5, EventsAreTrue DEF Step, Next, ExpiryStep
    <2> QED
      BY <2>1, <2>2
  <1> QED
    BY <1>0, <1>1, <1>2, <1>3, <1>4 DEF OwedOK, Ready

\* A handler at work has its transfer in the log, or is about to insert it.
LEMMA StepObservedOK ==
    ASSUME TypeInv, OwedOK, ObservedOK, [Step]_vars, ~ AuditFaults
    PROVE  ObservedOK'
  <1>0. /\ pc \in [Handler -> Statement \cup {"idle"}]
        /\ call \in [Handler -> TransferEvent \cup {NULL}]
        /\ owed \in [Actor -> SUBSET AuditEntry]
        /\ Handler \subseteq Actor
    BY DEF TypeInv, TypeOK, Actor
  <1>1. audit \subseteq audit'
    BY OwedStep
  <1>2. ASSUME NEW h \in Handler, NEW ev \in TrueEvent, OnTransfer(h, ev)
        PROVE  ObservedOK'
    <2>1. /\ pc' = [pc EXCEPT ![h] = "update"] /\ call' = [call EXCEPT ![h] = ev]
          /\ owed' = [owed EXCEPT ![h] = {Entry("transfer_observed", NULL, ev.tx)}]
      BY <1>2 DEF OnTransfer, Goto, Log
    <2> QED
      BY <1>0, <1>1, <2>1 DEF ObservedOK
  <1>3. ASSUME NEW h \in Handler, \/ UpdateConfirmations(h) \/ TxAlreadyClaimed(h)
                                  \/ ClaimExactMatch(h) \/ ClaimUnderpaid(h) \/ MarkUnderpaid(h)
                                  \/ Rollback(h) \/ LogReviewItem(h) \/ StatementFails(h)
        PROVE  ObservedOK'
    <2>1. /\ pc[h] # "idle" /\ Ready(h)
          /\ \/ Return(h)
             \/ UNCHANGED call /\ \E s \in Statement : Goto(h, s)
      BY <1>3 DEF UpdateConfirmations, TxAlreadyClaimed, ClaimExactMatch, ClaimUnderpaid,
                  MarkUnderpaid, Rollback, LogReviewItem, StatementFails, Statement, OwedOK
    <2>2. \A g \in Handler \ {h} : owed'[g] = owed[g]
      BY <1>0, <1>3 DEF UpdateConfirmations, TxAlreadyClaimed, ClaimExactMatch, ClaimUnderpaid,
                        MarkUnderpaid, Rollback, LogReviewItem, StatementFails, Log, tables
    <2>3. Entry("transfer_observed", NULL, call[h].tx) \in audit
      BY <2>1 DEF ObservedOK, Ready
    <2>4. \A g \in Handler \ {h} : pc'[g] = pc[g] /\ call'[g] = call[g]
      BY <1>0, <2>1 DEF Return, Goto
    <2>5. pc'[h] = "idle" \/ call'[h] = call[h]
      BY <1>0, <2>1 DEF Return
    <2> QED
      BY <1>0, <1>1, <2>2, <2>3, <2>4, <2>5 DEF ObservedOK
  <1>4. ASSUME NEW a \in Actor, AuditInsert(a)
        PROVE  ObservedOK'
    <2>1. /\ UNCHANGED <<pc, call>>
          /\ \E e \in owed[a] : owed' = [owed EXCEPT ![a] = @ \ {e}] /\ audit' = audit \cup {e}
      BY <1>4 DEF AuditInsert, handlerVars
    <2> QED
      BY <1>0, <1>1, <2>1 DEF ObservedOK
  <1>5. CASE \/ \E c \in Creator :
                  \/ \E chain \in Chain, base \in BaseAmounts : CreateOrder(c, chain, base)
                  \/ \E offset \in OffsetMin..OffsetMax :
                       InsertCollides(c, offset) \/ \E o \in Order : InsertOrder(c, o, offset)
                  \/ CreateFails(c)
             \/ ExpirePastDue \/ (\E o \in Order : ExpireRow(o)) \/ ExpireCommit
             \/ ExpireFails \/ Tick \/ UNCHANGED vars
    <2>1. UNCHANGED <<pc, call>>
      BY <1>5 DEF CreateOrder, InsertCollides, InsertOrder, CreateFails, ExpirePastDue, ExpireRow,
                  ExpireCommit, ExpireFails, Tick, handlerVars, vars
    <2>2. \A h \in Handler : owed'[h] = owed[h]
      BY <1>0, <1>5, OrdersAssumption
      DEF CreateOrder, InsertCollides, InsertOrder, CreateFails, ExpirePastDue, ExpireRow,
          ExpireCommit, ExpireFails, Tick, Log, tables, vars
    <2> QED
      BY <1>1, <2>1, <2>2 DEF ObservedOK
  <1> QED
    BY <1>2, <1>3, <1>4, <1>5, EventsAreTrue
    DEF Step, Next, CreatorStep, HandlerStep, ExpiryStep, Actor

\* Entries that are all about order o, whose history gains exactly them.
LEMMA OneGains ==
    ASSUME NEW o \in Order, NEW entries, Trail' = Trail \cup entries,
           {e \in Trail : e.order # NULL} = UNION {History(p) : p \in Order},
           \A e \in entries : e.order = o,
           \A p \in Order \ {o} : orders'[p] = orders[p],
           Told(o, orders'[o]) = Told(o, orders[o]) \cup entries
    PROVE  {e \in Trail' : e.order # NULL} = UNION {History(p)' : p \in Order}
  <1>1. \A p \in Order : Told(p, orders'[p]) = Told(p, orders[p]) \cup {e \in entries : e.order = p}
    OBVIOUS
  <1>2. \A e \in entries : e.order \in Order \cup {NULL}
    OBVIOUS
  <1> QED
    BY <1>1, <1>2, TrailGrows

\* The log goes on telling the history of every order and nothing else.
LEMMA StepTrail ==
    ASSUME TypeInv, LockInv, MoneyInv, OwedOK, [Step]_vars, ~ AuditFaults,
           {e \in Trail : e.order # NULL} = UNION {History(o) : o \in Order}
    PROVE  {e \in Trail' : e.order # NULL} = UNION {History(o)' : o \in Order}
  <1>0. /\ orders \in [Order -> Row]
        /\ \A p \in Order : orders[p] \in Row
        /\ \A h \in Handler : pc[h] # "idle" => call[h] \in TransferEvent
    BY DEF TypeInv, TypeOK, WorkOK
  <1>1. CASE NoChange
    <2>1. PICK entries : entries = Trail' \ Trail
      OBVIOUS
    <2>2. Trail' = Trail \cup entries /\ \A e \in entries : e.order = NULL
      BY <1>1, <2>1 DEF NoChange
    <2>3. ASSUME NEW o \in Order
          PROVE  Told(o, orders'[o]) = Told(o, orders[o]) \cup {e \in entries : e.order = o}
      <3>1. {e \in entries : e.order = o} = {}
        BY <2>2, OrdersAssumption
      <3>2. orders' = orders
        BY <1>1 DEF NoChange
      <3> QED
        BY <3>1, <3>2
    <2>4. \A e \in entries : e.order \in Order \cup {NULL}
      BY <2>2
    <2> QED
      BY <2>2, <2>3, <2>4, TrailGrows
  <1>2. ASSUME NEW o \in Order, LoggedOpen(o)
        PROVE  {e \in Trail' : e.order # NULL} = UNION {History(p)' : p \in Order}
    <2> DEFINE entries == {Entry("order_created", o, NULL)}
    <2>1. PICK chain \in Chain, expected \in Nat :
            orders[o].status = "absent" /\ orders' = [orders EXCEPT ![o] = NewRow(chain, expected)]
      BY <1>2 DEF LoggedOpen, Opens
    <2>2. /\ orders'[o].status = "pending"
          /\ \A p \in Order \ {o} : orders'[p] = orders[p]
      BY <1>0, <2>1, NewRowFields
    <2>3. Told(o, orders'[o]) = Told(o, orders[o]) \cup entries
      BY <2>1, <2>2 DEF Told
    <2>4. Trail' = Trail \cup entries /\ \A e \in entries : e.order = o
      BY <1>2, EntryFields DEF LoggedOpen
    <2> HIDE DEF entries
    <2> QED
      BY <2>2, <2>3, <2>4, OneGains
  <1>3. ASSUME NEW o \in Order, NEW h \in Handler, LoggedAdvance(o, h)
        PROVE  {e \in Trail' : e.order # NULL} = UNION {History(p)' : p \in Order}
    <2> DEFINE status  == StatusAt(orders[o], call[h].confirmations)
               entries == Progress(o, call[h].tx, status)
    <2>1. /\ orders[o].status = "confirming" /\ orders[o].tx = call[h].tx
          /\ orders'[o] = Advanced(orders[o], call[h])
          /\ \A p \in Order \ {o} : orders'[p] = orders[p]
          /\ call[h] \in TransferEvent
      BY <1>0, <1>3 DEF LoggedAdvance, Advances, Advancing
    <2>2. orders'[o].status = status /\ orders'[o].tx = call[h].tx
      BY <1>0, <2>1, AdvancedFields
    <2>3. Told(o, orders'[o]) = Told(o, orders[o]) \cup entries
      BY <2>1, <2>2 DEF Told, Progress, StatusAt
    <2>4. Trail' = Trail \cup entries /\ \A e \in entries : e.order = o
      BY <1>3, EntryFields DEF LoggedAdvance, Progress
    <2> HIDE DEF entries
    <2> QED
      BY <2>1, <2>3, <2>4, OneGains
  <1>4. ASSUME NEW o \in Order, NEW h \in Handler, LoggedCredit(o, h)
        PROVE  {e \in Trail' : e.order # NULL} = UNION {History(p)' : p \in Order}
    <2> DEFINE status  == StatusAt(orders[o], call[h].confirmations)
               entries == {Entry("order_matched", o, call[h].tx)}
                            \cup Progress(o, call[h].tx, status)
    <2>1. /\ orders[o].status = "pending"
          /\ orders'[o] = Matched(orders[o], call[h])
          /\ \A p \in Order \ {o} : orders'[p] = orders[p]
          /\ call[h] \in TransferEvent
      BY <1>0, <1>4 DEF LoggedCredit, Credits, Matches, Claimable
    <2>2. orders'[o].status = status /\ orders'[o].tx = call[h].tx
      BY <1>0, <2>1, MatchedFields
    <2>3. Told(o, orders'[o]) = Told(o, orders[o]) \cup entries
      BY <2>1, <2>2 DEF Told, Progress, StatusAt
    <2>4. Trail' = Trail \cup entries /\ \A e \in entries : e.order = o
      BY <1>4, EntryFields DEF LoggedCredit, Progress
    <2> HIDE DEF entries
    <2> QED
      BY <2>1, <2>3, <2>4, OneGains
  <1>5. ASSUME NEW o \in Order, NEW h \in Handler, LoggedShort(o, h)
        PROVE  {e \in Trail' : e.order # NULL} = UNION {History(p)' : p \in Order}
    <2> DEFINE entries == {Entry("order_underpaid", o, call[h].tx)}
    <2>1. lock[o] = h /\ h # NULL
      BY <1>5, OrdersAssumption DEF LoggedShort, Shorts, LockInv, PickedOK
    <2>2. /\ orders[o].status = "pending"
          /\ orders'[o] = Underpaid(orders[o], call[h])
          /\ \A p \in Order \ {o} : orders'[p] = orders[p]
          /\ call[h] \in TransferEvent
      BY <1>0, <1>5, <2>1 DEF LoggedShort, Shorts, LockInv, LocksBelongToTransactions
    <2>3. orders'[o].status = "underpaid" /\ orders'[o].tx = call[h].tx
      BY <1>0, <2>2, UnderpaidFields
    <2>4. Told(o, orders'[o]) = Told(o, orders[o]) \cup entries
      BY <2>2, <2>3 DEF Told
    <2>5. Trail' = Trail \cup entries /\ \A e \in entries : e.order = o
      BY <1>5, EntryFields DEF LoggedShort
    <2> HIDE DEF entries
    <2> QED
      BY <2>2, <2>4, <2>5, OneGains
  <1>6. CASE LoggedExpire
    <2> DEFINE entries == {Entry("order_expired", o, NULL) : o \in Expiring}
    <2>1. \A o \in Expiring : orders[o].status = "pending" /\ o \in Order
      BY OrdersAssumption DEF Expiring, LockInv, LocksBelongToTransactions
    <2>2. \A o \in Order : IF o \in Expiring THEN orders'[o].status = "expired"
                                             ELSE orders'[o] = orders[o]
      BY <1>0, <1>6, <2>1 DEF LoggedExpire, Expires, Row
    <2>3. \A e \in entries : e.order \in Order
      BY <2>1, EntryFields
    <2>4. ASSUME NEW o \in Order
          PROVE  Told(o, orders'[o]) = Told(o, orders[o]) \cup {e \in entries : e.order = o}
      <3>1. CASE o \in Expiring
        <4>1. {e \in entries : e.order = o} = {Entry("order_expired", o, NULL)}
          BY <3>1, EntryFields
        <4>2. Told(o, orders'[o]) = Told(o, orders[o]) \cup {Entry("order_expired", o, NULL)}
          BY <2>1, <2>2, <3>1 DEF Told
        <4> QED
          BY <4>1, <4>2
      <3>2. CASE o \notin Expiring
        <4>1. {e \in entries : e.order = o} = {}
          BY <3>2, EntryFields
        <4> QED
          BY <2>2, <3>2, <4>1
      <3> QED
        BY <3>1, <3>2
    <2>5. Trail' = Trail \cup entries
      BY <1>6 DEF LoggedExpire
    <2> HIDE DEF entries
    <2> QED
      BY <2>3, <2>4, <2>5, TrailGrows
  <1> QED
    BY <1>1, <1>2, <1>3, <1>4, <1>5, <1>6, AuditStep

\* Every step keeps the log complete and true.
LEMMA StepAuditInv ==
    ASSUME TypeInv, LockInv, MoneyInv, AuditInv, [Step]_vars, ~ AuditFaults
    PROVE  AuditInv'
  <1>0. /\ orders \in [Order -> Row]
        /\ \A p \in Order : orders[p] \in Row
        /\ \A h \in Handler : pc[h] # "idle" => call[h] \in TransferEvent
    BY DEF TypeInv, TypeOK, WorkOK
  <1>1. audit \subseteq audit' /\ ObservedOK' /\ OwedOK'
    BY OwedStep, StepObservedOK, StepOwedOK DEF AuditInv
  <1>2. {e \in Trail' : e.order # NULL} = UNION {History(o)' : o \in Order}
    BY StepTrail DEF AuditInv, AuditTrail
  <1>3. ASSUME NEW o \in Order, orders'[o].tx # NULL
        PROVE  Entry("transfer_observed", NULL, orders'[o].tx) \in audit'
    <2>1. CASE orders'[o].tx = orders[o].tx
      BY <1>1, <1>3, <2>1 DEF AuditInv, AuditTrail
    <2>2. ASSUME orders'[o].tx # orders[o].tx
          PROVE  \E h \in Handler : /\ pc[h] \in {"exact", "mark"}
                                    /\ orders'[o].tx = call[h].tx
      <3>1. ASSUME NEW p \in Order, LoggedOpen(p)
            PROVE  FALSE
        <4>1. PICK chain \in Chain, expected \in Nat :
                orders' = [orders EXCEPT ![p] = NewRow(chain, expected)]
          BY <3>1 DEF LoggedOpen, Opens
        <4>2. orders'[p].tx = NULL /\ \A q \in Order \ {p} : orders'[q] = orders[q]
          BY <1>0, <4>1, NewRowFields
        <4> QED
          BY <1>3, <2>2, <4>2
      <3>2. ASSUME NEW p \in Order, NEW h \in Handler, LoggedAdvance(p, h)
            PROVE  FALSE
        <4>1. /\ \A q \in Order \ {p} : orders'[q] = orders[q]
              /\ orders'[p] = Advanced(orders[p], call[h])
              /\ orders[p].tx = call[h].tx /\ call[h] \in TransferEvent
          BY <1>0, <3>2 DEF LoggedAdvance, Advances, Advancing
        <4>2. orders'[p].tx = call[h].tx
          BY <1>0, <4>1, AdvancedFields
        <4> QED
          BY <2>2, <4>1, <4>2
      <3>3. ASSUME NEW p \in Order, NEW h \in Handler, LoggedCredit(p, h) \/ LoggedShort(p, h)
            PROVE  pc[h] \in {"exact", "mark"} /\ orders'[o].tx = call[h].tx
        <4>1. /\ pc[h] \in {"exact", "mark"} /\ call[h] \in TransferEvent
              /\ \A q \in Order \ {p} : orders'[q] = orders[q]
              /\ \/ orders'[p] = Matched(orders[p], call[h])
                 \/ orders'[p] = Underpaid(orders[p], call[h])
          BY <1>0, <3>3 DEF LoggedCredit, LoggedShort, Credits, Shorts
        <4>2. orders'[p].tx = call[h].tx
          BY <1>0, <4>1, MatchedFields, UnderpaidFields
        <4> QED
          BY <2>2, <4>1, <4>2
      <3>4. ~ LoggedExpire
        BY <1>0, <2>2 DEF LoggedExpire, Expires, Row
      <3> QED
        BY <2>2, <3>1, <3>2, <3>3, <3>4, AuditStep DEF AuditInv, NoChange
    <2> QED
      BY <1>1, <2>1, <2>2 DEF AuditInv, ObservedOK
  <1>4. AuditTrail'
    BY <1>2, <1>3 DEF AuditTrail
  <1> QED
    BY <1>1, <1>4 DEF AuditInv

\* When no audit insert is lost, the log tells of every order exactly the states
\* it has gone through, and observed every transfer before it was attributed.
THEOREM LogTellsHistory ==
    ASSUME ~ AuditFaults PROVE Spec => []AuditTrail
  <1>1. TypeInv /\ LockInv /\ MoneyInv /\ AuditInv /\ [Step]_vars => AuditInv'
    BY StepAuditInv
  <1>2. Spec => []AuditInv
    BY <1>1, InitAuditInv, Invariants, NextIsStep, PTL DEF Spec
  <1> QED
    BY <1>2, PTL DEF AuditInv
=============================================================================
