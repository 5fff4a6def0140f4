------------------------------- MODULE Orders -------------------------------
(***************************************************************************)
(* The order lifecycle of Frenix Pay: internal/orders (Service and         *)
(* Repository) over its Postgres tables.                                   *)
(*                                                                         *)
(* Three kinds of actors share the tables and run concurrently:            *)
(*   - a Handler executes Service.OnTransfer for the watcher of one chain. *)
(*     Every SQL statement of the call is one step, the audit insert after *)
(*     a change included, so anything else can happen between two of them; *)
(*   - a Creator executes Service.CreateOrder, one INSERT attempt per step;*)
(*   - the expiry loop executes ExpirePastDue, whose UPDATE takes its row  *)
(*     locks one after the other and commits at the end.                   *)
(* Postgres is external and modelled as READ COMMITTED statements: atomic  *)
(* except for the row locks that outlive a step, FOR UPDATE SKIP LOCKED    *)
(* passing over them, and the two partial unique indexes.                  *)
(***************************************************************************)
EXTENDS Matching, FiniteSets

CONSTANTS
    Order,              \* order ids (UUIDs)
    Tx,                 \* (chain, tx_hash) pairs
    Chain,              \* the enabled chains
    Handler,            \* concurrent executions of OnTransfer
    Creator,            \* concurrent POST /v1/orders requests
    NULL,
    Sweeper,            \* owner of the expiry statement's row locks
    Required,           \* Manager.RequiredConfirmations, per chain
    TxChain, TxAmount,  \* the chain and the amount of each transfer
    HandlerChain,       \* the chain each handler serves
    BaseAmounts,        \* requested base_amount_usd values
    MinOrder, MaxOrder, \* minOrderUSD, maxOrderUSD
    OffsetMin, OffsetMax, MaxRetries, Expiry,
    MaxConfirmations,   \* bound: largest confirmation count reported
    MaxTime,            \* bound: the clock stops here
    StatementFaults,    \* may a database statement fail?
    AuditFaults         \* may an audit insert, whose error is dropped, fail?

ASSUME OrdersAssumption ==
    /\ NULL \notin Order \cup Tx \cup Chain \cup Handler \cup Nat
    /\ NULL \notin [reason: {"unmatched", "underpaid"}, order: Order \cup {NULL}]
    /\ Sweeper \notin Handler \cup Creator \cup {NULL} /\ Handler \cap Creator = {}
    /\ Required \in [Chain -> Nat]
    /\ TxChain \in [Tx -> Chain]
    /\ TxAmount \in [Tx -> Nat]
    /\ HandlerChain \in [Handler -> Chain]
    /\ BaseAmounts \subseteq Nat
    /\ MinOrder \in Nat \ {0} /\ MaxOrder \in Nat
    /\ OffsetMin \in Nat /\ OffsetMax \in Nat
    /\ MaxRetries \in Nat /\ Expiry \in Nat
    /\ MaxConfirmations \in Nat /\ MaxTime \in Nat
    /\ StatementFaults \in BOOLEAN /\ AuditFaults \in BOOLEAN

VARIABLES
    orders,   \* table orders, by id
    reviews,  \* table review_items, by (chain, tx_hash)
    audit,    \* table audit_log, as the set of its entries
    owed,     \* the entries each actor has still to insert for what it did
    lock,     \* who holds the row lock of each order across steps
    now,      \* the database clock
    pc,       \* next statement of each handler
    call,     \* the TransferEvent each handler works on
    best,     \* the order ClaimUnderpaid picked in each handler
    request,  \* the order request each creator works on
    sweep     \* the expiry statement: is it running, rows still to visit

tables      == <<orders, reviews, audit, owed>>
handlerVars == <<pc, call, best>>
vars        == <<orders, reviews, audit, owed, lock, now, pc, call, best, request, sweep>>

-----------------------------------------------------------------------------
(* Types *)

Status == {"pending", "confirming", "confirmed", "underpaid", "expired"}
Final  == {"confirmed", "underpaid", "expired"}

\* One row of orders; "absent" stands for an id that was never inserted.
Row == [status: Status \cup {"absent"}, chain: Chain \cup {NULL}, expected: Nat,
        required: Nat, expires: Nat, tx: Tx \cup {NULL}, received: Nat \cup {NULL},
        confirmations: Nat, confirmedAt: Nat \cup {NULL}]

NoRow == [status |-> "absent", chain |-> NULL, expected |-> 0, required |-> 0,
          expires |-> 0, tx |-> NULL, received |-> NULL, confirmations |-> 0,
          confirmedAt |-> NULL]

TransferEvent == [tx: Tx, amount: Nat, confirmations: Nat]

Review == [reason: {"unmatched", "underpaid"}, order: Order \cup {NULL}]

AuditEvent == {"order_created", "transfer_observed", "order_matched",
               "order_confirmation_progress", "order_confirmed",
               "order_underpaid", "transfer_unmatched", "order_expired"}
AuditEntry == [event: AuditEvent, order: Order \cup {NULL}, tx: Tx \cup {NULL}]

Request == [chain: Chain, base: Nat, attempt: 0..MaxRetries]

\* The statements of OnTransfer, in the order it issues them.
Statement == {"update", "check", "exact", "under", "mark", "rollback", "review"}

\* Who writes to the tables.
Actor == Handler \cup Creator \cup {Sweeper}

-----------------------------------------------------------------------------
(* Helpers *)

Entry(e, o, t) == [event |-> e, order |-> o, tx |-> t]

\* What follows a statement: the entries its actor inserts one by one ...
Log(a, entries) == owed' = [owed EXCEPT ![a] = entries] /\ UNCHANGED audit

\* ... before it goes on.
Ready(a) == owed[a] = {}

\* The calls of audit.Log in OnTransfer and logProgress come in this order.
Comes(e, entries) ==
    /\ e.event = "order_confirmation_progress" => \A f \in entries : f.event # "order_matched"
    /\ e.event = "order_confirmed" => entries = {e}

Mutant_AuditInsert(a) ==
    \E e \in owed[a] :
        /\ Comes(e, owed[a])
        /\ owed' = [owed EXCEPT ![a] = {}]
        /\ audit' = audit \cup {e}
        /\ UNCHANGED <<orders, reviews, lock, now, handlerVars, request, sweep>>

\* audit.Logger.Log: the caller discards the error, so an entry can be lost.
AuditInsert(a) ==
    \E e \in owed[a] :
        /\ Comes(e, owed[a])
        /\ owed' = [owed EXCEPT ![a] = @ \ {e}]
        /\ \/ audit' = audit \cup {e}
           \/ AuditFaults /\ UNCHANGED audit
        /\ UNCHANGED <<orders, reviews, lock, now, handlerVars, request, sweep>>

Mutant_Claimable(chain) ==
    {o \in Order : orders[o].status = "pending" /\ orders[o].tx = NULL /\ lock[o] = NULL}

Mutant_ClaimableFinal(chain) ==
    {o \in Order : orders[o].chain = chain /\ orders[o].tx = NULL /\ lock[o] = NULL}

\* The rows a locking query may still claim: pending, no tx_hash, and not
\* passed over by SKIP LOCKED.
Claimable(chain) ==
    {o \in Order : /\ orders[o].status = "pending"
                   /\ orders[o].chain = chain
                   /\ orders[o].tx = NULL
                   /\ lock[o] = NULL}

\* Some order holds this tx_hash.
Claimed(t) == \E o \in Order : orders[o].tx = t

Mutant_IndexRefuses(t) == FALSE

\* idx_orders_chain_txhash refuses an UPDATE that would attribute t again.
IndexRefuses(t) == Claimed(t)

Goto(h, statement) == pc' = [pc EXCEPT ![h] = statement]

Unlocked(who) == [o \in Order |-> IF lock[o] = who THEN NULL ELSE lock[o]]

\* OnTransfer returns; an open transaction has been committed or rolled back.
Return(h) ==
    /\ pc'   = [pc EXCEPT ![h] = "idle"]
    /\ call' = [call EXCEPT ![h] = NULL]
    /\ best' = [best EXCEPT ![h] = NULL]

Init ==
    /\ orders  = [o \in Order |-> NoRow]
    /\ reviews = [t \in Tx |-> NULL]
    /\ audit   = {}
    /\ owed    = [a \in Actor |-> {}]
    /\ lock    = [o \in Order |-> NULL]
    /\ now     = 0
    /\ pc      = [h \in Handler |-> "idle"]
    /\ call    = [h \in Handler |-> NULL]
    /\ best    = [h \in Handler |-> NULL]
    /\ request = [c \in Creator |-> NULL]
    /\ sweep   = [running |-> FALSE, todo |-> {}]

-----------------------------------------------------------------------------
(***************************************************************************)
(* CreateOrder                                                             *)
(***************************************************************************)

\* Validation; a request that fails it changes nothing.
CreateOrder(c, chain, base) ==
    /\ request[c] = NULL /\ Ready(c)
    /\ base >= MinOrder /\ base <= MaxOrder
    /\ OffsetMin <= OffsetMax
    /\ request' = [request EXCEPT ![c] = [chain |-> chain, base |-> base, attempt |-> 0]]
    /\ UNCHANGED <<tables, lock, now, handlerVars, sweep>>

Mutant_Colliding(chain, expected) ==
    {o \in Order : /\ orders[o].status = "pending" /\ lock[o] # Sweeper
                   /\ orders[o].chain = chain
                   /\ orders[o].expected = expected}

\* The pending rows an INSERT of this amount collides with.
Colliding(chain, expected) ==
    {o \in Order : /\ orders[o].status = "pending"
                   /\ orders[o].chain = chain
                   /\ orders[o].expected = expected}

NewRow(chain, expected) ==
    [NoRow EXCEPT !.status = "pending", !.chain = chain, !.expected = expected,
                  !.required = Required[chain], !.expires = now + Expiry]

\* The INSERT goes through under a fresh id.
InsertOrder(c, o, offset) ==
    LET r == request[c] IN
    /\ r # NULL /\ r.attempt < MaxRetries
    /\ Colliding(r.chain, r.base + offset) = {}
    /\ orders[o].status = "absent"
    /\ orders'  = [orders EXCEPT ![o] = NewRow(r.chain, r.base + offset)]
    /\ request' = [request EXCEPT ![c] = NULL]
    /\ Log(c, {Entry("order_created", o, NULL)})
    /\ UNCHANGED <<reviews, lock, now, handlerVars, sweep>>

Mutant_InsertCollides(c, offset) ==
    LET r == request[c] IN
    /\ r # NULL
    /\ \E o \in Colliding(r.chain, r.base + offset) : lock[o] # Sweeper
    /\ request' = [request EXCEPT ![c].attempt = @ + 1]
    /\ UNCHANGED <<tables, lock, now, handlerVars, sweep>>

\* Unique violation: try again with a new offset.  An INSERT that collides
\* with a row the expiry statement has updated waits for its commit.
InsertCollides(c, offset) ==
    LET r == request[c] IN
    /\ r # NULL /\ r.attempt < MaxRetries
    /\ \E o \in Colliding(r.chain, r.base + offset) : lock[o] # Sweeper
    /\ request' = [request EXCEPT ![c].attempt = @ + 1]
    /\ UNCHANGED <<tables, lock, now, handlerVars, sweep>>

\* The retry budget is spent, or the INSERT fails for another reason.
CreateFails(c) ==
    /\ request[c] # NULL
    /\ request[c].attempt = MaxRetries \/ StatementFaults
    /\ request' = [request EXCEPT ![c] = NULL]
    /\ UNCHANGED <<tables, lock, now, handlerVars, sweep>>

-----------------------------------------------------------------------------
(***************************************************************************)
(* OnTransfer                                                              *)
(***************************************************************************)

OnTransfer(h, ev) ==
    /\ pc[h] = "idle" /\ Ready(h)
    /\ TxChain[ev.tx] = HandlerChain[h]
    /\ call' = [call EXCEPT ![h] = ev]
    /\ Goto(h, "update")
    /\ Log(h, {Entry("transfer_observed", NULL, ev.tx)})
    /\ UNCHANGED <<orders, reviews, lock, now, best, request, sweep>>

\* logProgress: what is logged once an order stands at a new count.
Progress(o, t, status) ==
    {Entry("order_confirmation_progress", o, t)}
      \cup (IF status = "confirmed" THEN {Entry("order_confirmed", o, t)} ELSE {})

Mutant_StatusAt(row, confirmations) ==
    IF confirmations > row.required THEN "confirmed" ELSE "confirming"

\* The CASE that decides the status once a transfer has this many
\* confirmations.
StatusAt(row, confirmations) ==
    IF confirmations >= row.required THEN "confirmed" ELSE "confirming"

\* SET of UpdateConfirmations.
Advanced(row, ev) ==
    [row EXCEPT !.confirmations = ev.confirmations,
                !.status        = StatusAt(row, ev.confirmations),
                !.confirmedAt   = IF StatusAt(row, ev.confirmations) = "confirmed" /\ @ = NULL
                                  THEN now ELSE @]

Mutant_AdvancingLower(ev) ==
    {o \in Order : orders[o].tx = ev.tx /\ orders[o].status = "confirming"}

\* The confirming order that may take this count; never a lower one.
Advancing(ev) ==
    {o \in Order : /\ orders[o].tx = ev.tx
                   /\ orders[o].status = "confirming"
                   /\ ev.confirmations >= orders[o].confirmations}

UpdateConfirmations(h) ==
    LET ev == call[h] IN
    /\ pc[h] = "update" /\ Ready(h)
    /\ \/ \E o \in Advancing(ev) :
            /\ orders' = [orders EXCEPT ![o] = Advanced(@, ev)]
            /\ Log(h, Progress(o, ev.tx, StatusAt(orders[o], ev.confirmations)))
            /\ Return(h)
       \/ /\ Advancing(ev) = {}
          /\ Goto(h, "check")
          /\ UNCHANGED <<orders, audit, owed, call, best>>
    /\ UNCHANGED <<reviews, lock, now, request, sweep>>

TxAlreadyClaimed(h) ==
    /\ pc[h] = "check"
    /\ \/ Claimed(call[h].tx) /\ Return(h)
       \/ ~ Claimed(call[h].tx) /\ Goto(h, "exact") /\ UNCHANGED <<call, best>>
    /\ UNCHANGED <<tables, lock, now, request, sweep>>

Matches(h) ==
    {o \in Claimable(HandlerChain[h]) : WithinTolerance(orders[o].expected, call[h].amount)}

\* SET of ClaimExactMatch.
Matched(row, ev) ==
    [row EXCEPT !.tx            = ev.tx,
                !.received      = ev.amount,
                !.confirmations = ev.confirmations,
                !.status        = StatusAt(row, ev.confirmations),
                !.confirmedAt   = IF StatusAt(row, ev.confirmations) = "confirmed"
                                  THEN now ELSE NULL]

\* The match that expires first is claimed; if another order holds the
\* tx_hash already, the unique index refuses the UPDATE and the call fails.
ClaimExactMatch(h) ==
    LET ev == call[h] IN
    /\ pc[h] = "exact"
    /\ \/ \E o \in Matches(h) :
            /\ \A p \in Matches(h) : orders[o].expires <= orders[p].expires
            /\ ~ IndexRefuses(ev.tx)
            /\ orders' = [orders EXCEPT ![o] = Matched(@, ev)]
            /\ Log(h, {Entry("order_matched", o, ev.tx)}
                        \cup Progress(o, ev.tx, StatusAt(orders[o], ev.confirmations)))
            /\ Return(h)
       \/ /\ Matches(h) # {} /\ IndexRefuses(ev.tx)
          /\ Return(h)
          /\ UNCHANGED <<orders, audit, owed>>
       \/ /\ Matches(h) = {}
          /\ Goto(h, "under")
          /\ UNCHANGED <<orders, audit, owed, call, best>>
    /\ UNCHANGED <<reviews, lock, now, request, sweep>>

Shortfalls(h) ==
    {o \in Claimable(HandlerChain[h]) : orders[o].expected > call[h].amount}

Mutant_Acceptable(h) == Shortfalls(h)

\* The candidates the loop does not skip, and the one it ends with.
Acceptable(h) ==
    {o \in Shortfalls(h) : ~ GapTooLarge(orders[o].expected, call[h].amount)}

Mutant_IsBest(o, h) ==
    /\ o \in Acceptable(h)
    /\ \A p \in Acceptable(h) : orders[p].expected <= orders[o].expected

IsBest(o, h) ==
    /\ o \in Acceptable(h)
    /\ WinsOver(orders[o].expected, {orders[p].expected : p \in Acceptable(h)}, call[h].amount)

\* BEGIN; SELECT ... FOR UPDATE SKIP LOCKED; pick the best.  Every candidate
\* stays locked until the transaction ends.
ClaimUnderpaid(h) ==
    /\ pc[h] = "under"
    /\ lock' = [p \in Order |-> IF p \in Shortfalls(h) THEN h ELSE lock[p]]
    /\ \/ \E o \in Order :
            /\ IsBest(o, h)
            /\ best' = [best EXCEPT ![h] = o]
            /\ Goto(h, "mark")
       \/ /\ Acceptable(h) = {}
          /\ Goto(h, "rollback")
          /\ UNCHANGED best
    /\ UNCHANGED <<tables, now, call, request, sweep>>

Mutant_Rollback(h) ==
    /\ pc[h] = "rollback"
    /\ Log(h, {Entry("transfer_unmatched", NULL, call[h].tx)})
    /\ Goto(h, "review")
    /\ UNCHANGED <<orders, reviews, lock, now, call, best, request, sweep>>

\* With no best, the deferred Rollback ends the transaction.
Rollback(h) ==
    /\ pc[h] = "rollback"
    /\ lock' = Unlocked(h)
    /\ Log(h, {Entry("transfer_unmatched", NULL, call[h].tx)})
    /\ Goto(h, "review")
    /\ UNCHANGED <<orders, reviews, now, call, best, request, sweep>>

\* SET of the second statement of ClaimUnderpaid.
Underpaid(row, ev) ==
    [row EXCEPT !.tx = ev.tx, !.received = ev.amount, !.status = "underpaid"]

\* UPDATE ... WHERE id = best; COMMIT.  A tx_hash claimed meanwhile is a
\* unique violation: the transaction is rolled back and the call fails.
MarkUnderpaid(h) ==
    LET ev == call[h] IN
    /\ pc[h] = "mark"
    /\ lock' = Unlocked(h)
    /\ \/ /\ ~ IndexRefuses(ev.tx)
          /\ orders' = [orders EXCEPT ![best[h]] = Underpaid(@, ev)]
          /\ Log(h, {Entry("order_underpaid", best[h], ev.tx)})
          /\ Goto(h, "review")
          /\ UNCHANGED <<call, best>>
       \/ /\ IndexRefuses(ev.tx)
          /\ Return(h)
          /\ UNCHANGED <<orders, audit, owed>>
    /\ UNCHANGED <<reviews, now, request, sweep>>

Mutant_LogReviewItemUnrelated(h) ==
    LET t == call[h].tx IN
    /\ pc[h] = "review" /\ Ready(h)
    /\ reviews' = IF reviews[t] # NULL THEN reviews
                  ELSE [reviews EXCEPT ![t] =
                         [reason |-> IF best[h] = NULL THEN "unmatched" ELSE "underpaid",
                          order  |-> NULL]]
    /\ Return(h)
    /\ UNCHANGED <<orders, audit, owed, lock, now, request, sweep>>

\* INSERT ... ON CONFLICT DO NOTHING.
LogReviewItem(h) ==
    LET t == call[h].tx IN
    /\ pc[h] = "review" /\ Ready(h)
    /\ reviews' = IF reviews[t] # NULL THEN reviews
                  ELSE [reviews EXCEPT ![t] =
                         [reason |-> IF best[h] = NULL THEN "unmatched" ELSE "underpaid",
                          order  |-> best[h]]]
    /\ Return(h)
    /\ UNCHANGED <<orders, audit, owed, lock, now, request, sweep>>

Mutant_StatementFails(h) ==
    /\ StatementFaults
    /\ pc[h] # "idle" /\ Ready(h)
    /\ Return(h)
    /\ UNCHANGED <<tables, lock, now, request, sweep>>

\* A statement fails: OnTransfer gives up (the error of LogReviewItem is only
\* logged) and an open transaction is rolled back.
StatementFails(h) ==
    /\ StatementFaults
    /\ pc[h] # "idle" /\ Ready(h)
    /\ lock' = Unlocked(h)
    /\ Return(h)
    /\ UNCHANGED <<tables, now, request, sweep>>

-----------------------------------------------------------------------------
(***************************************************************************)
(* The expiry loop                                                         *)
(***************************************************************************)

Mutant_PastDue == {o \in Order : orders[o].status = "pending" /\ orders[o].expires > now}

\* WHERE status = 'pending' AND expires_at < now().
PastDue == {o \in Order : orders[o].status = "pending" /\ orders[o].expires < now}

\* The UPDATE of ExpirePastDue starts on the rows its snapshot selects.
ExpirePastDue ==
    /\ ~ sweep.running /\ Ready(Sweeper)
    /\ PastDue # {}
    /\ sweep' = [running |-> TRUE, todo |-> PastDue]
    /\ UNCHANGED <<tables, lock, now, handlerVars, request>>

Mutant_ExpireRow(o) ==
    /\ o \in sweep.todo
    /\ lock[o] = NULL
    /\ sweep' = [sweep EXCEPT !.todo = @ \ {o}]
    /\ lock'  = [lock EXCEPT ![o] = Sweeper]
    /\ UNCHANGED <<tables, now, handlerVars, request>>

\* It visits a row: it waits for a lock on it, then looks at it again, and
\* updates it (uncommitted) only if it is still pending.
ExpireRow(o) ==
    /\ o \in sweep.todo
    /\ lock[o] = NULL
    /\ sweep' = [sweep EXCEPT !.todo = @ \ {o}]
    /\ lock'  = IF orders[o].status = "pending"
                THEN [lock EXCEPT ![o] = Sweeper] ELSE lock
    /\ UNCHANGED <<tables, now, handlerVars, request>>

Expiring == {o \in Order : lock[o] = Sweeper}

ExpireCommit ==
    /\ sweep.running /\ sweep.todo = {}
    /\ orders' = [o \in Order |-> IF o \in Expiring
                                  THEN [orders[o] EXCEPT !.status = "expired"]
                                  ELSE orders[o]]
    /\ Log(Sweeper, {Entry("order_expired", o, NULL) : o \in Expiring})
    /\ lock'  = Unlocked(Sweeper)
    /\ sweep' = [running |-> FALSE, todo |-> {}]
    /\ UNCHANGED <<reviews, now, handlerVars, request>>

\* The statement fails and is rolled back; the next tick starts over.
ExpireFails ==
    /\ StatementFaults
    /\ sweep.running
    /\ lock'  = Unlocked(Sweeper)
    /\ sweep' = [running |-> FALSE, todo |-> {}]
    /\ UNCHANGED <<tables, now, handlerVars, request>>

Tick ==
    /\ now < MaxTime
    /\ now' = now + 1
    /\ UNCHANGED <<tables, lock, handlerVars, request, sweep>>

-----------------------------------------------------------------------------
(* The specification *)

\* The watchers deliver at least once, in any order of the counts.
Events == {[tx |-> t, amount |-> TxAmount[t], confirmations |-> n] :
             t \in Tx, n \in 0..MaxConfirmations}

HandlerStep(h) ==
    \/ UpdateConfirmations(h) \/ TxAlreadyClaimed(h) \/ ClaimExactMatch(h)
    \/ ClaimUnderpaid(h) \/ MarkUnderpaid(h) \/ Rollback(h) \/ LogReviewItem(h)
    \/ AuditInsert(h)

CreatorStep(c) ==
    \/ \E offset \in OffsetMin..OffsetMax :
         InsertCollides(c, offset) \/ \E o \in Order : InsertOrder(c, o, offset)
    \/ CreateFails(c)
    \/ AuditInsert(c)

ExpiryStep ==
    \/ ExpirePastDue \/ (\E o \in Order : ExpireRow(o)) \/ ExpireCommit
    \/ AuditInsert(Sweeper)

Next ==
    \/ \E c \in Creator : \/ \E chain \in Chain, base \in BaseAmounts : CreateOrder(c, chain, base)
                          \/ CreatorStep(c)
    \/ \E h \in Handler : \/ \E ev \in Events : OnTransfer(h, ev)
                          \/ HandlerStep(h)
                          \/ StatementFails(h)
    \/ ExpiryStep
    \/ ExpireFails
    \/ Tick

Spec == Init /\ [][Next]_vars

-----------------------------------------------------------------------------
(* Properties *)

\* Type invariant: what the columns of the tables and the local state hold.
TypeOK ==
    /\ orders \in [Order -> Row]
    /\ reviews \in [Tx -> Review \cup {NULL}]
    /\ audit \subseteq AuditEntry
    /\ owed \in [Actor -> SUBSET AuditEntry]
    /\ lock \in [Order -> Handler \cup {Sweeper, NULL}]
    /\ now \in Nat
    /\ pc \in [Handler -> Statement \cup {"idle"}]
    /\ call \in [Handler -> TransferEvent \cup {NULL}]
    /\ best \in [Handler -> Order \cup {NULL}]
    /\ request \in [Creator -> Request \cup {NULL}]
    /\ sweep \in [running: BOOLEAN, todo: SUBSET Order]

\* No two pending orders of a chain share an expected_amount, however the
\* attempts of concurrent creators, claims and expiry interleave
\* (CreateWithUniqueAmount and idx_orders_chain_pending_amount).
PendingAmountsDistinct ==
    \A o, p \in Order :
        /\ orders[o].status = "pending" /\ orders[p].status = "pending"
        /\ orders[o].chain = orders[p].chain
        /\ orders[o].expected = orders[p].expected
        => o = p

\* A transfer pays for at most one order, even when two calls of OnTransfer
\* for it interleave after both saw it unclaimed (idx_orders_chain_txhash).
TxClaimedOnce ==
    \A o, p \in Order : orders[o].tx # NULL /\ orders[o].tx = orders[p].tx => o = p

\* An order is credited only by a transfer of its own chain whose amount is
\* within tolerance of what it expects (ClaimExactMatch).
CreditSound ==
    \A o \in Order : orders[o].status \in {"confirming", "confirmed"} =>
        LET t == orders[o].tx IN
        /\ t # NULL
        /\ TxChain[t] = orders[o].chain
        /\ orders[o].received = TxAmount[t]
        /\ WithinTolerance(orders[o].expected, TxAmount[t])

\* An order stands at "confirmed" exactly when its count reached what it
\* required at creation, and only then has it a confirmed_at.
ConfirmedAtThreshold ==
    \A o \in Order : orders[o].status \in {"confirming", "confirmed"} =>
        /\ (orders[o].status = "confirmed")
             <=> (orders[o].confirmations >= orders[o].required)
        /\ (orders[o].status = "confirmed") <=> (orders[o].confirmedAt # NULL)

\* An order is marked underpaid only by a smaller transfer of its own chain,
\* within the configured gap (ClaimUnderpaid).
ShortfallSound ==
    \A o \in Order : orders[o].status = "underpaid" =>
        LET t == orders[o].tx IN
        /\ t # NULL
        /\ TxChain[t] = orders[o].chain
        /\ TxAmount[t] < orders[o].expected
        /\ ~ GapTooLarge(orders[o].expected, TxAmount[t])

\* Money is never attached to an order that is not, or no longer, awaiting
\* or holding it: pending and expired orders carry no transfer, so an order
\* with a transfer in flight never expires (ExpirePastDue against claims).
UnpaidHoldNothing ==
    \A o \in Order : orders[o].status \in {"absent", "pending", "expired"} =>
        orders[o].tx = NULL /\ orders[o].received = NULL

\* An 'underpaid' review item names the order that this very transfer
\* underpaid, and an 'unmatched' one names none (LogReviewItem).
ReviewNamesOrder ==
    \A t \in Tx : reviews[t] # NULL =>
        IF reviews[t].reason = "underpaid"
        THEN /\ reviews[t].order # NULL
             /\ orders[reviews[t].order].status = "underpaid"
             /\ orders[reviews[t].order].tx = t
        ELSE reviews[t].order = NULL

\* A row lock that outlives a statement belongs to a transaction that is
\* still open, on a row that is still pending; none leaks on an error path
\* (the deferred Rollback of ClaimUnderpaid).
LocksBelongToTransactions ==
    \A o \in Order : lock[o] # NULL =>
        /\ orders[o].status = "pending"
        /\ IF lock[o] = Sweeper THEN sweep.running ELSE pc[lock[o]] \in {"mark", "rollback"}

\* What the log should say of order o.
History(o) ==
    LET row == orders[o] IN
    (IF row.status = "absent" THEN {} ELSE {Entry("order_created", o, NULL)})
      \cup (IF row.status \in {"confirming", "confirmed"}
            THEN {Entry("order_matched", o, row.tx),
                  Entry("order_confirmation_progress", o, row.tx)} ELSE {})
      \cup (IF row.status = "confirmed" THEN {Entry("order_confirmed", o, row.tx)} ELSE {})
      \cup (IF row.status = "underpaid" THEN {Entry("order_underpaid", o, row.tx)} ELSE {})
      \cup (IF row.status = "expired"   THEN {Entry("order_expired", o, NULL)} ELSE {})

\* The log, and what its writers have still to insert.
Trail == audit \cup UNION {owed[a] : a \in Actor}

\* With audit inserts that succeed, the log and what its writers have still to
\* insert tell every state each order has gone through and nothing that did
\* not happen, however the inserts of several actors interleave with later
\* changes of the row; and by the time a transfer is attributed the log itself
\* has it as observed (the audit.Log calls of Service).
AuditTrail ==
    /\ {e \in Trail : e.order # NULL} = UNION {History(o) : o \in Order}
    /\ \A o \in Order : orders[o].tx # NULL =>
           Entry("transfer_observed", NULL, orders[o].tx) \in audit

\* A finished order never changes again: no late, duplicate or reordered
\* event, claim or expiry touches it.
FinalRowsFrozen ==
    [][\A o \in Order : orders[o].status \in Final => orders'[o] = orders[o]]_vars

\* Events arrive in any order, yet the count an order shows never falls and
\* the transfer it is attributed to never changes.
ProgressNeverRegresses ==
    [][\A o \in Order : orders[o].tx # NULL =>
          /\ orders'[o].tx = orders[o].tx
          /\ orders'[o].confirmations >= orders[o].confirmations]_vars

\* A pending order expected exactly this amount is the one credited with it:
\* amounts tell orders apart (ClaimExactMatch under the tolerance).
AmountIdentifiesOrder ==
    [][\A o \in Order :
          orders[o].status = "pending" /\ orders'[o].status \in {"confirming", "confirmed"} =>
              \A p \in Claimable(orders[o].chain) :
                  orders[p].expected = orders'[o].received => p = o]_vars

\* An underpayment goes to the closest order it falls short of: among the
\* candidate rows of the query none has a smaller expected_amount
\* (the loop of ClaimUnderpaid).
UnderpaysClosest ==
    [][\A h \in Handler : best[h] = NULL /\ best'[h] # NULL =>
          \A p \in Shortfalls(h) : orders[best'[h]].expected <= orders[p].expected]_vars

\* An order whose time has passed does not stay pending: it expires, unless
\* a transfer gets there first (RunExpiryLoop).
PastDueLeavesPending ==
    \A o \in Order :
        (orders[o].status = "pending" /\ orders[o].expires < now)
            ~> (orders[o].status # "pending")

-----------------------------------------------------------------------------
(* Refinement *)

\* Every run of the service is a run of the settlement it promises: each
\* statement either changes nothing there or makes one of its moves, and a
\* batch expires at once (Repository, against its three kinds of writers).
Promise == INSTANCE Settlement WITH
               status <- [o \in Order |-> orders[o].status],
               paidBy <- [o \in Order |-> orders[o].tx]
Settles == Promise!Spec
=============================================================================
