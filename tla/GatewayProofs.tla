--------------------------- MODULE GatewayProofs ---------------------------
(***************************************************************************)
(* Proofs about Gateway: what the orders service and the EVM watcher keep  *)
(* to when they run together, through crashes and restarts, for any number *)
(* of orders, transfers, blocks, lagging nodes and crashes.                *)
(***************************************************************************)
EXTENDS Gateway, OrdersProofs

-----------------------------------------------------------------------------
(* The helpers of the watcher *)

\* What the watcher computes with Max and Min, which choose from a set.
LEMMA MaxOfTwo ==
    ASSUME NEW a \in Int, NEW b \in Int
    PROVE  W!Max({a, b}) = IF a >= b THEN a ELSE b
  <1> DEFINE m == IF a >= b THEN a ELSE b
  <1>1. m \in {a, b} /\ \A y \in {a, b} : m >= y
    OBVIOUS
  <1>2. \A x \in {a, b} : (\A y \in {a, b} : x >= y) => x = m
    OBVIOUS
  <1> HIDE DEF m
  <1>3. W!Max({a, b}) \in {a, b} /\ \A y \in {a, b} : W!Max({a, b}) >= y
    BY <1>1 DEF W!Max
  <1>4. W!Max({a, b}) = m
    BY <1>2, <1>3
  <1> QED BY <1>4 DEF m

\* The other half of the same.
LEMMA MinOfTwo ==
    ASSUME NEW a \in Int, NEW b \in Int
    PROVE  W!Min({a, b}) = IF a <= b THEN a ELSE b
  <1> DEFINE m == IF a <= b THEN a ELSE b
  <1>1. m \in {a, b} /\ \A y \in {a, b} : m <= y
    OBVIOUS
  <1>2. \A x \in {a, b} : (\A y \in {a, b} : x <= y) => x = m
    OBVIOUS
  <1> HIDE DEF m
  <1>3. W!Min({a, b}) \in {a, b} /\ \A y \in {a, b} : W!Min({a, b}) <= y
    BY <1>1 DEF W!Min
  <1>4. W!Min({a, b}) = m
    BY <1>2, <1>3
  <1> QED BY <1>4 DEF m

\* emit never reports a negative count, and none above the depth it sees.
LEMMA ConfirmationsOf ==
    ASSUME latest \in Nat, NEW b \in Nat
    PROVE  /\ W!Confirmations(b) \in Nat
           /\ W!Confirmations(b) = IF latest >= b THEN latest - b + 1 ELSE 0
  <1>1. latest - b + 1 \in Int
    OBVIOUS
  <1>2. W!Confirmations(b) = IF latest - b + 1 >= 0 THEN latest - b + 1 ELSE 0
    BY <1>1, MaxOfTwo DEF W!Confirmations, W!Depth
  <1> QED BY <1>1, <1>2

-----------------------------------------------------------------------------
(* The poll cycle and the call of its sink *)

\* What emit computes for the event at hand.
CountAtHand == W!Confirmations(sending.height)

SentEvent == [tx: Tx, height: 1..MaxHead, confirmations: Nat]

\* The strengthening that makes the types of the watcher inductive: nobody is
\* ahead of the chain, a scan stands where its loop says, and while the sink
\* works it works on the event at hand.
CycleOK ==
    /\ latest <= head /\ cursor <= head
    /\ stage = "logs" => from <= latest
    /\ stage = "save" => from = latest + 1
    /\ \A t \in Tx : block[t] <= head /\ pending[t] <= head
    /\ \A t \in items : pending[t] # 0
    /\ stage \in {"down", "idle"} => items = {}
    /\ stage = "sink" =>
         /\ sending \in SentEvent
         /\ sending.height = pending[sending.tx]
         /\ sending.confirmations = CountAtHand

\* OnTransfer runs inside emit and nowhere else.
SinkCallOK ==
    /\ \A h \in Handler : h # Worker => pc[h] = "idle"
    /\ pc[Worker] # "idle" =>
         /\ stage = "sink"
         /\ call[Worker].tx = sending.tx
         /\ call[Worker].confirmations = sending.confirmations
    /\ ~ Ready(Worker) => stage = "sink"

HeightsOK ==
    /\ height \in [Tx -> 0..MaxHead] /\ crashes \in 0..MaxCrashes
    /\ \A t \in Tx : height[t] <= head

CycleInv == W!TypeOK /\ HeightsOK /\ CycleOK /\ SinkCallOK

\* All is quiet when the gateway starts.
LEMMA InitCycleInv == GInit => CycleInv
  BY OrdersAssumption, GatewayAssumption
  DEF GInit, Init, W!EVMInit, CycleInv, W!TypeOK, W!Stage, HeightsOK, CycleOK, SinkCallOK, Ready,
      Actor

-----------------------------------------------------------------------------
(* The steps of the gateway are steps of the service, or the process dies *)

\* The event of a report, and what it does to the handler of the watcher.
LEMMA ReportCalls ==
    ASSUME TypeInv, CycleInv, NEW t \in Tx, Report(t)
    PROVE  LET ev == [tx |-> t, amount |-> TxAmount[t],
                      confirmations |-> W!Confirmations(pending[t])] IN
           /\ ev \in TrueEvent
           /\ OnTransfer(Worker, ev)
           /\ call' = [call EXCEPT ![Worker] = ev]
           /\ pc' = [pc EXCEPT ![Worker] = "update"]
  <1>1. pending[t] \in Nat /\ latest \in Nat
    BY DEF CycleInv, W!TypeOK
  <1>2. TxAmount[t] \in Nat /\ W!Confirmations(pending[t]) \in Nat
    BY <1>1, OrdersAssumption, ConfirmationsOf
  <1> QED BY <1>2 DEF Report, OnTransfer, Goto, TrueEvent, TransferEvent

\* So whatever is shown of every Step holds of the gateway between crashes.
LEMMA StepOrDie ==
    ASSUME TypeInv, CycleInv, [GNext]_gvars
    PROVE  [Step]_vars \/ Die
  <1>1. Watched \in Chain /\ Worker \in Handler
    BY GatewayAssumption
  <1>2. CASE Running /\ ServiceStep
    BY <1>1, <1>2 DEF ServiceStep, Step, Next
  <1>3. CASE Tick
    BY <1>3 DEF Step, Next
  <1>4. ASSUME NEW t \in Tx, Report(t) PROVE Step
    BY <1>1, <1>4, ReportCalls DEF Step
  <1>5. CASE Call
    BY <1>1, <1>5 DEF Call, Step, Next
  <1>6. CASE UNCHANGED vars
    BY <1>6
  <1>7. CASE UNCHANGED gvars
    BY <1>7 DEF gvars
  <1>8. CASE Reported \/ Recover
    BY <1>8 DEF Reported, Recover
  <1> QED BY <1>2, <1>3, <1>4, <1>5, <1>6, <1>7, <1>8 DEF GNext

\* A crash leaves the tables and no open transaction.
LEMMA DieKeepsTables ==
    ASSUME TypeInv, LockInv, MoneyInv, Die
    PROVE  TypeInv' /\ LockInv' /\ MoneyInv'
  <1>1. TypeInv'
    BY OrdersAssumption DEF TypeInv, TypeOK, WorkOK, Die
  <1>2. LockInv'
    BY OrdersAssumption DEF LockInv, LocksBelongToTransactions, PickedOK, Die
  <1>3. MoneyInv'
    BY DEF MoneyInv, UnpaidHoldNothing, TxClaimedOnce, PendingAmountsDistinct,
           ConfirmedAtThreshold, CreditSound, ShortfallSound, Die
  <1> QED BY <1>1, <1>2, <1>3

ServiceInv == TypeInv /\ LockInv /\ MoneyInv

\* No step of the gateway, a crash included, breaks the money invariants.
LEMMA StepServiceInv ==
    ASSUME ServiceInv, CycleInv, [GNext]_gvars
    PROVE  ServiceInv'
  BY StepOrDie, DieKeepsTables, StepTypeInv, StepLockInv, StepMoneyInv DEF ServiceInv

-----------------------------------------------------------------------------
(* Type correctness *)

\* The statements of the call run while the sink works.
LEMMA CallInSink ==
    ASSUME CycleInv, Call
    PROVE  stage = "sink" /\ sending \in SentEvent
  <1>1. pc[Worker] # "idle" \/ ~ Ready(Worker)
    BY DEF Call, HandlerStep, UpdateConfirmations, TxAlreadyClaimed, ClaimExactMatch,
           ClaimUnderpaid, MarkUnderpaid, Rollback, LogReviewItem, AuditInsert, Ready,
           StatementFails
  <1> QED BY <1>1 DEF CycleInv, SinkCallOK, CycleOK

\* What the statements do to the handler of the watcher: the event stays.
LEMMA CallKeepsEvent ==
    ASSUME TypeInv, Call
    PROVE  /\ \A h \in Handler : h # Worker => pc'[h] = pc[h]
           /\ pc'[Worker] = "idle" \/ (pc[Worker] # "idle" /\ call'[Worker] = call[Worker])
           /\ UNCHANGED <<watcher, crashes>>
  <1>0. /\ Worker \in Handler /\ pc \in [Handler -> Statement \cup {"idle"}]
        /\ call \in [Handler -> TransferEvent \cup {NULL}]
    BY GatewayAssumption DEF TypeInv, TypeOK
  <1>1. CASE HandlerStep(Worker)
    <2>1. \/ Return(Worker) \/ UNCHANGED <<pc, call>>
          \/ pc[Worker] # "idle" /\ \E s \in Statement : Goto(Worker, s) /\ UNCHANGED call
      BY <1>1 DEF HandlerStep, UpdateConfirmations, TxAlreadyClaimed, ClaimExactMatch,
                  ClaimUnderpaid, MarkUnderpaid, Rollback, LogReviewItem, AuditInsert,
                  handlerVars, Statement
    <2> QED BY <1>0, <2>1 DEF Return, Goto, Call
  <1>2. CASE StatementFails(Worker)
    BY <1>0, <1>2 DEF StatementFails, Return, Call
  <1> QED BY <1>1, <1>2 DEF Call

\* The steps that leave the watcher and the handlers alone.
LEMMA ServiceKeepsWatcher ==
    ASSUME \/ Running /\ ServiceStep /\ UNCHANGED <<watcher, height, crashes>>
           \/ Tick /\ UNCHANGED <<watcher, height, crashes>>
           \/ UNCHANGED gvars
    PROVE  UNCHANGED <<watcher, height, crashes, handlerVars, reviews>>
  BY DEF ServiceStep, CreateOrder, CreatorStep, InsertCollides, InsertOrder, CreateFails,
         AuditInsert, ExpiryStep, ExpirePastDue, ExpireRow, ExpireCommit, ExpireFails, Tick,
         handlerVars, tables, gvars, vars

\* Nor do they owe for the handler of the watcher.
LEMMA ServiceKeepsOwed ==
    ASSUME TypeInv,
           \/ Running /\ ServiceStep /\ UNCHANGED <<watcher, height, crashes>>
           \/ Tick /\ UNCHANGED <<watcher, height, crashes>>
           \/ UNCHANGED gvars
    PROVE  owed'[Worker] = owed[Worker]
  <1>0. /\ owed \in [Actor -> SUBSET AuditEntry] /\ Worker \in Actor
        /\ Worker \notin Creator /\ Worker # Sweeper
    BY OrdersAssumption, GatewayAssumption DEF TypeInv, TypeOK, Actor
  <1>1. ASSUME NEW c \in Creator, CreatorStep(c) PROVE owed'[Worker] = owed[Worker]
    BY <1>0, <1>1 DEF CreatorStep, InsertCollides, InsertOrder, CreateFails, AuditInsert, Log, tables
  <1>2. CASE ExpiryStep
    BY <1>0, <1>2 DEF ExpiryStep, ExpirePastDue, ExpireRow, ExpireCommit, AuditInsert, Log, tables
  <1>3. CASE \/ \E c \in Creator, base \in BaseAmounts : CreateOrder(c, Watched, base)
             \/ ExpireFails \/ Tick \/ UNCHANGED gvars
    BY <1>3 DEF CreateOrder, ExpireFails, Tick, tables, gvars, vars
  <1> QED BY <1>1, <1>2, <1>3 DEF ServiceStep

\* The chain grows or has its last blocks replaced.
LEMMA ChainKeepsCycle ==
    ASSUME CycleInv, W!ChainStep, UNCHANGED <<vars, height, crashes>>
    PROVE  CycleInv'
  <1>0. MaxHead \in Nat /\ ReorgDepth \in Nat
    BY GatewayAssumption
  <1>1. /\ W!TypeOK' /\ UNCHANGED <<cursor, stage, latest, from, pending, items, sending>>
        /\ head <= head' /\ \A t \in Tx : block'[t] <= head'
    <2>1. CASE \E S \in SUBSET Tx : W!Mine(S)
      BY <1>0, <2>1 DEF W!Mine, W!watcherVars, CycleInv, CycleOK, W!TypeOK
    <2>2. CASE \E t \in Tx, b \in 0..MaxHead : W!Reorg(t, b)
      BY <1>0, <2>2 DEF W!Reorg, W!watcherVars, CycleInv, CycleOK, W!TypeOK
    <2> QED BY <2>1, <2>2 DEF W!ChainStep
  <1>2. CountAtHand' = CountAtHand
    BY <1>1 DEF CountAtHand, W!Confirmations, W!Depth
  <1>3. CycleOK'
    BY <1>1, <1>2 DEF CycleInv, CycleOK, W!TypeOK
  <1>4. HeightsOK' /\ SinkCallOK'
    BY <1>1 DEF CycleInv, HeightsOK, SinkCallOK, Ready, vars, W!TypeOK
  <1> QED BY <1>1, <1>3, <1>4 DEF CycleInv

\* The last block of a batch is one of those to scan.
LEMMA BatchIsInRange ==
    ASSUME CycleInv, stage = "logs"
    PROVE  W!BatchEnd \in from..latest
  <1>1. /\ from \in Nat /\ latest \in Int /\ from <= latest
        /\ from + BatchBlocks - 1 \in Int /\ from <= from + BatchBlocks - 1
    BY GatewayAssumption DEF CycleInv, CycleOK, W!TypeOK
  <1>2. W!BatchEnd = IF from + BatchBlocks - 1 <= latest THEN from + BatchBlocks - 1 ELSE latest
    BY <1>1, MinOfTwo DEF W!BatchEnd
  <1> QED BY <1>1, <1>2

\* The first block to scan is a height.
LEMMA NextFromIsHeight ==
    ASSUME CycleInv
    PROVE  W!NextFrom \in 0..(MaxHead + 1)
  <1>1. /\ cursor \in 0..MaxHead /\ latest \in 0..MaxHead /\ MaxHead \in Nat
        /\ latest - Lookback \in Int /\ latest - Lookback <= MaxHead
    BY GatewayAssumption DEF CycleInv, W!TypeOK
  <1>2. W!Max({latest - Lookback, 0}) \in 0..MaxHead
    BY <1>1, MaxOfTwo
  <1> QED BY <1>1, <1>2 DEF W!NextFrom

\* A poll cycle keeps to its stages and its range.
LEMMA ScanKeepsCycle ==
    ASSUME CycleInv, W!ScanStep, UNCHANGED <<vars, height, crashes>>
    PROVE  CycleInv'
  <1> DEFINE Scans == W!TypeOK' /\ CycleOK' /\ stage' # "sink" /\ stage # "sink" /\ head' = head
  <1>0. MaxHead \in Nat /\ head \in Nat /\ head <= MaxHead
    BY GatewayAssumption DEF CycleInv, W!TypeOK
  <1>1. ASSUME NEW n \in W!Nodes, W!Poll(n) PROVE Scans
    <2>1. n \in Nat /\ n <= head
      BY <1>0 DEF W!Nodes
    <2> QED BY <1>0, <1>1, <2>1 DEF W!Poll, W!chainVars, CycleInv, W!TypeOK, W!Stage, CycleOK
  <1>2. ASSUME NEW n \in W!Nodes, W!GetLogs(n) PROVE Scans
    <2>1. W!BatchEnd \in Nat /\ W!BatchEnd <= latest
      BY <1>2, BatchIsInRange DEF W!GetLogs, CycleInv, W!TypeOK
    <2>2. /\ stage = "logs" /\ from' = W!BatchEnd + 1
          /\ stage' = (IF W!BatchEnd = latest THEN "save" ELSE "logs")
          /\ UNCHANGED <<head, block, cursor, latest, items, sending>>
          /\ \A t \in Tx : (pending'[t] = block[t] /\ block[t] # 0) \/ pending'[t] = pending[t]
          /\ pending' \in [Tx -> 0..MaxHead]
      BY <1>2 DEF W!GetLogs, W!chainVars, CycleInv, W!TypeOK
    <2>3. W!TypeOK /\ CycleOK
      BY DEF CycleInv
    <2>4. W!TypeOK'
      <3>1. from' \in 0..(MaxHead + 1)
        BY <1>0, <2>1, <2>2, <2>3 DEF W!TypeOK
      <3>2. stage' \in W!Stage
        BY <2>2 DEF W!Stage
      <3> QED BY <2>2, <2>3, <3>1, <3>2 DEF W!TypeOK
    <2>5. CycleOK'
      BY <1>0, <2>1, <2>2, <2>3 DEF CycleOK, W!TypeOK
    <2> QED BY <2>2, <2>4, <2>5
  <1>3. ASSUME W!LoadCursor PROVE Scans
    BY <1>0, <1>3, NextFromIsHeight
    DEF W!LoadCursor, W!BeginRefresh, W!chainVars, CycleInv, W!TypeOK, W!Stage, CycleOK
  <1>4. ASSUME W!GetLogsFails PROVE Scans
    BY <1>0, <1>4
    DEF W!GetLogsFails, W!BeginRefresh, W!chainVars, CycleInv, W!TypeOK, W!Stage, CycleOK
  <1>5. ASSUME W!SaveCursor PROVE Scans
    BY <1>0, <1>5
    DEF W!SaveCursor, W!BeginRefresh, W!chainVars, CycleInv, W!TypeOK, W!Stage, CycleOK
  <1>6. ASSUME W!EndPoll PROVE Scans
    BY <1>0, <1>6 DEF W!EndPoll, W!chainVars, CycleInv, W!TypeOK, W!Stage, CycleOK
  <1> HIDE DEF Scans
  <1>7. Scans
    BY <1>1, <1>2, <1>3, <1>4, <1>5, <1>6 DEF W!ScanStep
  <1>8. HeightsOK' /\ SinkCallOK'
    BY <1>7 DEF Scans, CycleInv, HeightsOK, SinkCallOK, Ready, vars
  <1> QED BY <1>7, <1>8 DEF Scans, CycleInv

\* What emit hands over is what the cycle has at hand.
LEMMA ReportKeepsCycle ==
    ASSUME TypeInv, CycleInv, NEW t \in Tx, Report(t)
    PROVE  CycleInv'
  <1> DEFINE c == W!Confirmations(pending[t])
             e == [tx |-> t, height |-> pending[t], confirmations |-> c]
  <1>1. W!Emit(t) /\ c \in Nat
    BY ReportCalls DEF Report, TrueEvent, TransferEvent
  <1>2. /\ sending' = e /\ stage' = "sink" /\ stage = "refresh"
        /\ UNCHANGED <<head, block, cursor, latest, from, pending, items>>
        /\ UNCHANGED <<height, crashes>>
    BY <1>1 DEF W!Emit, W!chainVars, Report
  <1>3. CountAtHand' = c
    BY <1>2 DEF CountAtHand, W!Confirmations, W!Depth
  <1> HIDE DEF c
  <1>4. pending[t] \in 1..MaxHead
    BY <1>1, GatewayAssumption DEF W!Emit, CycleInv, CycleOK, W!TypeOK
  <1>5. sending' \in SentEvent
    BY <1>1, <1>2, <1>4 DEF SentEvent
  <1>6. W!TypeOK'
    BY <1>1, <1>2, <1>4 DEF CycleInv, W!TypeOK, W!Stage
  <1>7. sending'.height = pending'[sending'.tx] /\ sending'.confirmations = c
    BY <1>2
  <1>8. CycleOK'
    BY <1>2, <1>3, <1>5, <1>7 DEF CycleInv, CycleOK
  <1>9. SinkCallOK'
    <2>1. Worker \in Handler /\ pc \in [Handler -> Statement \cup {"idle"}]
          /\ call \in [Handler -> TransferEvent \cup {NULL}]
      BY GatewayAssumption DEF TypeInv, TypeOK
    <2>2. /\ pc' = [pc EXCEPT ![Worker] = "update"]
          /\ call' = [call EXCEPT ![Worker] = [tx |-> t, amount |-> TxAmount[t],
                                               confirmations |-> c]]
      BY ReportCalls DEF c
    <2>3. call'[Worker].tx = t /\ call'[Worker].confirmations = c
          /\ \A h \in Handler : h # Worker => pc'[h] = pc[h]
      BY <2>1, <2>2
    <2> QED BY <1>2, <2>3 DEF CycleInv, SinkCallOK
  <1> QED BY <1>2, <1>6, <1>8, <1>9 DEF CycleInv, HeightsOK

\* The statements of the call leave the watcher where it is.
LEMMA CallKeepsCycle ==
    ASSUME TypeInv, CycleInv, Call
    PROVE  CycleInv'
  <1>1. /\ stage = "sink" /\ sending \in SentEvent
        /\ UNCHANGED <<head, block, cursor, stage, latest, from, pending, items, sending, crashes>>
    BY CallInSink, CallKeepsEvent DEF watcher
  <1>2. W!TypeOK'
    BY <1>1 DEF CycleInv, W!TypeOK
  <1>3. HeightsOK'
    <2>1. sending.height \in 0..MaxHead /\ sending.height <= head
      BY <1>1 DEF SentEvent, CycleInv, CycleOK
    <2> QED BY <1>1, <2>1 DEF Call, CycleInv, HeightsOK
  <1>4. CountAtHand' = CountAtHand
    BY <1>1 DEF CountAtHand, W!Confirmations, W!Depth
  <1>5. CycleOK'
    BY <1>1, <1>4 DEF CycleInv, CycleOK
  <1>6. SinkCallOK'
    BY <1>1, CallKeepsEvent DEF CycleInv, SinkCallOK
  <1> QED BY <1>2, <1>3, <1>5, <1>6 DEF CycleInv

\* emit comes back, and forgets the transfer or not.
LEMMA ReportedKeepsCycle ==
    ASSUME CycleInv, Reported
    PROVE  CycleInv'
  <1>1. /\ stage = "sink" /\ stage' = "refresh" /\ sending' = NULL
        /\ items' \subseteq items /\ sending.tx \notin items'
        /\ \A t \in Tx : pending'[t] = pending[t] \/ (pending'[t] = 0 /\ t = sending.tx)
        /\ pending' \in [Tx -> 0..MaxHead]
        /\ UNCHANGED <<head, block, cursor, latest, from, height, crashes, pc, call, owed>>
    <2>1. W!Emitted /\ 0 \in 0..MaxHead /\ UNCHANGED <<height, crashes, pc, call, owed>>
      BY GatewayAssumption DEF Reported, vars
    <2>2. pending \in [Tx -> 0..MaxHead]
      BY DEF CycleInv, W!TypeOK
    <2> QED BY <2>1, <2>2 DEF W!Emitted, W!chainVars
  <1>2. W!TypeOK'
    BY <1>1 DEF CycleInv, W!TypeOK, W!Stage
  <1>3. CycleOK'
    BY <1>1 DEF CycleInv, W!TypeOK, CycleOK
  <1>4. HeightsOK' /\ SinkCallOK'
    BY <1>1 DEF Reported, CycleInv, HeightsOK, SinkCallOK, Ready
  <1> QED BY <1>2, <1>3, <1>4 DEF CycleInv

\* The process ends, or comes up with what it was still to follow.
LEMMA RestartKeepsCycle ==
    ASSUME CycleInv, Die \/ Recover
    PROVE  CycleInv'
  <1>0. MaxHead \in Nat /\ MaxCrashes \in Nat
    BY GatewayAssumption
  <1>1. ASSUME Die PROVE CycleInv'
    BY <1>0, <1>1, GatewayAssumption
    DEF Die, W!Crash, W!chainVars, CycleInv, W!TypeOK, W!Stage, HeightsOK, CycleOK, SinkCallOK,
        Ready, Actor
  <1>2. ASSUME Recover PROVE CycleInv'
    <2>1. Seed \in [Tx -> 0..MaxHead] /\ \A t \in Tx : Seed[t] <= head
      BY <1>0 DEF Seed, CycleInv, HeightsOK, W!TypeOK
    <2>2. /\ stage = "down" /\ stage' = "idle" /\ pending' = Seed
          /\ UNCHANGED <<head, block, cursor, latest, from, items, sending>>
          /\ UNCHANGED <<height, crashes, pc, call, owed>>
      BY <1>2 DEF Recover, W!Restart, W!chainVars, vars
    <2>3. W!TypeOK'
      BY <2>1, <2>2 DEF CycleInv, W!TypeOK, W!Stage
    <2>4. HeightsOK' /\ SinkCallOK'
      BY <2>2 DEF CycleInv, HeightsOK, SinkCallOK, Ready
    <2>5. CycleOK'
      BY <2>1, <2>2 DEF CycleInv, CycleOK
    <2> QED BY <2>3, <2>4, <2>5 DEF CycleInv
  <1> QED BY <1>1, <1>2

\* No step of the gateway leaves the poll cycle in a state it cannot be in.
LEMMA StepCycleInv ==
    ASSUME TypeInv, CycleInv, [GNext]_gvars
    PROVE  CycleInv'
  <1>1. ASSUME UNCHANGED <<watcher, height, crashes, handlerVars>>, owed'[Worker] = owed[Worker]
        PROVE  CycleInv'
    BY <1>1 DEF watcher, handlerVars, CycleInv, W!TypeOK, HeightsOK, CycleOK, SinkCallOK,
                CountAtHand, W!Confirmations, W!Depth, Ready
  <1> QED
    BY <1>1, ServiceKeepsWatcher, ServiceKeepsOwed, ChainKeepsCycle, ScanKeepsCycle, ReportKeepsCycle,
       CallKeepsCycle, ReportedKeepsCycle, RestartKeepsCycle DEF GNext

GatewayInv == ServiceInv /\ CycleInv

\* Both hold throughout.
LEMMA GatewayInvariant == GSpec => []GatewayInv
  <1>1. GInit => GatewayInv
    BY InitTypeInv, InitLockInv, InitMoneyInv, InitCycleInv DEF GInit, GatewayInv, ServiceInv
  <1>2. GatewayInv /\ [GNext]_gvars => GatewayInv'
    BY StepServiceInv, StepCycleInv DEF GatewayInv, ServiceInv
  <1> QED BY <1>1, <1>2, PTL DEF GSpec

\* Tables, handlers, cycle and cursor keep their types, and the counts handed
\* to the sink are never negative, whichever node answered (emit).
THEOREM GatewayTypes == GSpec => []GatewayTypeOK
  <1>1. GatewayInv => GatewayTypeOK
    BY DEF GatewayInv, ServiceInv, TypeInv, CycleInv, HeightsOK, GatewayTypeOK
  <1> QED BY <1>1, GatewayInvariant, PTL

\* What orders are credited with stays sound in the whole gateway, wherever a
\* crash cuts a call short: one transfer pays one order, within tolerance.
THEOREM MoneySurvivesCrashes == GSpec => [](TxClaimedOnce /\ CreditSound /\ UnpaidHoldNothing)
  <1>1. GatewayInv => TxClaimedOnce /\ CreditSound /\ UnpaidHoldNothing
    BY DEF GatewayInv, ServiceInv, MoneyInv
  <1> QED BY <1>1, GatewayInvariant, PTL

-----------------------------------------------------------------------------
(* What a step does to one order *)

\* An order without a transfer has no confirmations, and one of the table
\* requires what its chain does.
RowsOK ==
    \A o \in Order :
        /\ orders[o].tx = NULL => orders[o].confirmations = 0
        /\ orders[o].status # "absent" => orders[o].required = Required[orders[o].chain]

\* It is opened, expires, or stays without a transfer.
StaysFree(o) ==
    /\ orders[o].tx = NULL /\ orders'[o].tx = NULL
    /\ orders'[o].confirmations = 0
    /\ orders'[o].status \in {"pending", "expired"}
    /\ orders'[o].required = Required[orders'[o].chain]

\* The transfer of the call, which it already has, counts further.
CountsOn(o) ==
    LET ev == call[Worker] IN
    /\ pc[Worker] # "idle"
    /\ orders[o].tx = ev.tx /\ orders'[o].tx = ev.tx
    /\ orders'[o].confirmations = ev.confirmations
    /\ orders[o].status = "confirming"
    /\ orders'[o].status = StatusAt(orders[o], ev.confirmations)
    /\ orders'[o].required = orders[o].required /\ orders'[o].chain = orders[o].chain

\* The transfer of the call, which no order has, becomes its own.
IsAttributed(o) ==
    LET ev == call[Worker] IN
    /\ pc[Worker] # "idle"
    /\ orders[o].tx = NULL /\ orders'[o].tx = ev.tx /\ ~ Claimed(ev.tx)
    /\ \/ /\ orders'[o].confirmations = ev.confirmations
          /\ orders'[o].status = StatusAt(orders[o], ev.confirmations)
       \/ orders'[o].confirmations = 0 /\ orders'[o].status = "underpaid"
    /\ orders[o].status = "pending"
    /\ orders'[o].required = orders[o].required /\ orders'[o].chain = orders[o].chain

\* Outside the calls of the sink, orders are opened and expire.
LEMMA FreeRows ==
    ASSUME ServiceInv, RowsOK, ServiceStep \/ Tick, NEW o \in Order
    PROVE  orders'[o] = orders[o] \/ StaysFree(o)
  <1>0. /\ orders \in [Order -> Row] /\ LocksBelongToTransactions /\ UnpaidHoldNothing
        /\ Required \in [Chain -> Nat]
    BY OrdersAssumption DEF ServiceInv, TypeInv, TypeOK, LockInv, MoneyInv
  <1>1. ASSUME NEW p \in Order, Opens(p) PROVE orders'[o] = orders[o] \/ StaysFree(o)
    <2>1. PICK chain \in Chain, expected \in Nat :
            /\ orders[p].status = "absent"
            /\ orders' = [orders EXCEPT ![p] = NewRow(chain, expected)]
      BY <1>1 DEF Opens
    <2>2. LET row == NewRow(chain, expected) IN
          /\ row.tx = NULL /\ row.confirmations = 0 /\ row.status = "pending"
          /\ row.chain = chain /\ row.required = Required[chain]
      BY DEF NewRow, NoRow
    <2> QED BY <1>0, <2>1, <2>2 DEF StaysFree, UnpaidHoldNothing
  <1>2. CASE Expires
    <2>1. CASE o \in Expiring
      <3>1. orders[o].status = "pending"
        BY <1>0, <2>1, OrdersAssumption DEF Expiring, LocksBelongToTransactions
      <3>2. orders'[o] = [orders[o] EXCEPT !.status = "expired"] /\ orders[o] \in Row
        BY <1>0, <1>2, <2>1 DEF Expires
      <3>3. orders'[o].tx = orders[o].tx /\ orders'[o].confirmations = orders[o].confirmations
            /\ orders'[o].status = "expired" /\ orders'[o].chain = orders[o].chain
            /\ orders'[o].required = orders[o].required
        BY <3>2 DEF Row
      <3> QED BY <1>0, <3>1, <3>3 DEF StaysFree, UnpaidHoldNothing, RowsOK
    <2> QED BY <1>2, <2>1 DEF Expires
  <1>3. UNCHANGED orders \/ (\E p \in Order : Opens(p)) \/ Expires
    BY ServiceTable, GatewayAssumption DEF ServiceInv, ServiceStep
  <1> QED BY <1>1, <1>2, <1>3

\* Inside, the transfer at hand is counted or attributed.
LEMMA CallRows ==
    ASSUME ServiceInv, RowsOK, Call, NEW o \in Order
    PROVE  orders'[o] = orders[o] \/ CountsOn(o) \/ IsAttributed(o)
  <1>0. /\ orders \in [Order -> Row] /\ LocksBelongToTransactions /\ UnpaidHoldNothing
        /\ Worker \in Handler /\ PickedOK
    BY GatewayAssumption DEF ServiceInv, TypeInv, TypeOK, LockInv, MoneyInv
  <1>2. \/ UNCHANGED orders
        \/ /\ pc[Worker] # "idle"
           /\ \E p \in Order : Advances(p, Worker) \/ Credits(p, Worker) \/ Shorts(p, Worker)
    BY <1>0, HandlerTable DEF Call, ServiceInv
  <1> SUFFICES ASSUME pc[Worker] # "idle"
               PROVE  orders'[o] = orders[o] \/ CountsOn(o) \/ IsAttributed(o)
    BY <1>2
  <1>1. pc[Worker] # "idle" /\ call[Worker] \in TransferEvent
        /\ (pc[Worker] = "mark" => best[Worker] \in Order)
    BY <1>0 DEF ServiceInv, TypeInv, WorkOK
  <1>3. ASSUME NEW p \in Order, Advances(p, Worker)
        PROVE  orders'[o] = orders[o] \/ CountsOn(o)
    BY <1>0, <1>1, <1>3, AdvancedFields DEF Advances, Advancing, CountsOn
  <1>4. ASSUME NEW p \in Order, Credits(p, Worker)
        PROVE  orders'[o] = orders[o] \/ IsAttributed(o)
    BY <1>0, <1>1, <1>4, MatchedFields DEF Credits, Matches, Claimable, IsAttributed
  <1>5. ASSUME NEW p \in Order, Shorts(p, Worker)
        PROVE  orders'[o] = orders[o] \/ IsAttributed(o)
    <2>1. /\ orders[p].status = "pending" /\ orders[p].tx = NULL
      BY <1>0, <1>1, <1>5, OrdersAssumption
      DEF Shorts, PickedOK, LocksBelongToTransactions, UnpaidHoldNothing
    <2>2. Underpaid(orders[p], call[Worker]).confirmations = orders[p].confirmations
          /\ Underpaid(orders[p], call[Worker]).required = orders[p].required
      BY <1>0 DEF Underpaid, Row
    <2>3. orders[p].confirmations = 0
      BY <2>1 DEF RowsOK
    <2> QED BY <1>0, <1>1, <1>5, <2>1, <2>2, <2>3, UnderpaidFields DEF Shorts, IsAttributed
  <1> QED BY <1>2, <1>3, <1>4, <1>5

\* Everything else leaves the table alone.
LEMMA OtherRows ==
    ASSUME [GNext]_gvars, ~ (ServiceStep \/ Tick), ~ Call
    PROVE  UNCHANGED orders
  BY DEF GNext, Report, OnTransfer, Reported, Die, Recover, gvars, vars

-----------------------------------------------------------------------------
(* Heights: a transfer has one exactly when an order has the transfer *)

HeightOK == \A t \in Tx : Claimed(t) <=> height[t] # 0

RowInv == RowsOK /\ HeightOK

\* Only a call of the sink attributes a transfer, and none is taken back.
LEMMA ClaimsChange ==
    ASSUME GatewayInv, RowsOK, [GNext]_gvars, NEW t \in Tx
    PROVE  /\ Claimed(t) => Claimed(t)'
           /\ ~ Claimed(t) /\ Claimed(t)' => Call /\ pc[Worker] # "idle" /\ t = call[Worker].tx
           /\ ~ Call => height'[t] = height[t]
  <1>0. NULL \notin Tx /\ ServiceInv
    BY OrdersAssumption DEF GatewayInv
  <1>1. ~ Call => height' = height
    BY DEF GNext, Report, Reported, Die, Recover, gvars
  <1>2. CASE ServiceStep \/ Tick
    <2>1. \A o \in Order : orders'[o].tx = orders[o].tx
      BY <1>0, <1>2, FreeRows DEF StaysFree
    <2> QED BY <1>1, <2>1 DEF Claimed
  <1>3. CASE Call
    <2>1. \A o \in Order : \/ orders'[o].tx = orders[o].tx
                           \/ /\ pc[Worker] # "idle" /\ orders[o].tx = NULL
                              /\ orders'[o].tx = call[Worker].tx
      BY <1>0, <1>3, CallRows DEF CountsOn, IsAttributed
    <2> QED BY <1>0, <1>3, <2>1 DEF Claimed
  <1>4. CASE ~ (ServiceStep \/ Tick) /\ ~ Call
    BY <1>1, <1>4, OtherRows DEF Claimed
  <1> QED BY <1>2, <1>3, <1>4

\* The event the statements work on is the one at hand.
LEMMA CallEvent ==
    ASSUME GatewayInv, Call
    PROVE  /\ pc[Worker] # "idle" => call[Worker].tx = sending.tx
                                     /\ call[Worker].confirmations = CountAtHand
           /\ sending.tx \in Tx /\ CountAtHand \in Nat
           /\ sending.height = pending[sending.tx] /\ sending.height \in 1..MaxHead
           /\ stage = "sink" /\ UNCHANGED <<watcher, crashes>>
  <1>1. CycleInv /\ TypeInv
    BY DEF GatewayInv, ServiceInv
  <1>2. stage = "sink" /\ sending \in SentEvent /\ UNCHANGED <<watcher, crashes>>
    BY <1>1, CallInSink, CallKeepsEvent
  <1> QED BY <1>1, <1>2 DEF CycleInv, CycleOK, SinkCallOK, SentEvent

\* Only a write to the order of the transfer at hand changes a height.
LEMMA CallHeights ==
    ASSUME GatewayInv, RowsOK, Call, NEW t \in Tx
    PROVE  /\ Written(t) => t = sending.tx /\ Claimed(t)' /\ height'[t] = sending.height
           /\ ~ Written(t) => height'[t] = height[t]
  <1>1. height'[t] = IF Written(t) THEN sending.height ELSE height[t]
    BY DEF Call
  <1>2. ASSUME Written(t) PROVE t = sending.tx /\ Claimed(t)'
    <2>1. CASE Claimed(t)' /\ ~ Claimed(t)
      BY <2>1, CallEvent, ClaimsChange DEF GNext
    <2>2. CASE t = sending.tx /\ UpdateConfirmations(Worker) /\ Advancing(call[Worker]) # {}
      <3>1. pc[Worker] # "idle"
        BY <2>2 DEF UpdateConfirmations
      <3>2. Claimed(t)
        BY <2>2, <3>1, CallEvent DEF Advancing, Claimed
      <3> QED BY <2>2, <3>2, ClaimsChange DEF GNext
    <2> QED BY <1>2, <2>1, <2>2 DEF Written
  <1> QED BY <1>1, <1>2

\* No step gives a height to a transfer no order has, or takes one away.
LEMMA StepRowInv ==
    ASSUME GatewayInv, RowInv, [GNext]_gvars
    PROVE  RowInv'
  <1>0. NULL \notin Tx /\ ServiceInv /\ RowsOK
    BY OrdersAssumption DEF GatewayInv, RowInv
  <1>1. ASSUME NEW o \in Order
        PROVE  /\ orders'[o].tx = NULL => orders'[o].confirmations = 0
               /\ orders'[o].status # "absent" => orders'[o].required = Required[orders'[o].chain]
    <2>1. CASE ServiceStep \/ Tick
      BY <1>0, <2>1, FreeRows DEF StaysFree, RowsOK
    <2>2. CASE Call
      BY <1>0, <2>2, CallRows, CallEvent DEF CountsOn, IsAttributed, RowsOK
    <2>3. CASE ~ (ServiceStep \/ Tick) /\ ~ Call
      BY <1>0, <2>3, OtherRows DEF RowsOK
    <2> QED BY <2>1, <2>2, <2>3
  <1>2. HeightOK'
    <2> SUFFICES ASSUME NEW t \in Tx PROVE Claimed(t)' <=> height'[t] # 0
      BY DEF HeightOK
    <2>1. CASE Call
      <3>1. CASE Written(t)
        BY <1>0, <2>1, <3>1, CallHeights, CallEvent
      <3>2. CASE ~ Written(t)
        BY <1>0, <2>1, <3>2, CallHeights, ClaimsChange DEF Written, RowInv, HeightOK
      <3> QED BY <3>1, <3>2
    <2>2. CASE ~ Call
      BY <1>0, <2>2, ClaimsChange DEF RowInv, HeightOK
    <2> QED BY <2>1, <2>2
  <1> QED BY <1>1, <1>2 DEF RowInv, RowsOK

\* So heights and rows agree throughout.
LEMMA RowInvariant == GSpec => [](GatewayInv /\ RowInv)
  <1>1. GInit => RowInv
    BY OrdersAssumption DEF GInit, Init, NoRow, RowInv, RowsOK, HeightOK, Claimed
  <1>2. GatewayInv /\ RowInv /\ [GNext]_gvars => RowInv'
    BY StepRowInv
  <1> QED BY <1>1, <1>2, GatewayInvariant, PTL DEF GSpec

-----------------------------------------------------------------------------
(* No order shows more confirmations than its block has *)

\* The chain never gets shorter.
LEMMA HeadGrows ==
    ASSUME GatewayInv, [GNext]_gvars
    PROVE  head \in Nat /\ head' \in Nat /\ head <= head'
  <1>0. head \in Nat
    BY DEF GatewayInv, CycleInv, W!TypeOK
  <1>1. ASSUME W!ChainStep PROVE head' = head \/ head' = head + 1
    BY <1>1 DEF W!ChainStep, W!Mine, W!Reorg
  <1>2. ASSUME W!ScanStep PROVE head' = head
    BY <1>2 DEF W!ScanStep, W!Poll, W!GetLogs, W!LoadCursor, W!GetLogsFails, W!SaveCursor,
                W!EndPoll, W!chainVars
  <1>3. ASSUME (\E t \in Tx : Report(t)) \/ Reported \/ Die \/ Recover PROVE head' = head
    BY <1>3 DEF Report, W!Emit, Reported, W!Emitted, Die, W!Crash, Recover, W!Restart, W!chainVars
  <1>4. ASSUME Call PROVE head' = head
    BY <1>4 DEF Call, watcher
  <1> QED BY <1>0, <1>1, <1>2, <1>3, <1>4, ServiceKeepsWatcher DEF GNext, watcher

\* A statement of the call that does not write the order of the transfer at hand
\* leaves the order of every transfer as it is.
LEMMA CallWrites ==
    ASSUME GatewayInv, RowInv, Call, NEW o \in Order, NEW t \in Tx, orders'[o].tx = t
    PROVE  \/ Written(t) /\ orders'[o].confirmations \in {0, CountAtHand}
           \/ ~ Written(t) /\ orders'[o] = orders[o]
  <1>0. /\ RowsOK /\ ServiceInv /\ TypeInv /\ Worker \in Handler /\ orders \in [Order -> Row]
        /\ NULL \notin Tx
    BY OrdersAssumption, GatewayAssumption DEF GatewayInv, RowInv, ServiceInv, TypeInv, TypeOK
  <1>1. CASE IsAttributed(o)
    <2>1. Claimed(t)' /\ ~ Claimed(t)
      BY <1>1 DEF IsAttributed, Claimed
    <2> QED BY <1>1, <2>1, CallEvent DEF IsAttributed, Written
  <1>2. CASE CountsOn(o)
    <2>1. orders[o].tx = t /\ t = call[Worker].tx /\ t = sending.tx
          /\ orders'[o].confirmations = CountAtHand
      BY <1>2, CallEvent DEF CountsOn
    <2>2. CASE UpdateConfirmations(Worker) /\ Advancing(call[Worker]) # {}
      BY <2>1, <2>2 DEF Written
    <2>3. ASSUME ~ (UpdateConfirmations(Worker) /\ Advancing(call[Worker]) # {})
          PROVE  UNCHANGED orders
      <3>1. Claimed(call[Worker].tx)
        BY <2>1 DEF Claimed
      <3> QED BY <2>3, <3>1
              DEF Call, HandlerStep, UpdateConfirmations, TxAlreadyClaimed, ClaimExactMatch,
                  IndexRefuses, ClaimUnderpaid, MarkUnderpaid, Rollback, LogReviewItem,
                  AuditInsert, StatementFails, tables
    <2>4. CASE ~ Written(t)
      BY <2>1, <2>3, <2>4 DEF Written
    <2> QED BY <2>1, <2>4
  <1>3. CASE orders'[o] = orders[o]
    <2>1. CASE Written(t)
      <3>1. Claimed(t) /\ t = sending.tx
        BY <1>0, <1>3, <2>1, CallHeights DEF Claimed
      <3>2. /\ UpdateConfirmations(Worker) /\ Advancing(call[Worker]) # {}
            /\ pc[Worker] # "idle" /\ call[Worker].tx = t /\ call[Worker].confirmations = CountAtHand
            /\ call[Worker] \in TransferEvent
        BY <1>0, <2>1, <3>1, CallEvent DEF Written, UpdateConfirmations, TypeInv, WorkOK
      <3>3. PICK p \in Advancing(call[Worker]) :
              orders' = [orders EXCEPT ![p] = Advanced(@, call[Worker])]
        BY <3>2 DEF UpdateConfirmations
      <3>4. p \in Order /\ orders[p].tx = t /\ orders[o].tx = t
        BY <1>3, <3>2, <3>3 DEF Advancing
      <3>5. p = o
        BY <1>0, <3>4 DEF ServiceInv, MoneyInv, TxClaimedOnce
      <3>6. orders'[o].confirmations = CountAtHand
        BY <1>0, <3>2, <3>3, <3>4, <3>5, AdvancedFields
      <3> QED BY <2>1, <3>6
    <2> QED BY <1>3, <2>1
  <1> QED BY <1>0, <1>1, <1>2, <1>3, CallRows

\* No step gives an order more confirmations than its block has.
LEMMA StepCountsAreTrue ==
    ASSUME GatewayInv, RowInv, CountsAreTrue, [GNext]_gvars
    PROVE  CountsAreTrue'
  <1>0. /\ W!TypeOK /\ HeightsOK /\ CycleOK /\ ServiceInv /\ RowsOK /\ NULL \notin Tx
        /\ orders \in [Order -> Row] /\ head \in Nat /\ head' \in Nat /\ head <= head'
    BY OrdersAssumption, HeadGrows
    DEF GatewayInv, CycleInv, RowInv, ServiceInv, TypeInv, TypeOK
  <1> SUFFICES ASSUME NEW o \in Order, orders'[o].confirmations > 0
               PROVE  LET h == height'[orders'[o].tx] IN
                      h # 0 /\ orders'[o].confirmations <= head' - h + 1
    BY DEF CountsAreTrue
  <1>1. ASSUME orders'[o] = orders[o], height'[orders[o].tx] = height[orders[o].tx]
        PROVE  LET h == height'[orders'[o].tx] IN
               h # 0 /\ orders'[o].confirmations <= head' - h + 1
    <2>1. /\ orders[o].confirmations \in Nat /\ orders[o].tx \in Tx
      BY <1>0, <1>1 DEF Row, RowsOK
    <2>2. height[orders[o].tx] # 0 /\ height[orders[o].tx] \in Nat
      BY <1>0, <1>1, <2>1 DEF CountsAreTrue, HeightsOK
    <2> QED BY <1>0, <1>1, <2>1, <2>2 DEF CountsAreTrue
  <1>2. CASE (ServiceStep \/ Tick) /\ ~ Call
    <2>1. orders'[o] = orders[o]
      BY <1>0, <1>2, FreeRows DEF StaysFree
    <2>2. orders[o].tx \in Tx
      BY <1>0, <2>1 DEF Row, RowsOK
    <2> QED BY <1>0, <1>1, <1>2, <2>1, <2>2, ClaimsChange
  <1>3. CASE Call
    <2>1. /\ sending.tx \in Tx /\ CountAtHand \in Nat /\ UNCHANGED head
          /\ sending.height \in Nat /\ sending.height # 0
      BY <1>3, CallEvent DEF watcher
    <2>2. latest \in Nat /\ latest <= head
      BY <1>0 DEF W!TypeOK, CycleOK
    <2>3. CountAtHand = IF latest >= sending.height THEN latest - sending.height + 1 ELSE 0
      BY <2>1, <2>2, ConfirmationsOf DEF CountAtHand
    <2>4. PICK t : t = orders'[o].tx
      OBVIOUS
    <2>5. t \in Tx
      <3>1. RowsOK'
        BY <1>0, StepRowInv DEF RowInv
      <3>2. orders' \in [Order -> Row]
        BY <1>0, StepServiceInv DEF GatewayInv, ServiceInv, TypeInv, TypeOK
      <3> QED BY <2>4, <3>1, <3>2 DEF Row, RowsOK
    <2>6. CASE Written(t)
      <3>1. height'[t] = sending.height
        BY <1>0, <1>3, <2>5, <2>6, CallHeights
      <3>2. orders'[o].confirmations = CountAtHand
        BY <1>3, <2>4, <2>5, <2>6, CallWrites
      <3> QED BY <1>0, <2>1, <2>2, <2>3, <2>4, <3>1, <3>2
    <2>7. CASE ~ Written(t)
      BY <1>0, <1>1, <1>3, <2>4, <2>5, <2>7, CallHeights, CallWrites
    <2> QED BY <2>6, <2>7
  <1>4. CASE ~ (ServiceStep \/ Tick) /\ ~ Call
    <2>1. orders'[o] = orders[o]
      BY <1>4, OtherRows
    <2>2. orders[o].tx \in Tx
      BY <1>0, <2>1 DEF Row, RowsOK
    <2> QED BY <1>0, <1>1, <1>4, <2>1, <2>2, ClaimsChange
  <1> QED BY <1>2, <1>3, <1>4

\* No order shows more confirmations than the chain has blocks from the one the
\* order names as its transfer's, whichever node answered, after any restart
\* and however deep the chain replaces its last blocks.
THEOREM CountsStayTrue == GSpec => []CountsAreTrue
  <1>1. GInit => CountsAreTrue
    BY DEF GInit, Init, NoRow, CountsAreTrue
  <1>2. GatewayInv /\ RowInv /\ CountsAreTrue /\ [GNext]_gvars => CountsAreTrue'
    BY StepCountsAreTrue
  <1> QED BY <1>1, <1>2, RowInvariant, PTL DEF GSpec

\* The chain keeps a transfer where it is once the watcher has it or an order
\* has claimed it: what is replaced nobody has seen.
SeenStay == \A t \in Tx : pending[t] # 0 \/ height[t] # 0 => block'[t] = block[t]

\* Then the watcher and the orders have every transfer at its own block.
SeenOK == \A t \in Tx : pending[t] \in {0, block[t]} /\ height[t] \in {0, block[t]}

\* No step has a transfer at another block than its own.
LEMMA StepSeenOK ==
    ASSUME GatewayInv, RowInv, SeenOK, [GNext]_gvars, SeenStay
    PROVE  SeenOK'
  <1>0. /\ W!TypeOK /\ RowsOK /\ MaxHead \in Nat
    BY GatewayAssumption DEF GatewayInv, CycleInv, RowInv
  <1>1. ASSUME UNCHANGED height, NEW t \in Tx, pending'[t] \in {0, pending[t], block'[t]}
        PROVE  pending'[t] \in {0, block'[t]} /\ height'[t] \in {0, block'[t]}
    BY <1>1 DEF SeenOK, SeenStay
  <1>2. CASE W!ChainStep /\ UNCHANGED <<vars, height, crashes>>
    <2>1. UNCHANGED <<height, pending>>
      BY <1>2 DEF W!ChainStep, W!Mine, W!Reorg, W!watcherVars
    <2> QED BY <1>1, <2>1 DEF SeenOK
  <1>3. CASE W!ScanStep /\ UNCHANGED <<vars, height, crashes>>
    <2>1. UNCHANGED height /\ \A t \in Tx : pending'[t] \in {0, pending[t], block'[t]}
      BY <1>0, <1>3 DEF W!ScanStep, W!Poll, W!GetLogs, W!LoadCursor, W!GetLogsFails,
                        W!SaveCursor, W!EndPoll, W!chainVars
    <2> QED BY <1>1, <2>1 DEF SeenOK
  <1>4. CASE Call
    <2>1. UNCHANGED <<block, pending>>
      BY <1>4 DEF Call, watcher
    <2>2. ASSUME NEW t \in Tx PROVE height'[t] \in {height[t], pending[t]}
      BY <1>0, <1>4, CallHeights, CallEvent
    <2> QED BY <2>1, <2>2 DEF SeenOK
  <1>5. CASE Reported \/ Die
    <2>1. UNCHANGED height /\ \A t \in Tx : pending'[t] \in {0, pending[t]}
      BY <1>0, <1>5 DEF Reported, Die, W!Emitted, W!Crash, W!TypeOK
    <2> QED BY <1>1, <2>1 DEF SeenOK
  <1>6. CASE Recover
    <2>1. UNCHANGED <<block, height>> /\ \A t \in Tx : pending'[t] \in {0, height[t]}
      BY <1>6 DEF Recover, W!Restart, W!chainVars, Seed
    <2> QED BY <2>1 DEF SeenOK
  <1>7. CASE UNCHANGED <<block, pending, height>>
    BY <1>7 DEF SeenOK
  <1>8. ASSUME NEW t \in Tx, Report(t) PROVE UNCHANGED <<block, pending, height>>
    BY <1>8 DEF Report, W!Emit, W!chainVars
  <1> QED BY <1>2, <1>3, <1>4, <1>5, <1>6, <1>7, <1>8 DEF GNext, gvars, watcher

\* No order shows more confirmations than the chain has blocks from the one its
\* transfer is in.
CountsMatchChain ==
    \A o \in Order : orders[o].confirmations > 0 =>
        LET b == block[orders[o].tx] IN
        b # 0 /\ orders[o].confirmations <= head - b + 1

\* This holds in every behaviour in which the blocks that are replaced held no
\* transfer the watcher had seen; where they did, an order keeps the count and
\* the height its transfer had in the block that is gone, for
\* UpdateConfirmations never lowers a count (handleLog, emit, OnTransfer).
THEOREM CountsAreTheChains == GSpec /\ [][SeenStay]_gvars => []CountsMatchChain
  <1>1. GInit => SeenOK
    BY DEF GInit, W!EVMInit, SeenOK
  <1>2. GatewayInv /\ RowInv /\ SeenOK /\ [GNext]_gvars /\ [SeenStay]_gvars => SeenOK'
    <2>1. UNCHANGED gvars => (SeenOK <=> SeenOK')
      BY DEF gvars, watcher, SeenOK
    <2> QED BY <2>1, StepSeenOK
  <1>3. GatewayInv /\ RowInv /\ CountsAreTrue /\ SeenOK => CountsMatchChain
    <2> SUFFICES ASSUME GatewayInv, RowInv, CountsAreTrue, SeenOK,
                        NEW o \in Order, orders[o].confirmations > 0
                 PROVE  block[orders[o].tx] # 0
                        /\ orders[o].confirmations <= head - block[orders[o].tx] + 1
      BY DEF CountsMatchChain
    <2>1. orders[o].tx \in Tx
      BY DEF GatewayInv, ServiceInv, TypeInv, TypeOK, Row, RowInv, RowsOK
    <2>2. height[orders[o].tx] # 0 /\ orders[o].confirmations <= head - height[orders[o].tx] + 1
      BY DEF CountsAreTrue
    <2> QED BY <2>1, <2>2 DEF SeenOK
  <1> QED BY <1>1, <1>2, <1>3, CountsStayTrue, RowInvariant, PTL DEF GSpec

-----------------------------------------------------------------------------
(* What orders wait for is followed *)

\* The statements of a last report, the one after which the watcher forgets the
\* transfer, succeed: its count has reached the threshold.
LastReportLands == StatementFails(Worker) => CountAtHand < Required[Watched]

\* Once the count at hand has been offered to its order, an order that still
\* waits for the transfer says that the count was not enough.
OfferedOK ==
    \A t \in Tx : stage = "sink" /\ t = sending.tx /\ pc[Worker] # "update" /\ Confirming(t) =>
        CountAtHand < Required[Watched]

\* Who is confirming changes in a call of the sink only, and only for the
\* transfer at hand.
LEMMA ConfirmingChanges ==
    ASSUME GatewayInv, RowInv, [GNext]_gvars, NEW t \in Tx, Confirming(t)'
    PROVE  Confirming(t) \/ (Call /\ t = sending.tx)
  <1>0. PICK o \in Order : orders'[o].tx = t /\ orders'[o].status = "confirming"
    BY DEF Confirming
  <1>1. CASE ServiceStep \/ Tick
    BY <1>0, <1>1, FreeRows DEF GatewayInv, RowInv, StaysFree, Confirming
  <1>2. CASE Call
    BY <1>0, <1>2, CallRows, CallEvent DEF GatewayInv, RowInv, CountsOn, IsAttributed, Confirming
  <1>3. CASE ~ (ServiceStep \/ Tick) /\ ~ Call
    BY <1>0, <1>3, OtherRows DEF Confirming
  <1> QED BY <1>1, <1>2, <1>3

\* The order of the transfer at hand after a statement of its call.
LEMMA CallOffers ==
    ASSUME GatewayInv, RowInv, OfferedOK, GatewayInv', RowInv', Call, ~ StatementFails(Worker),
           NEW t \in Tx, t = sending.tx, pc'[Worker] # "update", Confirming(t)'
    PROVE  CountAtHand < Required[Watched]
  <1> SUFFICES ASSUME pc[Worker] # "idle" PROVE CountAtHand < Required[Watched]
    <2>1. CASE pc[Worker] = "idle"
      <3>1. AuditInsert(Worker)
        BY <2>1 DEF Call, HandlerStep, UpdateConfirmations, TxAlreadyClaimed, ClaimExactMatch,
                    ClaimUnderpaid, MarkUnderpaid, Rollback, LogReviewItem
      <3>2. Confirming(t) /\ stage = "sink"
        BY <3>1, CallEvent DEF AuditInsert, Confirming
      <3> QED BY <2>1, <3>2 DEF OfferedOK
    <2> QED BY <2>1
  <1>0. PICK o \in Order : orders'[o].tx = t /\ orders'[o].status = "confirming"
    BY DEF Confirming
  <1>1. /\ call[Worker].tx = t /\ call[Worker].confirmations = CountAtHand /\ CountAtHand \in Nat
        /\ stage = "sink" /\ Worker \in Handler /\ HandlerChain[Worker] = Watched
        /\ TypeInv /\ ServiceInv /\ RowsOK /\ NULL \notin Tx
    BY CallEvent, GatewayAssumption, OrdersAssumption DEF GatewayInv, ServiceInv, RowInv
  <1>2. call[Worker] \in TransferEvent /\ TxChain[t] = Watched
    BY <1>1 DEF TypeInv, WorkOK
  <1>3. /\ orders'[o].confirmations < Required[Watched] /\ orders'[o].confirmations \in Nat
        /\ Required[Watched] \in Nat
    <2>1. /\ orders'[o].required = Required[orders'[o].chain] /\ orders'[o].chain = Watched
          /\ ~ (orders'[o].confirmations >= orders'[o].required)
      BY <1>0, <1>2
      DEF GatewayInv, ServiceInv, MoneyInv, RowInv, RowsOK, CreditSound, ConfirmedAtThreshold
    <2>2. orders'[o].confirmations \in Nat /\ Required[Watched] \in Nat
      BY OrdersAssumption, GatewayAssumption DEF GatewayInv, ServiceInv, TypeInv, TypeOK, Row
    <2> QED BY <2>1, <2>2
  <1>4. CASE CountsOn(o) \/ IsAttributed(o)
    BY <1>0, <1>1, <1>3, <1>4 DEF CountsOn, IsAttributed
  <1>5. CASE orders'[o] = orders[o]
    <2>1. CASE pc[Worker] # "update"
      BY <1>0, <1>1, <1>5, <2>1 DEF OfferedOK, Confirming
    <2>2. CASE pc[Worker] = "update"
      <3>1. UpdateConfirmations(Worker)
        BY <2>2 DEF Call, HandlerStep, TxAlreadyClaimed, ClaimExactMatch, ClaimUnderpaid,
                    MarkUnderpaid, Rollback, LogReviewItem, AuditInsert, handlerVars
      <3>2. CASE Advancing(call[Worker]) = {}
        BY <1>0, <1>1, <1>3, <1>5, <3>2 DEF Advancing
      <3>3. CASE \E p \in Advancing(call[Worker]) :
                    orders' = [orders EXCEPT ![p] = Advanced(@, call[Worker])]
        <4>1. PICK p \in Advancing(call[Worker]) :
                orders' = [orders EXCEPT ![p] = Advanced(@, call[Worker])]
          BY <3>3
        <4>2. p \in Order /\ orders[p].tx = t /\ orders[o].tx = t
          BY <1>0, <1>1, <1>5 DEF Advancing
        <4>3. p = o
          BY <1>1, <4>2 DEF ServiceInv, MoneyInv, TxClaimedOnce
        <4>4. orders'[o].confirmations = CountAtHand
          BY <1>1, <1>2, <4>1, <4>2, <4>3, AdvancedFields DEF ServiceInv, TypeInv, TypeOK
        <4> QED BY <1>3, <4>4
      <3> QED BY <3>1, <3>2, <3>3 DEF UpdateConfirmations
    <2> QED BY <2>1, <2>2
  <1> QED BY <1>1, <1>4, <1>5, CallRows

\* No step lets the call end with an order waiting for a count that was enough.
LEMMA StepOfferedOK ==
    ASSUME GatewayInv, RowInv, OfferedOK, GatewayInv', RowInv', [GNext]_gvars, LastReportLands
    PROVE  OfferedOK'
  <1> SUFFICES ASSUME NEW t \in Tx, stage' = "sink", t = sending'.tx, pc'[Worker] # "update",
                      Confirming(t)'
               PROVE  CountAtHand' < Required[Watched]
    BY DEF OfferedOK
  <1>1. CASE Call
    <2>1. sending' = sending /\ CountAtHand' = CountAtHand
      BY <1>1, CallEvent DEF watcher, CountAtHand, W!Confirmations, W!Depth
    <2> QED BY <1>1, <2>1, CallOffers DEF LastReportLands
  <1>2. ASSUME UNCHANGED <<stage, latest, sending, pc>>, ~ Call
        PROVE  CountAtHand' < Required[Watched]
    <2>1. Confirming(t) /\ CountAtHand' = CountAtHand
      BY <1>2, ConfirmingChanges DEF CountAtHand, W!Confirmations, W!Depth
    <2> QED BY <1>2, <2>1 DEF OfferedOK
  <1>3. ASSUME W!ChainStep, UNCHANGED vars PROVE UNCHANGED <<stage, latest, sending, pc>>
    BY <1>3 DEF W!ChainStep, W!Mine, W!Reorg, W!watcherVars, vars
  <1>4. ASSUME W!ScanStep PROVE FALSE
    BY <1>4 DEF W!ScanStep, W!Poll, W!GetLogs, W!LoadCursor, W!GetLogsFails, W!SaveCursor,
                W!EndPoll, W!BeginRefresh
  <1>5. ASSUME NEW u \in Tx, Report(u) PROVE FALSE
    BY <1>5, ReportCalls, GatewayAssumption DEF GatewayInv, ServiceInv, TypeInv, TypeOK
  <1>6. ASSUME Reported \/ Die \/ Recover PROVE FALSE
    BY <1>6 DEF Reported, W!Emitted, Die, W!Crash, Recover, W!Restart
  <1> QED BY <1>1, <1>2, <1>3, <1>4, <1>5, <1>6, ServiceKeepsWatcher
          DEF GNext, watcher, handlerVars

\* What the running watcher drops, no order waits for.
LEMMA StepConfirmingIsPending ==
    ASSUME GatewayInv, RowInv, OfferedOK, ConfirmingIsPending, [GNext]_gvars
    PROVE  ConfirmingIsPending'
  <1> SUFFICES ASSUME NEW t \in Tx, Running', Confirming(t)' PROVE pending'[t] # 0
    BY DEF ConfirmingIsPending, Confirming
  <1>0. /\ W!TypeOK /\ CycleInv /\ CycleOK /\ HeightOK
    BY DEF GatewayInv, CycleInv, RowInv
  <1>1. CASE Call
    <2>1. pending' = pending /\ Running
      BY <1>1 DEF Call, watcher
    <2>2. CASE t = sending.tx
      BY <1>1, <2>1, <2>2, CallEvent
    <2>3. CASE Confirming(t)
      BY <2>1, <2>3 DEF ConfirmingIsPending
    <2> QED BY <1>1, <2>2, <2>3, ConfirmingChanges
  <1> SUFFICES ASSUME ~ Call, Confirming(t) PROVE pending'[t] # 0
    BY <1>1, ConfirmingChanges
  <1>2. ASSUME Running, pending[t] # 0 => pending'[t] # 0 PROVE pending'[t] # 0
    BY <1>2 DEF ConfirmingIsPending
  <1>3. ASSUME UNCHANGED <<stage, pending>> PROVE pending'[t] # 0
    BY <1>2, <1>3 DEF Running
  <1>4. ASSUME W!ChainStep PROVE UNCHANGED <<stage, pending>>
    BY <1>4 DEF W!ChainStep, W!Mine, W!Reorg, W!watcherVars
  <1>5. ASSUME W!ScanStep PROVE Running /\ (pending[t] # 0 => pending'[t] # 0)
    BY <1>0, <1>5 DEF Running, W!ScanStep, W!Poll, W!GetLogs, W!LoadCursor, W!GetLogsFails,
                      W!SaveCursor, W!EndPoll, W!TypeOK
  <1>6. ASSUME NEW u \in Tx, Report(u) PROVE Running /\ pending' = pending
    BY <1>6 DEF Report, W!Emit, Running
  <1>7. ASSUME Reported PROVE Running /\ (pending[t] # 0 => pending'[t] # 0)
    <2>1. /\ stage = "sink" /\ pc[Worker] = "idle" /\ sending.height = pending[sending.tx]
          /\ pending' = [pending EXCEPT ![sending.tx] =
                           IF W!Depth(pending[sending.tx]) >= Required[Watched] THEN 0 ELSE @]
      BY <1>0, <1>7 DEF Reported, W!Emitted, CycleOK
    <2>2. CASE t = sending.tx
      <3>1. CountAtHand < Required[Watched]
        BY <2>1, <2>2 DEF OfferedOK
      <3>2. pending[t] \in Nat /\ latest \in Nat
        BY <1>0 DEF W!TypeOK
      <3>3. CountAtHand = IF latest >= pending[t] THEN latest - pending[t] + 1 ELSE 0
        BY <2>1, <2>2, <3>2, ConfirmationsOf DEF CountAtHand
      <3>4. Required[Watched] \in Nat
        BY OrdersAssumption, GatewayAssumption
      <3>5. ~ (W!Depth(pending[t]) >= Required[Watched])
        BY <3>1, <3>2, <3>3, <3>4 DEF W!Depth
      <3> QED BY <1>0, <2>1, <2>2, <3>5 DEF Running, W!TypeOK
    <2> QED BY <1>0, <2>1, <2>2 DEF Running, W!TypeOK
  <1>8. ASSUME Die PROVE FALSE
    BY <1>8 DEF Die, W!Crash, Running
  <1>9. ASSUME Recover PROVE pending'[t] # 0
    BY <1>0, <1>9 DEF Recover, W!Restart, Seed, HeightOK, Claimed, Confirming
  <1> QED BY <1>2, <1>3, <1>4, <1>5, <1>6, <1>7, <1>8, <1>9, ServiceKeepsWatcher
          DEF GNext, watcher

FollowInv == OfferedOK /\ ConfirmingIsPending

\* So what orders wait for stays on the list throughout.
LEMMA FollowInvariant ==
    GSpec /\ [][LastReportLands]_gvars => [](GatewayInv /\ RowInv /\ FollowInv)
  <1>1. GInit => FollowInv
    BY OrdersAssumption
    DEF GInit, Init, NoRow, W!EVMInit, FollowInv, OfferedOK, ConfirmingIsPending, Confirming
  <1>2. /\ GatewayInv /\ RowInv /\ FollowInv /\ GatewayInv' /\ RowInv' /\ [GNext]_gvars
        /\ [LastReportLands]_gvars
        => FollowInv'
    <2>1. UNCHANGED gvars => (FollowInv <=> FollowInv')
      BY DEF gvars, vars, watcher, FollowInv, OfferedOK, ConfirmingIsPending, Confirming, Running,
             CountAtHand, W!Confirmations, W!Depth
    <2> QED BY <2>1, StepOfferedOK, StepConfirmingIsPending DEF FollowInv
  <1> QED BY <1>1, <1>2, RowInvariant, PTL DEF GSpec

\* As long as an order is confirming, the running watcher has its transfer on
\* the list: after any number of restarts, however far the nodes lag and
\* however deep blocks are replaced, provided no statement of a transfer's last
\* report fails (refreshConfirmations, LoadPendingTransfers).
THEOREM NobodyLeftBehind ==
    GSpec /\ [][LastReportLands]_gvars => []ConfirmingIsPending
  BY FollowInvariant, PTL DEF FollowInv

-----------------------------------------------------------------------------
(* What the calls of the sink leave accounted for *)

\* When the call of a last report has returned, its transfer is with an order
\* or in the queue.
ReturnedOK ==
    \A t \in Tx : stage = "sink" /\ t = sending.tx /\ pc[Worker] = "idle" =>
        CountAtHand < Required[Watched] \/ Accounted(t)

\* Outside the calls nothing is accounted for and nobody stops waiting.
LEMMA AccountsKept ==
    ASSUME GatewayInv, RowInv, [GNext]_gvars, ~ Call, NEW t \in Tx
    PROVE  (Accounted(t)' <=> Accounted(t)) /\ (Confirming(t)' <=> Confirming(t))
  <1>0. NULL \notin Tx /\ ServiceInv /\ RowsOK
    BY OrdersAssumption DEF GatewayInv, RowInv
  <1>1. reviews' = reviews
    BY ServiceKeepsWatcher DEF GNext, Report, OnTransfer, Reported, Die, Recover, tables, gvars, vars
  <1>2. Claimed(t)' <=> Claimed(t)
    BY <1>0, ClaimsChange
  <1>3. Confirming(t) => Confirming(t)'
    <2>1. CASE ServiceStep \/ Tick
      BY <1>0, <2>1, FreeRows DEF StaysFree, Confirming
    <2>2. CASE ~ (ServiceStep \/ Tick)
      BY <2>2, OtherRows DEF Confirming
    <2> QED BY <2>1, <2>2
  <1>4. Confirming(t)' => Confirming(t)
    BY ConfirmingChanges
  <1> QED BY <1>1, <1>2, <1>3, <1>4 DEF Accounted

\* A call concerns its own transfer only, and takes nothing back.
LEMMA CallAccounts ==
    ASSUME GatewayInv, RowInv, Call, NEW t \in Tx
    PROVE  /\ Accounted(t) => Accounted(t)'
           /\ t # sending.tx => /\ Accounted(t)' <=> Accounted(t)
                                /\ Confirming(t)' <=> Confirming(t)
  <1>0. /\ NULL \notin Tx /\ ServiceInv /\ RowsOK
        /\ pc[Worker] # "idle" => call[Worker].tx = sending.tx
        /\ reviews \in [Tx -> Review \cup {NULL}]
    BY OrdersAssumption, CallEvent DEF GatewayInv, RowInv, ServiceInv, TypeInv, TypeOK
  <1>1. (Claimed(t) => Claimed(t)') /\ (~ Claimed(t) /\ Claimed(t)' => t = sending.tx)
    BY <1>0, ClaimsChange DEF GNext
  <1>2. reviews'[t] = reviews[t] \/ (reviews[t] = NULL /\ t = sending.tx)
    BY <1>0 DEF Call, HandlerStep, UpdateConfirmations, TxAlreadyClaimed, ClaimExactMatch,
                ClaimUnderpaid, MarkUnderpaid, Rollback, LogReviewItem, AuditInsert,
                StatementFails, tables
  <1>3. t # sending.tx => (Confirming(t)' <=> Confirming(t))
    BY <1>0, CallRows DEF CountsOn, IsAttributed, Confirming
  <1> QED BY <1>1, <1>2, <1>3 DEF Accounted

\* No statement ends a last report with its transfer unaccounted for.
LEMMA StepReturnedOK ==
    ASSUME GatewayInv, RowInv, ReturnedOK, [GNext]_gvars, LastReportLands
    PROVE  ReturnedOK'
  <1> SUFFICES ASSUME NEW t \in Tx, stage' = "sink", t = sending'.tx, pc'[Worker] = "idle"
               PROVE  CountAtHand' < Required[Watched] \/ Accounted(t)'
    BY DEF ReturnedOK, Accounted, Claimed
  <1>0. /\ NULL \notin Tx /\ ServiceInv /\ RowsOK /\ Worker \in Handler
        /\ pc \in [Handler -> Statement \cup {"idle"}]
        /\ best \in [Handler -> Order \cup {NULL}] /\ reviews \in [Tx -> Review \cup {NULL}]
    BY OrdersAssumption, GatewayAssumption DEF GatewayInv, RowInv, ServiceInv, TypeInv, TypeOK
  <1>1. CASE Call
    <2>0. t = sending.tx /\ stage = "sink" /\ CountAtHand' = CountAtHand
      BY <1>1, CallEvent DEF watcher, CountAtHand, W!Confirmations, W!Depth
    <2>9. CASE pc[Worker] = "idle"
      BY <1>1, <2>0, <2>9, CallAccounts DEF ReturnedOK
    <2>10. CASE StatementFails(Worker)
      BY <2>0, <2>10 DEF LastReportLands
    <2> SUFFICES ASSUME pc[Worker] # "idle", HandlerStep(Worker) PROVE Accounted(t)'
      BY <1>1, <2>9, <2>10 DEF Call
    <2>1. call[Worker].tx = t /\ t = sending.tx
      BY <1>1, <2>0, CallEvent
    <2>2. CASE Claimed(t) \/ Claimed(t)'
      BY <1>1, <2>2, CallAccounts DEF Accounted
    <2>3. CASE UpdateConfirmations(Worker)
      BY <1>0, <2>1, <2>2, <2>3 DEF UpdateConfirmations, Goto, Advancing, Claimed
    <2>4. CASE TxAlreadyClaimed(Worker)
      BY <1>0, <2>1, <2>2, <2>4 DEF TxAlreadyClaimed, Goto
    <2>5. CASE ClaimExactMatch(Worker)
      <3>1. ASSUME NEW o \in Matches(Worker),
                   orders' = [orders EXCEPT ![o] = Matched(@, call[Worker])]
            PROVE  Claimed(t)'
        <4>1. o \in Order /\ orders[o] \in Row /\ orders'[o] = Matched(orders[o], call[Worker])
          BY <1>0, <3>1 DEF Matches, Claimable, ServiceInv, TypeInv, TypeOK
        <4>2. orders'[o].tx = t
          BY <2>1, <4>1 DEF Matched, Row
        <4> QED BY <4>1, <4>2 DEF Claimed
      <3> QED BY <1>0, <2>1, <2>2, <2>5, <3>1, ExactMatchOutcome DEF IndexRefuses, ClaimExactMatch, Goto
    <2>6. CASE ClaimUnderpaid(Worker)
      BY <1>0, <2>6 DEF ClaimUnderpaid, Goto
    <2>7. CASE MarkUnderpaid(Worker)
      BY <1>0, <2>1, <2>2, <2>7 DEF MarkUnderpaid, IndexRefuses, Goto
    <2>8. CASE LogReviewItem(Worker)
      <3> DEFINE item == [reason |-> IF best[Worker] = NULL THEN "unmatched" ELSE "underpaid",
                          order  |-> best[Worker]]
      <3>1. item \in Review /\ item # NULL
        BY <1>0, OrdersAssumption DEF Review
      <3> HIDE DEF item
      <3>2. reviews' = IF reviews[t] # NULL THEN reviews ELSE [reviews EXCEPT ![t] = item]
        BY <2>1, <2>8 DEF LogReviewItem, item
      <3> QED BY <1>0, <3>1, <3>2 DEF Accounted
    <2>11. CASE Rollback(Worker) \/ AuditInsert(Worker)
      BY <1>0, <2>11 DEF Rollback, AuditInsert, Goto, handlerVars
    <2> QED BY <2>3, <2>4, <2>5, <2>6, <2>7, <2>8, <2>11 DEF HandlerStep
  <1>2. ASSUME ~ Call, UNCHANGED <<stage, latest, sending, pc>>
        PROVE  CountAtHand' < Required[Watched] \/ Accounted(t)'
    <2>1. CountAtHand' = CountAtHand
      BY <1>2 DEF CountAtHand, W!Confirmations, W!Depth
    <2> QED BY <1>2, <2>1, AccountsKept DEF ReturnedOK
  <1>3. ASSUME W!ChainStep, UNCHANGED vars PROVE UNCHANGED <<stage, latest, sending, pc>>
    BY <1>3 DEF W!ChainStep, W!Mine, W!Reorg, W!watcherVars, vars
  <1>4. ASSUME W!ScanStep PROVE FALSE
    BY <1>4 DEF W!ScanStep, W!Poll, W!GetLogs, W!LoadCursor, W!GetLogsFails, W!SaveCursor,
                W!EndPoll, W!BeginRefresh
  <1>5. ASSUME NEW u \in Tx, Report(u) PROVE FALSE
    BY <1>0, <1>5, ReportCalls DEF GatewayInv, ServiceInv
  <1>6. ASSUME Reported \/ Die \/ Recover PROVE FALSE
    BY <1>6 DEF Reported, W!Emitted, Die, W!Crash, Recover, W!Restart
  <1> QED BY <1>1, <1>2, <1>3, <1>4, <1>5, <1>6, ServiceKeepsWatcher
          DEF GNext, watcher, handlerVars

-----------------------------------------------------------------------------
(* What the scan has passed *)

\* How far a scan has come, or the last one that was saved.
Scanned == IF stage \in {"logs", "save"} THEN from - 1 ELSE cursor

\* The nodes have the blocks they are asked for.
NodesKeepUp == \A n \in W!Nodes : W!GetLogs(n) => W!BatchEnd <= n

\* The first scan goes back to the first transfer that is nowhere yet.
FirstScanReachesBack ==
    W!LoadCursor /\ cursor = 0 =>
        \A t \in Tx : block[t] \in 1..(W!NextFrom - 1) => pending[t] # 0 \/ Accounted(t)

\* The blocks a scan has passed keep their transfers: replaced blocks lie
\* ahead of it.
ScannedBlocksStay ==
    \A t \in Tx : block'[t] = block[t] \/ {block[t], block'[t]} \cap 1..Scanned = {}

\* Between the cursor and the block a scan has come to, every transfer is on
\* the list or accounted for.
ScannedOK ==
    stage \in {"logs", "save"} =>
        /\ cursor = 0 \/ cursor < from
        /\ \A t \in Tx : block[t] > cursor /\ block[t] < from => pending[t] # 0 \/ Accounted(t)

\* No step of a scan skips a block.
LEMMA StepScannedOK ==
    ASSUME GatewayInv, RowInv, ScannedOK, [GNext]_gvars,
           NodesKeepUp, FirstScanReachesBack, ScannedBlocksStay
    PROVE  ScannedOK'
  <1>0. /\ W!TypeOK /\ CycleOK /\ CycleInv /\ MaxHead \in Nat /\ Lookback \in Nat
    BY GatewayAssumption DEF GatewayInv, CycleInv
  <1>1. ASSUME stage' \notin {"logs", "save"} PROVE ScannedOK'
    BY <1>1 DEF ScannedOK
  <1> SUFFICES ASSUME stage' \in {"logs", "save"} PROVE ScannedOK'
    BY <1>1
  <1>2. ASSUME ~ Call, UNCHANGED <<cursor, stage, from, block, pending>> PROVE ScannedOK'
    <2>1. \A t \in Tx : Accounted(t)' <=> Accounted(t)
      BY <1>2, AccountsKept
    <2> QED BY <1>2, <2>1 DEF ScannedOK
  <1>3. ASSUME ~ Call, W!ChainStep, UNCHANGED vars PROVE ScannedOK'
    <2>1. UNCHANGED <<cursor, stage, from, pending>>
      BY <1>3 DEF W!ChainStep, W!Mine, W!Reorg, W!watcherVars
    <2>2. \A t \in Tx : block'[t] = block[t] \/ block'[t] \notin 1..(from - 1)
      BY <2>1 DEF ScannedBlocksStay, Scanned
    <2>3. from \in Nat /\ cursor \in Nat /\ \A t \in Tx : block'[t] \in Nat
      <3>1. W!TypeOK'
        BY StepCycleInv DEF GatewayInv, ServiceInv, CycleInv
      <3> QED BY <1>0, <3>1 DEF W!TypeOK
    <2>4. \A t \in Tx : Accounted(t)' <=> Accounted(t)
      BY <1>3, AccountsKept
    <2> HIDE DEF ScannedOK
    <2>5. ASSUME NEW t \in Tx, block'[t] > cursor, block'[t] < from
          PROVE  pending[t] # 0 \/ Accounted(t)'
      <3>1. block'[t] = block[t]
        BY <2>2, <2>3, <2>5
      <3> QED BY <2>1, <2>4, <2>5, <3>1 DEF ScannedOK
    <2> QED BY <2>1, <2>5 DEF ScannedOK
  <1>4. ASSUME ~ Call, W!LoadCursor PROVE ScannedOK'
    <2>1. from' = W!NextFrom /\ UNCHANGED <<block, cursor, pending>>
      BY <1>4 DEF W!LoadCursor, W!BeginRefresh, W!chainVars
    <2>2. CASE cursor = 0
      <3>1. ASSUME NEW t \in Tx, block[t] > cursor, block[t] < W!NextFrom
            PROVE  pending[t] # 0 \/ Accounted(t)'
        <4>1. latest - Lookback \in Int
          BY <1>0 DEF W!TypeOK
        <4>2. W!NextFrom \in Int
          BY <2>2, <4>1, MaxOfTwo DEF W!NextFrom
        <4>3. block[t] \in 1..(W!NextFrom - 1)
          BY <1>0, <2>2, <3>1, <4>2 DEF W!TypeOK
        <4> QED BY <1>4, <2>2, <4>3, AccountsKept DEF FirstScanReachesBack
      <3> QED BY <2>1, <2>2, <3>1 DEF ScannedOK
    <2>3. CASE cursor # 0
      <3>1. W!NextFrom = cursor + 1
        BY <2>3 DEF W!NextFrom
      <3> QED BY <1>0, <2>1, <2>3, <3>1 DEF ScannedOK, W!TypeOK
    <2> QED BY <2>2, <2>3
  <1>5. ASSUME ~ Call, NEW n \in W!Nodes, W!GetLogs(n) PROVE ScannedOK'
    <2>1. n \in Nat /\ W!BatchEnd <= n
      BY <1>0, <1>5 DEF NodesKeepUp, W!Nodes, W!TypeOK
    <2>2. /\ stage = "logs" /\ from' = W!BatchEnd + 1 /\ UNCHANGED <<block, cursor>>
          /\ \A t \in Tx : pending'[t] = IF block[t] # 0 /\ block[t] \in from..W!BatchEnd /\ block[t] <= n
                                         THEN block[t] ELSE pending[t]
      BY <1>5 DEF W!GetLogs, W!chainVars
    <2>3. W!BatchEnd \in from..latest /\ from \in Nat /\ cursor \in Nat
      BY <1>0, <2>2, BatchIsInRange DEF W!TypeOK
    <2>4. \A t \in Tx : block[t] \in Nat /\ block[t] <= head
      BY <1>0 DEF W!TypeOK, CycleOK
    <2>5. \A t \in Tx : Accounted(t)' <=> Accounted(t)
      BY <1>5, AccountsKept
    <2> HIDE DEF ScannedOK
    <2>6. ASSUME NEW t \in Tx, block[t] > cursor, block[t] < from'
          PROVE  pending'[t] # 0 \/ Accounted(t)'
      <3>1. CASE block[t] < from
        BY <2>2, <2>3, <2>4, <2>5, <2>6, <3>1 DEF ScannedOK
      <3>2. CASE block[t] >= from
        BY <2>1, <2>2, <2>3, <2>4, <2>6, <3>2
      <3> QED BY <2>3, <2>4, <3>1, <3>2
    <2>7. cursor' = 0 \/ cursor' < from'
      BY <2>2, <2>3 DEF ScannedOK
    <2> QED BY <2>2, <2>6, <2>7 DEF ScannedOK
  <1>6. ASSUME NEW n \in W!Nodes, W!Poll(n) PROVE FALSE
    BY <1>6 DEF W!Poll
  <1>7. ASSUME W!GetLogsFails \/ W!SaveCursor \/ W!EndPoll PROVE FALSE
    BY <1>7 DEF W!GetLogsFails, W!SaveCursor, W!EndPoll, W!BeginRefresh
  <1>8. ASSUME (\E t \in Tx : Report(t)) \/ Reported \/ Die \/ Recover PROVE FALSE
    BY <1>8 DEF Report, W!Emit, Reported, W!Emitted, Die, W!Crash, Recover, W!Restart
  <1>9. ASSUME Call PROVE FALSE
    BY <1>9, CallEvent DEF watcher
  <1> QED BY <1>2, <1>3, <1>4, <1>5, <1>6, <1>7, <1>8, <1>9, ServiceKeepsWatcher
          DEF GNext, W!ScanStep, watcher

-----------------------------------------------------------------------------
(* The watcher is one the service can rely on *)

ReliedOn == FollowInv /\ ReturnedOK /\ ScannedOK

\* A step that changes no account, no list and no side of the cursor is none
\* of Watching.
LEMMA WatchStutters ==
    ASSUME Running' <=> Running,
           \A t \in Tx : /\ block'[t] \in 1..cursor' <=> block[t] \in 1..cursor
                         /\ pending'[t] # 0 <=> pending[t] # 0
                         /\ Accounted(t)' <=> Accounted(t)
                         /\ Confirming(t)' <=> Confirming(t)
    PROVE  UNCHANGED Watch!vars
  <1>1. {t \in Tx : block[t] \in 1..cursor}' = {t \in Tx : block[t] \in 1..cursor}
    OBVIOUS
  <1>2. {t \in Tx : pending[t] # 0}' = {t \in Tx : pending[t] # 0}
    OBVIOUS
  <1>3. {t \in Tx : Accounted(t)}' = {t \in Tx : Accounted(t)}
    OBVIOUS
  <1>4. {t \in Tx : Accounted(t) /\ ~ Confirming(t)}' = {t \in Tx : Accounted(t) /\ ~ Confirming(t)}
    OBVIOUS
  <1>5. Running' = Running
    BY DEF Running
  <1> QED BY <1>1, <1>2, <1>3, <1>4, <1>5 DEF Watch!vars

\* The chain adds, moves and takes transfers ahead of the cursor.
LEMMA ChainWatches ==
    ASSUME GatewayInv, RowInv, ScannedOK, [GNext]_gvars, ScannedBlocksStay,
           W!ChainStep, UNCHANGED <<vars, height, crashes>>
    PROVE  UNCHANGED Watch!vars
  <1>0. W!TypeOK /\ CycleOK /\ MaxHead \in Nat
    BY GatewayAssumption DEF GatewayInv, CycleInv
  <1>1. UNCHANGED <<cursor, stage, pending>>
    BY DEF W!ChainStep, W!Mine, W!Reorg, W!watcherVars
  <1>2. Scanned \in Int /\ cursor \in Nat /\ (cursor <= Scanned \/ cursor = 0)
    BY <1>0 DEF Scanned, ScannedOK, W!TypeOK
  <1>3. \A t \in Tx : block'[t] \in 1..cursor' <=> block[t] \in 1..cursor
    BY <1>1, <1>2 DEF ScannedBlocksStay
  <1>4. \A t \in Tx : (Accounted(t)' <=> Accounted(t)) /\ (Confirming(t)' <=> Confirming(t))
    BY DEF vars, Accounted, Claimed, Confirming
  <1> QED BY <1>1, <1>3, <1>4, WatchStutters DEF Running

\* A scan finds transfers, and passes what it has found.
LEMMA ScanWatches ==
    ASSUME GatewayInv, RowInv, ScannedOK, [GNext]_gvars,
           W!ScanStep, UNCHANGED <<vars, height, crashes>>
    PROVE  [Watch!Next]_(Watch!vars)
  <1>0. W!TypeOK /\ CycleOK /\ MaxHead \in Nat
    BY GatewayAssumption DEF GatewayInv, CycleInv
  <1>1. \A t \in Tx : (Accounted(t)' <=> Accounted(t)) /\ (Confirming(t)' <=> Confirming(t))
    BY DEF vars, Accounted, Claimed, Confirming
  <1>2. /\ {t \in Tx : Accounted(t)}' = {t \in Tx : Accounted(t)}
        /\ {t \in Tx : Accounted(t) /\ ~ Confirming(t)}' = {t \in Tx : Accounted(t) /\ ~ Confirming(t)}
    BY <1>1
  <1>3. Running /\ Running' /\ Running' = Running
    BY DEF Running, W!ScanStep, W!Poll, W!GetLogs, W!LoadCursor, W!GetLogsFails, W!SaveCursor,
           W!EndPoll, W!BeginRefresh
  <1>4. ASSUME UNCHANGED <<block, cursor, pending>> PROVE UNCHANGED Watch!vars
    BY <1>1, <1>3, <1>4, WatchStutters
  <1>5. ASSUME (\E n \in W!Nodes : W!Poll(n)) \/ W!LoadCursor \/ W!GetLogsFails \/ W!EndPoll
        PROVE  UNCHANGED <<block, cursor, pending>>
    BY <1>5 DEF W!Poll, W!LoadCursor, W!GetLogsFails, W!EndPoll, W!chainVars
  <1>6. ASSUME NEW n \in W!Nodes, W!GetLogs(n)
        PROVE  \E S \in SUBSET Tx : Watch!Find(S)
    <2>0. PICK S \in SUBSET Tx : S = {t \in Tx : pending'[t] # 0}
      OBVIOUS
    <2>1. UNCHANGED <<block, cursor>> /\ \A t \in Tx : pending[t] # 0 => pending'[t] # 0
      BY <1>0, <1>6 DEF W!GetLogs, W!chainVars
    <2>2. {t \in Tx : pending[t] # 0}' = {t \in Tx : pending[t] # 0} \cup S
      BY <2>0, <2>1
    <2>3. {t \in Tx : block[t] \in 1..cursor}' = {t \in Tx : block[t] \in 1..cursor}
      BY <2>1
    <2>4. Watch!Find(S)
      BY <1>2, <1>3, <2>2, <2>3 DEF Watch!Find
    <2> QED BY <2>4
  <1>7. ASSUME W!SaveCursor, cursor' = from - 1
        PROVE  \E S \in SUBSET Tx : Watch!Pass(S)
    <2>0. PICK S \in SUBSET Tx : S = {t \in Tx : block[t] > cursor /\ block[t] < from}
      OBVIOUS
    <2>1. UNCHANGED <<block, pending>> /\ stage = "save" /\ from = latest + 1
      BY <1>0, <1>7 DEF W!SaveCursor, W!chainVars, CycleOK
    <2>2. cursor \in Nat /\ from \in Nat /\ cursor <= from - 1
      BY <1>0, <2>1 DEF W!TypeOK, ScannedOK
    <2>3. S \subseteq {t \in Tx : pending[t] # 0} \cup {t \in Tx : Accounted(t)}
      BY <2>0, <2>1 DEF ScannedOK
    <2>4. \A t \in Tx : block[t] \in Nat /\ block'[t] = block[t]
      BY <1>0, <2>1 DEF W!TypeOK
    <2>5. {t \in Tx : block[t] \in 1..cursor}' = {t \in Tx : block[t] \in 1..cursor} \cup S
      BY <1>7, <2>0, <2>2, <2>4
    <2>6. {t \in Tx : pending[t] # 0}' = {t \in Tx : pending[t] # 0}
      BY <2>1
    <2>7. Watch!Pass(S)
      BY <1>2, <1>3, <2>3, <2>5, <2>6 DEF Watch!Pass
    <2> QED BY <2>7
  <1>8. ASSUME W!SaveCursor, cursor' # from - 1 PROVE UNCHANGED <<block, cursor, pending>>
    BY <1>8 DEF W!SaveCursor, W!chainVars
  <1> QED BY <1>4, <1>5, <1>6, <1>7, <1>8 DEF W!ScanStep, Watch!Next

\* A call reports its transfer, or has done nothing yet.
LEMMA CallWatches ==
    ASSUME GatewayInv, RowInv, Call
    PROVE  [Watch!Next]_(Watch!vars)
  <1>0. PICK t \in Tx : t = sending.tx
    BY CallEvent
  <1>1. /\ pending[t] # 0 /\ UNCHANGED <<head, block, cursor, stage, pending>>
        /\ Running /\ Running' /\ Running' = Running
    BY <1>0, CallEvent DEF watcher, Running
  <1>2. \A u \in Tx : (Accounted(u) => Accounted(u)')
    BY CallAccounts
  <1>3. \A u \in Tx : u # t => /\ Accounted(u)' <=> Accounted(u)
                               /\ Confirming(u)' <=> Confirming(u)
    BY <1>0, CallAccounts
  <1> DEFINE accounted == {u \in Tx : Accounted(u)}
             finished == {u \in Tx : Accounted(u) /\ ~ Confirming(u)}
  <1>4. CASE ~ Accounted(t)'
    <2>1. accounted' = accounted
      BY <1>2, <1>3, <1>4
    <2>2. finished' = finished
      BY <1>2, <1>3, <1>4
    <2> QED BY <1>1, <2>1, <2>2 DEF Watch!vars
  <1>5. CASE Accounted(t)'
    <2>1. accounted' = accounted \cup {t}
      BY <1>3, <1>5
    <2>2. finished' = (IF Confirming(t)' THEN finished \ {t} ELSE finished \cup {t})
      BY <1>3, <1>5
    <2>3. t \in {u \in Tx : pending[u] # 0}
          /\ {u \in Tx : pending[u] # 0}' = {u \in Tx : pending[u] # 0}
          /\ {u \in Tx : block[u] \in 1..cursor}' = {u \in Tx : block[u] \in 1..cursor}
      BY <1>1
    <2>4. Watch!Report(t)
      BY <1>1, <2>1, <2>2, <2>3 DEF Watch!Report
    <2> QED BY <2>4 DEF Watch!Next
  <1> QED BY <1>4, <1>5

\* emit drops a transfer nobody waits for, or none.
LEMMA ReportedWatches ==
    ASSUME GatewayInv, RowInv, OfferedOK, ReturnedOK, [GNext]_gvars, Reported
    PROVE  [Watch!Next]_(Watch!vars)
  <1>0. W!TypeOK /\ CycleOK /\ stage = "sink" /\ sending \in SentEvent /\ pc[Worker] = "idle"
    BY DEF GatewayInv, CycleInv, CycleOK, Reported, W!Emitted
  <1>1. PICK t \in Tx : t = sending.tx
    BY <1>0 DEF SentEvent
  <1>2. /\ UNCHANGED <<block, cursor, orders, reviews>> /\ Running /\ Running' /\ Running' = Running
        /\ pending' = [pending EXCEPT ![t] =
                         IF W!Depth(pending[t]) >= Required[Watched] THEN 0 ELSE @]
    BY <1>0, <1>1 DEF Reported, W!Emitted, W!chainVars, vars, Running
  <1>3. \A u \in Tx : (Accounted(u)' <=> Accounted(u)) /\ (Confirming(u)' <=> Confirming(u))
    BY <1>2 DEF Accounted, Claimed, Confirming
  <1>4. CASE pending' = pending
    BY <1>2, <1>3, <1>4, WatchStutters
  <1>5. CASE W!Depth(pending[t]) >= Required[Watched]
    <2>1. Accounted(t) /\ ~ Confirming(t)
      <3>1. pending[t] \in Nat /\ latest \in Nat /\ Required[Watched] \in Nat
            /\ sending.height = pending[t]
        BY <1>0, <1>1, OrdersAssumption, GatewayAssumption DEF W!TypeOK, CycleOK
      <3>2. CountAtHand = IF latest >= pending[t] THEN latest - pending[t] + 1 ELSE 0
        BY <3>1, ConfirmationsOf DEF CountAtHand
      <3>3. ~ (CountAtHand < Required[Watched])
        BY <1>5, <3>1, <3>2 DEF W!Depth
      <3> QED BY <1>0, <1>1, <3>3 DEF ReturnedOK, OfferedOK
    <2>2. {u \in Tx : pending[u] # 0}' = {u \in Tx : pending[u] # 0} \ {t}
      BY <1>0, <1>2, <1>5 DEF W!TypeOK
    <2>3. /\ {u \in Tx : Accounted(u)}' = {u \in Tx : Accounted(u)}
          /\ {u \in Tx : Accounted(u) /\ ~ Confirming(u)}' = {u \in Tx : Accounted(u) /\ ~ Confirming(u)}
          /\ {u \in Tx : block[u] \in 1..cursor}' = {u \in Tx : block[u] \in 1..cursor}
      BY <1>2, <1>3
    <2>4. Watch!Drop(t)
      BY <1>2, <2>1, <2>2, <2>3 DEF Watch!Drop
    <2> QED BY <2>4 DEF Watch!Next
  <1> QED BY <1>0, <1>2, <1>4, <1>5 DEF W!TypeOK

\* A crash empties the list; a restart fills it with what is confirming.
LEMMA RestartWatches ==
    ASSUME GatewayInv, RowInv, [GNext]_gvars, Die \/ Recover
    PROVE  [Watch!Next]_(Watch!vars)
  <1>1. ~ Call => \A u \in Tx : (Accounted(u)' <=> Accounted(u)) /\ (Confirming(u)' <=> Confirming(u))
    BY AccountsKept
  <1>2. ~ Call
    BY CallEvent DEF Die, Recover, W!Crash, W!Restart, watcher
  <1>3. /\ {u \in Tx : Accounted(u)}' = {u \in Tx : Accounted(u)}
        /\ {u \in Tx : Accounted(u) /\ ~ Confirming(u)}' = {u \in Tx : Accounted(u) /\ ~ Confirming(u)}
    BY <1>1, <1>2
  <1>4. UNCHANGED <<block, cursor>>
    BY DEF Die, Recover, W!Crash, W!Restart, W!chainVars
  <1>5. {u \in Tx : block[u] \in 1..cursor}' = {u \in Tx : block[u] \in 1..cursor}
    BY <1>4
  <1>6. ASSUME Die PROVE Watch!Crash
    <2>1. Running /\ ~ Running' /\ Running' = FALSE /\ {u \in Tx : pending[u] # 0}' = {}
      BY <1>6 DEF Die, W!Crash, Running
    <2> QED BY <1>3, <1>5, <2>1 DEF Watch!Crash
  <1>7. ASSUME Recover PROVE Watch!Recover
    <2>1. ~ Running /\ Running' /\ Running' = TRUE /\ pending' = Seed
      BY <1>7 DEF Recover, W!Restart, Running
    <2>2. \A u \in Tx : Confirming(u) => Accounted(u) /\ height[u] # 0
      BY DEF RowInv, HeightOK, Confirming, Claimed, Accounted
    <2>3. {u \in Tx : pending[u] # 0}' = {u \in Tx : Confirming(u)}
      BY <2>1, <2>2 DEF Seed
    <2> QED BY <1>3, <1>5, <2>1, <2>2, <2>3 DEF Watch!Recover
  <1> QED BY <1>6, <1>7 DEF Watch!Next

\* Every step of the gateway is one of Watching or none.
LEMMA StepWatches ==
    ASSUME GatewayInv, RowInv, ReliedOn, [GNext]_gvars, ScannedBlocksStay
    PROVE  [Watch!Next]_(Watch!vars)
  <1>1. ASSUME UNCHANGED <<watcher, height, crashes>>, ~ Call PROVE UNCHANGED Watch!vars
    BY <1>1, AccountsKept, WatchStutters DEF watcher, Running
  <1>2. ASSUME NEW t \in Tx, Report(t) PROVE UNCHANGED Watch!vars
    <2>1. UNCHANGED <<block, cursor, pending, orders, reviews>> /\ Running /\ Running'
      BY <1>2 DEF Report, W!Emit, W!chainVars, OnTransfer, Running
    <2> QED BY <2>1, WatchStutters DEF Accounted, Claimed, Confirming
  <1> QED
    BY <1>1, <1>2, ServiceKeepsWatcher, ChainWatches, ScanWatches, CallWatches, ReportedWatches,
       RestartWatches DEF GNext, ReliedOn, FollowInv

\* What the guarantee rests on, step by step.
Undisturbed == LastReportLands /\ NodesKeepUp /\ FirstScanReachesBack /\ ScannedBlocksStay

\* The EVM watcher with the service as its sink implements Watching: what the
\* cursor passes it follows or has brought to an account, it drops only what no
\* order waits for, and a restart gives back what a crash took.  This holds of
\* every behaviour in which the node that answers eth_getLogs has the blocks it
\* is asked for, the blocks already scanned keep their transfers, the first
\* scan goes back far enough, and no statement of a last report fails; without
\* any one of the four it does not (scanNewLogs, refreshConfirmations).
THEOREM GatewayWatches == GSpec /\ [][Undisturbed]_gvars => Watches
  <1>1. GInit => Watch!Init
    BY OrdersAssumption
    DEF GInit, Init, NoRow, W!EVMInit, Watch!Init, Running, Accounted, Claimed, Confirming
  <1>2. GInit => ReturnedOK /\ ScannedOK
    BY DEF GInit, W!EVMInit, ReturnedOK, ScannedOK
  <1>3. UNCHANGED gvars => /\ ReturnedOK <=> ReturnedOK'
                           /\ ScannedOK <=> ScannedOK'
                           /\ UNCHANGED Watch!vars
    BY DEF gvars, vars, watcher, ReturnedOK, ScannedOK, Accounted, Claimed, CountAtHand,
           W!Confirmations, W!Depth, Watch!vars, Running, Confirming
  <1>4. GatewayInv /\ RowInv /\ ReturnedOK /\ ScannedOK /\ [GNext]_gvars /\ [Undisturbed]_gvars
          => ReturnedOK' /\ ScannedOK'
    BY <1>3, StepReturnedOK, StepScannedOK DEF Undisturbed
  <1>5. [Undisturbed]_gvars => [LastReportLands]_gvars
    BY DEF Undisturbed
  <1>6. GSpec /\ [][Undisturbed]_gvars => [](GatewayInv /\ RowInv /\ ReliedOn)
    BY <1>2, <1>4, <1>5, FollowInvariant, RowInvariant, PTL DEF GSpec, ReliedOn
  <1>7. GatewayInv /\ RowInv /\ ReliedOn /\ [GNext]_gvars /\ [Undisturbed]_gvars
          => [Watch!Next]_(Watch!vars)
    BY <1>3, StepWatches DEF Undisturbed
  <1> QED BY <1>1, <1>6, <1>7, PTL DEF GSpec, Watches, Watch!Spec

=============================================================================
