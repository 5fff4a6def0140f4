------------------------------ MODULE Gateway -------------------------------
(***************************************************************************)
(* The whole path of a payment on one EVM chain: the chain, its watcher    *)
(* (EVMWatcher), and the orders service over its tables (Orders), in one   *)
(* process that can die and be started again.  The two meet where they do  *)
(* in the code: emit calls OnTransfer and waits for it, and at startup     *)
(* LoadPendingTransfers seeds the watcher from the orders still            *)
(* confirming.                                                             *)
(***************************************************************************)
EXTENDS Orders

CONSTANTS
    Watched, Worker,  \* the chain, and the handler its watcher calls
    BatchBlocks, Lookback, Lag, ReorgDepth, RpcFaults, CursorFaults, MaxHead,
    MaxCrashes        \* bound: how often the process dies

ASSUME GatewayAssumption ==
    /\ Watched \in Chain /\ Worker \in Handler /\ HandlerChain[Worker] = Watched
    /\ BatchBlocks \in Nat \ {0} /\ Lookback \in Nat /\ Lag \in Nat /\ ReorgDepth \in Nat
    /\ RpcFaults \in BOOLEAN /\ CursorFaults \in BOOLEAN
    /\ MaxHead \in Nat \ {0} /\ MaxCrashes \in Nat

VARIABLES
    head, block, cursor, stage, latest, from, pending, items, sending,
    height,  \* orders.tx_block_height of the order each transfer pays
    crashes

W == INSTANCE EVMWatcher WITH RequiredConfirms <- Required[Watched]

watcher == <<head, block, cursor, stage, latest, from, pending, items, sending>>
gvars   == <<vars, watcher, height, crashes>>

GInit ==
    /\ Init /\ W!EVMInit
    /\ height  = [t \in Tx |-> 0]
    /\ crashes = 0

Running == stage # "down"

\* emit calls the sink with the event it built ...
Report(t) ==
    /\ W!Emit(t)
    /\ OnTransfer(Worker, [tx |-> t, amount |-> TxAmount[t],
                           confirmations |-> W!Confirmations(pending[t])])
    /\ UNCHANGED <<height, crashes>>

\* The transfer at hand is claimed, or counted on.
Written(t) ==
    \/ Claimed(t)' /\ ~ Claimed(t)
    \/ t = sending.tx /\ UpdateConfirmations(Worker) /\ Advancing(call[Worker]) # {}

Mutant_Call ==
    /\ Running
    /\ HandlerStep(Worker) \/ StatementFails(Worker)
    /\ height' = [t \in Tx |-> IF Claimed(t)' /\ ~ Claimed(t) THEN sending.height ELSE height[t]]
    /\ UNCHANGED <<watcher, crashes>>

\* The statements of the call; those that write the order of the transfer
\* store the height of the event with it.
Call ==
    /\ Running
    /\ HandlerStep(Worker) \/ StatementFails(Worker)
    /\ height' = [t \in Tx |-> IF Written(t) THEN sending.height ELSE height[t]]
    /\ UNCHANGED <<watcher, crashes>>

\* ... and goes on when the call has returned.
Reported ==
    /\ W!Emitted
    /\ pc[Worker] = "idle" /\ Ready(Worker)
    /\ UNCHANGED <<vars, height, crashes>>

\* The process dies: requests, calls and open transactions end, and what was
\* still to be logged is not; the tables, the cursor and the chain remain.
Die ==
    /\ crashes < MaxCrashes
    /\ W!Crash
    /\ pc'      = [h \in Handler |-> "idle"]
    /\ call'    = [h \in Handler |-> NULL]
    /\ best'    = [h \in Handler |-> NULL]
    /\ lock'    = [o \in Order |-> NULL]
    /\ request' = [c \in Creator |-> NULL]
    /\ sweep'   = [running |-> FALSE, todo |-> {}]
    /\ owed'    = [a \in Actor |-> {}]
    /\ crashes' = crashes + 1
    /\ UNCHANGED <<orders, reviews, audit, now, height>>

\* Attributed to an order, or in the review queue.
Accounted(t) == Claimed(t) \/ reviews[t] # NULL

Confirming(t) == \E o \in Order : orders[o].tx = t /\ orders[o].status = "confirming"

Mutant_Seed == [t \in Tx |-> 0]

\* LoadPendingTransfers: what is still confirming, at its stored height.
Seed == [t \in Tx |-> IF Confirming(t) THEN height[t] ELSE 0]

Recover == W!Restart(Seed) /\ UNCHANGED <<vars, height, crashes>>

\* The steps of the service that need no watcher.
ServiceStep ==
    \/ \E c \in Creator : \/ \E base \in BaseAmounts : CreateOrder(c, Watched, base)
                          \/ CreatorStep(c)
    \/ ExpiryStep \/ ExpireFails

GNext ==
    \/ Running /\ ServiceStep /\ UNCHANGED <<watcher, height, crashes>>
    \/ Tick /\ UNCHANGED <<watcher, height, crashes>>
    \/ (W!ChainStep \/ W!ScanStep) /\ UNCHANGED <<vars, height, crashes>>
    \/ \E t \in Tx : Report(t)
    \/ Call \/ Reported \/ Die \/ Recover

GSpec == GInit /\ [][GNext]_gvars

(***************************************************************************)
(* While the process is up its goroutines run and its statements return;   *)
(* when it is down somebody starts it again; time goes on, the chain       *)
(* grows, and a range of blocks asked for again and again is answered      *)
(* once: that is what the fallback endpoints are for.                      *)
(***************************************************************************)
GFairness ==
    /\ WF_gvars(Call)
    /\ WF_gvars(Running /\ ExpiryStep /\ UNCHANGED <<watcher, height, crashes>>)
    /\ WF_gvars(Tick /\ UNCHANGED <<watcher, height, crashes>>)
    /\ WF_gvars(W!ScanStep /\ UNCHANGED <<vars, height, crashes>>)
    /\ \A b \in 0..MaxHead :
         SF_gvars(from = b /\ (\E n \in W!Nodes : W!GetLogs(n)) /\ UNCHANGED <<vars, height, crashes>>)
    /\ WF_gvars(\E t \in Tx : Report(t))
    /\ WF_gvars(Reported) /\ WF_gvars(Recover)
    /\ WF_gvars(W!Mine({}) /\ UNCHANGED <<vars, height, crashes>>)

GFairSpec == GSpec /\ GFairness

-----------------------------------------------------------------------------
(* Properties *)

\* Type invariant of the whole, the counts handed to the sink included: they
\* are never negative, whichever node answered (emit).
GatewayTypeOK ==
    /\ TypeOK
    /\ W!TypeOK
    /\ height \in [Tx -> 0..MaxHead]
    /\ crashes \in 0..MaxCrashes

\* No order shows more confirmations than the chain has blocks from the one the
\* order names as its transfer's, that one included, whichever node answered,
\* however old the latest block of the cycle is, and after any restart, failure
\* or replacement of the last blocks (emit, ClaimExactMatch,
\* UpdateConfirmations, LoadPendingTransfers).  The docs' "latest block - tx
\* block" is one less.
CountsAreTrue ==
    \A o \in Order : orders[o].confirmations > 0 =>
        LET h == height[orders[o].tx] IN
        h # 0 /\ orders[o].confirmations <= head - h + 1

\* No order is left behind: as long as one is confirming, the running watcher
\* has its transfer on the list, after any number of restarts, provided the
\* statements of OnTransfer succeed (refreshConfirmations,
\* LoadPendingTransfers).
ConfirmingIsPending ==
    Running => \A t \in Tx : Confirming(t) => pending[t] # 0

\* A transfer the cursor has not passed ends with an order or in the review
\* queue unless the process dies, although calls to the nodes fail now and
\* then (pollOnce, scanNewLogs, OnTransfer).
TransferIsAccounted ==
    \A t \in Tx : (Running /\ block[t] > cursor) ~> (Accounted(t) \/ ~ Running)

\* Every transfer to the address ends with an order or in the review queue,
\* crash or no crash.
EveryTransferIsAccounted == \A t \in Tx : block[t] # 0 ~> Accounted(t)

\* An order whose transfer was seen does not stall: it is confirmed once the
\* chain is long enough, wherever a crash hits, provided the statements of
\* OnTransfer succeed (Run, LoadPendingTransfers).
ConfirmingCompletes ==
    \A t \in Tx :
        (Confirming(t) /\ block[t] + Required[Watched] - 1 <= MaxHead) ~> ~ Confirming(t)

Watch == INSTANCE Watching WITH
    Transfer <- Tx,
    up       <- Running,
    passed   <- {t \in Tx : block[t] \in 1..cursor},
    followed <- {t \in Tx : pending[t] # 0},
    reported <- {t \in Tx : Accounted(t)},
    done     <- {t \in Tx : Accounted(t) /\ ~ Confirming(t)}

\* The EVM watcher, with the service as its sink, is one the service can rely
\* on, provided the statements of OnTransfer succeed, nodes have the blocks they
\* are asked for and keep them, and the first scan goes back far enough: what
\* the cursor passes it follows or has brought to an account, it drops only what
\* no order waits for anymore, and LoadPendingTransfers gives back what a crash
\* takes (scanNewLogs, refreshConfirmations, OnTransfer, SeedPending).
Watches == Watch!Spec
=============================================================================
