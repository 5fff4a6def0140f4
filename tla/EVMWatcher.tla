----------------------------- MODULE EVMWatcher -----------------------------
(***************************************************************************)
(* The watcher of one EVM chain (internal/chains/evm): the poll cycle of   *)
(* Watcher.Run over the RPC nodes, the durable scan cursor and the         *)
(* in-memory map of pending transfers.                                     *)
(*                                                                         *)
(* Every call that leaves the process is one step: eth_blockNumber,        *)
(* GetCursor, each eth_getLogs batch, SetCursor, and each OnTransfer of    *)
(* the sink, which is entered by Emit and left by Emitted.  The chain is   *)
(* external: it grows, includes transfers and, if ReorgDepth allows,       *)
(* replaces its last blocks; a call may be answered by a node that lags.   *)
(* Blocks are numbered from 1, and 0 stands for "in no block".             *)
(***************************************************************************)
EXTENDS Integers, FiniteSetsExt

CONSTANTS
    Tx,                \* transfers to the watched address, one per tx_hash
    NULL,
    RequiredConfirms,  \* cfg.RequiredConfirms
    BatchBlocks,       \* cfg.LogsBatchBlocks
    Lookback,          \* blocks scanned back on the first run (50)
    Lag,               \* how far an answering RPC node may be behind
    ReorgDepth,        \* how many of the last blocks may be replaced
    RpcFaults,         \* may an RPC call fail on every endpoint?
    CursorFaults,      \* may GetCursor or SetCursor fail?
    MaxHead            \* bound: the chain stops growing here

VARIABLES
    head,     \* the chain: number of its last block
    block,    \* the chain: block of each transfer
    cursor,   \* chain_cursors.last_scanned_height
    stage,    \* where the poll cycle stands
    latest,   \* latestBlock of the current cycle
    from,     \* the loop variable "cursor" of scanNewLogs
    pending,  \* w.pending: block height of each pending transfer
    items,    \* transfers refreshConfirmations has still to report
    sending   \* the event the sink is working on

chainVars   == <<head, block>>
watcherVars == <<stage, latest, from, pending, items, sending>>
evmVars     == <<chainVars, cursor, watcherVars>>

Stage == {"down", "idle", "load", "logs", "save", "refresh", "sink"}

TypeOK ==
    /\ head \in 1..MaxHead
    /\ block \in [Tx -> 0..MaxHead]
    /\ cursor \in 0..MaxHead
    /\ stage \in Stage
    /\ latest \in 0..MaxHead
    /\ from \in 0..(MaxHead + 1)
    /\ pending \in [Tx -> 0..MaxHead]
    /\ items \subseteq Tx
    /\ sending \in [tx: Tx, height: 0..MaxHead, confirmations: Nat] \cup {NULL}

EVMInit ==
    /\ head    = 1
    /\ block   = [t \in Tx |-> 0]
    /\ cursor  = 0
    /\ stage   = "idle"
    /\ latest  = 0
    /\ from    = 0
    /\ pending = [t \in Tx |-> 0]
    /\ items   = {}
    /\ sending = NULL

-----------------------------------------------------------------------------
(* The chain *)

\* A new block, with some transfers that were in none.
Mine(S) ==
    /\ head < MaxHead
    /\ \A t \in S : block[t] = 0
    /\ head'  = head + 1
    /\ block' = [t \in Tx |-> IF t \in S THEN head + 1 ELSE block[t]]
    /\ UNCHANGED <<cursor, watcherVars>>

\* The last blocks are replaced, and t is now in block b of the new branch,
\* or in none.
Reorg(t, b) ==
    /\ block[t] # 0 /\ block[t] > head - ReorgDepth
    /\ b # block[t]
    /\ b = 0 \/ (b > head - ReorgDepth /\ b <= head)
    /\ block' = [block EXCEPT ![t] = b]
    /\ UNCHANGED <<head, cursor, watcherVars>>

\* The heights of the nodes that may answer a call.
Nodes == {n \in 1..head : n >= head - Lag}

-----------------------------------------------------------------------------
(* The poll cycle *)

\* blockNumber; when it fails the cycle is over.
Poll(n) ==
    /\ stage = "idle"
    /\ latest' = n
    /\ stage'  = "load"
    /\ UNCHANGED <<chainVars, cursor, from, pending, items, sending>>

\* refreshConfirmations begins: it copies the keys of w.pending.
BeginRefresh ==
    /\ stage' = "refresh"
    /\ items' = {t \in Tx : pending[t] # 0}

Mutant_NextFrom == IF cursor = 0 THEN Max({latest - Lookback, 0}) ELSE cursor + 2

\* Where the scan starts.
NextFrom == IF cursor = 0 THEN Max({latest - Lookback, 0}) ELSE cursor + 1

\* GetCursor; a scan with nothing new, or a failed one, goes on to refresh.
LoadCursor ==
    /\ stage = "load"
    /\ \/ /\ NextFrom <= latest
          /\ from'  = NextFrom
          /\ stage' = "logs"
          /\ UNCHANGED items
       \/ /\ NextFrom > latest \/ CursorFaults
          /\ BeginRefresh
          /\ UNCHANGED from
    /\ UNCHANGED <<chainVars, cursor, latest, pending, sending>>

\* The last block of the batch.
BatchEnd == Min({from + BatchBlocks - 1, latest})

\* eth_getLogs for one batch, answered by a node at height n; handleLog puts
\* every transfer it returns in w.pending.
GetLogs(n) ==
    /\ stage = "logs"
    /\ pending' = [t \in Tx |-> IF block[t] # 0 /\ block[t] \in from..BatchEnd /\ block[t] <= n
                               THEN block[t] ELSE pending[t]]
    /\ from'  = BatchEnd + 1
    /\ stage' = IF BatchEnd = latest THEN "save" ELSE "logs"
    /\ UNCHANGED <<chainVars, cursor, latest, items, sending>>

\* A batch fails: the scan ends without saving the batches it completed.
GetLogsFails ==
    /\ RpcFaults
    /\ stage = "logs"
    /\ BeginRefresh
    /\ UNCHANGED <<chainVars, cursor, latest, from, pending, sending>>

Mutant_SaveCursor ==
    /\ stage = "save"
    /\ \/ cursor' = head
       \/ CursorFaults /\ UNCHANGED cursor
    /\ BeginRefresh
    /\ UNCHANGED <<chainVars, latest, from, pending, sending>>

\* SetCursor(lastCompleted).
SaveCursor ==
    /\ stage = "save"
    /\ \/ cursor' = from - 1
       \/ CursorFaults /\ UNCHANGED cursor
    /\ BeginRefresh
    /\ UNCHANGED <<chainVars, latest, from, pending, sending>>

Mutant_Depth(b) == latest - b + 2

\* latestBlock - blockHeight + 1.
Depth(b) == latest - b + 1

Mutant_Confirmations(b) == Depth(b)

\* What emit reports: a node that lags must not make it negative.
Confirmations(b) == Max({Depth(b), 0})

\* emit hands one transfer to the sink.
Emit(t) ==
    /\ stage = "refresh"
    /\ t \in items
    /\ sending' = [tx |-> t, height |-> pending[t], confirmations |-> Confirmations(pending[t])]
    /\ stage'   = "sink"
    /\ UNCHANGED <<chainVars, cursor, latest, from, pending, items>>

Mutant_Emitted ==
    /\ stage = "sink"
    /\ LET t == sending.tx IN
       /\ items'   = items \ {t}
       /\ pending' = [pending EXCEPT ![t] = 0]
    /\ sending' = NULL
    /\ stage'   = "refresh"
    /\ UNCHANGED <<chainVars, cursor, latest, from>>

\* The sink has returned; its error, if any, is only logged.  A transfer deep
\* enough is forgotten.
Emitted ==
    /\ stage = "sink"
    /\ LET t == sending.tx IN
       /\ items'   = items \ {t}
       /\ pending' = [pending EXCEPT ![t] =
                        IF Depth(pending[t]) >= RequiredConfirms THEN 0 ELSE @]
    /\ sending' = NULL
    /\ stage'   = "refresh"
    /\ UNCHANGED <<chainVars, cursor, latest, from>>

EndPoll ==
    /\ stage = "refresh" /\ items = {}
    /\ stage' = "idle"
    /\ UNCHANGED <<chainVars, cursor, latest, from, pending, items, sending>>

\* The process dies, at any point of the cycle, and its memory with it.
Crash ==
    /\ stage # "down"
    /\ stage'   = "down"
    /\ latest'  = 0
    /\ from'    = 0
    /\ pending' = [t \in Tx |-> 0]
    /\ items'   = {}
    /\ sending' = NULL
    /\ UNCHANGED <<chainVars, cursor>>

\* It comes up again; SeedPending primes the map with the heights that
\* LoadPendingTransfers read back (0: nothing to seed) before Run starts.
Restart(seed) ==
    /\ stage = "down"
    /\ pending' = seed
    /\ stage'   = "idle"
    /\ UNCHANGED <<chainVars, cursor, latest, from, items, sending>>

-----------------------------------------------------------------------------
ChainStep ==
    \/ \E S \in SUBSET Tx : Mine(S)
    \/ \E t \in Tx, b \in 0..MaxHead : Reorg(t, b)

\* Everything the cycle does but the calls of the sink.
ScanStep ==
    \/ \E n \in Nodes : Poll(n) \/ GetLogs(n)
    \/ LoadCursor \/ GetLogsFails \/ SaveCursor \/ EndPoll
=============================================================================
