---------------------------- MODULE PagedWatcher ----------------------------
(***************************************************************************)
(* The watchers of TRON and TON (internal/chains/tron, internal/chains/ton *)
(* run the same cycle): page through what an indexer shows since the time  *)
(* of the cursor, oldest first, keep the transfers to the watched address  *)
(* in memory, save the newest time seen, and report each transfer until it *)
(* is deep enough.  They differ in the definitions that mention Kind.      *)
(*                                                                         *)
(* Time is the number of the block being produced (TRON, whose blocks bear *)
(* one timestamp each) or the second (TON); the clock of the host differs  *)
(* from it by up to Skew.  The indexer is external: it shows entries in    *)
(* their order, late, and its endpoints lag differently.  Entries are      *)
(* numbered as the chain includes them.                                    *)
(*                                                                         *)
(* A reported transfer is one of an order's: what else can become of it is *)
(* the business of Orders.  The database keeps the highest count reported, *)
(* and the threshold in force when the orders were made.                   *)
(***************************************************************************)
EXTENDS Integers, Sequences, FiniteSetsExt

CONSTANTS
    Kind,          \* "tron" or "ton"
    Entries,       \* number of entries the indexer comes to show
    Ours,          \* those to the watched address
    NULL,
    Thresholds,    \* values cfg.RequiredConfirms may have
    BlockTime,     \* assumedBlockTimeSeconds
    PageLimit,     \* eventsPageLimit, transfersPageLimit
    MaxPages,      \* maxPagesPerPoll
    BlockSize,     \* most entries of one time
    Together,      \* how many entries the chain includes at once
    Lookback,      \* the 10 minutes looked back at on the first run
    Lag,           \* how far an answering endpoint may be behind
    Steady,        \* do the pages of one scan show all an earlier one of it did?
    Skew,          \* how far the host's clock may be off
    Lowers,        \* may the threshold in force be below that of the orders?
    RpcFaults,     \* may a call fail on every endpoint?
    CursorFaults,  \* may GetCursor or SetCursor fail?
    SinkFaults,    \* reports that OnTransfer may fail: "early" ones, the "last"
    MaxTime,       \* bound: time stops here
    MaxCrashes     \* bound: how often the process dies

ASSUME PagedWatcherAssumption ==
    /\ Kind \in {"tron", "ton"}
    /\ Ours \subseteq 1..Entries
    /\ Thresholds \subseteq Nat \ {0} /\ NULL \notin Nat
    /\ {Entries, BlockSize, Lookback, Lag, Skew, MaxCrashes} \subseteq Nat
    /\ {BlockTime, Together, PageLimit, MaxPages, MaxTime} \subseteq Nat \ {0}
    /\ {Steady, Lowers, RpcFaults, CursorFaults} \subseteq BOOLEAN
    /\ SinkFaults \subseteq {"early", "last"}

VARIABLES
    now,
    time,      \* the chain: time of each entry included so far
    cursor,    \* chain_cursors.last_scanned_at, 0 for the zero time
    confirms,  \* cfg.RequiredConfirms
    stage,     \* where the poll cycle stands
    latest,    \* latestBlock (TRON) or nowUnix (TON) of the cycle
    start,     \* minTimestamp, startUtime
    page,      \* the loop variable; fingerprint and offset follow from it
    seen,      \* maxTimestampSeen, maxUtimeSeen
    pending,   \* w.pending: block or "observed" of a transfer, 0 for none
    items,     \* transfers refreshConfirmations has still to report
    required,  \* the database: required_confirmations of the orders
    stored,    \* the database: highest count reported of each transfer
    crashes

vars == <<now, time, cursor, confirms, stage, latest, start, page, seen,
          pending, items, required, stored, crashes>>

TypeOK ==
    /\ now \in 1..MaxTime /\ time \in Seq(1..MaxTime) /\ Len(time) <= Entries
    /\ {cursor, seen} \subseteq 0..MaxTime /\ latest \in 0..(MaxTime + Skew)
    /\ {confirms, required} \subseteq Thresholds
    /\ stage \in {"down", "idle", "load", "page", "save", "refresh"}
    /\ start \in Nat /\ page \in 0..(MaxPages - 1)
    /\ pending \in [Ours -> 0..(MaxTime + Skew)] /\ items \subseteq Ours
    /\ stored \in [Ours -> Nat \cup {NULL}]
    /\ crashes \in 0..MaxCrashes

\* The variables of a cycle, and those of its scan, out of scope.
NoScan  == start' = 0 /\ page' = 0 /\ seen' = 0
Nothing == [t \in Ours |-> 0]

\* Whether a threshold may be in force.
InForce(threshold) == threshold \in Thresholds /\ (Lowers \/ threshold >= required)

Init ==
    /\ now = 1 /\ time = <<>> /\ cursor = 0
    /\ stage = "idle" /\ latest = 0 /\ start = 0 /\ page = 0 /\ seen = 0
    /\ pending = Nothing /\ items = {}
    /\ required \in Thresholds
    /\ confirms \in Thresholds /\ InForce(confirms)
    /\ stored = [t \in Ours |-> NULL] /\ crashes = 0

-----------------------------------------------------------------------------
(* The chain and the indexer *)

Include ==
    /\ Len(time) + Together <= Entries
    /\ Cardinality({i \in DOMAIN time : time[i] = now}) + Together <= BlockSize
    /\ time' = time \o [i \in 1..Together |-> now]
    /\ UNCHANGED <<now, cursor, confirms, stage, latest, start, page, seen, pending, items, required, stored, crashes>>

Tick ==
    /\ now < MaxTime
    /\ now' = now + 1
    /\ UNCHANGED <<time, cursor, confirms, stage, latest, start, page, seen, pending, items, required, stored, crashes>>

\* The newest entries that can be shown: TRON's are asked for with
\* only_confirmed, which leaves out the block being produced.
Newest == IF Kind = "tron" THEN now - 1 ELSE now

\* Up to when the endpoints that may answer know the chain, what such an
\* endpoint finds, and the page of it that it returns.
Known    == {m \in 0..Newest : m >= Newest - Lag /\ (Steady => m >= seen)}
Found(m) == {i \in DOMAIN time : time[i] >= start /\ time[i] <= m}
Page(m)  == {i \in Found(m) : Cardinality({j \in Found(m) : j < i}) \div PageLimit = page}

-----------------------------------------------------------------------------
(* The poll cycle *)

\* What the host takes for the time.
Clock == {c \in 1..(now + Skew) : c >= now - Skew}

\* TRON asks for the latest block, of an endpoint that may lag (when that
\* fails the cycle is over); TON takes the time.
TronLatest == {n \in 1..now : n >= now - Lag}
TonLatest  == Clock

Poll ==
    /\ stage = "idle"
    /\ latest' \in IF Kind = "tron" THEN TronLatest ELSE TonLatest
    /\ stage'  = "load"
    /\ UNCHANGED <<now, time, cursor, confirms, start, page, seen, pending, items, required, stored, crashes>>

Mutant_ToReport(watched) == {t \in Ours : watched[t] # 0 /\ stored[t] = NULL}

\* The transfers refreshConfirmations copies from w.pending.
ToReport(watched) == {t \in Ours : watched[t] # 0}

BeginRefresh(watched) == stage' = "refresh" /\ items' = ToReport(watched) /\ NoScan

Mutant_StartTime(clock) == IF cursor = 0 THEN Max({clock - Lookback, 0}) ELSE cursor + 2

StartTime(clock) == IF cursor = 0 THEN Max({clock - Lookback, 0}) ELSE cursor + 1

\* GetCursor; a scan that fails goes on to refresh.
LoadCursor ==
    /\ stage = "load"
    /\ \/ /\ stage' = "page"
          /\ \E clock \in Clock : start' = StartTime(clock)
          /\ UNCHANGED <<page, seen, items>>
       \/ CursorFaults /\ BeginRefresh(pending)
    /\ UNCHANGED <<now, time, cursor, confirms, latest, pending, required, stored, crashes>>

\* The loop ends with a short page, with the last page it may fetch, or, for
\* TRON, without a fingerprint to go on from.
LastPage(m) ==
    \/ Cardinality(Page(m)) < PageLimit
    \/ page + 1 = MaxPages
    \/ Kind = "tron" /\ \A i \in Found(m) : \E j \in Page(m) : i <= j

\* handleEvent, handleTransfer: entries to our address go to w.pending, over
\* what is there.
Handled(got) == [t \in Ours |-> IF t \in got THEN time[t] ELSE pending[t]]

FetchPage(m) ==
    LET newSeen == Max({seen} \cup {time[i] : i \in Page(m)})
    IN  /\ stage = "page"
        /\ pending' = Handled(Page(m))
        /\ \/ /\ ~ LastPage(m)
              /\ page' = page + 1 /\ seen' = newSeen
              /\ UNCHANGED <<stage, items, start>>
           \/ /\ LastPage(m) /\ newSeen > 0
              /\ stage' = "save" /\ seen' = newSeen
              /\ UNCHANGED <<page, items, start>>
           \/ /\ LastPage(m) /\ newSeen = 0
              /\ BeginRefresh(pending')
        /\ UNCHANGED <<now, time, cursor, confirms, latest, required, stored, crashes>>

\* A page fails: the scan ends without saving what it saw.
FetchFails ==
    /\ RpcFaults
    /\ stage = "page"
    /\ BeginRefresh(pending)
    /\ UNCHANGED <<now, time, cursor, confirms, latest, pending, required, stored, crashes>>

Mutant_SaveCursor ==
    /\ stage = "save"
    /\ cursor' = latest
    /\ BeginRefresh(pending)
    /\ UNCHANGED <<now, time, confirms, latest, pending, required, stored, crashes>>

SaveCursor ==
    /\ stage = "save"
    /\ \/ cursor' = seen
       \/ CursorFaults /\ UNCHANGED cursor
    /\ BeginRefresh(pending)
    /\ UNCHANGED <<now, time, confirms, latest, pending, required, stored, crashes>>

TronCount(t) == latest - pending[t] + 1

\* The age of the transfer when the cycle began.
TonCount(t)  == (latest - pending[t]) \div BlockTime

Mutant_Count(t) == IF Kind = "tron" THEN TronCount(t) ELSE TonCount(t)

\* An entry newer than the latest block of the cycle is not negative.
Count(t) == Max({0, IF Kind = "tron" THEN TronCount(t) ELSE TonCount(t)})

Mutant_Kept(t) == IF Count(t) + 1 >= confirms THEN 0 ELSE pending[t]

Kept(t) == IF Count(t) >= confirms THEN 0 ELSE pending[t]

\* OnTransfer, and what remains pending after it.
Emit(t) ==
    /\ stage = "refresh"
    /\ t \in items
    /\ items'   = items \ {t}
    /\ stored'  = [stored EXCEPT ![t] = IF @ = NULL THEN Count(t) ELSE Max({@, Count(t)})]
    /\ pending' = [pending EXCEPT ![t] = Kept(t)]
    /\ UNCHANGED <<now, time, cursor, confirms, stage, latest, start, page, seen, required, crashes>>

\* OnTransfer fails, which is only logged: what remains pending is the same.
EmitFails(t) ==
    /\ stage = "refresh"
    /\ t \in items
    /\ (IF Kept(t) = 0 THEN "last" ELSE "early") \in SinkFaults
    /\ items'   = items \ {t}
    /\ pending' = [pending EXCEPT ![t] = Kept(t)]
    /\ UNCHANGED <<now, time, cursor, confirms, stage, latest, start, page, seen, required, stored, crashes>>

EndPoll ==
    /\ stage = "refresh" /\ items = {}
    /\ stage' = "idle" /\ latest' = 0
    /\ UNCHANGED <<now, time, cursor, confirms, start, page, seen, pending, items, required, stored, crashes>>

Die ==
    /\ crashes < MaxCrashes /\ stage # "down"
    /\ crashes' = crashes + 1
    /\ stage' = "down" /\ latest' = 0 /\ NoScan
    /\ pending' = Nothing /\ items' = {}
    /\ UNCHANGED <<now, time, cursor, confirms, required, stored>>

Confirming(t) == stored[t] # NULL /\ stored[t] < required

\* TRON goes on from the block of the transfer; for TON its age starts over.
TronSeed(t)       == time[t]
TonSeed(t, clock) == clock

\* LoadPendingTransfers calls SeedPending for every order still confirming.
SeedPending ==
    /\ stage = "down"
    /\ \E clock \in Clock :
         pending' = [t \in Ours |-> IF ~ Confirming(t) THEN 0
                                    ELSE IF Kind = "tron" THEN TronSeed(t) ELSE TonSeed(t, clock)]
    /\ confirms' \in Thresholds /\ InForce(confirms')
    /\ stage' = "idle"
    /\ UNCHANGED <<now, time, cursor, latest, start, page, seen, items, required, stored, crashes>>

-----------------------------------------------------------------------------
Cycle ==
    \/ Poll \/ LoadCursor \/ FetchFails \/ SaveCursor \/ EndPoll
    \/ \E m \in Known : FetchPage(m)
    \/ \E t \in Ours : Emit(t) \/ EmitFails(t)

Next == Include \/ Tick \/ Cycle \/ Die \/ SeedPending

Spec == Init /\ [][Next]_vars

(***************************************************************************)
(* The ticker fires again and again, time passes, the process is started   *)
(* again, and what is asked for, saved or reported again and again goes    *)
(* through once.                                                           *)
(***************************************************************************)
FairSpec ==
    /\ Spec
    /\ WF_vars(Cycle) /\ WF_vars(Tick) /\ WF_vars(SeedPending)
    /\ \A i \in 0..(MaxPages - 1) : SF_vars(page = i /\ \E m \in Known : FetchPage(m))
    /\ SF_vars(LoadCursor /\ stage' = "page")
    /\ SF_vars(SaveCursor /\ cursor' = seen)
    /\ \A t \in Ours : SF_vars(Emit(t))

-----------------------------------------------------------------------------
(* Properties *)

Watch == INSTANCE Watching WITH
    Transfer <- Ours,
    up       <- stage # "down",
    passed   <- {t \in Ours \cap DOMAIN time : time[t] <= cursor},
    followed <- {t \in Ours : pending[t] # 0},
    reported <- {t \in Ours : stored[t] # NULL},
    done     <- {t \in Ours : stored[t] # NULL /\ ~ Confirming(t)}

\* The watcher is one the service can rely on: its cursor passes only what it
\* follows or has reported, although answers lag, pages fail between two others
\* and end inside a block; it drops only what no order waits for, although calls
\* of the sink fail before the last one; and after a restart it follows again
\* what an order waits for.  Provided a scan does not end inside a block and the
\* threshold is not lowered below that of the orders (pollOnce, SeedPending).
Watches == Watch!Spec

\* A transfer the cursor has not passed, old enough for every endpoint to show
\* it in the end, is reported unless the process dies (Run, pollOnce).
TransferIsReported ==
    \A t \in Ours :
        (stage # "down" /\ t \in DOMAIN time /\ time[t] > cursor /\ time[t] + Lag < MaxTime)
            ~> (stored[t] # NULL \/ stage = "down")

\* The chain has included another entry at the time of t.
SharesItsTime(t) == t \in DOMAIN time /\ \E i \in DOMAIN time : i # t /\ time[i] = time[t]

\* The same of a transfer that stays alone in its second: the cursor, which is
\* the newest second seen, loses a transfer only to another one of its second
\* (scanNewTransfers).
LoneTransferIsReported ==
    \A t \in Ours :
        (stage # "down" /\ t \in DOMAIN time /\ time[t] > cursor /\ time[t] + Lag < MaxTime)
            ~> (stored[t] # NULL \/ stage = "down" \/ SharesItsTime(t))

\* What a transfer that is followed counts at least once time has stopped: a
\* scan may give a transfer its own time back.
CountInTheEnd(t) ==
    LET from == Max({pending[t], time[t]}) IN
    IF Kind = "tron" THEN MaxTime - Lag - from + 1 ELSE (MaxTime - Skew - from) \div BlockTime

\* An order whose transfer is followed is confirmed once time enough has gone
\* by, after a restart as well, although calls of the sink fail before the last
\* one, unless the process dies again or the threshold is now lower than the
\* order's (refreshConfirmations, SeedPending).
ConfirmingCompletes ==
    \A t \in Ours :
        (/\ stage # "down" /\ pending[t] # 0 /\ required <= confirms
         /\ CountInTheEnd(t) >= confirms)
            ~> (stage = "down" \/ (stored[t] # NULL /\ ~ Confirming(t)))
=============================================================================
