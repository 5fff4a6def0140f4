------------------------------ MODULE Process -------------------------------
(***************************************************************************)
(* One life of the process (cmd/frenixpay): main loads the configuration,  *)
(* connects, builds and seeds the watchers, starts its goroutines, waits   *)
(* for a signal, and shuts down in order.  SIGTERM may arrive at any       *)
(* moment; it cancels the context that everything but Migrate and the      *)
(* HTTP requests was given.                                                *)
(*                                                                         *)
(* Run by chains.Manager, each enabled chain's watcher polls on its own.   *)
(* The calls one of them makes to its RPC endpoints are those of           *)
(* RpcClient, which shares the context; the polls of the others are one    *)
(* step.  What the watchers and the service do to the tables is the        *)
(* business of Gateway and PagedWatcher.                                   *)
(***************************************************************************)
EXTENDS FiniteSets, Integers

CONSTANTS
    Chain,        \* the chains there are watchers for
    OnByDefault,  \* those enabled when nothing is configured
    Focus,        \* the chain whose RPC calls are followed
    Failing,      \* chains whose Run may return an error, as ChainWatcher allows
    Clients, Endpoints, MaxAttempts

ASSUME ProcessAssumption ==
    /\ OnByDefault \subseteq Chain /\ Focus \in Chain /\ Failing \subseteq Chain \ {Focus}
    /\ Clients \subseteq {"evm", "indexer"}
    /\ Endpoints \in Nat \ {0} /\ MaxAttempts \in Nat \ {0}

VARIABLES
    main,       \* where main stands
    enabled,    \* chainMgr.Chains()
    addressed,  \* chains with a receiving address
    sink,       \* is sinkProxy.svc set?
    seeded,     \* chains whose confirming orders were read back
    watch,      \* where the watcher of each chain stands
    expiry,     \* where RunExpiryLoop stands
    http,       \* where ListenAndServe stands
    request,    \* is a request being handled?
    timedOut,   \* did Shutdown give up waiting?
    client, stage, url, attempt, canceled, result, healthy, late

started == <<enabled, addressed, sink, seeded>>
server  == <<http, request, timedOut>>
rpc     == <<client, stage, url, attempt, canceled, result, healthy, late>>
vars    == <<main, started, watch, expiry, server, rpc>>

R == INSTANCE RpcClient

TypeOK ==
    /\ main \in {"config", "migrate", "postgres", "redis", "build", "seed", "start",
                 "serving", "drain", "join", "closed", "exited", "failed"}
    /\ addressed \subseteq Chain /\ enabled \subseteq Chain /\ seeded \subseteq enabled
    /\ watch \in [Chain -> {"off", "wait", "latest", "scan", "sink", "poll", "ended", "failed"}]
    /\ expiry \in {"off", "wait", "sql", "ended"}
    /\ http \in {"off", "starting", "serving", "closed", "failed"}
    /\ {sink, request, timedOut} \subseteq BOOLEAN
    /\ R!TypeOK

Init ==
    /\ main = "config"
    /\ enabled = {} /\ addressed = {} /\ sink = FALSE /\ seeded = {}
    /\ watch = [c \in Chain |-> "off"]
    /\ expiry = "off" /\ http = "off" /\ request = FALSE /\ timedOut = FALSE
    /\ R!Init

-----------------------------------------------------------------------------
(* main, up to the start of the goroutines *)

\* What X_ENABLED says: a value that cannot be parsed counts as none.
EnabledBy(switch) == {c \in Chain : CASE switch[c] = "true"  -> TRUE
                                      [] switch[c] = "false" -> FALSE
                                      [] OTHER -> c \in OnByDefault}

\* POSTGRES_DSN and API_KEY are there, the decimals parse, and so has every
\* enabled chain an address; no other value is refused.
Acceptable(text, on, address) == text /\ on \subseteq address

Load(text, switch, address) ==
    LET on == EnabledBy(switch) IN
    /\ main = "config"
    /\ \/ /\ Acceptable(text, on, address)
          /\ main' = "migrate" /\ enabled' = on /\ addressed' = on \cap address
       \/ /\ ~ Acceptable(text, on, address)
          /\ main' = "failed" /\ UNCHANGED <<enabled, addressed>>
    /\ UNCHANGED <<sink, seeded, watch, expiry, server, rpc>>

\* Migrate, Connect, ConnectRedis.
Connect ==
    /\ \/ main = "migrate"  /\ main' = "postgres"
       \/ main = "postgres" /\ main' = "redis"
       \/ main = "redis"    /\ main' = "build"
    /\ UNCHANGED <<started, watch, expiry, server, rpc>>

\* An error of one of them, of tron.NewWatcher, or of LoadPendingTransfers
\* (what is canceled included) ends the process at once.
StartupFails ==
    /\ main \in {"migrate", "postgres", "redis", "build", "seed"}
    /\ main \in {"build", "seed"} => enabled # {}
    /\ main' = "failed"
    /\ UNCHANGED <<started, watch, expiry, server, rpc>>

\* Watchers, manager and service; the proxy gets its service last.
Build ==
    /\ main = "build"
    /\ sink' = TRUE
    /\ main' = "seed"
    /\ UNCHANGED <<enabled, addressed, seeded, watch, expiry, server, rpc>>

\* One chain of LoadPendingTransfers.
SeedChain(c) ==
    /\ main = "seed" /\ c \in enabled \ seeded
    /\ seeded' = seeded \cup {c}
    /\ UNCHANGED <<main, enabled, addressed, sink, watch, expiry, server, rpc>>

Mutant_AllSeeded == seeded # {}

AllSeeded == seeded = enabled

EndSeeding ==
    /\ main = "seed" /\ AllSeeded
    /\ main' = "start"
    /\ UNCHANGED <<started, watch, expiry, server, rpc>>

\* The goroutines of main, and of Manager.Run.
Start ==
    /\ main = "start"
    /\ main' = "serving"
    /\ watch' = [c \in Chain |-> IF c \in enabled THEN "wait" ELSE "off"]
    /\ expiry' = "wait" /\ http' = "starting"
    /\ UNCHANGED <<started, request, timedOut, rpc>>

-----------------------------------------------------------------------------
(* The goroutines *)

\* A ticker fires; which of two ready channels select takes is left open.
BeginPoll(c) ==
    /\ watch[c] = "wait"
    /\ watch' = [watch EXCEPT ![c] = IF c = Focus THEN "latest" ELSE "poll"]
    /\ UNCHANGED <<main, started, expiry, server, rpc>>

\* The poll makes a call for the latest block and one to scan ...
CallEndpoints(H) ==
    /\ watch[Focus] \in {"latest", "scan"} /\ result = "none"
    /\ R!Call(H)
    /\ UNCHANGED <<main, started, watch, expiry, server>>

CallStep == R!Step /\ UNCHANGED <<main, started, watch, expiry, server>>

\* ... of which only the first ends the cycle when it fails.
CallReturned ==
    /\ stage = "idle" /\ result # "none"
    /\ watch' = [watch EXCEPT ![Focus] = CASE @ = "latest" /\ result = "ok" -> "scan"
                                           [] @ = "latest" /\ result # "ok" -> "wait"
                                           [] @ = "scan" -> "sink"]
    /\ R!Forget
    /\ UNCHANGED <<main, started, expiry, server>>

\* refreshConfirmations has called the sink for each transfer.
EndPoll(c) ==
    /\ watch[c] \in {"sink", "poll"}
    /\ watch' = [watch EXCEPT ![c] = "wait"]
    /\ UNCHANGED <<main, started, expiry, server, rpc>>

EndWatcher(c) ==
    /\ watch[c] = "wait" /\ canceled
    /\ watch' = [watch EXCEPT ![c] = "ended"]
    /\ UNCHANGED <<main, started, expiry, server, rpc>>

Mutant_FailWatcher(c) ==
    /\ c \in Failing /\ watch[c] \in {"wait", "poll"}
    /\ watch' = [d \in Chain |-> IF watch[d] = "wait" THEN "failed" ELSE watch[d]]
    /\ UNCHANGED <<main, started, expiry, server, rpc>>

\* Run returns an error: Manager.Run keeps it, and waits for the siblings.
FailWatcher(c) ==
    /\ c \in Failing /\ watch[c] \in {"wait", "poll"}
    /\ watch' = [watch EXCEPT ![c] = "failed"]
    /\ UNCHANGED <<main, started, expiry, server, rpc>>

Expire ==
    /\ \/ expiry = "wait" /\ expiry' = "sql"
       \/ expiry = "sql"  /\ expiry' = "wait"
    /\ UNCHANGED <<main, started, watch, server, rpc>>

EndExpiry ==
    /\ expiry = "wait" /\ canceled
    /\ expiry' = "ended"
    /\ UNCHANGED <<main, started, watch, server, rpc>>

ShuttingDown == main \in {"drain", "join", "closed", "exited"}

Mutant_Listen ==
    /\ http = "starting"
    /\ http' \in {"serving", "failed"}
    /\ UNCHANGED <<main, started, watch, expiry, request, timedOut, rpc>>

\* ListenAndServe: after Shutdown it returns at once; the address may be
\* taken, which is only logged.
Listen ==
    /\ http = "starting"
    /\ http' \in IF ShuttingDown THEN {"closed"} ELSE {"serving", "failed"}
    /\ UNCHANGED <<main, started, watch, expiry, request, timedOut, rpc>>

BeginRequest ==
    /\ http = "serving" /\ ~ request
    /\ request' = TRUE
    /\ UNCHANGED <<main, started, watch, expiry, http, timedOut, rpc>>

EndRequest ==
    /\ request /\ main # "exited"
    /\ request' = FALSE
    /\ UNCHANGED <<main, started, watch, expiry, http, timedOut, rpc>>

-----------------------------------------------------------------------------
(* main, after the signal *)

\* Before NotifyContext a signal just kills the process.
Signal ==
    /\ main \notin {"config", "exited", "failed"}
    /\ R!Cancel /\ UNCHANGED <<main, started, watch, expiry, server>>

\* Shutdown closes the listener ...
BeginShutdown ==
    /\ main = "serving" /\ canceled
    /\ main' = "drain"
    /\ http' = IF http = "serving" THEN "closed" ELSE http
    /\ UNCHANGED <<started, watch, expiry, request, timedOut, rpc>>

\* ... and waits until no request is handled, but not longer than 15 s.
Drain ==
    /\ main = "drain"
    /\ timedOut' = request
    /\ main' = "join"
    /\ UNCHANGED <<started, watch, expiry, http, request, rpc>>

Mutant_Joined ==
    /\ enabled # {} => \E c \in enabled : watch[c] \in {"ended", "failed"}
    /\ expiry = "ended" /\ http \in {"closed", "failed"}

\* wg.Wait: Manager.Run returns when all its watchers have.
Joined ==
    /\ \A c \in enabled : watch[c] \in {"ended", "failed"}
    /\ expiry = "ended" /\ http \in {"closed", "failed"}

\* The deferred calls close Redis and the pool.
Close ==
    /\ main = "join" /\ Joined
    /\ main' = "closed"
    /\ UNCHANGED <<started, watch, expiry, server, rpc>>

Exit ==
    /\ main = "closed"
    /\ main' = "exited"
    /\ UNCHANGED <<started, watch, expiry, server, rpc>>

-----------------------------------------------------------------------------
Environment == [Chain -> {"unset", "true", "false", "garbled"}]

Main ==
    \/ \E text \in BOOLEAN, switch \in Environment, address \in SUBSET Chain : Load(text, switch, address)
    \/ Connect \/ StartupFails \/ Build \/ EndSeeding \/ Start
    \/ \E c \in Chain : SeedChain(c)
    \/ BeginShutdown \/ Drain \/ Close \/ Exit

Poll(c) == BeginPoll(c) \/ EndPoll(c)

Calls == (\E H \in SUBSET R!Url : CallEndpoints(H)) \/ CallStep \/ CallReturned

Next ==
    \/ Main \/ Signal \/ Calls
    \/ \E c \in Chain : Poll(c) \/ EndWatcher(c) \/ FailWatcher(c)
    \/ Expire \/ EndExpiry \/ Listen \/ BeginRequest \/ EndRequest

Spec == Init /\ [][Next]_vars

(***************************************************************************)
(* Goroutines run, tickers fire, calls and statements return, and a select *)
(* that finds ctx.Done() ready again and again takes it once.  Nobody has  *)
(* to send a signal, and a request may take for ever.                      *)
(***************************************************************************)
FairSpec ==
    /\ Spec
    /\ WF_vars(Main) /\ WF_vars(Calls)
    /\ \A c \in Chain : WF_vars(Poll(c)) /\ SF_vars(EndWatcher(c))
    /\ WF_vars(Expire) /\ SF_vars(EndExpiry) /\ WF_vars(Listen)

-----------------------------------------------------------------------------
(* Properties *)

\* Nobody meets a half-built process: once a watcher polls or a request is
\* handled the sink is set, every chain orders can be made for has an address,
\* and the orders that were confirming are on the lists of their watchers,
\* although errors and signals may hit every step of the start-up (main,
\* config.Load, LoadPendingTransfers: "No watcher polls until Manager.Run is
\* started explicitly, well after svc is set").
ReadyBeforeServing ==
    (request \/ \E c \in Chain : watch[c] # "off") =>
        sink /\ enabled \subseteq addressed /\ seeded = enabled

\* Redis and the pool are closed only after everyone who uses them: no watcher
\* is still in a poll, no expiry statement runs, no request is handled, but one
\* that outlasted the 15 seconds (main, Manager.Run, Shutdown).
PoolOutlivesUsers ==
    main \in {"closed", "exited"} =>
        /\ \A c \in Chain : watch[c] \in {"off", "ended", "failed"}
        /\ expiry = "ended"
        /\ request => timedOut

\* A signal ends the process, whatever it is doing: before the goroutines are
\* up, while the listener starts, in the middle of a retry (main).
ShutsDown == canceled ~> main \in {"exited", "failed"}

\* One chain's failure leaves the others polling: "its remaining siblings keep
\* running until ctx itself is cancelled", again and again, whatever their
\* endpoints answer (Manager.Run, pollOnce, call, get).
SiblingsKeepPolling ==
    \A c \in Chain \ Failing :
        /\ watch[c] = "wait" ~> (watch[c] \in {"latest", "poll"} \/ canceled)
        /\ watch[c] \in {"latest", "scan", "sink", "poll"} ~> watch[c] = "wait"

\* What RpcClient says of its calls, made by a watcher that polls for as long
\* as the process lives.
ExhaustedEndpoints == R!ExhaustedEndpoints
CancelIsPrompt     == R!CancelIsPrompt
=============================================================================
