----------------------------- MODULE RpcClient ------------------------------
(***************************************************************************)
(* One call of an RPC client (client.call of internal/chains/evm,          *)
(* client.get of internal/chains/tron and internal/chains/ton): the loop   *)
(* over the configured endpoints, primary first, with a bounded number of  *)
(* attempts at each, a pause before every retry, and a context that may be *)
(* canceled at any moment (shutdown).                                      *)
(*                                                                         *)
(* The three clients run the same loop and differ in what they make of an  *)
(* answer.  Endpoints are external: a healthy one answers every request of *)
(* the call well, any other answers as it likes.                           *)
(***************************************************************************)
EXTENDS Integers, FiniteSets

CONSTANTS
    Clients,     \* which of "evm" and "indexer" (tron, ton) make calls
    Endpoints,   \* number of configured endpoints
    MaxAttempts  \* maxAttemptsPerURL

VARIABLES
    client,    \* the client that makes the call
    stage,     \* "idle", "request" (one is out), "pause" before a retry, or "due"
    url,       \* index of the current endpoint
    attempt,   \* the loop variable
    canceled,  \* is ctx.Done() closed?
    result,    \* how the last call ended
    healthy,   \* the endpoints that answer this call well
    late       \* requests of the call issued after the context was canceled

vars == <<client, stage, url, attempt, canceled, result, healthy, late>>

Url == 1..Endpoints

\* A transport error or timeout; 429 or 5xx; another status that is not 200;
\* a body that does not decode, or a JSON-RPC error; a proper answer.
Answer == {"unreachable", "busy", "refused", "malformed", "good"}

Result == {"none", "ok", "exhausted", "refused", "canceled"}

TypeOK ==
    /\ client \in Clients /\ stage \in {"idle", "request", "pause", "due"}
    /\ url \in Url /\ attempt \in 0..(MaxAttempts - 1) /\ canceled \in BOOLEAN
    /\ result \in Result /\ healthy \subseteq Url /\ late \in Nat

Init ==
    /\ client \in Clients
    /\ stage    = "idle"
    /\ url      = 1
    /\ attempt  = 0
    /\ canceled = FALSE
    /\ result   = "none"
    /\ healthy  = {}
    /\ late     = 0

-----------------------------------------------------------------------------
(* What the clients make of an answer *)

\* evm: only the 429 and 5xx statuses are looked at, so any other answer
\* that is no JSON-RPC result fails to decode and is tried again.
EVMVerdict(a) == IF a = "good" THEN "return" ELSE "again"

\* tron and ton: a status other than 200, 429 and 5xx ends the call.
IndexerVerdict(a) ==
    CASE a = "good"    -> "return"
      [] a = "refused" -> "fail"
      [] OTHER         -> "again"

Verdict(a) == IF client = "evm" THEN EVMVerdict(a) ELSE IndexerVerdict(a)

-----------------------------------------------------------------------------
(* The loop *)

Late == late' = IF canceled THEN late + 1 ELSE late

Return(r) == stage' = "idle" /\ result' = r

\* A call begins with the first request to the primary endpoint, even when
\* the context is canceled already.
Call(H) ==
    /\ stage = "idle"
    /\ stage'   = "request"
    /\ url'     = 1
    /\ attempt' = 0
    /\ result'  = "none"
    /\ healthy' = H
    /\ late'    = IF canceled THEN 1 ELSE 0
    /\ UNCHANGED <<client, canceled>>

Mutant_Following == attempt

\* attempt++.
Following == attempt + 1

Mutant_MoreEndpoints == url < Endpoints - 1
Mutant_MoreEndpointsThanThere == url <= Endpoints

MoreEndpoints == url < Endpoints

\* continue: pause and retry, or the next endpoint at once, or give up.
NextAttempt ==
    \/ /\ Following < MaxAttempts
       /\ stage'   = "pause"
       /\ attempt' = Following
       /\ UNCHANGED <<url, result, late>>
    \/ /\ Following >= MaxAttempts /\ MoreEndpoints
       /\ stage'   = "request"
       /\ url'     = url + 1
       /\ attempt' = 0
       /\ UNCHANGED result
       /\ Late
    \/ /\ Following >= MaxAttempts /\ ~ MoreEndpoints
       /\ Return("exhausted")
       /\ UNCHANGED <<url, attempt, late>>

\* The request ends; one whose context is canceled may end with an error
\* wherever it was sent.
Receive(a) ==
    /\ stage = "request"
    /\ url \in healthy => a = "good" \/ (canceled /\ a = "unreachable")
    /\ \/ Verdict(a) = "return" /\ Return("ok") /\ UNCHANGED <<url, attempt, late>>
       \/ Verdict(a) = "fail" /\ Return("refused") /\ UNCHANGED <<url, attempt, late>>
       \/ Verdict(a) = "again" /\ NextAttempt
    /\ UNCHANGED <<client, canceled, healthy>>

Mutant_TimerFires ==
    /\ stage = "pause"
    /\ stage' = "due"
    /\ UNCHANGED <<client, url, attempt, canceled, result, healthy, late>>

\* select: the timer fires first, whatever happens to the context after that ...
TimerFires ==
    /\ stage = "pause" /\ ~ canceled
    /\ stage' = "due"
    /\ UNCHANGED <<client, url, attempt, canceled, result, healthy, late>>

Retry ==
    /\ stage = "due"
    /\ stage' = "request"
    /\ Late
    /\ UNCHANGED <<client, url, attempt, canceled, result, healthy>>

\* ... or ctx.Done() does.
StopWaiting ==
    /\ stage \in {"pause", "due"} /\ canceled
    /\ Return("canceled")
    /\ UNCHANGED <<client, url, attempt, canceled, healthy, late>>

\* The caller has looked at the result.
Forget ==
    /\ url' = 1 /\ attempt' = 0 /\ result' = "none" /\ healthy' = {} /\ late' = 0
    /\ UNCHANGED <<client, stage, canceled>>

\* The caller's context is canceled.
Cancel ==
    /\ ~ canceled
    /\ canceled' = TRUE
    /\ UNCHANGED <<client, stage, url, attempt, result, healthy, late>>

Step == (\E a \in Answer : Receive(a)) \/ TimerFires \/ Retry \/ StopWaiting

-----------------------------------------------------------------------------
(* Properties *)

\* A call gives up on the list only when no endpoint could have answered it:
\* as long as one is healthy, wherever it stands in the list, and nobody
\* cancels, it is reached.  Only a call of a TRON or TON client ends before,
\* refused by an endpoint that stands before every healthy one (call, get).
ExhaustedEndpoints ==
    /\ result = "exhausted" => healthy = {} \/ canceled
    /\ result = "refused" => client = "indexer" /\ (canceled \/ \A u \in healthy : u > url)

\* Shutdown is prompt: once the context is canceled at most two further
\* requests of a call go out, one for a timer that had fired and one to the
\* next endpoint, however many endpoints and attempts are left (the select).
CancelIsPrompt == late <= 2
=============================================================================
