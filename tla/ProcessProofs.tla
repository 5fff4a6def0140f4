--------------------------- MODULE ProcessProofs ----------------------------
(***************************************************************************)
(* The safety properties of Process, for any set of chains, any number of  *)
(* endpoints and attempts, and any configuration.                          *)
(***************************************************************************)
EXTENDS Process, TLAPS

Unbuilt == {"config", "migrate", "postgres", "redis", "build", "failed"}
Running == {"serving", "drain", "join", "closed", "exited"}

\* Before the goroutines are up there is nothing they could have done.
QuietOK ==
    main \notin Running =>
        /\ \A c \in Chain : watch[c] = "off"
        /\ expiry = "off" /\ http = "off" /\ ~ request

\* What the start-up has achieved at each of its steps.
BuiltOK ==
    /\ enabled \subseteq addressed
    /\ main = "config" => seeded = {}
    /\ main \in Running \cup {"start", "seed"} => sink
    /\ main \in Running \cup {"start"} => seeded = enabled

\* What the shutdown has waited for at each of its steps.
StoppedOK ==
    /\ \A c \in Chain \ enabled : watch[c] = "off"
    /\ ShuttingDown => http # "serving"
    /\ main \in {"join", "closed", "exited"} => (request => timedOut)
    /\ main \in {"closed", "exited"} => Joined

\* An RPC call is one of a poll.
CallOK == stage # "idle" \/ result # "none" => watch[Focus] \in {"latest", "scan"}

ProcessInv == TypeOK /\ QuietOK /\ BuiltOK /\ StoppedOK /\ CallOK

-----------------------------------------------------------------------------
(* The call keeps its types, and goes on only when it was under way. *)

LEMMA CallTypes ==
    ASSUME R!TypeOK, [R!Step \/ (\E H \in SUBSET R!Url : R!Call(H)) \/ R!Forget \/ R!Cancel]_rpc
    PROVE  R!TypeOK'
<1> USE ProcessAssumption DEF R!TypeOK, R!Url, R!Result
<1>1. CASE UNCHANGED rpc
  BY <1>1 DEF rpc
<1>2. ASSUME NEW a \in R!Answer, R!Receive(a) PROVE R!TypeOK'
  BY <1>2 DEF R!Receive, R!NextAttempt, R!Return, R!Following, R!MoreEndpoints, R!Late
<1>3. CASE R!TimerFires
  BY <1>3 DEF R!TimerFires
<1>6. CASE R!Retry
  BY <1>6 DEF R!Retry, R!Late
<1>7. CASE R!StopWaiting
  BY <1>7 DEF R!StopWaiting, R!Return
<1>4. ASSUME NEW H \in SUBSET R!Url, R!Call(H) PROVE R!TypeOK'
  BY <1>4 DEF R!Call
<1>5. CASE R!Forget
  BY <1>5 DEF R!Forget
<1>8. CASE R!Cancel
  BY <1>8 DEF R!Cancel
<1> QED BY <1>1, <1>2, <1>3, <1>4, <1>5, <1>6, <1>7, <1>8 DEF R!Step

LEMMA StepInCall ==
    ASSUME R!Step PROVE stage # "idle"
BY DEF R!Step, R!Receive, R!TimerFires, R!Retry, R!StopWaiting

-----------------------------------------------------------------------------
LEMMA StepInv ==
    ASSUME ProcessInv, [Next]_vars PROVE ProcessInv'
<1> USE ProcessAssumption
<1> USE DEF ProcessInv, TypeOK, QuietOK, BuiltOK, StoppedOK, CallOK, Running, ShuttingDown, Joined
<1>1. CASE UNCHANGED vars
  BY <1>1 DEF vars, rpc, started, server, R!TypeOK
<1>2. CASE Main
  <2> UNCHANGED rpc
    BY <1>2 DEF Main, Load, Connect, StartupFails, Build, SeedChain, EndSeeding, Start, BeginShutdown,
                Drain, Close, Exit
  <2>0. R!TypeOK'
    BY CallTypes
  <2>1. ASSUME NEW text \in BOOLEAN, NEW switch \in Environment, NEW address \in SUBSET Chain,
               Load(text, switch, address)
        PROVE  ProcessInv'
    <3>1. EnabledBy(switch) \subseteq Chain
      BY DEF EnabledBy
    <3> QED BY <2>0, <2>1, <3>1 DEF Load, Acceptable, rpc, server
  <2>2. CASE Connect
    BY <2>0, <2>2 DEF Connect, started, rpc, server
  <2>3. CASE StartupFails
    BY <2>0, <2>3 DEF StartupFails, started, rpc, server
  <2>4. CASE Build
    BY <2>0, <2>4 DEF Build, rpc, server
  <2>5. ASSUME NEW c \in Chain, SeedChain(c) PROVE ProcessInv'
    BY <2>0, <2>5 DEF SeedChain, rpc, server
  <2>6. CASE EndSeeding
    BY <2>0, <2>6 DEF EndSeeding, AllSeeded, started, rpc, server
  <2>7. CASE Start
    BY <2>0, <2>7 DEF Start, started, rpc
  <2>8. CASE BeginShutdown
    BY <2>0, <2>8 DEF BeginShutdown, started, rpc
  <2>9. CASE Drain
    BY <2>0, <2>9 DEF Drain, started, rpc
  <2>10. CASE Close
    BY <2>0, <2>10 DEF Close, started, rpc, server
  <2>11. CASE Exit
    BY <2>0, <2>11 DEF Exit, started, rpc, server
  <2> QED BY <1>2, <2>1, <2>2, <2>3, <2>4, <2>5, <2>6, <2>7, <2>8, <2>9, <2>10, <2>11 DEF Main
<1>3. CASE Signal
  <2>1. R!TypeOK'
    BY <1>3, CallTypes DEF Signal
  <2> QED BY <1>3, <2>1 DEF Signal, R!Cancel, started, server
<1>4. ASSUME NEW H \in SUBSET R!Url, CallEndpoints(H) PROVE ProcessInv'
  <2>1. R!TypeOK'
    BY <1>4, CallTypes DEF CallEndpoints
  <2> QED BY <1>4, <2>1 DEF CallEndpoints, R!Call, started, server
<1>5. CASE CallStep
  <2>1. R!TypeOK'
    BY <1>5, CallTypes DEF CallStep
  <2> QED BY <1>5, <2>1, StepInCall DEF CallStep, started, server
<1>6. CASE CallReturned
  <2>1. R!TypeOK'
    BY <1>6, CallTypes DEF CallReturned
  <2>2. watch[Focus] \in {"latest", "scan"}
    BY <1>6 DEF CallReturned
  <2>3. /\ watch' \in [Chain -> {"off", "wait", "latest", "scan", "sink", "poll", "ended", "failed"}]
        /\ \A c \in Chain : watch[c] = "off" => watch'[c] = "off"
    BY <1>6, <2>2 DEF CallReturned
  <2> QED BY <1>6, <2>1, <2>2, <2>3 DEF CallReturned, R!Forget, started, server
<1>7. ASSUME NEW c \in Chain, BeginPoll(c) \/ EndPoll(c) \/ EndWatcher(c) \/ FailWatcher(c)
      PROVE  ProcessInv'
  <2> UNCHANGED rpc
    BY <1>7 DEF BeginPoll, EndPoll, EndWatcher, FailWatcher
  <2>0. R!TypeOK'
    BY CallTypes
  <2>1. CASE BeginPoll(c)
    BY <2>0, <2>1 DEF BeginPoll, started, rpc, server
  <2>2. CASE EndPoll(c)
    BY <2>0, <2>2 DEF EndPoll, started, rpc, server
  <2>3. CASE EndWatcher(c)
    BY <2>0, <2>3 DEF EndWatcher, started, rpc, server
  <2>4. CASE FailWatcher(c)
    BY <2>0, <2>4 DEF FailWatcher, started, rpc, server
  <2> QED BY <1>7, <2>1, <2>2, <2>3, <2>4
<1>8. CASE Expire \/ EndExpiry \/ Listen \/ BeginRequest \/ EndRequest
  <2> UNCHANGED rpc
    BY <1>8 DEF Expire, EndExpiry, Listen, BeginRequest, EndRequest
  <2>0. R!TypeOK'
    BY CallTypes
  <2>1. CASE Expire
    BY <2>0, <2>1 DEF Expire, started, rpc, server
  <2>2. CASE EndExpiry
    BY <2>0, <2>2 DEF EndExpiry, started, rpc, server
  <2>3. CASE Listen
    BY <2>0, <2>3 DEF Listen, started, rpc
  <2>4. CASE BeginRequest
    BY <2>0, <2>4 DEF BeginRequest, started, rpc
  <2>5. CASE EndRequest
    BY <2>0, <2>5 DEF EndRequest, started, rpc
  <2> QED BY <1>8, <2>1, <2>2, <2>3, <2>4, <2>5
<1> QED BY <1>1, <1>2, <1>3, <1>4, <1>5, <1>6, <1>7, <1>8 DEF Next, Calls, Poll

LEMMA Inductive == Spec => []ProcessInv
<1>1. Init => ProcessInv
  <2> SUFFICES ASSUME Init PROVE ProcessInv
    OBVIOUS
  <2>1. R!TypeOK
    <3>1. client \in Clients /\ canceled \in BOOLEAN /\ result \in R!Result /\ healthy \subseteq R!Url
      BY DEF Init, R!Init, R!Result
    <3>2. url \in R!Url /\ attempt \in 0..(MaxAttempts - 1) /\ late \in Nat
      BY ProcessAssumption DEF Init, R!Init, R!Url
    <3> QED BY <3>1, <3>2 DEF Init, R!Init, R!TypeOK
  <2>2. TypeOK
    <3>1. {sink, request, timedOut} \subseteq BOOLEAN
      BY DEF Init
    <3> QED BY <2>1, <3>1 DEF Init, TypeOK
  <2>3. QuietOK /\ BuiltOK /\ StoppedOK /\ CallOK
    BY DEF Init, R!Init, QuietOK, BuiltOK, StoppedOK, CallOK, Running, ShuttingDown, Joined
  <2> QED BY <2>2, <2>3 DEF ProcessInv
<1> QED BY <1>1, StepInv, PTL DEF Spec

\* Every variable keeps its type, those of the RPC call included.
THEOREM TypeCorrect == Spec => []TypeOK
<1>1. ProcessInv => TypeOK
  BY DEF ProcessInv
<1> QED BY <1>1, Inductive, PTL

\* Whatever is configured and whichever step of the start-up fails, nobody
\* meets a half-built process (main, LoadPendingTransfers).
THEOREM NobodyTooEarly == Spec => []ReadyBeforeServing
<1>1. ProcessInv => ReadyBeforeServing
  BY DEF ProcessInv, TypeOK, QuietOK, BuiltOK, Running, ReadyBeforeServing
<1> QED BY <1>1, Inductive, PTL

\* The pool is closed after all its users, however many chains there are and
\* whichever watcher failed (main, Manager.Run, Shutdown).
THEOREM PoolClosedLast == Spec => []PoolOutlivesUsers
<1>1. ProcessInv => PoolOutlivesUsers
  BY DEF ProcessInv, TypeOK, StoppedOK, Joined, PoolOutlivesUsers
<1> QED BY <1>1, Inductive, PTL

-----------------------------------------------------------------------------
(* What the call has done so far.  An endpoint left behind did not answer    *)
(* well, so no healthy one is behind; and a request that goes out after the  *)
(* cancellation is the last but one of its kind.                             *)

TriedOK ==
    /\ stage # "idle" => result = "none"
    /\ result = "refused" => client = "indexer"
    /\ ~ canceled =>
          /\ stage = "request" => \A u \in healthy : u >= url
          /\ stage \in {"pause", "due"} => \A u \in healthy : u >= url
          /\ result = "exhausted" => healthy = {}
          /\ result = "refused" => \A u \in healthy : u > url

LateOK ==
    /\ late <= 2
    /\ ~ canceled \/ stage = "due" => late = 0
    /\ stage = "request" /\ late = 2 => attempt = 0

LEMMA ReceiveTried ==
    ASSUME R!TypeOK, TriedOK, NEW a \in R!Answer, R!Receive(a)
    PROVE  TriedOK'
<1> USE ProcessAssumption DEF R!TypeOK, R!Url, TriedOK
<1>0. R!Return("refused") => client = "indexer"
  BY DEF R!Receive, R!Verdict, R!EVMVerdict, R!Return, R!NextAttempt
<1>1. CASE canceled
  BY <1>0, <1>1 DEF R!Receive, R!NextAttempt, R!Return
<1>2. CASE ~ canceled /\ url \in healthy
  <2>1. R!Verdict(a) = "return"
    BY <1>2 DEF R!Receive, R!Verdict, R!EVMVerdict, R!IndexerVerdict, R!Answer
  <2> QED BY <1>2, <2>1 DEF R!Receive, R!Return
<1>3. CASE ~ canceled /\ url \notin healthy
  <2>1. \A u \in healthy : u > url
    BY <1>3 DEF R!Receive
  <2>2. CASE R!NextAttempt
    BY <1>3, <2>1, <2>2 DEF R!Receive, R!NextAttempt, R!Return, R!MoreEndpoints, R!Following
  <2>3. CASE (R!Return("ok") \/ R!Return("refused")) /\ UNCHANGED <<url, attempt, late>>
    BY <1>0, <1>3, <2>1, <2>3 DEF R!Receive, R!Return
  <2> QED BY <2>2, <2>3 DEF R!Receive
<1> QED BY <1>1, <1>2, <1>3

LEMMA ReceiveLate ==
    ASSUME MaxAttempts > 1, R!TypeOK, LateOK, NEW a \in R!Answer, R!Receive(a)
    PROVE  LateOK'
BY ProcessAssumption DEF R!TypeOK, LateOK, R!Receive, R!NextAttempt, R!Return, R!Late, R!Following

LEMMA CallSteps ==
    ASSUME R!TypeOK, TriedOK, [R!Step \/ (\E H \in SUBSET R!Url : R!Call(H)) \/ R!Forget \/ R!Cancel]_rpc
    PROVE  TriedOK' /\ (MaxAttempts > 1 /\ LateOK => LateOK')
<1> USE ProcessAssumption DEF R!TypeOK, R!Url, TriedOK, LateOK
<1>1. CASE UNCHANGED rpc
  BY <1>1 DEF rpc
<1>2. ASSUME NEW a \in R!Answer, R!Receive(a) PROVE TriedOK' /\ (MaxAttempts > 1 /\ LateOK => LateOK')
  BY <1>2, ReceiveTried, ReceiveLate
<1>3. CASE R!TimerFires
  BY <1>3 DEF R!TimerFires
<1>4. CASE R!Retry
  BY <1>4 DEF R!Retry, R!Late
<1>5. CASE R!StopWaiting
  BY <1>5 DEF R!StopWaiting, R!Return
<1>6. ASSUME NEW H \in SUBSET R!Url, R!Call(H) PROVE TriedOK' /\ (MaxAttempts > 1 /\ LateOK => LateOK')
  BY <1>6 DEF R!Call
<1>7. CASE R!Forget
  BY <1>7 DEF R!Forget
<1>8. CASE R!Cancel
  BY <1>8 DEF R!Cancel
<1> QED BY <1>1, <1>2, <1>3, <1>4, <1>5, <1>6, <1>7, <1>8 DEF R!Step

\* Of the rpc variables a step of the process changes nothing but by a step
\* of the call.
LEMMA OnlyCalls ==
    ASSUME [Next]_vars
    PROVE  [R!Step \/ (\E H \in SUBSET R!Url : R!Call(H)) \/ R!Forget \/ R!Cancel]_rpc
<1>1. CASE UNCHANGED vars
  BY <1>1 DEF vars
<1>2. CASE Main
  BY <1>2 DEF Main, Load, Connect, StartupFails, Build, SeedChain, EndSeeding, Start, BeginShutdown,
              Drain, Close, Exit
<1>3. CASE Signal \/ Calls
  BY <1>3 DEF Signal, Calls, CallEndpoints, CallStep, CallReturned
<1>4. ASSUME NEW c \in Chain, Poll(c) \/ EndWatcher(c) \/ FailWatcher(c) PROVE UNCHANGED rpc
  BY <1>4 DEF Poll, BeginPoll, EndPoll, EndWatcher, FailWatcher
<1>5. CASE Expire \/ EndExpiry \/ Listen \/ BeginRequest \/ EndRequest
  BY <1>5 DEF Expire, EndExpiry, Listen, BeginRequest, EndRequest
<1> QED BY <1>1, <1>2, <1>3, <1>4, <1>5 DEF Next

\* However many endpoints are configured, a call that is not canceled ends
\* without an answer only when none of them could have given one, or, of a TRON
\* or TON client, when one refuses that stands before all that could; those
\* after it are then not tried (call, get).
THEOREM EveryEndpointTried == Spec => []ExhaustedEndpoints
<1>1. Init => TriedOK
  BY DEF Init, R!Init, TriedOK
<1>2. ProcessInv /\ TriedOK /\ [Next]_vars => TriedOK'
  BY OnlyCalls, CallSteps DEF ProcessInv, TypeOK
<1>3. TriedOK => ExhaustedEndpoints
  BY DEF TriedOK, ExhaustedEndpoints, R!ExhaustedEndpoints
<1> QED BY <1>1, <1>2, <1>3, Inductive, PTL DEF Spec

\* A canceled call sends at most two more requests, however many endpoints
\* are left, as long as each gets two attempts or more (maxAttemptsPerURL).
THEOREM CancellationIsPrompt ==
    ASSUME MaxAttempts > 1 PROVE Spec => []CancelIsPrompt
<1>1. Init => TriedOK /\ LateOK
  BY DEF Init, R!Init, TriedOK, LateOK
<1>2. ProcessInv /\ TriedOK /\ LateOK /\ [Next]_vars => TriedOK' /\ LateOK'
  BY OnlyCalls, CallSteps DEF ProcessInv, TypeOK
<1>3. LateOK => CancelIsPrompt
  BY DEF LateOK, CancelIsPrompt, R!CancelIsPrompt
<1> QED BY <1>1, <1>2, <1>3, Inductive, PTL DEF Spec
=============================================================================
