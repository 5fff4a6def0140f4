----------------------------- MODULE RateLimit ------------------------------
(***************************************************************************)
(* The fixed-window rate limiter (internal/ratelimit) as the router uses   *)
(* it: one Limiter for order creation and one for the public endpoints,    *)
(* over the same Redis and with the same keys, called by requests that     *)
(* run concurrently, and behind the API key where the route asks for it.   *)
(*                                                                         *)
(* Reading the clock, INCR and EXPIRE are three steps of Allow, and time   *)
(* may pass between them.  Redis is external: INCR is atomic, a key whose  *)
(* time to live is over is gone, and a command may fail.                   *)
(***************************************************************************)
EXTENDS Integers, FiniteSets

CONSTANTS
    Request,      \* HTTP requests
    Address,      \* r.RemoteAddr values
    Limiter,      \* the Limiter instances
    Guarded,      \* those whose route asks for the API key
    Limit,        \* limit of each of them
    Window,       \* window, in ticks of the clock
    NULL,
    RedisFaults,  \* may Redis fail?
    MaxTime       \* bound: the clock stops here

\* ratelimit:<address>:<window>.
Key == Address \X (0..(MaxTime \div Window))

\* What is kept of a request that gets as far as Allow: whether it had the API
\* key, the value of its INCR (NULL: none), whether that still fell in the
\* window of its key, and the answer.
Call == [limiter : Limiter, key : Key, keyed : BOOLEAN, count : Nat \cup {NULL},
         inTime : BOOLEAN, allowed : BOOLEAN \cup {NULL}]

ASSUME RateLimitAssumption ==
    /\ IsFiniteSet(Request)
    /\ Guarded \subseteq Limiter /\ Limit \in [Limiter -> Nat] /\ Window \in Nat \ {0}
    /\ RedisFaults \in BOOLEAN /\ MaxTime \in Nat
    /\ NULL \notin Nat /\ NULL \notin Call

VARIABLES
    now,      \* the clock, of the service and of Redis
    counter,  \* Redis: the counter of each key, and when it expires
    pc,       \* next step of each request
    req       \* what each request asks, and what it was told

vars == <<now, counter, pc, req>>

WindowId == now \div Window

NoCounter == [count |-> 0, expires |-> NULL]

Init ==
    /\ now     = 0
    /\ counter = [k \in Key |-> NoCounter]
    /\ pc      = [r \in Request |-> "new"]
    /\ req     = [r \in Request |-> NULL]

-----------------------------------------------------------------------------
\* apiKeyMiddleware, before the limiter.
Admits(limiter, keyed) == limiter \in Guarded => keyed

\* 401, and nothing is counted.
Unauthorized(r, limiter, keyed) ==
    /\ pc[r] = "new" /\ ~ Admits(limiter, keyed)
    /\ pc' = [pc EXCEPT ![r] = "done"]
    /\ UNCHANGED <<now, counter, req>>

\* rateLimitMiddleware calls Allow for a request, which computes the key.
Allow(r, limiter, address, keyed) ==
    /\ pc[r] = "new" /\ Admits(limiter, keyed)
    /\ req' = [req EXCEPT ![r] = [limiter |-> limiter, key |-> <<address, WindowId>>,
                                  keyed |-> keyed, count |-> NULL, inTime |-> FALSE, allowed |-> NULL]]
    /\ pc'  = [pc EXCEPT ![r] = "incr"]
    /\ UNCHANGED <<now, counter>>

Mutant_Within(count, limiter) == count <= Limit[limiter] + 1

\* count <= limit.
Within(count, limiter) == count <= Limit[limiter]

\* The answer of Allow: without a count it fails open.
Answered(r, count) ==
    [req EXCEPT ![r].allowed = count = NULL \/ Within(count, req[r].limiter),
                ![r].count   = count,
                ![r].inTime  = (req[r].key[2] = WindowId)]

Mutant_First(count) == count = 0

\* Is this the INCR that created the key?
First(count) == count = 1

Incr(r) ==
    LET k     == req[r].key
        count == counter[k].count + 1
    IN  /\ pc[r] = "incr"
        /\ counter' = [counter EXCEPT ![k].count = count]
        /\ req'     = Answered(r, count)
        /\ pc'      = [pc EXCEPT ![r] = IF First(count) THEN "expire" ELSE "done"]
        /\ UNCHANGED now

\* INCR is applied and its reply lost (a timeout, a request that is canceled):
\* Allow returns before EXPIRE.  A retry of the client's own counts again, as
\* another such request would.
IncrReplyLost(r) ==
    LET k     == req[r].key
        count == counter[k].count + 1
    IN  /\ RedisFaults
        /\ pc[r] = "incr"
        /\ counter' = [counter EXCEPT ![k].count = count]
        /\ req'     = Answered(r, NULL)
        /\ pc'      = [pc EXCEPT ![r] = IF First(count) THEN "lost" ELSE "done"]
        /\ UNCHANGED now

\* INCR is not applied.
IncrFails(r) ==
    /\ RedisFaults
    /\ pc[r] = "incr"
    /\ req' = Answered(r, NULL)
    /\ pc'  = [pc EXCEPT ![r] = "done"]
    /\ UNCHANGED <<now, counter>>

\* EXPIRE; on a key that is gone it does nothing.
Expire(r) ==
    /\ pc[r] = "expire"
    /\ counter' = [counter EXCEPT ![req[r].key].expires =
                     IF counter[req[r].key].count = 0 THEN NULL ELSE now + Window]
    /\ pc' = [pc EXCEPT ![r] = "done"]
    /\ UNCHANGED <<now, req>>

\* Its error is dropped; "lost" tells a call that leaves a new counter without
\* EXPIRE from one that is done.
ExpireFails(r) ==
    /\ RedisFaults
    /\ pc[r] = "expire"
    /\ pc' = [pc EXCEPT ![r] = "lost"]
    /\ UNCHANGED <<now, counter, req>>

\* Time passes, and Redis drops the keys that have expired.
Tick ==
    /\ now < MaxTime
    /\ now' = now + 1
    /\ counter' = [k \in Key |-> IF counter[k].expires = now' THEN NoCounter ELSE counter[k]]
    /\ UNCHANGED <<pc, req>>

Next ==
    \/ \E r \in Request :
         \/ \E limiter \in Limiter, address \in Address, keyed \in BOOLEAN :
              Allow(r, limiter, address, keyed) \/ Unauthorized(r, limiter, keyed)
         \/ Incr(r) \/ IncrReplyLost(r) \/ IncrFails(r) \/ Expire(r) \/ ExpireFails(r)
    \/ Tick

Spec == Init /\ [][Next]_vars

-----------------------------------------------------------------------------
(* Properties *)

Answers == {r \in Request : req[r] # NULL /\ req[r].allowed # NULL}

\* Of the requests of an address that got their count from Redis, a limiter lets
\* at most its limit pass within one window, however they race, whenever their
\* counter's EXPIRE arrives or fails, and whatever replies are lost (Allow).  A
\* request that reads the clock in one window and counts itself in the next
\* belongs to neither.
AdmittedWithinLimit ==
    \A limiter \in Limiter, k \in Key :
        Cardinality({r \in Answers : /\ req[r].limiter = limiter /\ req[r].key = k
                                     /\ req[r].count # NULL /\ req[r].inTime
                                     /\ req[r].allowed}) <= Limit[limiter]

\* No counter stays behind: unless its EXPIRE failed, or was never sent as the
\* reply to the INCR that created it was lost, once the calls that count on it
\* are over it has an expiry to come (Expire only after the first INCR, although
\* another request's INCR may come in between).
CountersExpire ==
    \A k \in Key :
        /\ counter[k].count > 0
        /\ \A r \in Request : pc[r] \in {"expire", "lost"} => req[r].key # k
        => counter[k].expires # NULL /\ counter[k].expires > now
=============================================================================
