-------------------------- MODULE RateLimitProofs ---------------------------
(***************************************************************************)
(* The safety properties of RateLimit, for any finite set of requests, any *)
(* addresses, limiters and limits, and any window.                         *)
(***************************************************************************)
EXTENDS RateLimit, FiniteSetTheorems, TLAPS

TypeInv ==
    /\ now \in 0..MaxTime
    /\ counter \in [Key -> [count : Nat, expires : Nat \cup {NULL}]]
    /\ pc \in [Request -> {"new", "incr", "expire", "lost", "done"}]
    /\ req \in [Request -> Call \cup {NULL}]
    /\ \A r \in Request : pc[r] = "new" => req[r] = NULL
    /\ \A r \in Request : pc[r] \in {"incr", "expire", "lost"} => req[r] # NULL

\* A request was let in by the middleware before, and has no count and no
\* answer until it has been to Redis.
AskedOK ==
    \A r \in Request : req[r] # NULL =>
        /\ Admits(req[r].limiter, req[r].keyed)
        /\ pc[r] = "incr" => req[r].count = NULL /\ req[r].allowed = NULL

\* An expiry is to come, or somebody's EXPIRE is, or was lost.
Kept(k) ==
    /\ counter[k].count = 0 => counter[k].expires = NULL
    /\ counter[k].expires # NULL => counter[k].expires > now
    /\ counter[k].count > 0 /\ counter[k].expires = NULL =>
          \E r \in Request : pc[r] \in {"expire", "lost"} /\ req[r].key = k

KeptOK == \A k \in Key : Kept(k)

\* The requests that have been to Redis for a key.
Counted(k) == {r \in Request : req[r] # NULL /\ req[r].key = k /\ pc[r] # "incr"}

\* A counter does not run ahead of the requests, and who was turned away saw
\* a count over the limit.
JustlyRejected(r, k) ==
    r \in Answers /\ ~ req[r].allowed /\ req[r].key = k =>
        /\ req[r].count \in Nat /\ req[r].count > Limit[req[r].limiter]
        /\ req[r].count <= Cardinality(Counted(k))

CountOK ==
    /\ \A k \in Key : counter[k].count <= Cardinality(Counted(k))
    /\ \A r \in Request, k \in Key : JustlyRejected(r, k)

\* A key is not of a later window than the present one, and its counter is
\* there until its window is over.
WindowOK ==
    /\ \A r \in Request : req[r] # NULL => req[r].key[2] <= WindowId
    /\ \A k \in Key : counter[k].expires # NULL => k[2] < counter[k].expires \div Window

InTime(r) == req[r] # NULL /\ req[r].count # NULL /\ req[r].inTime

\* Within the window of their key no two requests get the same count.
CountedInTime(r) ==
    InTime(r) =>
        /\ req[r].count >= 1
        /\ req[r].allowed => req[r].count <= Limit[req[r].limiter]
        /\ req[r].key[2] = WindowId => req[r].count <= counter[req[r].key].count

Distinct(r, q) ==
    InTime(r) /\ InTime(q) /\ r # q /\ req[r].key = req[q].key => req[r].count # req[q].count

DistinctOK ==
    /\ \A r \in Request : CountedInTime(r)
    /\ \A r, q \in Request : Distinct(r, q)

-----------------------------------------------------------------------------
(* Division *)

LEMMA DivisionIsMonotone ==
    ASSUME NEW a \in Nat, NEW b \in Nat, NEW w \in Nat \ {0}, a <= b
    PROVE  a \div w \in Nat /\ a \div w <= b \div w
  BY SMTT(30)

LEMMA OneWindowLater ==
    ASSUME NEW a \in Nat, NEW w \in Nat \ {0}
    PROVE  (a + w) \div w = a \div w + 1
  BY SMTT(30)

-----------------------------------------------------------------------------
(* Types *)

\* The present window is one that keys can be of.
LEMMA WindowType ==
    ASSUME TypeInv
    PROVE  WindowId \in 0..(MaxTime \div Window)
<1>1. now \in Nat /\ MaxTime \in Nat /\ Window \in Nat \ {0} /\ now <= MaxTime
  BY RateLimitAssumption DEF TypeInv
<1>2. now \div Window \in Nat /\ MaxTime \div Window \in Nat /\ now \div Window <= MaxTime \div Window
  BY <1>1, DivisionIsMonotone
<1> QED BY <1>2 DEF WindowId

\* The key of a request that is under way has a counter.
LEMMA KeyType ==
    ASSUME TypeInv, NEW r \in Request, req[r] # NULL
    PROVE  /\ req[r] \in Call /\ req[r].key \in Key
           /\ counter[req[r].key].count \in Nat
           /\ counter[req[r].key].expires \in Nat \cup {NULL}
<1>1. req[r] \in Call
  BY DEF TypeInv
<1>2. req[r].key \in Key
  BY <1>1 DEF Call
<1> QED BY <1>1, <1>2 DEF TypeInv

\* What Answered makes of a request.
AnsweredCall(r, count) ==
    [req[r] EXCEPT !.allowed = (count = NULL \/ Within(count, req[r].limiter)),
                   !.count   = count,
                   !.inTime  = (req[r].key[2] = WindowId)]

LEMMA AnsweredType ==
    ASSUME TypeInv, NEW r \in Request, req[r] # NULL, NEW count \in Nat \cup {NULL}
    PROVE  LET answered == AnsweredCall(r, count)
           IN  /\ Answered(r, count) = [req EXCEPT ![r] = answered]
               /\ answered \in Call /\ answered # NULL
               /\ answered.limiter = req[r].limiter /\ answered.key = req[r].key
               /\ answered.keyed = req[r].keyed
               /\ answered.count = count
               /\ answered.inTime = (req[r].key[2] = WindowId)
               /\ answered.allowed = (count = NULL \/ Within(count, req[r].limiter))
<1>1. req[r] \in Call
  BY DEF TypeInv
<1>2. (count = NULL \/ Within(count, req[r].limiter)) \in BOOLEAN /\ (req[r].key[2] = WindowId) \in BOOLEAN
  BY DEF Within
<1>3. AnsweredCall(r, count) \in Call
  BY <1>1, <1>2 DEF Call, AnsweredCall
<1>4. Answered(r, count) = [req EXCEPT ![r] = AnsweredCall(r, count)]
  BY <1>1, <1>2 DEF Answered, TypeInv, Call, AnsweredCall
<1>5. /\ AnsweredCall(r, count).limiter = req[r].limiter /\ AnsweredCall(r, count).key = req[r].key
      /\ AnsweredCall(r, count).keyed = req[r].keyed
      /\ AnsweredCall(r, count).count = count
      /\ AnsweredCall(r, count).inTime = (req[r].key[2] = WindowId)
      /\ AnsweredCall(r, count).allowed = (count = NULL \/ Within(count, req[r].limiter))
  BY <1>1, <1>2 DEF Call, AnsweredCall
<1> QED BY <1>3, <1>4, <1>5, RateLimitAssumption

\* INCR, or its failure, gives a request its count and its answer.
LEMMA AnswerStep ==
    ASSUME TypeInv, NEW r \in Request, NEW count \in Nat \cup {NULL}, pc[r] = "incr",
           req' = Answered(r, count)
    PROVE  /\ req' \in [Request -> Call \cup {NULL}]
           /\ req[r] # NULL /\ req'[r] # NULL /\ req'[r] \in Call
           /\ req'[r].limiter = req[r].limiter /\ req'[r].key = req[r].key
           /\ req'[r].keyed = req[r].keyed
           /\ req'[r].count = count
           /\ req'[r].inTime = (req[r].key[2] = WindowId)
           /\ req'[r].allowed = (count = NULL \/ Within(count, req[r].limiter))
           /\ \A q \in Request \ {r} : req'[q] = req[q]
<1>1. req[r] # NULL
  BY DEF TypeInv
<1>2. req' = [req EXCEPT ![r] = AnsweredCall(r, count)]
  BY <1>1, AnsweredType
<1>3. req \in [Request -> Call \cup {NULL}] /\ AnsweredCall(r, count) \in Call
  BY <1>1, AnsweredType DEF TypeInv
<1>4. /\ req'[r] = AnsweredCall(r, count) /\ \A q \in Request \ {r} : req'[q] = req[q]
      /\ req' \in [Request -> Call \cup {NULL}]
  BY <1>2, <1>3
<1> QED BY <1>1, <1>4, AnsweredType

\* An INCR that is applied is counted, whether its reply arrives or not.
LEMMA LostStep ==
    ASSUME TypeInv, NEW r \in Request, IncrReplyLost(r)
    PROVE  LET k == req[r].key
               n == counter[k].count + 1
           IN  /\ pc[r] = "incr" /\ req' = Answered(r, NULL) /\ n \in Nat /\ n >= 1 /\ k \in Key
               /\ counter' \in [Key -> [count : Nat, expires : Nat \cup {NULL}]]
               /\ counter'[k].count = n /\ counter'[k].expires = counter[k].expires
               /\ \A j \in Key \ {k} : counter'[j] = counter[j]
               /\ pc'[r] = IF First(n) THEN "lost" ELSE "done"
               /\ \A q \in Request \ {r} : pc'[q] = pc[q]
               /\ pc' \in [Request -> {"new", "incr", "expire", "lost", "done"}]
               /\ UNCHANGED now
<1> DEFINE k == req[r].key
           n == counter[k].count + 1
<1>1. req[r] # NULL
  BY DEF IncrReplyLost, TypeInv
<1>2. k \in Key /\ n \in Nat /\ n >= 1
  BY <1>1, KeyType
<1>3. /\ pc[r] = "incr" /\ req' = Answered(r, NULL) /\ now' = now
      /\ counter' = [counter EXCEPT ![k].count = n]
      /\ pc' = [pc EXCEPT ![r] = IF First(n) THEN "lost" ELSE "done"]
  BY DEF IncrReplyLost
<1> HIDE DEF n, k
<1>4. /\ counter'[k].count = n /\ counter'[k].expires = counter[k].expires
      /\ \A j \in Key \ {k} : counter'[j] = counter[j]
      /\ counter' \in [Key -> [count : Nat, expires : Nat \cup {NULL}]]
  BY <1>2, <1>3 DEF TypeInv
<1>5. /\ pc'[r] = IF First(n) THEN "lost" ELSE "done"
      /\ \A q \in Request \ {r} : pc'[q] = pc[q]
      /\ pc' \in [Request -> {"new", "incr", "expire", "lost", "done"}]
  BY <1>3 DEF TypeInv
<1> QED BY <1>2, <1>3, <1>4, <1>5 DEF n, k

LEMMA TypesKept ==
    ASSUME TypeInv, [Next]_vars
    PROVE  TypeInv'
<1> USE RateLimitAssumption
<1>1. CASE UNCHANGED vars
  BY <1>1 DEF vars, TypeInv
<1>2. ASSUME NEW r \in Request, NEW l \in Limiter, NEW a \in Address, NEW keyed \in BOOLEAN, Allow(r, l, a, keyed)
      PROVE  TypeInv'
  <2>1. <<a, WindowId>> \in Key
    BY WindowType DEF Key
  <2>2. [limiter |-> l, key |-> <<a, WindowId>>, keyed |-> keyed, count |-> NULL,
         inTime |-> FALSE, allowed |-> NULL] \in Call
    BY <2>1 DEF Call
  <2> QED BY <1>2, <2>2 DEF Allow, TypeInv
<1>3. ASSUME NEW r \in Request, NEW l \in Limiter, NEW keyed \in BOOLEAN, Unauthorized(r, l, keyed)
      PROVE  TypeInv'
  BY <1>3 DEF Unauthorized, TypeInv
<1>4. ASSUME NEW r \in Request, Incr(r) PROVE TypeInv'
  <2>1. req[r] # NULL
    BY <1>4 DEF Incr, TypeInv
  <2>2. /\ req[r].key \in Key
        /\ counter[req[r].key].count + 1 \in Nat
        /\ counter[req[r].key].expires \in Nat \cup {NULL}
    BY <2>1, KeyType
  <2>3. counter' \in [Key -> [count : Nat, expires : Nat \cup {NULL}]]
    BY <1>4, <2>2 DEF Incr, TypeInv
  <2>4. req' \in [Request -> Call \cup {NULL}] /\ req'[r] # NULL
        /\ \A q \in Request \ {r} : req'[q] = req[q]
    <3> DEFINE n == counter[req[r].key].count + 1
    <3>1. req' = Answered(r, n) /\ n \in Nat \cup {NULL}
      BY <1>4, <2>2 DEF Incr
    <3>2. pc[r] = "incr"
      BY <1>4 DEF Incr
    <3> HIDE DEF n
    <3> QED BY <3>1, <3>2, AnswerStep
  <2> QED BY <1>4, <2>3, <2>4 DEF Incr, TypeInv
<1>5. ASSUME NEW r \in Request, IncrFails(r) PROVE TypeInv'
  <2>1. req[r] # NULL
    BY <1>5 DEF IncrFails, TypeInv
  <2>2. req' \in [Request -> Call \cup {NULL}] /\ req'[r] # NULL
        /\ \A q \in Request \ {r} : req'[q] = req[q]
    BY <1>5, AnswerStep DEF IncrFails
  <2> QED BY <1>5, <2>2 DEF IncrFails, TypeInv
<1>9. ASSUME NEW r \in Request, IncrReplyLost(r) PROVE TypeInv'
  <2>1. req' \in [Request -> Call \cup {NULL}] /\ req'[r] # NULL
        /\ \A q \in Request \ {r} : req'[q] = req[q]
    BY <1>9, LostStep, AnswerStep
  <2>2. pc'[r] \in {"lost", "done"} /\ \A q \in Request \ {r} : pc'[q] = pc[q]
    BY <1>9, LostStep
  <2>3. /\ counter' \in [Key -> [count : Nat, expires : Nat \cup {NULL}]]
        /\ pc' \in [Request -> {"new", "incr", "expire", "lost", "done"}] /\ UNCHANGED now
    BY <1>9, LostStep
  <2> QED BY <2>1, <2>2, <2>3 DEF TypeInv
<1>6. ASSUME NEW r \in Request, Expire(r) PROVE TypeInv'
  <2>1. req[r] # NULL
    BY <1>6 DEF Expire, TypeInv
  <2>2. req[r].key \in Key
    BY <2>1, KeyType
  <2> QED BY <1>6, <2>2 DEF Expire, TypeInv
<1>7. ASSUME NEW r \in Request, ExpireFails(r) PROVE TypeInv'
  BY <1>7 DEF ExpireFails, TypeInv
<1>8. CASE Tick
  BY <1>8 DEF Tick, TypeInv, NoCounter
<1> QED BY <1>1, <1>2, <1>3, <1>4, <1>5, <1>6, <1>7, <1>8, <1>9 DEF Next

-----------------------------------------------------------------------------
(* What an action does to the requests and the counters *)

\* Allow adds a request that has not been to Redis.
LEMMA AllowStep ==
    ASSUME TypeInv, NEW r \in Request, NEW l \in Limiter, NEW a \in Address, NEW keyed \in BOOLEAN,
           Allow(r, l, a, keyed)
    PROVE  /\ req[r] = NULL /\ req'[r] # NULL /\ pc'[r] = "incr"
           /\ req'[r].limiter = l /\ req'[r].key = <<a, WindowId>> /\ req'[r].keyed = keyed
           /\ req'[r].count = NULL /\ req'[r].allowed = NULL
           /\ Admits(l, keyed)
           /\ \A q \in Request \ {r} : req'[q] = req[q] /\ pc'[q] = pc[q]
           /\ UNCHANGED <<now, counter>>
<1> DEFINE call == [limiter |-> l, key |-> <<a, WindowId>>, keyed |-> keyed, count |-> NULL,
                    inTime |-> FALSE, allowed |-> NULL]
<1>1. call \in Call
  BY WindowType DEF Call, Key
<1>2. /\ req'[r] = call /\ pc'[r] = "incr" /\ req[r] = NULL /\ Admits(l, keyed)
      /\ \A q \in Request \ {r} : req'[q] = req[q] /\ pc'[q] = pc[q]
      /\ UNCHANGED <<now, counter>>
  BY DEF Allow, TypeInv
<1>3. call # NULL
  BY <1>1, RateLimitAssumption
<1>4. /\ call.limiter = l /\ call.key = <<a, WindowId>> /\ call.keyed = keyed
      /\ call.count = NULL /\ call.allowed = NULL
  OBVIOUS
<1> HIDE DEF call
<1> QED BY <1>2, <1>3, <1>4

\* Both outcomes of INCR at once.
LEMMA IncrStep ==
    ASSUME TypeInv, NEW r \in Request, Incr(r)
    PROVE  LET k == req[r].key
               n == counter[k].count + 1
           IN  /\ pc[r] = "incr" /\ req' = Answered(r, n) /\ n \in Nat /\ n >= 1 /\ k \in Key
               /\ counter'[k].count = n /\ counter'[k].expires = counter[k].expires
               /\ \A j \in Key \ {k} : counter'[j] = counter[j]
               /\ pc'[r] = IF First(n) THEN "expire" ELSE "done"
               /\ \A q \in Request \ {r} : pc'[q] = pc[q]
               /\ UNCHANGED now
<1> DEFINE k == req[r].key
           n == counter[k].count + 1
<1>1. req[r] # NULL
  BY DEF Incr, TypeInv
<1>2. k \in Key /\ n \in Nat /\ n >= 1
  BY <1>1, KeyType
<1>3. /\ pc[r] = "incr" /\ req' = Answered(r, n) /\ now' = now
      /\ counter' = [counter EXCEPT ![k].count = n]
      /\ pc' = [pc EXCEPT ![r] = IF First(n) THEN "expire" ELSE "done"]
  BY DEF Incr
<1> HIDE DEF n, k
<1>4. /\ counter'[k].count = n /\ counter'[k].expires = counter[k].expires
      /\ \A j \in Key \ {k} : counter'[j] = counter[j]
  BY <1>2, <1>3 DEF TypeInv
<1>5. /\ pc'[r] = IF First(n) THEN "expire" ELSE "done"
      /\ \A q \in Request \ {r} : pc'[q] = pc[q]
  BY <1>3 DEF TypeInv
<1> QED BY <1>2, <1>3, <1>4, <1>5 DEF n, k

\* EXPIRE changes the expiry of one counter and no count.
LEMMA ExpireStep ==
    ASSUME TypeInv, NEW r \in Request, Expire(r)
    PROVE  LET k == req[r].key
           IN  /\ k \in Key /\ pc[r] = "expire" /\ pc'[r] = "done"
               /\ counter'[k].count = counter[k].count
               /\ counter'[k].expires = IF counter[k].count = 0 THEN NULL ELSE now + Window
               /\ \A j \in Key \ {k} : counter'[j] = counter[j]
               /\ \A q \in Request \ {r} : pc'[q] = pc[q]
               /\ UNCHANGED <<now, req>>
<1> DEFINE k == req[r].key
<1>1. req[r] # NULL
  BY DEF Expire, TypeInv
<1>2. k \in Key
  BY <1>1, KeyType
<1>3. /\ pc[r] = "expire" /\ UNCHANGED <<now, req>>
      /\ counter' = [counter EXCEPT ![k].expires = IF counter[k].count = 0 THEN NULL ELSE now + Window]
      /\ pc' = [pc EXCEPT ![r] = "done"]
  BY DEF Expire
<1> HIDE DEF k
<1> QED BY <1>2, <1>3 DEF TypeInv, k

\* Time moves by one and resets the counters whose time it is.
LEMMA TickStep ==
    ASSUME TypeInv, Tick
    PROVE  /\ now' = now + 1 /\ UNCHANGED <<pc, req>>
           /\ \A k \in Key :
                 \/ counter[k].expires = now' /\ counter'[k].count = 0 /\ counter'[k].expires = NULL
                 \/ counter[k].expires # now' /\ counter'[k] = counter[k]
<1>1. now' = now + 1 /\ UNCHANGED <<pc, req>>
  BY DEF Tick
<1>2. ASSUME NEW k \in Key
      PROVE  counter'[k] = IF counter[k].expires = now' THEN NoCounter ELSE counter[k]
  BY <1>2 DEF Tick
<1> QED BY <1>1, <1>2 DEF NoCounter

-----------------------------------------------------------------------------
(* Who was let in, and counters that expire *)

LEMMA AskedKept ==
    ASSUME TypeInv, AskedOK, [Next]_vars
    PROVE  AskedOK'
<1>1. CASE UNCHANGED vars
  BY <1>1 DEF vars, AskedOK, Admits
<1>2. ASSUME NEW r \in Request, NEW l \in Limiter, NEW a \in Address, NEW keyed \in BOOLEAN, Allow(r, l, a, keyed)
      PROVE  AskedOK'
  BY <1>2, AllowStep DEF AskedOK, Admits
<1>3. ASSUME NEW r \in Request, NEW l \in Limiter, NEW keyed \in BOOLEAN, Unauthorized(r, l, keyed)
      PROVE  AskedOK'
  BY <1>3 DEF Unauthorized, AskedOK, Admits, TypeInv
<1>4. ASSUME NEW r \in Request, Incr(r) PROVE AskedOK'
  <2> DEFINE n == counter[req[r].key].count + 1
  <2>1. /\ pc[r] = "incr" /\ req' = Answered(r, n) /\ n \in Nat
        /\ pc'[r] # "incr" /\ \A q \in Request \ {r} : pc'[q] = pc[q]
    BY <1>4, IncrStep
  <2> HIDE DEF n
  <2> QED BY <2>1, AnswerStep DEF AskedOK, Admits
<1>5. ASSUME NEW r \in Request, IncrFails(r) PROVE AskedOK'
  <2>1. /\ pc[r] = "incr" /\ req' = Answered(r, NULL)
        /\ pc'[r] = "done" /\ \A q \in Request \ {r} : pc'[q] = pc[q]
    BY <1>5 DEF IncrFails, TypeInv
  <2> QED BY <2>1, AnswerStep DEF AskedOK, Admits
<1>9. ASSUME NEW r \in Request, IncrReplyLost(r) PROVE AskedOK'
  <2>1. /\ pc[r] = "incr" /\ req' = Answered(r, NULL)
        /\ pc'[r] # "incr" /\ \A q \in Request \ {r} : pc'[q] = pc[q]
    BY <1>9, LostStep
  <2>2. /\ req[r] # NULL /\ req'[r].limiter = req[r].limiter /\ req'[r].keyed = req[r].keyed
        /\ \A q \in Request \ {r} : req'[q] = req[q]
    BY <2>1, AnswerStep
  <2>3. ASSUME NEW q \in Request, req'[q] # NULL
        PROVE  /\ Admits(req'[q].limiter, req'[q].keyed)
               /\ pc'[q] = "incr" => req'[q].count = NULL /\ req'[q].allowed = NULL
    <3>1. CASE q = r
      BY <2>1, <2>2, <3>1 DEF AskedOK, Admits
    <3>2. CASE q # r
      BY <2>1, <2>2, <2>3, <3>2 DEF AskedOK, Admits
    <3> QED BY <3>1, <3>2
  <2> QED BY <2>3 DEF AskedOK, Admits
<1>6. ASSUME NEW r \in Request, Expire(r) PROVE AskedOK'
  BY <1>6, ExpireStep DEF AskedOK, Admits
<1>7. ASSUME NEW r \in Request, ExpireFails(r) PROVE AskedOK'
  BY <1>7 DEF ExpireFails, AskedOK, Admits, TypeInv
<1>8. CASE Tick
  BY <1>8, TickStep DEF AskedOK, Admits
<1> QED BY <1>1, <1>2, <1>3, <1>4, <1>5, <1>6, <1>7, <1>8, <1>9 DEF Next

\* The INCR that creates a counter leaves its request at "expire", or "lost"; a
\* later one finds the counter as it was.
LEMMA KeptKept ==
    ASSUME TypeInv, KeptOK, [Next]_vars, NEW k \in Key
    PROVE  Kept(k)'
<1> USE RateLimitAssumption
<1> Kept(k) /\ counter[k].count \in Nat /\ counter[k].expires \in Nat \cup {NULL} /\ now \in Nat
  BY DEF KeptOK, TypeInv
<1>1. CASE UNCHANGED vars
  BY <1>1 DEF vars, Kept
<1>2. ASSUME NEW r \in Request, NEW l \in Limiter, NEW a \in Address, NEW keyed \in BOOLEAN, Allow(r, l, a, keyed)
      PROVE  Kept(k)'
  <2>1. pc[r] = "new"
    BY <1>2 DEF Allow
  <2> QED BY <1>2, <2>1, AllowStep DEF Kept
<1>3. ASSUME NEW r \in Request, NEW l \in Limiter, NEW keyed \in BOOLEAN, Unauthorized(r, l, keyed)
      PROVE  Kept(k)'
  BY <1>3 DEF Unauthorized, Kept, TypeInv
<1>4. ASSUME NEW r \in Request, Incr(r) PROVE Kept(k)'
  <2> DEFINE n == counter[req[r].key].count + 1
  <2>1. /\ pc[r] = "incr" /\ req' = Answered(r, n) /\ n \in Nat /\ n >= 1
        /\ counter'[req[r].key].count = n /\ counter'[req[r].key].expires = counter[req[r].key].expires
        /\ k # req[r].key => counter'[k] = counter[k]
        /\ pc'[r] = IF First(n) THEN "expire" ELSE "done"
        /\ \A q \in Request \ {r} : pc'[q] = pc[q]
        /\ UNCHANGED now
    BY <1>4, IncrStep
  <2>2. k = req[r].key /\ counter[k].count = 0 => n = 1
    OBVIOUS
  <2> HIDE DEF n
  <2>3. req'[r].key = req[r].key /\ \A q \in Request \ {r} : req'[q] = req[q]
    BY <2>1, AnswerStep
  <2>4. CASE k # req[r].key
    BY <2>1, <2>3, <2>4 DEF Kept
  <2>5. CASE k = req[r].key /\ counter[k].count = 0
    BY <2>1, <2>2, <2>3, <2>5 DEF Kept, First
  <2>6. CASE k = req[r].key /\ counter[k].count > 0
    BY <2>1, <2>3, <2>6 DEF Kept
  <2> QED BY <2>4, <2>5, <2>6
<1>5. ASSUME NEW r \in Request, IncrFails(r) PROVE Kept(k)'
  <2>1. /\ pc[r] = "incr" /\ req' = Answered(r, NULL) /\ UNCHANGED <<now, counter>>
        /\ \A q \in Request \ {r} : pc'[q] = pc[q]
    BY <1>5 DEF IncrFails, TypeInv
  <2> QED BY <2>1, AnswerStep DEF Kept
<1>9. ASSUME NEW r \in Request, IncrReplyLost(r) PROVE Kept(k)'
  <2> DEFINE n == counter[req[r].key].count + 1
  <2>1. /\ pc[r] = "incr" /\ req' = Answered(r, NULL) /\ n \in Nat /\ n >= 1
        /\ counter'[req[r].key].count = n /\ counter'[req[r].key].expires = counter[req[r].key].expires
        /\ k # req[r].key => counter'[k] = counter[k]
        /\ pc'[r] = IF First(n) THEN "lost" ELSE "done"
        /\ \A q \in Request \ {r} : pc'[q] = pc[q]
        /\ UNCHANGED now
    BY <1>9, LostStep
  <2>2. k = req[r].key /\ counter[k].count = 0 => n = 1
    OBVIOUS
  <2> HIDE DEF n
  <2>3. req'[r].key = req[r].key /\ \A q \in Request \ {r} : req'[q] = req[q]
    BY <2>1, AnswerStep
  <2>4. CASE k # req[r].key
    BY <2>1, <2>3, <2>4 DEF Kept
  <2>5. CASE k = req[r].key /\ counter[k].count = 0
    BY <2>1, <2>2, <2>3, <2>5 DEF Kept, First
  <2>6. CASE k = req[r].key /\ counter[k].count > 0
    BY <2>1, <2>3, <2>6 DEF Kept
  <2> QED BY <2>4, <2>5, <2>6
<1>6. ASSUME NEW r \in Request, Expire(r) PROVE Kept(k)'
  <2>1. CASE k = req[r].key
    BY <1>6, <2>1, ExpireStep DEF Kept
  <2>2. CASE k # req[r].key
    BY <1>6, <2>2, ExpireStep DEF Kept
  <2> QED BY <2>1, <2>2
<1>7. ASSUME NEW r \in Request, ExpireFails(r) PROVE Kept(k)'
  BY <1>7 DEF ExpireFails, Kept, TypeInv
<1>8. CASE Tick
  <2>1. now' = now + 1 /\ UNCHANGED <<pc, req>>
    BY <1>8, TickStep
  <2>2. CASE counter[k].expires = now' /\ counter'[k].count = 0 /\ counter'[k].expires = NULL
    BY <2>2 DEF Kept
  <2>3. CASE counter[k].expires # now' /\ counter'[k] = counter[k]
    BY <2>1, <2>3 DEF Kept
  <2> QED BY <1>8, <2>2, <2>3, TickStep
<1> QED BY <1>1, <1>2, <1>3, <1>4, <1>5, <1>6, <1>7, <1>8, <1>9 DEF Next

-----------------------------------------------------------------------------
(* Counters and requests *)

LEMMA CountedFinite ==
    ASSUME NEW k
    PROVE  IsFiniteSet(Counted(k)) /\ Cardinality(Counted(k)) \in Nat
<1>1. Counted(k) \in SUBSET Request
  BY DEF Counted
<1>2. IsFiniteSet(Counted(k))
  BY <1>1, RateLimitAssumption, FS_Subset
<1> QED BY <1>2, FS_CardinalityType

\* A request that got its count in this step.
Answering(r, count) ==
    /\ r \in Request /\ count \in Nat \cup {NULL}
    /\ pc[r] = "incr" /\ pc'[r] # "incr" /\ req' = Answered(r, count)
    /\ \A q \in Request \ {r} : pc'[q] = pc[q]

\* A step answers one request or leaves all counted requests as they are.
LEMMA RequestSteps ==
    ASSUME TypeInv, [Next]_vars
    PROVE  \/ \E r \in Request :
               /\ Answering(r, counter[req[r].key].count + 1) \/ Answering(r, NULL)
               /\ counter'[req[r].key].count = counter[req[r].key].count + 1
               /\ \A j \in Key \ {req[r].key} : counter'[j] = counter[j]
           \/ \E r \in Request : Answering(r, NULL) /\ UNCHANGED counter
           \/ /\ \A q \in Request : req[q] # NULL => req'[q] = req[q] /\ (pc'[q] = "incr" <=> pc[q] = "incr")
              /\ \A q \in Request : req[q] = NULL /\ req'[q] # NULL => pc'[q] = "incr" /\ req'[q].allowed = NULL
              /\ \A k \in Key : counter'[k].count \in {0, counter[k].count}
<1>1. CASE UNCHANGED vars
  BY <1>1 DEF vars
<1>2. ASSUME NEW r \in Request, NEW l \in Limiter, NEW a \in Address, NEW keyed \in BOOLEAN, Allow(r, l, a, keyed)
      PROVE  /\ \A q \in Request : req[q] # NULL => req'[q] = req[q] /\ (pc'[q] = "incr" <=> pc[q] = "incr")
             /\ \A q \in Request : req[q] = NULL /\ req'[q] # NULL => pc'[q] = "incr" /\ req'[q].allowed = NULL
             /\ \A k \in Key : counter'[k].count \in {0, counter[k].count}
  BY <1>2, AllowStep
<1>3. ASSUME NEW r \in Request, NEW l \in Limiter, NEW keyed \in BOOLEAN, Unauthorized(r, l, keyed)
      PROVE  UNCHANGED <<req, counter>> /\ \A q \in Request : req[q] # NULL => pc'[q] = pc[q]
  BY <1>3 DEF Unauthorized, TypeInv
<1>4. ASSUME NEW r \in Request, Incr(r)
      PROVE  /\ Answering(r, counter[req[r].key].count + 1)
             /\ counter'[req[r].key].count = counter[req[r].key].count + 1
             /\ \A j \in Key \ {req[r].key} : counter'[j] = counter[j]
  <2> DEFINE n == counter[req[r].key].count + 1
  <2>1. /\ pc[r] = "incr" /\ req' = Answered(r, n) /\ n \in Nat
        /\ pc'[r] # "incr" /\ \A q \in Request \ {r} : pc'[q] = pc[q]
        /\ counter'[req[r].key].count = n
        /\ \A j \in Key \ {req[r].key} : counter'[j] = counter[j]
    BY <1>4, IncrStep
  <2> HIDE DEF n
  <2> SUFFICES Answering(r, n) BY <2>1 DEF n
  <2> QED BY <2>1 DEF Answering
<1>5. ASSUME NEW r \in Request, IncrFails(r) PROVE Answering(r, NULL) /\ UNCHANGED counter
  BY <1>5 DEF IncrFails, Answering, TypeInv
<1>9. ASSUME NEW r \in Request, IncrReplyLost(r)
      PROVE  /\ Answering(r, NULL)
             /\ counter'[req[r].key].count = counter[req[r].key].count + 1
             /\ \A j \in Key \ {req[r].key} : counter'[j] = counter[j]
  BY <1>9, LostStep DEF Answering
<1>6. ASSUME NEW r \in Request, Expire(r)
      PROVE  /\ UNCHANGED req /\ \A q \in Request : pc'[q] = "incr" <=> pc[q] = "incr"
             /\ \A k \in Key : counter'[k].count = counter[k].count
  <2>1. \A k \in Key \ {req[r].key} : counter'[k] = counter[k]
    BY <1>6, ExpireStep
  <2> QED BY <1>6, <2>1, ExpireStep
<1>7. ASSUME NEW r \in Request, ExpireFails(r)
      PROVE  UNCHANGED <<req, counter>> /\ \A q \in Request : pc'[q] = "incr" <=> pc[q] = "incr"
  BY <1>7 DEF ExpireFails, TypeInv
<1>8. CASE Tick
  BY <1>8, TickStep
<1> QED BY <1>1, <1>2, <1>3, <1>4, <1>5, <1>6, <1>7, <1>8, <1>9 DEF Next

\* Once counted a request stays counted.
LEMMA CountedGrows ==
    ASSUME TypeInv, [Next]_vars, NEW k
    PROVE  Cardinality(Counted(k)) <= Cardinality(Counted(k)')
<1>1. Counted(k) \subseteq Counted(k)'
  <2>1. ASSUME NEW r \in Request, NEW n, Answering(r, n) PROVE Counted(k) \subseteq Counted(k)'
    BY <2>1, AnswerStep DEF Answering, Counted
  <2> QED BY <2>1, RequestSteps DEF Counted
<1>2. IsFiniteSet(Counted(k)')
  <2>1. Counted(k)' \in SUBSET Request
    BY DEF Counted
  <2> QED BY <2>1, RateLimitAssumption, FS_Subset
<1> QED BY <1>1, <1>2, FS_Subset

\* The request of an INCR is counted from then on.
LEMMA CountedAdds ==
    ASSUME TypeInv, NEW r \in Request, NEW n, Answering(r, n), NEW k, k = req[r].key
    PROVE  Cardinality(Counted(k)') = Cardinality(Counted(k)) + 1
<1>1. /\ pc[r] = "incr" /\ pc'[r] # "incr" /\ req[r] # NULL /\ req'[r] # NULL /\ req'[r].key = k
      /\ \A q \in Request \ {r} : req'[q] = req[q] /\ pc'[q] = pc[q]
  BY AnswerStep DEF Answering
<1>2. Counted(k)' = Counted(k) \cup {r} /\ r \notin Counted(k)
  BY <1>1 DEF Counted
<1> QED BY <1>2, CountedFinite, FS_AddElement

LEMMA CountKept ==
    ASSUME TypeInv, TypeInv', CountOK, [Next]_vars, NEW k \in Key
    PROVE  /\ counter'[k].count <= Cardinality(Counted(k)')
           /\ \A r \in Request : JustlyRejected(r, k)'
<1> DEFINE C == Cardinality(Counted(k))
           D == Cardinality(Counted(k)')
<1>1. /\ C \in Nat /\ D \in Nat /\ C <= D
      /\ counter[k].count \in Nat /\ counter'[k].count \in Nat /\ counter[k].count <= C
  <2>1. IsFiniteSet(Counted(k)')
    <3>1. Counted(k)' \in SUBSET Request
      BY DEF Counted
    <3> QED BY <3>1, RateLimitAssumption, FS_Subset
  <2>2. Cardinality(Counted(k)') \in Nat
    BY <2>1, FS_CardinalityType
  <2> QED BY <2>2, CountedFinite, CountedGrows DEF CountOK, TypeInv
<1>2. ASSUME NEW r \in Request, NEW n, Answering(r, n), k = req[r].key PROVE D = C + 1
  BY <1>2, CountedAdds
<1>3. ASSUME NEW r \in Request, r \in Answers, ~ req[r].allowed, req[r].key = k
      PROVE  req[r].count \in Nat /\ req[r].count > Limit[req[r].limiter] /\ req[r].count <= C
  BY <1>3 DEF CountOK, JustlyRejected
<1> SUFFICES /\ counter'[k].count <= D
             /\ \A r \in Request : (r \in Answers)' /\ ~ req'[r].allowed /\ req'[r].key = k =>
                   req'[r].count \in Nat /\ req'[r].count > Limit[req'[r].limiter] /\ req'[r].count <= D
  BY DEF JustlyRejected
<1> HIDE DEF C, D
<1>4. counter'[k].count <= D
  <2>1. ASSUME counter'[k].count \in {0, counter[k].count} PROVE counter'[k].count <= D
    BY <1>1, <2>1
  <2>2. ASSUME NEW r \in Request, NEW n, Answering(r, n),
               counter'[req[r].key].count = counter[req[r].key].count + 1,
               \A j \in Key \ {req[r].key} : counter'[j] = counter[j]
        PROVE  counter'[k].count <= D
    <3>1. CASE k = req[r].key
      BY <1>1, <1>2, <2>2, <3>1
    <3>2. CASE k # req[r].key
      BY <1>1, <2>2, <3>2
    <3> QED BY <3>1, <3>2
  <2> QED BY <2>1, <2>2, RequestSteps
<1>5. ASSUME NEW r \in Request, (r \in Answers)', ~ req'[r].allowed, req'[r].key = k
      PROVE  req'[r].count \in Nat /\ req'[r].count > Limit[req'[r].limiter] /\ req'[r].count <= D
  <2>1. ASSUME req'[r] = req[r]
        PROVE  req'[r].count \in Nat /\ req'[r].count > Limit[req'[r].limiter] /\ req'[r].count <= D
    <3>1. req[r].count \in Nat /\ req[r].count > Limit[req[r].limiter] /\ req[r].count <= C
      BY <1>3, <1>5, <2>1 DEF Answers
    <3> QED BY <1>1, <2>1, <3>1
  <2>2. ASSUME NEW n \in Nat \cup {NULL}, Answering(r, n), n # NULL => n <= D
        PROVE  req'[r].count \in Nat /\ req'[r].count > Limit[req'[r].limiter] /\ req'[r].count <= D
    <3>1. /\ req'[r].count = n /\ req'[r].limiter = req[r].limiter /\ req'[r] \in Call
          /\ req'[r].allowed = (n = NULL \/ Within(n, req[r].limiter))
      BY <2>2, AnswerStep DEF Answering
    <3>2. n \in Nat /\ ~ Within(n, req[r].limiter)
      BY <1>5, <2>2, <3>1
    <3>3. Limit[req[r].limiter] \in Nat
      BY <3>1, RateLimitAssumption DEF Call
    <3> QED BY <2>2, <3>1, <3>2, <3>3, RateLimitAssumption DEF Within
  <2>3. ASSUME NEW q \in Request, NEW n, Answering(q, n), r # q PROVE req'[r] = req[r]
    BY <2>3, AnswerStep DEF Answering
  <2>4. ASSUME NEW q \in Request,
               Answering(q, counter[req[q].key].count + 1) \/ Answering(q, NULL),
               counter'[req[q].key].count = counter[req[q].key].count + 1, r = q
        PROVE  req'[r].count \in Nat /\ req'[r].count > Limit[req'[r].limiter] /\ req'[r].count <= D
    <3>1. req[r].key = k
      BY <1>5, <2>4, AnswerStep DEF Answering
    <3> QED BY <1>4, <2>2, <2>4, <3>1 DEF Answering
  <2>5. ASSUME \A q \in Request : req[q] # NULL => req'[q] = req[q],
               \A q \in Request : req[q] = NULL /\ req'[q] # NULL => req'[q].allowed = NULL
        PROVE  req'[r] = req[r]
    BY <1>5, <2>5 DEF Answers
  <2> QED BY <2>1, <2>2, <2>3, <2>4, <2>5, RequestSteps
<1> QED BY <1>4, <1>5

-----------------------------------------------------------------------------
(* Windows *)

LEMMA WindowGrows ==
    ASSUME TypeInv, [Next]_vars
    PROVE  WindowId \in Nat /\ WindowId' \in Nat /\ WindowId <= WindowId'
<1>1. now' = now \/ now' = now + 1
  BY DEF Next, vars, Allow, Unauthorized, Incr, IncrReplyLost, IncrFails, Expire, ExpireFails, Tick
<1>2. now \in Nat /\ now' \in Nat /\ now <= now' /\ Window \in Nat \ {0}
  BY <1>1, RateLimitAssumption DEF TypeInv
<1>3. now \div Window \in Nat /\ now \div Window <= now' \div Window
  BY <1>2, DivisionIsMonotone
<1>4. now' <= now'
  BY <1>2
<1>5. now' \div Window \in Nat
  BY <1>2, <1>4, DivisionIsMonotone
<1> QED BY <1>3, <1>5 DEF WindowId

\* Keys are of the window they are made in, and time only goes on.
LEMMA KeysArePast ==
    ASSUME TypeInv, TypeInv', WindowOK, [Next]_vars, NEW r \in Request, req'[r] # NULL
    PROVE  req'[r].key[2] <= WindowId'
<1>1. ASSUME req[r] # NULL, req'[r].key = req[r].key PROVE req'[r].key[2] <= WindowId'
  <2>1. req[r].key[2] \in Nat /\ req[r].key[2] <= WindowId
    BY <1>1, KeyType, RateLimitAssumption, DivisionIsMonotone DEF WindowOK, Key
  <2> QED BY <1>1, <2>1, WindowGrows
<1>2. ASSUME NEW q \in Request, NEW n, Answering(q, n) PROVE req[r] # NULL /\ req'[r].key = req[r].key
  BY <1>2, AnswerStep DEF Answering
<1>3. ASSUME NEW q \in Request, NEW l \in Limiter, NEW a \in Address, NEW keyed \in BOOLEAN, Allow(q, l, a, keyed)
      PROVE  req'[r].key[2] <= WindowId'
  <2>1. CASE r = q
    <3>1. req'[r].key = <<a, WindowId>> /\ now' = now
      BY <1>3, <2>1, AllowStep
    <3> QED BY <3>1, WindowGrows DEF WindowId
  <2>2. CASE r # q
    BY <1>1, <1>3, <2>2, AllowStep
  <2> QED BY <2>1, <2>2
<1>4. CASE UNCHANGED req
  BY <1>1, <1>4
<1>5. ASSUME NEW q \in Request, Incr(q) \/ IncrReplyLost(q) \/ IncrFails(q)
      PROVE  req'[r].key[2] <= WindowId'
  <2>1. CASE Incr(q)
    <3> DEFINE n == counter[req[q].key].count + 1
    <3>1. pc[q] = "incr" /\ n \in Nat /\ req' = Answered(q, n)
      BY <2>1, IncrStep
    <3> HIDE DEF n
    <3> QED BY <1>1, <3>1, AnswerStep
  <2>2. CASE IncrFails(q)
    BY <1>1, <2>2, AnswerStep DEF IncrFails
  <2>3. CASE IncrReplyLost(q)
    BY <1>1, <2>3, LostStep, AnswerStep
  <2> QED BY <1>5, <2>1, <2>2, <2>3
<1> QED BY <1>3, <1>4, <1>5 DEF Next, vars, Unauthorized, Expire, ExpireFails, Tick

\* An EXPIRE keeps a counter into the next window at least.
LEMMA CountersOutliveWindows ==
    ASSUME TypeInv, WindowOK, [Next]_vars, NEW k \in Key, counter'[k].expires # NULL
    PROVE  k[2] < counter'[k].expires \div Window
<1>1. ASSUME counter'[k].expires = counter[k].expires PROVE k[2] < counter'[k].expires \div Window
  BY <1>1 DEF WindowOK
<1>2. ASSUME NEW r \in Request, Expire(r) PROVE k[2] < counter'[k].expires \div Window
  <2>1. CASE k # req[r].key
    BY <1>1, <1>2, <2>1, ExpireStep
  <2>2. CASE k = req[r].key
    <3>1. counter'[k].expires = now + Window
      BY <1>2, <2>2, ExpireStep
    <3>2. now \in Nat /\ Window \in Nat \ {0}
      BY RateLimitAssumption DEF TypeInv
    <3>3. (now + Window) \div Window = WindowId + 1
      BY <3>2, OneWindowLater DEF WindowId
    <3>4. req[r] # NULL
      BY <1>2 DEF Expire, TypeInv
    <3>5. k[2] <= WindowId
      BY <2>2, <3>4 DEF WindowOK
    <3>6. k[2] \in Nat /\ WindowId \in Nat
      BY WindowGrows DEF Key
    <3>7. k[2] < WindowId + 1
      BY <3>5, <3>6
    <3> QED BY <3>1, <3>3, <3>7
  <2> QED BY <2>1, <2>2
<1>3. ASSUME NEW r \in Request, Incr(r) \/ IncrReplyLost(r)
      PROVE  counter'[k].expires = counter[k].expires
  <2>1. \A j \in Key \ {req[r].key} : counter'[j] = counter[j]
    BY <1>3, IncrStep, LostStep
  <2>2. counter'[req[r].key].expires = counter[req[r].key].expires
    BY <1>3, IncrStep, LostStep
  <2> QED BY <2>1, <2>2
<1>4. CASE Tick
  BY <1>1, <1>4, TickStep
<1>5. CASE UNCHANGED counter
  BY <1>1, <1>5
<1> QED BY <1>1, <1>2, <1>3, <1>4, <1>5 DEF Next, vars, Allow, Unauthorized, IncrFails, ExpireFails

-----------------------------------------------------------------------------
(* Counts within a window *)

\* Time and EXPIRE leave the counter of the present window alone.
LEMMA CounterOfWindowStays ==
    ASSUME TypeInv, WindowOK, [Next]_vars, NEW k \in Key, k[2] = WindowId',
           counter'[k].count # counter[k].count
    PROVE  \E r \in Request : req[r].key = k /\ (Incr(r) \/ IncrReplyLost(r))
<1>1. CASE Tick
  <2>1. counter[k].expires = now' /\ counter[k].expires \in Nat
    BY <1>1, TickStep DEF TypeInv
  <2>2. counter[k].expires # NULL
    BY <2>1, RateLimitAssumption
  <2>3. k[2] < WindowId'
    BY <2>1, <2>2 DEF WindowOK, WindowId
  <2> QED BY <2>3, WindowGrows
<1>2. ASSUME NEW r \in Request, Expire(r) PROVE counter'[k].count = counter[k].count
  <2>1. \A j \in Key \ {req[r].key} : counter'[j] = counter[j]
    BY <1>2, ExpireStep
  <2> QED BY <1>2, <2>1, ExpireStep
<1>3. ASSUME NEW r \in Request, Incr(r) \/ IncrReplyLost(r) PROVE req[r].key = k
  <2>1. \A j \in Key \ {req[r].key} : counter'[j] = counter[j]
    BY <1>3, IncrStep, LostStep
  <2> QED BY <2>1
<1> QED BY <1>1, <1>2, <1>3 DEF Next, vars, Allow, Unauthorized, IncrFails, ExpireFails

\* A request that counts in time becomes the latest of its key; the others
\* stay behind it.
LEMMA DistinctKept ==
    ASSUME TypeInv, TypeInv', AskedOK, WindowOK, DistinctOK, [Next]_vars
    PROVE  DistinctOK'
<1> USE RateLimitAssumption
<1>1. \A r \in Request : req[r] # NULL =>
         /\ req[r].key \in Key /\ req[r].key[2] \in Nat /\ req[r].key[2] <= WindowId
         /\ req[r].count \in Nat \cup {NULL} /\ counter[req[r].key].count \in Nat
  <2>1. ASSUME NEW r \in Request, req[r] # NULL PROVE req[r].key[2] \in Nat
    BY <2>1, KeyType, DivisionIsMonotone DEF Key
  <2> QED BY <2>1, KeyType DEF WindowOK, Call
<1>2. WindowId \in Nat /\ WindowId' \in Nat /\ WindowId <= WindowId'
  BY WindowGrows
\* A step without an INCR that gets its reply.
<1>3. ASSUME \A q \in Request : req'[q] = req[q] \/ ~ InTime(q)',
             \A r \in Request : ~ Incr(r)
      PROVE  DistinctOK'
  <2>1. ASSUME NEW r \in Request, InTime(r)' PROVE InTime(r) /\ req'[r] = req[r]
    BY <1>3, <2>1 DEF InTime
  <2>2. ASSUME NEW r \in Request PROVE CountedInTime(r)'
    <3> SUFFICES ASSUME InTime(r)' PROVE CountedInTime(r)' BY DEF CountedInTime
    <3>1. InTime(r) /\ req'[r] = req[r] /\ CountedInTime(r)
      BY <2>1 DEF DistinctOK
    <3>2. ASSUME req[r].key[2] = WindowId' PROVE req[r].count <= counter'[req[r].key].count
      <4>1. req[r].key[2] = WindowId /\ req[r].key \in Key
        BY <1>1, <1>2, <3>1, <3>2 DEF InTime
      <4>2. \/ counter'[req[r].key].count = counter[req[r].key].count
            \/ counter'[req[r].key].count = counter[req[r].key].count + 1
        <5>1. CASE counter'[req[r].key].count # counter[req[r].key].count
          <6>1. PICK q \in Request : req[q].key = req[r].key /\ IncrReplyLost(q)
            BY <1>3, <3>2, <4>1, <5>1, CounterOfWindowStays
          <6> QED BY <6>1, LostStep
        <5> QED BY <5>1
      <4>3. /\ req[r].count \in Nat /\ counter[req[r].key].count \in Nat
            /\ req[r].count <= counter[req[r].key].count
        BY <1>1, <3>1, <4>1 DEF CountedInTime, InTime
      <4> QED BY <4>2, <4>3
    <3> QED BY <3>1, <3>2 DEF CountedInTime
  <2>3. ASSUME NEW r \in Request, NEW q \in Request PROVE Distinct(r, q)'
    BY <2>1 DEF Distinct, DistinctOK
  <2> QED BY <2>2, <2>3 DEF DistinctOK
<1>4. ASSUME NEW r \in Request, Incr(r) PROVE DistinctOK'
  <2> DEFINE n == counter[req[r].key].count + 1
  <2>1. /\ pc[r] = "incr" /\ req' = Answered(r, n) /\ n \in Nat /\ n >= 1
        /\ counter'[req[r].key].count = n
        /\ \A j \in Key \ {req[r].key} : counter'[j] = counter[j]
        /\ UNCHANGED now
    BY <1>4, IncrStep
  <2>2. n > counter[req[r].key].count
    <3>1. counter[req[r].key].count \in Nat
      BY <1>1, <2>1 DEF TypeInv
    <3> QED BY <3>1
  <2> HIDE DEF n
  <2>3. /\ req[r] # NULL /\ req'[r] # NULL /\ req'[r].count = n /\ req'[r].key = req[r].key
        /\ req'[r].limiter = req[r].limiter
        /\ req'[r].inTime = (req[r].key[2] = WindowId)
        /\ req'[r].allowed = (n = NULL \/ Within(n, req[r].limiter))
        /\ \A q \in Request \ {r} : req'[q] = req[q]
    BY <2>1, AnswerStep
  <2>4. WindowId' = WindowId
    BY <2>1 DEF WindowId
  <2>5. CountedInTime(r)'
    <3>1. n # NULL /\ n <= n
      BY <2>1
    <3> QED BY <2>1, <2>3, <3>1 DEF CountedInTime, Within
  <2>6. ASSUME NEW q \in Request, q # r PROVE CountedInTime(q)'
    <3>1. req'[q] = req[q] /\ CountedInTime(q) /\ (InTime(q)' <=> InTime(q))
      BY <2>3, <2>6 DEF DistinctOK, InTime
    <3>2. ASSUME InTime(q), req[q].key[2] = WindowId PROVE req[q].count <= counter'[req[q].key].count
      <4>1. req[q].count \in Nat /\ req[q].key \in Key /\ req[q].count <= counter[req[q].key].count
        BY <1>1, <3>1, <3>2 DEF InTime, CountedInTime
      <4>2. CASE req[q].key = req[r].key
        BY <1>1, <2>1, <2>2, <2>3, <4>1, <4>2
      <4>3. CASE req[q].key # req[r].key
        BY <2>1, <4>1, <4>3
      <4> QED BY <4>2, <4>3
    <3> QED BY <2>4, <3>1, <3>2 DEF CountedInTime
  <2>7. ASSUME NEW q \in Request, q # r, InTime(q), req[q].key = req[r].key, req[r].key[2] = WindowId
        PROVE  req[q].count # n
    <3>1. req[q].count \in Nat /\ req[q].count <= counter[req[r].key].count /\ counter[req[r].key].count \in Nat
      BY <1>1, <2>7 DEF InTime, DistinctOK, CountedInTime
    <3> QED BY <2>1, <2>2, <3>1
  <2>8. ASSUME NEW q \in Request, NEW p \in Request PROVE Distinct(q, p)'
    <3>1. CASE q # r /\ p # r
      BY <2>3, <3>1 DEF DistinctOK, Distinct, InTime
    <3>2. InTime(r)' => req[r].key[2] = WindowId
      BY <2>3 DEF InTime
    <3>3. \A i \in Request \ {r} : InTime(i)' => InTime(i)
      BY <2>3 DEF InTime
    <3>4. CASE q = r /\ p # r
      BY <2>3, <2>7, <3>2, <3>3, <3>4 DEF Distinct
    <3>5. CASE q # r /\ p = r
      BY <2>3, <2>7, <3>2, <3>3, <3>5 DEF Distinct
    <3>6. CASE q = p
      BY <3>6 DEF Distinct
    <3> QED BY <3>1, <3>4, <3>5, <3>6
  <2> QED BY <2>5, <2>6, <2>8 DEF DistinctOK
<1>5. ASSUME NEW r \in Request, NEW l \in Limiter, NEW a \in Address, NEW keyed \in BOOLEAN, Allow(r, l, a, keyed)
      PROVE  \A q \in Request : req'[q] = req[q] \/ ~ InTime(q)'
  BY <1>5, AllowStep DEF InTime
<1>6. ASSUME NEW r \in Request, IncrFails(r) \/ IncrReplyLost(r)
      PROVE  \A q \in Request : req'[q] = req[q] \/ ~ InTime(q)'
  <2>0. pc[r] = "incr" /\ req' = Answered(r, NULL)
    BY <1>6, LostStep DEF IncrFails
  <2>1. req'[r].count = NULL /\ \A q \in Request \ {r} : req'[q] = req[q]
    BY <2>0, AnswerStep
  <2> QED BY <2>1 DEF InTime
<1>7. \/ \E r \in Request : Incr(r)
      \/ \A q \in Request : req'[q] = req[q] \/ ~ InTime(q)'
  BY <1>5, <1>6 DEF Next, vars, Unauthorized, Expire, ExpireFails, Tick
<1> QED BY <1>3, <1>4, <1>7

-----------------------------------------------------------------------------
(* The invariant, and what follows from it *)

LimitInv == TypeInv /\ AskedOK /\ KeptOK /\ CountOK /\ WindowOK /\ DistinctOK

LEMMA LimitInvInit == Init => LimitInv
<1> SUFFICES ASSUME Init PROVE LimitInv OBVIOUS
<1> USE RateLimitAssumption
<1>1. /\ \A k \in Key : counter[k].count = 0 /\ counter[k].expires = NULL
      /\ \A r \in Request : req[r] = NULL
  BY DEF Init, NoCounter
<1>2. TypeInv
  BY DEF Init, TypeInv, NoCounter
<1>3. AskedOK /\ KeptOK /\ WindowOK
  BY <1>1 DEF AskedOK, KeptOK, Kept, WindowOK
<1>4. CountOK
  <2>1. \A k \in Key : Cardinality(Counted(k)) \in Nat
    BY CountedFinite
  <2>2. \A k \in Key : counter[k].count <= Cardinality(Counted(k))
    BY <1>1, <2>1
  <2>3. \A r \in Request, k \in Key : JustlyRejected(r, k)
    BY <1>1 DEF JustlyRejected, Answers
  <2> QED BY <2>2, <2>3 DEF CountOK
<1>5. DistinctOK
  BY <1>1 DEF DistinctOK, CountedInTime, Distinct, InTime
<1> QED BY <1>2, <1>3, <1>4, <1>5 DEF LimitInv

LEMMA LimitInvNext == LimitInv /\ [Next]_vars => LimitInv'
<1> SUFFICES ASSUME LimitInv, [Next]_vars PROVE LimitInv' OBVIOUS
<1> USE DEF LimitInv
<1>1. TypeInv'
  BY TypesKept
<1>2. AskedOK'
  BY AskedKept
<1>3. KeptOK'
  <2>1. \A k \in Key : Kept(k)'
    BY KeptKept
  <2> QED BY <2>1 DEF KeptOK
<1>4. CountOK'
  <2>1. \A k \in Key : counter'[k].count <= Cardinality(Counted(k)') /\ \A r \in Request : JustlyRejected(r, k)'
    BY <1>1, CountKept
  <2> QED BY <2>1 DEF CountOK
<1>5. WindowOK'
  <2>1. \A r \in Request : req'[r] # NULL => req'[r].key[2] <= WindowId'
    BY <1>1, KeysArePast
  <2>2. \A k \in Key : counter'[k].expires # NULL => k[2] < counter'[k].expires \div Window
    BY CountersOutliveWindows
  <2> QED BY <2>1, <2>2 DEF WindowOK
<1>6. DistinctOK'
  BY <1>1, DistinctKept
<1> QED BY <1>1, <1>2, <1>3, <1>4, <1>5, <1>6

LEMMA LimitInvHolds == Spec => []LimitInv
  BY LimitInvInit, LimitInvNext, PTL DEF Spec

\* No counter stays behind for good, although INCR and EXPIRE are two commands
\* and other requests come between them: unless its EXPIRE failed, or the reply
\* to its first INCR was lost, a counter that nobody is about to give an expiry
\* has one (Allow).
THEOREM CountersGoAway == Spec => []CountersExpire
<1>1. LimitInv => CountersExpire
  BY DEF LimitInv, KeptOK, Kept, CountersExpire
<1> QED BY <1>1, LimitInvHolds, PTL

\* The requests of an address in a window, to whichever limiter, without those
\* that lack the API key.
Entitled(k) == {q \in Request : /\ req[q] # NULL /\ req[q].key = k
                                /\ req[q].limiter \in Guarded => req[q].keyed}

\* Whoever is turned away: its address made more requests of either kind in that
\* window than the limit of the limiter that turned it away.
RejectedOnlyOverLimit ==
    \A r \in Answers : ~ req[r].allowed =>
        Cardinality(Entitled(req[r].key)) > Limit[req[r].limiter]

\* For any number of requests: one is turned away because of requests that got
\* as far as Redis, none of them stopped for its API key, never because Redis
\* fails.  They may be requests to the other limiter, which has the same keys:
\* an order is refused for public requests before it (Allow, the order of the
\* middlewares).
THEOREM NobodyBlockedWithoutCause == Spec => []RejectedOnlyOverLimit
<1>1. ASSUME LimitInv PROVE RejectedOnlyOverLimit
  <2> SUFFICES ASSUME NEW r \in Answers, ~ req[r].allowed
               PROVE  Cardinality(Entitled(req[r].key)) > Limit[req[r].limiter]
    BY DEF RejectedOnlyOverLimit
  <2> DEFINE k == req[r].key
             Q == Entitled(k)
  <2>1. r \in Request /\ req[r] # NULL
    BY DEF Answers
  <2>2. k \in Key /\ Limit[req[r].limiter] \in Nat
    BY <1>1, <2>1, KeyType, RateLimitAssumption DEF LimitInv, Call
  <2>3. req[r].count \in Nat /\ req[r].count > Limit[req[r].limiter] /\ req[r].count <= Cardinality(Counted(k))
    BY <1>1, <2>1, <2>2 DEF LimitInv, CountOK, JustlyRejected
  <2>4. Counted(k) \subseteq Q
    BY <1>1 DEF LimitInv, AskedOK, Admits, Counted, Entitled
  <2>5. IsFiniteSet(Q)
    <3>1. Q \in SUBSET Request
      BY DEF Entitled
    <3> QED BY <3>1, RateLimitAssumption, FS_Subset
  <2>6. Cardinality(Counted(k)) <= Cardinality(Q) /\ Cardinality(Q) \in Nat /\ Cardinality(Counted(k)) \in Nat
    BY <2>4, <2>5, FS_Subset, FS_CardinalityType, CountedFinite
  <2> HIDE DEF k, Q
  <2>7. Cardinality(Q) > Limit[req[r].limiter]
    BY <2>2, <2>3, <2>6
  <2> QED BY <2>7 DEF Q, k
<1> QED BY <1>1, LimitInvHolds, PTL

\* For any number of requests, racing in any way: no more of an address than
\* the limit are let through in a window, as far as Redis counted them (Allow).
THEOREM NobodyAboveTheLimit == Spec => []AdmittedWithinLimit
<1>1. ASSUME LimitInv PROVE AdmittedWithinLimit
  <2> SUFFICES ASSUME NEW l \in Limiter, NEW k \in Key
               PROVE  Cardinality({r \in Answers : /\ req[r].limiter = l /\ req[r].key = k
                                                    /\ req[r].count # NULL /\ req[r].inTime
                                                    /\ req[r].allowed}) <= Limit[l]
    BY DEF AdmittedWithinLimit
  <2> DEFINE S == {r \in Answers : /\ req[r].limiter = l /\ req[r].key = k
                                    /\ req[r].count # NULL /\ req[r].inTime
                                    /\ req[r].allowed}
             f == [r \in S |-> req[r].count]
  <2>1. Limit[l] \in Nat
    BY RateLimitAssumption
  <2>2. ASSUME NEW r \in S PROVE req[r].count \in 1..Limit[l]
    <3>1. r \in Request /\ InTime(r) /\ req[r].allowed /\ req[r].limiter = l
      BY <2>2 DEF InTime, Answers
    <3>2. req[r].count >= 1 /\ req[r].count <= Limit[l]
      BY <1>1, <3>1 DEF LimitInv, DistinctOK, CountedInTime
    <3>3. req[r].count \in Nat
      BY <1>1, <3>1, KeyType DEF LimitInv, Call, InTime
    <3> QED BY <2>1, <3>2, <3>3
  <2>3. ASSUME NEW r \in S, NEW q \in S, req[r].count = req[q].count PROVE r = q
    <3>1. r \in Request /\ q \in Request /\ InTime(r) /\ InTime(q) /\ req[r].key = req[q].key
      BY <2>3 DEF InTime, Answers
    <3> QED BY <1>1, <2>3, <3>1 DEF LimitInv, DistinctOK, Distinct
  <2> HIDE DEF S
  <2>4. f \in Injection(S, 1..Limit[l])
    BY <2>2, <2>3 DEF Injection, IsInjective
  <2>5. IsFiniteSet(1..Limit[l]) /\ Cardinality(1..Limit[l]) = Limit[l]
    BY <2>1, FS_Interval
  <2> HIDE DEF f
  <2>6. Cardinality(S) <= Cardinality(1..Limit[l])
    BY <2>4, <2>5, FS_Injection
  <2> QED BY <2>5, <2>6 DEF S
<1> QED BY <1>1, LimitInvHolds, PTL
=============================================================================
