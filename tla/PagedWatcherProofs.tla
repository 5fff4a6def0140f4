------------------------- MODULE PagedWatcherProofs -------------------------
(***************************************************************************)
(* Proofs about PagedWatcher, the watchers of TRON and TON, for any chain, *)
(* page size, lag of the endpoints, error of the host's clock and number   *)
(* of crashes.                                                             *)
(***************************************************************************)
EXTENDS PagedWatcher, FiniteSetTheorems, SequenceTheorems, TLAPS

-----------------------------------------------------------------------------
(* Maxima and minima *)

\* Of two numbers Max chooses the larger.
LEMMA MaxOfTwo ==
    ASSUME NEW a \in Int, NEW b \in Int
    PROVE  Max({a, b}) = IF a >= b THEN a ELSE b
  <1> DEFINE m == IF a >= b THEN a ELSE b
  <1>1. m \in {a, b} /\ \A y \in {a, b} : m >= y
    OBVIOUS
  <1>2. \A x \in {a, b} : (\A y \in {a, b} : x >= y) => x = m
    OBVIOUS
  <1> HIDE DEF m
  <1>3. Max({a, b}) \in {a, b} /\ \A y \in {a, b} : Max({a, b}) >= y
    BY <1>1 DEF Max
  <1> QED BY <1>2, <1>3 DEF m

\* A bounded set of numbers has a largest and a smallest: among the subsets
\* above, or below, one of its members there is one that contains no other.
LEMMA BoundsExist ==
    ASSUME NEW n \in Nat, NEW S \in SUBSET (0..n), S # {}
    PROVE  /\ \E k \in S : \A j \in S : j <= k
           /\ \E k \in S : \A j \in S : k <= j
  <1> DEFINE R == StrictSubsetOrdering(0..n)
             F == FiniteSubsetsOf(0..n)
  <1>1. IsWellFoundedOn(R, F)
    BY FS_StrictSubsetOrderingWellFounded
  <1>2. F = SUBSET (0..n)
    <2>1. IsFiniteSet(0..n)
      BY FS_Interval, 0 \in Int, n \in Int
    <2> QED BY <2>1, FS_FiniteSubsetsOfFinite
  <1>3. \A X, Y : X \subseteq 0..n /\ Y \subseteq 0..n /\ X \subseteq Y /\ X # Y => <<X, Y>> \in R
    BY DEF StrictSubsetOrdering
  <1> HIDE DEF R, F
  <1>4. \E k \in S : \A j \in S : j <= k
    <2> DEFINE T == {S \cap (k..n) : k \in S}
    <2>1. T \subseteq F /\ T # {}
      BY <1>2
    <2>2. PICK X \in T : \A Y \in T : ~ (<<Y, X>> \in R)
      <3> HIDE DEF T
      <3> QED BY <1>1, <2>1, WFMin
    <2>3. PICK k \in S : X = S \cap (k..n)
      BY <2>2
    <2>4. ASSUME NEW j \in S, j > k PROVE FALSE
      <3>1. S \cap (j..n) \in T /\ S \cap (j..n) \subseteq X /\ k \in X /\ k \notin S \cap (j..n)
        BY <2>3, <2>4
      <3>2. X \subseteq 0..n
        BY <2>3
      <3> QED BY <1>3, <2>2, <3>1, <3>2
    <2> QED BY <2>4
  <1>5. \E k \in S : \A j \in S : k <= j
    <2> DEFINE T == {S \cap (0..k) : k \in S}
    <2>1. T \subseteq F /\ T # {}
      BY <1>2
    <2>2. PICK X \in T : \A Y \in T : ~ (<<Y, X>> \in R)
      <3> HIDE DEF T
      <3> QED BY <1>1, <2>1, WFMin
    <2>3. PICK k \in S : X = S \cap (0..k)
      BY <2>2
    <2>4. ASSUME NEW j \in S, j < k PROVE FALSE
      <3>1. S \cap (0..j) \in T /\ S \cap (0..j) \subseteq X /\ k \in X /\ k \notin S \cap (0..j)
        BY <2>3, <2>4
      <3>2. X \subseteq 0..n
        BY <2>3
      <3> QED BY <1>3, <2>2, <3>1, <3>2
    <2> QED BY <2>4
  <1> QED BY <1>4, <1>5

\* So Max chooses one that is the largest.
LEMMA MaxOfBounded ==
    ASSUME NEW n \in Nat, NEW S \in SUBSET (0..n), S # {}
    PROVE  Max(S) \in S /\ \A j \in S : j <= Max(S)
  <1>1. \E k \in S : \A j \in S : k >= j
    BY BoundsExist
  <1>2. Max(S) \in S /\ \A j \in S : Max(S) >= j
    BY <1>1 DEF Max
  <1> QED BY <1>2

-----------------------------------------------------------------------------
(* Types, and how old a transfer may be said to be *)

\* No entry is ahead of time, nor, but for the error of the host's clock, the
\* latest block of a cycle; what is followed is on the chain, and not said to be
\* older than it is but for the same error; what is reported was followed.
AgesOK ==
    /\ \A i \in DOMAIN time : time[i] <= now
    /\ latest <= now + (IF Kind = "tron" THEN 0 ELSE Skew)
    /\ \A t \in Ours : pending[t] # 0 =>
          /\ t \in DOMAIN time
          /\ IF Kind = "tron" THEN pending[t] = time[t] ELSE time[t] <= pending[t] + Skew
    /\ items \subseteq ToReport(pending)
    /\ stage # "refresh" => items = {}
    /\ \A t \in Ours : stored[t] # NULL => t \in DOMAIN time

AgeInv == TypeOK /\ AgesOK

\* The constants, one by one.
LEMMA Constants ==
    /\ Kind \in {"tron", "ton"}
    /\ Ours \subseteq 1..Entries
    /\ Thresholds \subseteq Nat \ {0} /\ NULL \notin Nat
    /\ Entries \in Nat /\ BlockSize \in Nat /\ Lookback \in Nat /\ Lag \in Nat /\ MaxCrashes \in Nat
    /\ BlockTime \in Nat \ {0} /\ PageLimit \in Nat \ {0} /\ MaxPages \in Nat \ {0}
    /\ MaxTime \in Nat \ {0} /\ Together \in Nat \ {0} /\ Skew \in Nat
  BY PagedWatcherAssumption

\* The clock of the host shows a time, not far from the right one.
LEMMA ClockIsNear ==
    ASSUME TypeOK, NEW c \in Clock
    PROVE  /\ c \in 1..(MaxTime + Skew) /\ c \in Nat /\ c # 0
           /\ c <= now + Skew /\ now <= c + Skew
  BY Constants DEF Clock, TypeOK

\* What a page has seen is a time.
LEMMA SeenIsTime ==
    ASSUME TypeOK, NEW m \in Known
    PROVE  Max({seen} \cup {time[i] : i \in Page(m)}) \in 0..MaxTime
  <1> DEFINE S == {seen} \cup {time[i] : i \in Page(m)}
  <1>1. S \in SUBSET (0..MaxTime) /\ S # {}
    <2>1. \A i \in Page(m) : time[i] \in 0..MaxTime
      BY Constants DEF TypeOK, Page, Found
    <2>2. seen \in 0..MaxTime
      BY DEF TypeOK
    <2> QED BY <2>1, <2>2
  <1>2. MaxTime \in Nat
    BY Constants
  <1> HIDE DEF S
  <1>3. Max(S) \in S
    BY <1>1, <1>2, MaxOfBounded
  <1> QED BY <1>1, <1>3 DEF S

\* A count is a number.
LEMMA CountIsNatural ==
    ASSUME TypeOK, NEW t \in Ours
    PROVE  Count(t) \in Nat
  <1>1. latest - pending[t] \in Int /\ BlockTime \in Nat \ {0}
    BY Constants DEF TypeOK
  <1>2. (latest - pending[t]) \div BlockTime \in Int
    BY <1>1
  <1> DEFINE c == IF Kind = "tron" THEN TronCount(t) ELSE TonCount(t)
  <1>3. c \in Int
    BY <1>1, <1>2 DEF TronCount, TonCount
  <1> HIDE DEF c
  <1>4. Max({0, c}) \in Nat
    BY <1>3, MaxOfTwo
  <1> QED BY <1>4 DEF Count, c

\* An empty chain and nothing followed.
LEMMA InitAges == Init => AgeInv
  BY Constants DEF Init, AgeInv, TypeOK, AgesOK, ToReport, Nothing

\* Entries are numbered, and have times.
LEMMA TimesOfChain ==
    ASSUME TypeOK
    PROVE  \A i \in DOMAIN time : i \in Nat /\ time[i] \in 1..MaxTime /\ time[i] \in Nat
  BY Constants DEF TypeOK

\* What is followed and reported stays as it is when nothing but the clock,
\* the latest block and the list to report changes.
LEMMA AgesStay ==
    ASSUME AgeInv, UNCHANGED <<time, pending, stored>>,
           now' \in Nat, now <= now', latest' <= now' + (IF Kind = "tron" THEN 0 ELSE Skew),
           items' \subseteq ToReport(pending), stage' # "refresh" => items' = {}
    PROVE  AgesOK'
  <1>1. \A i \in DOMAIN time : time[i] \in Nat
    BY TimesOfChain DEF AgeInv
  <1>2. now \in Nat /\ \A t \in Ours : pending[t] \in Nat
    BY DEF AgeInv, TypeOK
  <1> QED BY <1>1, <1>2 DEF AgeInv, AgesOK, ToReport

\* The chain grows at its end, by entries of the present time.
LEMMA Included ==
    ASSUME TypeOK, Include
    PROVE  /\ time' \in Seq(1..MaxTime) /\ Len(time') <= Entries
           /\ DOMAIN time = 1..Len(time) /\ DOMAIN time' = 1..Len(time')
           /\ Len(time) \in Nat /\ Len(time') \in Nat /\ Len(time) <= Len(time')
           /\ \A i \in DOMAIN time : time'[i] = time[i]
           /\ \A i \in DOMAIN time' : i <= Len(time) \/ time'[i] = now
  <1> DEFINE more == [i \in 1..Together |-> now]
  <1>1. time \in Seq(1..MaxTime) /\ now \in 1..MaxTime /\ Together \in Nat /\ Entries \in Nat
    BY Constants DEF TypeOK
  <1>2. more \in Seq(1..MaxTime) /\ Len(more) = Together /\ \A i \in 1..Together : more[i] = now
    <2>1. more \in [1..Together -> 1..MaxTime]
      BY <1>1
    <2> QED BY <1>1, <2>1, IsASeq
  <1>3. time' = time \o more /\ Len(time) + Together <= Entries
    BY DEF Include
  <1> HIDE DEF more
  <1>4. /\ time' \in Seq(1..MaxTime) /\ Len(time') = Len(time) + Len(more)
        /\ \A i \in 1..(Len(time) + Len(more)) :
              time'[i] = IF i <= Len(time) THEN time[i] ELSE more[i - Len(time)]
    BY <1>1, <1>2, <1>3, ConcatProperties
  <1>5. Len(time) \in Nat /\ DOMAIN time = 1..Len(time) /\ DOMAIN time' = 1..Len(time')
    BY <1>1, <1>4
  <1> QED BY <1>1, <1>2, <1>3, <1>4, <1>5

LEMMA IncludeAges == AgeInv /\ Include => AgeInv'
  <1> SUFFICES ASSUME AgeInv, Include PROVE AgeInv'
    OBVIOUS
  <1>1. UNCHANGED <<now, cursor, confirms, stage, latest, start, page, seen, pending, items, required, stored, crashes>>
    BY DEF Include
  <1>2. /\ time' \in Seq(1..MaxTime) /\ Len(time') <= Entries
        /\ \A i \in DOMAIN time : i \in DOMAIN time' /\ time'[i] = time[i]
        /\ \A i \in DOMAIN time' : i \in DOMAIN time \/ time'[i] = now
    BY Included DEF AgeInv
  <1>3. TypeOK'
    BY <1>1, <1>2, Constants DEF AgeInv, TypeOK
  <1>4. AgesOK'
    <2>1. now \in Nat
      BY DEF AgeInv, TypeOK
    <2> QED BY <2>1, <1>1, <1>2 DEF AgeInv, AgesOK, ToReport
  <1> QED BY <1>3, <1>4 DEF AgeInv

\* The clock moves away from every age.
LEMMA TickAges == AgeInv /\ Tick => AgeInv'
  <1> SUFFICES ASSUME AgeInv, Tick PROVE AgeInv'
    OBVIOUS
  <1>1. TypeOK'
    BY Constants DEF AgeInv, TypeOK, Tick
  <1>2. now' \in Nat /\ now <= now' /\ latest' <= now' + (IF Kind = "tron" THEN 0 ELSE Skew)
    BY Constants DEF AgeInv, TypeOK, AgesOK, Tick
  <1>3. AgesOK'
    BY <1>2, AgesStay DEF Tick, AgeInv, AgesOK
  <1> QED BY <1>1, <1>3 DEF AgeInv

\* The latest block of a cycle is ahead of time by the clock's error at most,
\* whoever answers.
LEMMA PollAges == AgeInv /\ Poll => AgeInv'
  <1> SUFFICES ASSUME AgeInv, Poll PROVE AgeInv'
    OBVIOUS
  <1>1. latest' \in 0..(MaxTime + Skew) /\ latest' <= now + (IF Kind = "tron" THEN 0 ELSE Skew)
    <2>1. CASE Kind = "tron"
      BY <2>1, Constants DEF Poll, TronLatest, AgeInv, TypeOK
    <2>2. CASE Kind # "tron"
      BY <2>2, Constants, ClockIsNear DEF Poll, TonLatest, AgeInv
    <2> QED BY <2>1, <2>2
  <1>2. TypeOK'
    BY <1>1, Constants DEF AgeInv, TypeOK, Poll
  <1>3. now' \in Nat /\ now <= now' /\ latest' <= now' + (IF Kind = "tron" THEN 0 ELSE Skew)
    BY <1>1 DEF AgeInv, TypeOK, Poll
  <1>4. AgesOK'
    BY <1>3, AgesStay DEF Poll, AgeInv, AgesOK
  <1> QED BY <1>2, <1>4 DEF AgeInv

\* A scan starts at a time.
LEMMA StartIsTime == ASSUME TypeOK, NEW c \in Clock PROVE StartTime(c) \in Nat
  <1>1. c - Lookback \in Int /\ cursor \in Nat
    BY Constants, ClockIsNear DEF TypeOK
  <1>2. Max({c - Lookback, 0}) \in Nat
    BY <1>1, MaxOfTwo
  <1> QED BY <1>1, <1>2 DEF StartTime

\* A scan that starts, or one that cannot read its cursor.
LEMMA LoadAges == AgeInv /\ LoadCursor => AgeInv'
  <1> SUFFICES ASSUME AgeInv, LoadCursor PROVE AgeInv'
    OBVIOUS
  <1>1. \A c \in Clock : StartTime(c) \in Nat
    BY StartIsTime DEF AgeInv
  <1>2. TypeOK'
    <2>1. /\ stage' \in {"page", "refresh"} /\ start' \in Nat /\ page' \in 0..(MaxPages - 1)
          /\ seen' \in 0..MaxTime /\ items' \subseteq Ours
      <3>1. CASE stage' = "page" /\ (\E c \in Clock : start' = StartTime(c)) /\ UNCHANGED <<page, seen, items>>
        BY <1>1, <3>1 DEF AgeInv, TypeOK
      <3>2. CASE BeginRefresh(pending)
        <4>1. 0 \in 0..(MaxPages - 1) /\ 0 \in 0..MaxTime
          BY Constants
        <4> QED BY <3>2, <4>1 DEF BeginRefresh, NoScan, ToReport
      <3> QED BY <3>1, <3>2 DEF LoadCursor
    <2>2. UNCHANGED <<now, time, cursor, confirms, latest, pending, required, stored, crashes>>
      BY DEF LoadCursor
    <2> QED BY <2>1, <2>2 DEF AgeInv, TypeOK
  <1>3. AgesOK'
    <2>1. UNCHANGED <<time, pending, stored, now, latest>> /\ now \in Nat
          /\ latest <= now + (IF Kind = "tron" THEN 0 ELSE Skew)
      BY DEF LoadCursor, AgeInv, AgesOK, TypeOK
    <2>2. items' \subseteq ToReport(pending) /\ (stage' # "refresh" => items' = {})
      BY DEF LoadCursor, BeginRefresh, AgeInv, AgesOK
    <2> QED BY <2>1, <2>2, AgesStay
  <1> QED BY <1>2, <1>3 DEF AgeInv

\* What a page adds to pending is on the chain and as old as it says.
LEMMA FetchAges == ASSUME NEW m \in Known PROVE AgeInv /\ FetchPage(m) => AgeInv'
  <1> SUFFICES ASSUME AgeInv, FetchPage(m) PROVE AgeInv'
    OBVIOUS
  <1> DEFINE newSeen == Max({seen} \cup {time[i] : i \in Page(m)})
  <1>1. newSeen \in 0..MaxTime
    BY SeenIsTime DEF AgeInv
  <1>2. pending' = Handled(Page(m)) /\ UNCHANGED <<now, time, cursor, confirms, latest, required, stored, crashes>>
    BY DEF FetchPage
  <1>3. \A t \in Page(m) : t \in DOMAIN time /\ time[t] \in 1..MaxTime /\ time[t] <= now
    BY TimesOfChain DEF AgeInv, AgesOK, Page, Found
  <1>4. \A t \in Ours : pending'[t] = IF t \in Page(m) THEN time[t] ELSE pending[t]
    BY <1>2 DEF Handled
  <1>5. pending' \in [Ours -> 0..(MaxTime + Skew)]
    BY <1>2, <1>3, Constants DEF Handled, AgeInv, TypeOK
  <1>6. ToReport(pending) \subseteq ToReport(pending') /\ ToReport(pending') \subseteq Ours
    BY <1>3, <1>4 DEF ToReport
  <1>7. /\ stage' \in {"page", "save", "refresh"} /\ start' \in Nat
        /\ page' \in 0..(MaxPages - 1) /\ seen' \in 0..MaxTime
        /\ items' \in {items, ToReport(pending')} /\ (stage' # "refresh" => items' = items)
    <2> HIDE DEF newSeen
    <2>0. stage = "page"
      BY DEF FetchPage
    <2>1. CASE ~ LastPage(m) /\ page' = page + 1 /\ seen' = newSeen /\ UNCHANGED <<stage, items, start>> /\ stage = "page"
      <3>1. page + 1 # MaxPages
        BY <2>1 DEF LastPage
      <3> QED BY <2>1, <3>1, <1>1, Constants DEF AgeInv, TypeOK
    <2>2. CASE stage' = "save" /\ seen' = newSeen /\ UNCHANGED <<page, items, start>>
      BY <2>2, <2>0, <1>1 DEF AgeInv, TypeOK
    <2>3. CASE BeginRefresh(pending')
      BY <2>3, <2>0, Constants DEF BeginRefresh, NoScan
    <2> QED BY <2>1, <2>2, <2>3 DEF FetchPage, newSeen
  <1>8. TypeOK'
    BY <1>2, <1>5, <1>6, <1>7, Constants DEF AgeInv, TypeOK
  <1>9. AgesOK'
    <2>1. \A t \in Ours : pending'[t] # 0 =>
             /\ t \in DOMAIN time
             /\ IF Kind = "tron" THEN pending'[t] = time[t] ELSE time[t] <= pending'[t] + Skew
      BY <1>3, <1>4, Constants DEF AgeInv, AgesOK
    <2>2. items' \subseteq ToReport(pending') /\ (stage' # "refresh" => items' = {})
      BY <1>6, <1>7 DEF AgeInv, AgesOK, FetchPage
    <2> QED BY <1>2, <2>1, <2>2 DEF AgeInv, AgesOK
  <1> QED BY <1>8, <1>9 DEF AgeInv

\* A page that fails leaves what was seen before it.
LEMMA FailAges == AgeInv /\ FetchFails => AgeInv'
  BY Constants DEF AgeInv, TypeOK, AgesOK, FetchFails, BeginRefresh, NoScan, ToReport

\* The cursor is the time of what was seen.
LEMMA SaveAges == AgeInv /\ SaveCursor => AgeInv'
  BY Constants DEF AgeInv, TypeOK, AgesOK, SaveCursor, BeginRefresh, NoScan, ToReport

\* A report leaves the age of what stays pending alone.
LEMMA EmitAges == ASSUME NEW t \in Ours PROVE AgeInv /\ Emit(t) => AgeInv'
  <1> SUFFICES ASSUME AgeInv, Emit(t) PROVE AgeInv'
    OBVIOUS
  <1>1. Count(t) \in Nat
    BY CountIsNatural DEF AgeInv
  <1>2. stored[t] # NULL => Max({stored[t], Count(t)}) \in Nat
    BY <1>1, MaxOfTwo DEF AgeInv, TypeOK
  <1>3. Kept(t) \in {0, pending[t]}
    BY DEF Kept
  <1>4. \A u \in Ours : pending'[u] = IF u = t THEN Kept(t) ELSE pending[u]
    BY DEF Emit, AgeInv, TypeOK
  <1>5. pending[t] # 0 /\ t \in DOMAIN time
    BY DEF Emit, AgeInv, AgesOK, ToReport
  <1>6. TypeOK'
    BY <1>1, <1>2, <1>3, Constants DEF Emit, AgeInv, TypeOK
  <1>7. AgesOK'
    <2>1. items' \subseteq ToReport(pending')
      BY <1>4 DEF Emit, AgeInv, AgesOK, ToReport
    <2>2. \A u \in Ours : stored'[u] # NULL => u \in DOMAIN time
      BY <1>5 DEF Emit, AgeInv, AgesOK, TypeOK
    <2>3. UNCHANGED <<time, now, latest, stage>> /\ stage = "refresh"
      BY DEF Emit
    <2>4. \A u \in Ours : pending'[u] # 0 => pending'[u] = pending[u]
      BY <1>3, <1>4
    <2> QED BY <2>1, <2>2, <2>3, <2>4 DEF AgeInv, AgesOK
  <1> QED BY <1>6, <1>7 DEF AgeInv

\* So does one that fails.
LEMMA EmitFailsAges == ASSUME NEW t \in Ours PROVE AgeInv /\ EmitFails(t) => AgeInv'
  <1> SUFFICES ASSUME AgeInv, EmitFails(t) PROVE AgeInv'
    OBVIOUS
  <1>1. Kept(t) \in {0, pending[t]}
    BY DEF Kept
  <1>2. \A u \in Ours : pending'[u] = IF u = t THEN Kept(t) ELSE pending[u]
    BY DEF EmitFails, AgeInv, TypeOK
  <1>3. TypeOK'
    BY <1>1, Constants DEF EmitFails, AgeInv, TypeOK
  <1>4. AgesOK'
    <2>1. items' \subseteq ToReport(pending')
      BY <1>2 DEF EmitFails, AgeInv, AgesOK, ToReport
    <2>2. \A u \in Ours : pending'[u] # 0 => pending'[u] = pending[u]
      BY <1>1, <1>2
    <2>3. UNCHANGED <<time, now, latest, stage, stored>> /\ stage = "refresh"
      BY DEF EmitFails
    <2> QED BY <2>1, <2>2, <2>3 DEF AgeInv, AgesOK
  <1> QED BY <1>3, <1>4 DEF AgeInv

\* A cycle ends when all is reported.
LEMMA EndAges == AgeInv /\ EndPoll => AgeInv'
  BY Constants DEF AgeInv, TypeOK, AgesOK, EndPoll, ToReport

\* A crash forgets what was followed.
LEMMA DieAges == AgeInv /\ Die => AgeInv'
  BY Constants DEF AgeInv, TypeOK, AgesOK, Die, NoScan, Nothing, ToReport

\* The start takes up again what is on the chain.
LEMMA SeedAges == AgeInv /\ SeedPending => AgeInv'
  <1> SUFFICES ASSUME AgeInv, SeedPending PROVE AgeInv'
    OBVIOUS
  <1>1. PICK c \in Clock : pending' = [t \in Ours |-> IF ~ Confirming(t) THEN 0
                                                    ELSE IF Kind = "tron" THEN time[t] ELSE c]
    BY DEF SeedPending, TronSeed, TonSeed
  <1>2. \A t \in Ours : Confirming(t) => t \in DOMAIN time /\ time[t] \in 1..MaxTime /\ time[t] <= now
    BY TimesOfChain DEF Confirming, AgeInv, AgesOK
  <1>3. c \in 1..(MaxTime + Skew) /\ now <= c + Skew /\ now \in Nat /\ Skew \in Nat /\ MaxTime \in Nat
    BY ClockIsNear, Constants DEF AgeInv, TypeOK
  <1>4. pending' \in [Ours -> 0..(MaxTime + Skew)]
    <2>1. \A t \in Ours : Confirming(t) => time[t] \in 0..(MaxTime + Skew)
      BY <1>2, <1>3
    <2>2. 0 \in 0..(MaxTime + Skew) /\ c \in 0..(MaxTime + Skew)
      BY <1>3
    <2> QED BY <1>1, <2>1, <2>2
  <1>5. TypeOK'
    BY <1>4, Constants DEF SeedPending, AgeInv, TypeOK
  <1>6. AgesOK'
    <2>1. UNCHANGED <<now, time, latest, stored, items>> /\ items = {}
      BY DEF SeedPending, AgeInv, AgesOK
    <2>2. \A t \in Ours : pending'[t] # 0 =>
             /\ t \in DOMAIN time
             /\ IF Kind = "tron" THEN pending'[t] = time[t] ELSE time[t] <= pending'[t] + Skew
      BY <1>1, <1>2, <1>3
    <2> QED BY <2>1, <2>2 DEF AgeInv, AgesOK
  <1> QED BY <1>5, <1>6 DEF AgeInv

\* So every step keeps types and ages.
LEMMA StepAges == AgeInv /\ [Next]_vars => AgeInv'
  <1> SUFFICES ASSUME AgeInv, [Next]_vars PROVE AgeInv'
    OBVIOUS
  <1>1. CASE Include
    BY <1>1, IncludeAges
  <1>2. CASE Tick
    BY <1>2, TickAges
  <1>3. CASE Poll
    BY <1>3, PollAges
  <1>4. CASE LoadCursor
    BY <1>4, LoadAges
  <1>5. CASE FetchFails
    BY <1>5, FailAges
  <1>6. CASE SaveCursor
    BY <1>6, SaveAges
  <1>7. CASE EndPoll
    BY <1>7, EndAges
  <1>8. ASSUME NEW m \in Known, FetchPage(m) PROVE AgeInv'
    BY <1>8, FetchAges
  <1>9. ASSUME NEW t \in Ours, Emit(t) PROVE AgeInv'
    BY <1>9, EmitAges
  <1>13. ASSUME NEW t \in Ours, EmitFails(t) PROVE AgeInv'
    BY <1>13, EmitFailsAges
  <1>10. CASE Die
    BY <1>10, DieAges
  <1>11. CASE SeedPending
    BY <1>11, SeedAges
  <1>12. CASE UNCHANGED vars
    BY <1>12 DEF vars, AgeInv, TypeOK, AgesOK, ToReport
  <1> QED BY <1>1, <1>2, <1>3, <1>4, <1>5, <1>6, <1>7, <1>8, <1>9, <1>10, <1>11, <1>12, <1>13 DEF Next, Cycle

\* What is followed is on the chain.
LEMMA AgesHold == Spec => []AgeInv
  BY InitAges, StepAges, PTL DEF Spec

\* Every variable keeps to its values: no cycle passes its last page, and what
\* a restart takes up again has a time (pollOnce, SeedPending).
THEOREM PagedTypes == Spec => []TypeOK
  BY AgesHold, PTL DEF AgeInv

-----------------------------------------------------------------------------
(* How early a transfer may be credited *)

\* What is stored of a transfer, against its age: TRON's counts are blocks, the
\* transfer's own among them; TON's are the seconds since it in units of
\* BlockTime, of which the host's clock may make twice its error too many.
CountsWithinAge ==
    \A t \in Ours : stored[t] # NULL =>
        IF Kind = "tron" THEN stored[t] <= now - time[t] + 1
        ELSE stored[t] * BlockTime <= now - time[t] + 2 * Skew

\* A count of what is followed is no more than its age allows.
LEMMA CountIsNoMore ==
    ASSUME AgeInv, NEW t \in Ours, pending[t] # 0
    PROVE  /\ Count(t) \in Nat
           /\ IF Kind = "tron" THEN Count(t) <= now - time[t] + 1
              ELSE Count(t) * BlockTime <= now - time[t] + 2 * Skew
  <1>1. /\ now \in Nat /\ latest \in Nat /\ time[t] \in Nat /\ pending[t] \in Nat /\ Skew \in Nat
        /\ t \in DOMAIN time /\ time[t] <= now
    BY TimesOfChain, Constants DEF AgeInv, AgesOK, TypeOK
  <1>2. CASE Kind = "tron"
    <2>1. pending[t] = time[t] /\ latest <= now
      BY <1>1, <1>2 DEF AgeInv, AgesOK
    <2>2. TronCount(t) \in Int /\ TronCount(t) <= now - time[t] + 1
      BY <1>1, <2>1 DEF TronCount
    <2>3. Count(t) = Max({0, TronCount(t)})
      BY <1>2 DEF Count
    <2>4. Count(t) = IF 0 >= TronCount(t) THEN 0 ELSE TronCount(t)
      BY <2>2, <2>3, MaxOfTwo
    <2> QED BY <1>1, <1>2, <2>2, <2>4
  <1>3. CASE Kind # "tron"
    <2> DEFINE a == latest - pending[t]
               q == a \div BlockTime
    <2>1. a \in Int /\ a <= now - time[t] + 2 * Skew /\ BlockTime \in Nat \ {0}
      <3>1. latest <= now + Skew /\ time[t] <= pending[t] + Skew
        BY <1>3 DEF AgeInv, AgesOK
      <3> QED BY <1>1, <3>1, Constants
    <2>2. TonCount(t) = q /\ q \in Int
      BY <2>1 DEF TonCount
    <2>3. q * BlockTime <= a
      <3> HIDE DEF a
      <3> QED BY <2>1, SMTT(30)
    <2>4. Count(t) = IF 0 >= q THEN 0 ELSE q
      BY <1>3, <2>2, MaxOfTwo DEF Count
    <2>5. 0 * BlockTime <= now - time[t] + 2 * Skew
      BY <1>1, <2>1
    <2> HIDE DEF a, q
    <2>6. Count(t) * BlockTime <= now - time[t] + 2 * Skew
      <3>1. CASE 0 >= q
        BY <3>1, <2>4, <2>5
      <3>2. CASE ~ (0 >= q)
        <4>1. q * BlockTime \in Int
          BY <2>1, <2>2
        <4>2. Count(t) = q
          BY <3>2, <2>4
        <4>3. now - time[t] + 2 * Skew \in Int
          BY <1>1
        <4> QED BY <4>1, <4>2, <4>3, <2>1, <2>3
      <3> QED BY <3>1, <3>2
    <2> QED BY <1>3, <2>2, <2>4, <2>6
  <1> QED BY <1>2, <1>3

\* Stored counts are counts of some cycle, and ages only grow.
LEMMA StepIsNotEarly == AgeInv /\ CountsWithinAge /\ [Next]_vars => CountsWithinAge'
  <1> SUFFICES ASSUME AgeInv, CountsWithinAge, [Next]_vars,
                      NEW t \in Ours, stored'[t] # NULL
               PROVE  IF Kind = "tron" THEN stored'[t] <= now' - time'[t] + 1
                      ELSE stored'[t] * BlockTime <= now' - time'[t] + 2 * Skew
    BY DEF CountsWithinAge
  <1>0. BlockTime \in Nat /\ now \in Nat /\ Skew \in Nat
    BY Constants DEF AgeInv, TypeOK
  <1>1. ASSUME stored'[t] = stored[t]
        PROVE  IF Kind = "tron" THEN stored'[t] <= now' - time'[t] + 1
               ELSE stored'[t] * BlockTime <= now' - time'[t] + 2 * Skew
    <2>1. t \in DOMAIN time /\ time[t] \in Nat /\ stored[t] \in Nat
      BY <1>1, TimesOfChain DEF AgeInv, AgesOK, TypeOK
    <2>2. time'[t] = time[t]
      <3>1. CASE Include
        BY <3>1, <2>1, Included DEF AgeInv
      <3>2. CASE UNCHANGED time
        BY <3>2
      <3> QED BY <3>1, <3>2 DEF Next, Cycle, vars, Tick, Poll, LoadCursor, FetchPage, FetchFails,
                                SaveCursor, Emit, EmitFails, EndPoll, Die, SeedPending
    <2>3. now' \in Nat /\ now <= now'
      <3>1. CASE Tick
        BY <3>1, <1>0 DEF Tick
      <3>2. CASE UNCHANGED now
        BY <3>2, <1>0
      <3> QED BY <3>1, <3>2 DEF Next, Cycle, vars, Include, Poll, LoadCursor, FetchPage, FetchFails,
                                SaveCursor, Emit, EmitFails, EndPoll, Die, SeedPending
    <2>4. IF Kind = "tron" THEN stored[t] <= now - time[t] + 1
          ELSE stored[t] * BlockTime <= now - time[t] + 2 * Skew
      BY <1>1 DEF CountsWithinAge
    <2>5. stored[t] * BlockTime \in Int
      BY <1>0, <2>1
    <2> QED BY <1>0, <1>1, <2>1, <2>2, <2>3, <2>4, <2>5
  <1>2. ASSUME Emit(t)
        PROVE  IF Kind = "tron" THEN stored'[t] <= now' - time'[t] + 1
               ELSE stored'[t] * BlockTime <= now' - time'[t] + 2 * Skew
    <2>1. pending[t] # 0 /\ UNCHANGED <<now, time>>
      BY <1>2 DEF Emit, AgeInv, AgesOK, ToReport
    <2>2. /\ Count(t) \in Nat
          /\ IF Kind = "tron" THEN Count(t) <= now - time[t] + 1
             ELSE Count(t) * BlockTime <= now - time[t] + 2 * Skew
      BY <2>1, CountIsNoMore
    <2>3. stored'[t] = IF stored[t] = NULL THEN Count(t) ELSE Max({stored[t], Count(t)})
      BY <1>2 DEF Emit, AgeInv, TypeOK
    <2>4. stored'[t] = Count(t) \/ (stored[t] # NULL /\ stored'[t] = stored[t])
      <3>1. stored[t] # NULL => stored[t] \in Int
        BY DEF AgeInv, TypeOK
      <3>2. CASE stored[t] = NULL
        BY <3>2, <2>3
      <3>3. CASE stored[t] # NULL
        <4>1. Max({stored[t], Count(t)}) = IF stored[t] >= Count(t) THEN stored[t] ELSE Count(t)
          BY <2>2, <3>1, <3>3, MaxOfTwo
        <4> QED BY <2>3, <3>3, <4>1
      <3> QED BY <3>2, <3>3
    <2> QED BY <1>1, <2>1, <2>2, <2>4
  <1>3. stored'[t] = stored[t] \/ Emit(t)
    <2>1. CASE UNCHANGED stored
      BY <2>1
    <2>2. ASSUME NEW u \in Ours, Emit(u) PROVE stored'[t] = stored[t] \/ Emit(t)
      <3>1. CASE u = t
        BY <2>2, <3>1
      <3>2. CASE u # t
        BY <2>2, <3>2 DEF Emit, AgeInv, TypeOK
      <3> QED BY <3>1, <3>2
    <2> QED BY <2>1, <2>2 DEF Next, Cycle, vars, Include, Tick, Poll, LoadCursor,
                              FetchPage, FetchFails, SaveCursor, EmitFails, EndPoll, Die, SeedPending
  <1> QED BY <1>1, <1>2, <1>3

\* Whatever a report says of a transfer, it is no more than its age and the error
\* of the host's clock allow: lagging endpoints, scans repeated or failed, and
\* ages started over by SeedPending make it wait longer, never shorter (emit).
THEOREM CreditFollowsAge == Spec => []CountsWithinAge
  <1>1. Init => CountsWithinAge
    BY DEF Init, CountsWithinAge
  <1> QED BY <1>1, StepIsNotEarly, AgesHold, PTL DEF Spec

-----------------------------------------------------------------------------
(* What the guarantee rests on, step by step *)

\* Nothing is included at a time that the cursor has passed, or is about to.
NothingComesLate == Include => now > cursor /\ now >= start /\ (stage = "save" => now > seen)

\* A scan that ends has shown what is ours of the newest time it shows.
NewestIsWhole ==
    stage # "save" /\ stage' = "save" =>
        \A t \in Ours \cap DOMAIN time : time[t] = seen' => pending'[t] # 0

\* The first scan starts before what is ours, but for what is known already.
FirstScanReachesBack ==
    LoadCursor /\ stage' = "page" /\ cursor = 0 =>
        \A t \in Ours \cap DOMAIN time : time[t] < start' => pending[t] # 0 \/ stored[t] # NULL

\* What is reported for the last time reaches the database.
LastReportLands == \A t \in Ours : EmitFails(t) => Kept(t) # 0

Undisturbed ==
    /\ NothingComesLate /\ NewestIsWhole /\ FirstScanReachesBack /\ LastReportLands
    /\ required <= confirms

-----------------------------------------------------------------------------
(* Every transfer is seen *)

\* Entries come in the order of their times.
Ordered == \A i, j \in DOMAIN time : i < j => time[i] <= time[j]

\* So many entries precede a page in what the scan shows.
Skipped == page * PageLimit

\* The scan starts after the first a entries: the pages before the present one
\* were full, each of the entries that come after those of the page before, and
\* what of them is ours is followed.
ScanOf(a) ==
    /\ \A i \in DOMAIN time : i <= a <=> time[i] < start
    /\ page = 0 => seen = 0
    /\ page # 0 => a + Skipped \in DOMAIN time /\ seen = time[a + Skipped]
    /\ \A t \in Ours : a < t /\ t <= a + Skipped => pending[t] # 0

\* What is ours between the cursor and the start of a scan is known, and once
\* the scan has ended all up to what it has seen is followed.
ScanOK ==
    /\ stage \notin {"page", "save"} => seen = 0 /\ page = 0
    /\ stage \in {"page", "save"} =>
          /\ cursor = 0 \/ cursor < start
          /\ \A t \in Ours \cap DOMAIN time :
                cursor < time[t] /\ time[t] < start => pending[t] # 0 \/ stored[t] # NULL
    /\ stage = "page" => \E a \in 0..Len(time) : ScanOf(a)
    /\ stage = "save" =>
          /\ seen # 0 /\ start <= seen
          /\ \A t \in Ours \cap DOMAIN time : start <= time[t] /\ time[t] <= seen => pending[t] # 0

ScanInv == AgeInv /\ Ordered /\ ScanOK

\* The page of a position, from 0, among pages of w.
LEMMA PagesOfPositions ==
    ASSUME NEW x \in Nat, NEW p \in Nat, NEW w \in Nat \ {0}
    PROVE  x \div w = p <=> p * w <= x /\ x < p * w + w
  BY SMTT(30)

\* The next page comes w positions later.
LEMMA NextPageSkips ==
    ASSUME NEW p \in Nat, NEW w \in Nat \ {0}
    PROVE  p * w \in Nat /\ (p + 1) * w = p * w + w /\ (p # 0 => p * w >= 1) /\ (p = 0 => p * w = 0)
  BY SMTT(30)

\* The numbers a scan is about.
LEMMA ScanNumbers ==
    ASSUME TypeOK
    PROVE  /\ DOMAIN time = 1..Len(time) /\ Len(time) \in Nat
           /\ \A i \in DOMAIN time : i \in Nat /\ time[i] \in Nat /\ time[i] # 0
           /\ start \in Nat /\ page \in Nat /\ seen \in Nat /\ cursor \in Nat /\ now \in Nat /\ now >= 1
           /\ Skipped \in Nat /\ (page = 0 => Skipped = 0) /\ (page # 0 => Skipped >= 1)
           /\ \A t \in Ours : t \in Nat /\ t # 0
  <1>1. DOMAIN time = 1..Len(time) /\ Len(time) \in Nat
    BY DEF TypeOK
  <1>2. \A i \in DOMAIN time : i \in Nat /\ time[i] \in Nat /\ time[i] # 0
    BY TimesOfChain
  <1>3. start \in Nat /\ page \in Nat /\ seen \in Nat /\ cursor \in Nat /\ now \in Nat /\ now >= 1
    BY DEF TypeOK
  <1>4. Skipped \in Nat /\ (page = 0 => Skipped = 0) /\ (page # 0 => Skipped >= 1)
    BY <1>3, NextPageSkips, Constants DEF Skipped
  <1>5. \A t \in Ours : t \in Nat /\ t # 0
    BY Constants
  <1> QED BY <1>1, <1>2, <1>3, <1>4, <1>5

\* No scan is under way at the start.
LEMMA InitScan == Init => ScanInv
  BY InitAges DEF Init, ScanInv, ScanOK, Ordered

\* The chain grows behind what a scan has seen.
LEMMA IncludeScan == ScanInv /\ Include /\ NothingComesLate => ScanInv'
  <1> SUFFICES ASSUME ScanInv, Include, NothingComesLate PROVE ScanInv'
    OBVIOUS
  <1>1. AgeInv /\ AgeInv'
    BY IncludeAges DEF ScanInv
  <1>2. /\ DOMAIN time = 1..Len(time) /\ DOMAIN time' = 1..Len(time')
        /\ Len(time) \in Nat /\ Len(time') \in Nat /\ Len(time) <= Len(time')
        /\ \A i \in DOMAIN time : time'[i] = time[i]
        /\ \A i \in DOMAIN time' : i <= Len(time) \/ time'[i] = now
    BY <1>1, Included DEF AgeInv
  <1>3. UNCHANGED <<now, cursor, stage, start, page, seen, pending, stored, Skipped>>
    BY DEF Include, Skipped
  <1>4. /\ \A i \in DOMAIN time : time[i] \in Nat /\ time[i] <= now
        /\ now \in Nat /\ start \in Nat /\ seen \in Nat /\ cursor \in Nat /\ Skipped \in Nat
        /\ (page # 0 => Skipped >= 1)
    BY <1>1, ScanNumbers DEF AgeInv, AgesOK
  <1>5. now > cursor /\ now >= start /\ (stage = "save" => now > seen)
    BY DEF NothingComesLate
  <1>6. Ordered'
    <2> SUFFICES ASSUME NEW i \in DOMAIN time', NEW j \in DOMAIN time', i < j
                 PROVE  time'[i] <= time'[j]
      BY DEF Ordered
    <2>1. CASE j <= Len(time)
      <3>1. i \in DOMAIN time /\ j \in DOMAIN time
        BY <1>2, <2>1
      <3> QED BY <1>2, <3>1 DEF ScanInv, Ordered
    <2>2. CASE time'[j] = now
      <3>1. i <= Len(time) => i \in DOMAIN time
        BY <1>2
      <3> QED BY <1>2, <1>4, <2>2, <3>1
    <2> QED BY <1>2, <2>1, <2>2
  <1>7. \A t \in Ours \cap DOMAIN time' : t \in DOMAIN time \/ time'[t] = now
    BY <1>2
  <1>8. ASSUME NEW a \in 0..Len(time), ScanOf(a), stage = "page"
        PROVE  ScanOf(a)' /\ a \in 0..Len(time')
    <2>1. ASSUME NEW i \in DOMAIN time' PROVE i <= a <=> time'[i] < start
      <3>1. CASE i <= Len(time)
        <4>1. i \in DOMAIN time
          BY <1>2, <3>1
        <4> QED BY <1>2, <1>8, <4>1 DEF ScanOf
      <3>2. CASE ~ (i <= Len(time))
        BY <1>2, <1>4, <1>5, <3>2
      <3> QED BY <3>1, <3>2
    <2>2. page # 0 => a + Skipped \in DOMAIN time' /\ seen = time'[a + Skipped]
      BY <1>2, <1>8 DEF ScanOf
    <2> QED BY <1>2, <1>3, <1>8, <2>1, <2>2 DEF ScanOf
  <1>9. ScanOK'
    <2>1. stage' \in {"page", "save"} =>
             \A t \in Ours \cap DOMAIN time' :
                cursor < time'[t] /\ time'[t] < start => pending[t] # 0 \/ stored[t] # NULL
      BY <1>2, <1>3, <1>4, <1>5, <1>7 DEF ScanInv, ScanOK
    <2>2. stage' = "save" =>
             \A t \in Ours \cap DOMAIN time' :
                start <= time'[t] /\ time'[t] <= seen => pending[t] # 0
      BY <1>2, <1>3, <1>4, <1>5, <1>7 DEF ScanInv, ScanOK
    <2>3. stage' = "page" => (\E a \in 0..Len(time) : ScanOf(a))'
      BY <1>3, <1>8 DEF ScanInv, ScanOK
    <2> QED BY <1>3, <2>1, <2>2, <2>3 DEF ScanInv, ScanOK
  <1> QED BY <1>1, <1>6, <1>9 DEF ScanInv

\* The steps that leave the chain and the scan alone.
LEMMA SameScan ==
    ASSUME ScanInv, AgeInv', UNCHANGED <<time, cursor, start, page, seen>>,
           \/ UNCHANGED <<stage, pending, stored>>
           \/ stage' \notin {"page", "save"} /\ stage \notin {"page", "save"}
    PROVE  ScanInv'
  <1>1. Ordered'
    BY DEF ScanInv, Ordered
  <1>2. CASE UNCHANGED <<stage, pending, stored>>
    <2>1. (\E a \in 0..Len(time) : ScanOf(a)) <=> (\E a \in 0..Len(time) : ScanOf(a))'
      BY <1>2 DEF ScanOf, Skipped
    <2> QED BY <1>1, <1>2, <2>1 DEF ScanInv, ScanOK
  <1>3. CASE stage' \notin {"page", "save"} /\ stage \notin {"page", "save"}
    BY <1>1, <1>3 DEF ScanInv, ScanOK
  <1> QED BY <1>2, <1>3

\* The steps that end a scan.
LEMMA ScanEnds ==
    ASSUME ScanInv, AgeInv', UNCHANGED time, NoScan, stage' \notin {"page", "save"}
    PROVE  ScanInv'
  BY DEF ScanInv, ScanOK, Ordered, NoScan

\* What has been seen after a page: the newest of it and of what was before.
LEMMA NewestOfPage ==
    ASSUME TypeOK, NEW m \in Known, NEW x, x = Max({seen} \cup {time[i] : i \in Page(m)})
    PROVE  /\ x = seen \/ \E k \in Page(m) : x = time[k]
           /\ seen <= x /\ \A k \in Page(m) : time[k] <= x
  <1> DEFINE S == {seen} \cup {time[i] : i \in Page(m)}
  <1>1. \A i \in Page(m) : time[i] \in 0..MaxTime
    BY Constants DEF TypeOK, Page, Found
  <1>2. seen \in 0..MaxTime /\ MaxTime \in Nat
    BY Constants DEF TypeOK
  <1>3. S \in SUBSET (0..MaxTime) /\ S # {}
    BY <1>1, <1>2
  <1>4. x \in S /\ \A j \in S : j <= x
    <2> HIDE DEF S
    <2>1. Max(S) \in S /\ \A j \in S : j <= Max(S)
      BY <1>2, <1>3, MaxOfBounded
    <2> QED BY <2>1 DEF S
  <1> QED BY <1>4

\* Wherever a scan starts, there is a last entry before it.
LEMMA WhereScansStart ==
    ASSUME TypeOK, Ordered, NEW s \in Nat
    PROVE  \E a \in 0..Len(time) : \A i \in DOMAIN time : i <= a <=> time[i] < s
  <1> DEFINE T == {i \in DOMAIN time : time[i] >= s}
  <1>1. /\ DOMAIN time = 1..Len(time) /\ Len(time) \in Nat
        /\ \A i \in DOMAIN time : time[i] \in Nat
    BY ScanNumbers
  <1>2. CASE T = {}
    <2>1. Len(time) \in 0..Len(time)
      BY <1>1
    <2>2. \A i \in DOMAIN time : i <= Len(time) <=> time[i] < s
      BY <1>1, <1>2
    <2> QED BY <2>1, <2>2
  <1>3. CASE T # {}
    <2>1. T \in SUBSET (0..Len(time))
      BY <1>1
    <2>2. PICK k \in T : \A j \in T : k <= j
      <3> HIDE DEF T
      <3> QED BY <1>1, <1>3, <2>1, BoundsExist
    <2>3. k - 1 \in 0..Len(time)
      BY <1>1, <2>2
    <2>4. ASSUME NEW i \in DOMAIN time PROVE i <= k - 1 <=> time[i] < s
      <3>1. i \in Nat /\ k \in DOMAIN time /\ k \in Nat /\ time[k] >= s
        BY <1>1, <2>2
      <3>2. i < k => time[i] < s
        BY <1>1, <2>2, <3>1
      <3>3. k <= i => time[k] <= time[i]
        BY <1>1, <3>1 DEF Ordered
      <3> QED BY <1>1, <3>1, <3>2, <3>3
    <2> QED BY <2>3, <2>4
  <1> QED BY <1>2, <1>3

\* What a scan shows, it shows in a row: at any time up to which an endpoint
\* knows the chain, with an entry come all that precede it.
LEMMA FoundInARow ==
    ASSUME ScanInv, NEW m \in Known, NEW a \in 0..Len(time), ScanOf(a),
           NEW i \in Found(m), NEW j \in Nat, a < j, j <= i
    PROVE  j \in Found(m)
  <1>1. /\ DOMAIN time = 1..Len(time) /\ Len(time) \in Nat /\ start \in Nat
        /\ \A k \in DOMAIN time : k \in Nat /\ time[k] \in Nat
    BY ScanNumbers DEF ScanInv, AgeInv
  <1>2. i \in DOMAIN time /\ time[i] <= m /\ m \in Int
    BY DEF Found, Known
  <1>3. j \in DOMAIN time /\ ~ (j <= a)
    BY <1>1, <1>2
  <1>4. time[j] >= start
    BY <1>1, <1>3 DEF ScanOf
  <1>5. time[j] <= time[i]
    BY <1>1, <1>2, <1>3 DEF ScanInv, Ordered
  <1> QED BY <1>1, <1>2, <1>3, <1>4, <1>5 DEF Found

\* The entries of a page are those at its positions.
LEMMA PageHoldsPositions ==
    ASSUME ScanInv, NEW m \in Known, NEW a \in 0..Len(time), ScanOf(a)
    PROVE  \A i \in Found(m) :
              i \in Nat /\ (i \in Page(m) <=> a + Skipped < i /\ i <= a + Skipped + PageLimit)
  <1> SUFFICES ASSUME NEW i \in Found(m)
               PROVE  i \in Nat /\ (i \in Page(m) <=> a + Skipped < i /\ i <= a + Skipped + PageLimit)
    OBVIOUS
  <1> DEFINE S == {j \in Found(m) : j < i}
  <1>1. /\ DOMAIN time = 1..Len(time) /\ Len(time) \in Nat /\ start \in Nat /\ page \in Nat
        /\ \A j \in DOMAIN time : time[j] \in Nat
    BY ScanNumbers DEF ScanInv, AgeInv
  <1>3. i \in DOMAIN time /\ i \in Nat /\ a \in Nat /\ i > a
    <2>1. i \in DOMAIN time /\ time[i] >= start
      BY DEF Found
    <2> QED BY <1>1, <2>1 DEF ScanOf
  <1>4. S = (a + 1)..(i - 1)
    <2>1. ASSUME NEW j \in S PROVE j \in (a + 1)..(i - 1)
      <3>1. j \in DOMAIN time /\ time[j] >= start /\ j < i
        BY DEF Found
      <3> QED BY <1>1, <1>3, <3>1 DEF ScanOf
    <2>2. ASSUME NEW j \in (a + 1)..(i - 1) PROVE j \in S
      <3>1. j \in Nat /\ a < j /\ j <= i /\ j < i
        BY <1>3
      <3> QED BY <3>1, FoundInARow
    <2> HIDE DEF S
    <2> QED BY <2>1, <2>2
  <1>5. Cardinality(S) = i - 1 - a
    <2> HIDE DEF S
    <2>1. a + 1 \in Int /\ i - 1 \in Int
      BY <1>3
    <2>2. Cardinality((a + 1)..(i - 1)) = IF a + 1 > i - 1 THEN 0 ELSE (i - 1) - (a + 1) + 1
      BY <2>1, FS_Interval
    <2> QED BY <1>3, <1>4, <2>2
  <1>6. i \in Page(m) <=> (i - 1 - a) \div PageLimit = page
    BY <1>5 DEF Page
  <1>7. i - 1 - a \in Nat /\ PageLimit \in Nat \ {0}
    BY <1>3, Constants
  <1>8. i \in Page(m) <=> page * PageLimit <= i - 1 - a /\ i - 1 - a < page * PageLimit + PageLimit
    BY <1>1, <1>6, <1>7, PagesOfPositions
  <1>9. Skipped \in Nat
    BY <1>1, <1>7, NextPageSkips DEF Skipped
  <1> QED BY <1>3, <1>7, <1>8, <1>9 DEF Skipped

\* A page that is not short holds every position it could.
LEMMA FullPage ==
    ASSUME ScanInv, NEW m \in Known, NEW a \in 0..Len(time), ScanOf(a),
           Cardinality(Page(m)) >= PageLimit
    PROVE  a + Skipped + PageLimit \in Page(m)
  <1> DEFINE P == (a + Skipped + 1)..(a + Skipped + PageLimit)
  <1>1. Skipped \in Nat /\ PageLimit \in Nat \ {0} /\ a \in Nat
    BY ScanNumbers, Constants DEF ScanInv, AgeInv
  <1>2. Page(m) \subseteq P
    <2> SUFFICES ASSUME NEW i \in Page(m) PROVE i \in P
      OBVIOUS
    <2>1. i \in Found(m)
      BY DEF Page
    <2> QED BY <1>1, <2>1, PageHoldsPositions
  <1>3. IsFiniteSet(P) /\ Cardinality(P) = PageLimit
    <2>1. a + Skipped + 1 \in Int /\ a + Skipped + PageLimit \in Int
      BY <1>1
    <2>2. /\ IsFiniteSet((a + Skipped + 1)..(a + Skipped + PageLimit))
          /\ Cardinality((a + Skipped + 1)..(a + Skipped + PageLimit))
               = IF a + Skipped + 1 > a + Skipped + PageLimit THEN 0
                 ELSE (a + Skipped + PageLimit) - (a + Skipped + 1) + 1
      BY <2>1, FS_Interval
    <2> QED BY <1>1, <2>2
  <1>4. a + Skipped + PageLimit \in P
    BY <1>1
  <1> HIDE DEF P
  <1>5. Page(m) = P
    <2>1. Cardinality(Page(m)) <= Cardinality(P) /\ (Cardinality(Page(m)) = Cardinality(P) => Page(m) = P)
      BY <1>2, <1>3, FS_Subset
    <2>2. Cardinality(Page(m)) \in Nat
      BY <1>2, <1>3, FS_Subset, FS_CardinalityType
    <2> QED BY <1>1, <1>3, <2>1, <2>2
  <1> QED BY <1>4, <1>5

\* An entry up to the position of one on a page is on it or on one before.
LEMMA PageLeavesNothingOut ==
    ASSUME ScanInv, NEW m \in Known, NEW a \in 0..Len(time), ScanOf(a),
           NEW k \in Page(m), NEW t \in Ours, a < t, t <= k
    PROVE  t \in Page(m) \/ pending[t] # 0
  <1>1. k \in Found(m) /\ t \in Nat /\ a \in Nat /\ Skipped \in Nat /\ PageLimit \in Nat
    BY ScanNumbers, Constants DEF Page, ScanInv, AgeInv
  <1>2. t \in Found(m)
    BY <1>1, FoundInARow
  <1>3. CASE t <= a + Skipped
    BY <1>3 DEF ScanOf
  <1>4. CASE ~ (t <= a + Skipped)
    <2>1. k \in Nat /\ k <= a + Skipped + PageLimit
      BY <1>1, PageHoldsPositions
    <2> QED BY <1>1, <1>2, <1>4, <2>1, PageHoldsPositions
  <1> QED BY <1>3, <1>4

\* A page that is not the last: the scan goes on after it.
LEMMA PageScan ==
    ASSUME ScanInv, AgeInv', NEW m \in Known, ~ LastPage(m), stage = "page",
           pending' = Handled(Page(m)), UNCHANGED <<time, cursor, stored, stage, start>>,
           page' = page + 1, seen' = Max({seen} \cup {time[i] : i \in Page(m)})
    PROVE  ScanInv'
  <1>1. PICK a \in 0..Len(time) : ScanOf(a)
    BY DEF ScanInv, ScanOK
  <1>2. /\ DOMAIN time = 1..Len(time) /\ Len(time) \in Nat /\ a \in Nat
        /\ \A i \in DOMAIN time : i \in Nat /\ time[i] \in Nat /\ time[i] # 0
        /\ seen \in Nat /\ page \in Nat /\ start \in Nat
        /\ Skipped \in Nat /\ (page = 0 => Skipped = 0) /\ (page # 0 => Skipped >= 1)
    BY ScanNumbers DEF ScanInv, AgeInv
  <1>3. Page(m) \subseteq Found(m) /\ Found(m) \subseteq DOMAIN time
    BY DEF Page, Found
  <1>4. Cardinality(Page(m)) >= PageLimit
    <2>1. IsFiniteSet(1..Len(time))
      BY <1>2, FS_Interval
    <2>2. Cardinality(Page(m)) \in Nat
      BY <1>2, <1>3, <2>1, FS_Subset, FS_CardinalityType
    <2> QED BY <2>2, Constants DEF LastPage
  <1>5. PageLimit \in Nat \ {0} /\ Skipped' = Skipped + PageLimit
    BY <1>2, NextPageSkips, Constants DEF Skipped
  <1>6. PICK k \in Page(m) : k = a + Skipped + PageLimit
    BY <1>1, <1>4, FullPage
  <1>7. k \in DOMAIN time /\ \A j \in Page(m) : time[j] <= time[k]
    <2>1. k \in DOMAIN time
      BY <1>3
    <2>2. ASSUME NEW j \in Page(m) PROVE time[j] <= time[k]
      <3>1. j \in Found(m) /\ j \in DOMAIN time
        BY <1>3
      <3>2. j \in Nat /\ j <= k
        BY <1>1, <1>6, <3>1, PageHoldsPositions
      <3>3. j < k => time[j] <= time[k]
        BY <2>1, <3>1 DEF ScanInv, Ordered
      <3> QED BY <1>2, <2>1, <3>1, <3>2, <3>3
    <2> QED BY <2>1, <2>2
  <1>8. seen' = time[k]
    <2>1. PICK x : x = Max({seen} \cup {time[i] : i \in Page(m)})
      OBVIOUS
    <2>2. /\ x = seen \/ \E j \in Page(m) : x = time[j]
          /\ seen <= x /\ \A j \in Page(m) : time[j] <= x
      BY <2>1, NewestOfPage DEF ScanInv, AgeInv
    <2>3. seen <= time[k]
      <3>1. CASE page = 0
        BY <1>1, <1>2, <1>7, <3>1 DEF ScanOf
      <3>2. CASE page # 0
        <4>1. a + Skipped \in DOMAIN time /\ seen = time[a + Skipped] /\ a + Skipped < k
          BY <1>1, <1>2, <1>5, <1>6, <3>2 DEF ScanOf
        <4> QED BY <1>7, <4>1 DEF ScanInv, Ordered
      <3> QED BY <3>1, <3>2
    <2>4. x \in Nat
      BY <1>2, <1>3, <2>2
    <2>5. x = time[k]
      <3>1. time[k] <= x /\ time[k] \in Nat
        BY <1>2, <1>7, <2>2
      <3>2. x <= time[k]
        BY <1>7, <2>2, <2>3
      <3> QED BY <2>4, <3>1, <3>2
    <2> QED BY <2>1, <2>5
  <1>9. \A t \in Ours : pending'[t] = IF t \in Page(m) THEN time[t] ELSE pending[t]
    BY DEF Handled
  <1>10. \A t \in Ours : pending[t] # 0 => pending'[t] # 0
    BY <1>2, <1>3, <1>9
  <1>11. ScanOf(a)'
    <2>1. (a + Skipped)' = k /\ page' # 0
      BY <1>2, <1>5, <1>6
    <2>2. ASSUME NEW t \in Ours, a < t, t <= k PROVE pending'[t] # 0
      <3>1. t \in Page(m) \/ pending[t] # 0
        BY <1>1, <2>2, PageLeavesNothingOut
      <3> QED BY <1>2, <1>3, <1>9, <1>10, <3>1
    <2> QED BY <1>1, <1>7, <1>8, <2>1, <2>2 DEF ScanOf
  <1>12. ScanOK'
    <2>1. (\E b \in 0..Len(time) : ScanOf(b))'
      BY <1>11
    <2>2. \A t \in Ours \cap DOMAIN time :
             cursor < time[t] /\ time[t] < start => pending'[t] # 0 \/ stored[t] # NULL
      BY <1>10 DEF ScanInv, ScanOK
    <2> QED BY <2>1, <2>2 DEF ScanInv, ScanOK
  <1>13. Ordered'
    BY DEF ScanInv, Ordered
  <1> QED BY <1>12, <1>13 DEF ScanInv

\* The last page: what is ours of an earlier time than the newest comes before
\* an entry of a page, and the newest is whole.
LEMMA LastPageScan ==
    ASSUME ScanInv, AgeInv', NEW m \in Known, stage = "page", NewestIsWhole,
           pending' = Handled(Page(m)), UNCHANGED <<time, cursor, stored, page, start>>,
           stage' = "save", seen' = Max({seen} \cup {time[i] : i \in Page(m)}), seen' > 0
    PROVE  ScanInv'
  <1>1. PICK a \in 0..Len(time) : ScanOf(a)
    BY DEF ScanInv, ScanOK
  <1>2. /\ DOMAIN time = 1..Len(time) /\ Len(time) \in Nat /\ a \in Nat
        /\ \A i \in DOMAIN time : i \in Nat /\ time[i] \in Nat /\ time[i] # 0
        /\ seen \in Nat /\ page \in Nat /\ start \in Nat
        /\ Skipped \in Nat /\ (page = 0 => Skipped = 0) /\ (page # 0 => Skipped >= 1)
    BY ScanNumbers DEF ScanInv, AgeInv
  <1>3. \A k \in Page(m) : k \in DOMAIN time /\ time[k] >= start
    BY DEF Page, Found
  <1>4. PICK x : x = Max({seen} \cup {time[i] : i \in Page(m)})
    OBVIOUS
  <1>5. /\ x = seen \/ \E k \in Page(m) : x = time[k]
        /\ seen <= x /\ \A k \in Page(m) : time[k] <= x
    BY <1>4, NewestOfPage DEF ScanInv, AgeInv
  <1>6. seen' = x /\ x # 0
    BY <1>4
  <1>7. \A t \in Ours : pending'[t] = IF t \in Page(m) THEN time[t] ELSE pending[t]
    BY DEF Handled
  <1>8. \A t \in Ours : pending[t] # 0 => pending'[t] # 0
    BY <1>2, <1>3, <1>7
  <1>9. CASE \E k \in Page(m) : x = time[k]
    <2>1. PICK k \in Page(m) : x = time[k]
      BY <1>9
    <2>2. start <= x /\ k \in DOMAIN time
      BY <1>3, <2>1
    <2>3. ASSUME NEW t \in Ours \cap DOMAIN time, start <= time[t], time[t] <= x PROVE pending'[t] # 0
      <3>1. CASE time[t] = x
        BY <1>6, <3>1 DEF NewestIsWhole
      <3>2. CASE time[t] # x
        <4>1. t <= k
          <5>1. k < t => time[k] <= time[t]
            BY <2>2 DEF ScanInv, Ordered
          <5> QED BY <1>2, <2>1, <2>2, <2>3, <3>2, <5>1
        <4>2. a < t
          BY <1>1, <1>2, <2>3 DEF ScanOf
        <4>3. t \in Page(m) \/ pending[t] # 0
          BY <1>1, <4>1, <4>2, PageLeavesNothingOut
        <4> QED BY <1>2, <1>7, <1>8, <4>3
      <3> QED BY <3>1, <3>2
    <2> QED BY <2>2, <2>3, <1>6, <1>8 DEF ScanInv, ScanOK, Ordered
  <1>10. CASE x = seen
    <2>1. page # 0 /\ a + Skipped \in DOMAIN time /\ seen = time[a + Skipped] /\ a < a + Skipped
      BY <1>1, <1>2, <1>6, <1>10 DEF ScanOf
    <2>2. start <= x
      BY <1>1, <1>2, <1>10, <2>1 DEF ScanOf
    <2>3. ASSUME NEW t \in Ours \cap DOMAIN time, start <= time[t], time[t] <= x PROVE pending'[t] # 0
      <3>1. CASE time[t] = x
        BY <1>6, <3>1 DEF NewestIsWhole
      <3>2. CASE time[t] # x
        <4>1. t <= a + Skipped
          <5>1. a + Skipped < t => time[a + Skipped] <= time[t]
            BY <2>1 DEF ScanInv, Ordered
          <5> QED BY <1>2, <1>10, <2>1, <2>3, <3>2, <5>1
        <4>2. a < t
          BY <1>1, <1>2, <2>3 DEF ScanOf
        <4> QED BY <1>1, <1>8, <4>1, <4>2 DEF ScanOf
      <3> QED BY <3>1, <3>2
    <2> QED BY <2>2, <2>3, <1>6, <1>8 DEF ScanInv, ScanOK, Ordered
  <1> QED BY <1>5, <1>9, <1>10

\* A page extends what has been seen by the entries that follow it.
LEMMA FetchScan ==
    ASSUME NEW m \in Known PROVE ScanInv /\ FetchPage(m) /\ NewestIsWhole => ScanInv'
  <1> SUFFICES ASSUME ScanInv, FetchPage(m), NewestIsWhole PROVE ScanInv'
    OBVIOUS
  <1>1. AgeInv'
    BY FetchAges DEF ScanInv
  <1> DEFINE newSeen == Max({seen} \cup {time[i] : i \in Page(m)})
  <1>2. stage = "page" /\ pending' = Handled(Page(m)) /\ UNCHANGED <<time, cursor, stored>>
    BY DEF FetchPage
  <1>3. CASE ~ LastPage(m) /\ page' = page + 1 /\ seen' = newSeen /\ UNCHANGED <<stage, items, start>>
    BY <1>1, <1>2, <1>3, PageScan
  <1>4. CASE /\ newSeen > 0 /\ stage' = "save" /\ seen' = newSeen
             /\ UNCHANGED <<page, items, start>>
    BY <1>1, <1>2, <1>4, LastPageScan
  <1>5. CASE BeginRefresh(pending')
    BY <1>1, <1>2, <1>5, ScanEnds DEF BeginRefresh
  <1> QED BY <1>3, <1>4, <1>5 DEF FetchPage

\* A scan starts right after the cursor or, the first time, where it may.
LEMMA LoadScan == ScanInv /\ LoadCursor /\ FirstScanReachesBack => ScanInv'
  <1> SUFFICES ASSUME ScanInv, LoadCursor, FirstScanReachesBack PROVE ScanInv'
    OBVIOUS
  <1>1. AgeInv'
    BY LoadAges DEF ScanInv
  <1>2. stage = "load" /\ seen = 0 /\ page = 0 /\ UNCHANGED <<time, cursor, pending, stored>>
    BY DEF LoadCursor, ScanInv, ScanOK
  <1>3. CASE BeginRefresh(pending)
    BY <1>1, <1>2, <1>3, ScanEnds DEF BeginRefresh
  <1>4. CASE stage' = "page" /\ (\E c \in Clock : start' = StartTime(c)) /\ UNCHANGED <<page, seen, items>>
    <2>1. PICK c \in Clock : start' = StartTime(c)
      BY <1>4
    <2>2. start' \in Nat
      BY <2>1, StartIsTime DEF ScanInv, AgeInv
    <2>3. cursor \in Nat /\ \A i \in DOMAIN time : time[i] \in Nat
      BY ScanNumbers DEF ScanInv, AgeInv
    <2>4. cursor # 0 => start' = cursor + 1
      BY <2>1 DEF StartTime
    <2>5. \A t \in Ours \cap DOMAIN time :
             cursor < time[t] /\ time[t] < start' => pending[t] # 0 \/ stored[t] # NULL
      <3>1. CASE cursor = 0
        BY <1>4, <3>1 DEF FirstScanReachesBack
      <3>2. CASE cursor # 0
        BY <2>3, <2>4, <3>2
      <3> QED BY <3>1, <3>2
    <2>6. PICK a \in 0..Len(time) : \A i \in DOMAIN time : i <= a <=> time[i] < start'
      BY <2>2, WhereScansStart DEF ScanInv, AgeInv
    <2>7. ScanOf(a)'
      <3>1. Skipped' = 0
        BY <1>2, <1>4, NextPageSkips, Constants DEF Skipped
      <3>2. ASSUME NEW t \in Ours PROVE ~ (a < t /\ t <= a + 0)
        BY Constants
      <3> QED BY <1>2, <1>4, <2>6, <3>1, <3>2 DEF ScanOf
    <2>8. (\E b \in 0..Len(time) : ScanOf(b))'
      BY <1>2, <2>7
    <2>9. ScanOK' /\ Ordered'
      BY <1>2, <1>4, <2>3, <2>4, <2>5, <2>8 DEF ScanInv, ScanOK, Ordered
    <2> QED BY <1>1, <2>9 DEF ScanInv
  <1> QED BY <1>3, <1>4 DEF LoadCursor

\* So every step keeps the order of the chain and the scan.
LEMMA StepScan == ScanInv /\ Next /\ Undisturbed => ScanInv'
  <1> SUFFICES ASSUME ScanInv, Next, Undisturbed PROVE ScanInv'
    OBVIOUS
  <1>0. AgeInv'
    BY StepAges DEF ScanInv
  <1>1. CASE Include
    BY <1>1, IncludeScan DEF Undisturbed
  <1>2. CASE Tick
    BY <1>0, <1>2, SameScan DEF Tick
  <1>3. CASE Poll
    BY <1>0, <1>3, SameScan DEF Poll
  <1>4. CASE LoadCursor
    BY <1>4, LoadScan DEF Undisturbed
  <1>5. CASE FetchFails
    BY <1>0, <1>5, ScanEnds DEF FetchFails, BeginRefresh
  <1>6. CASE SaveCursor
    BY <1>0, <1>6, ScanEnds DEF SaveCursor, BeginRefresh
  <1>7. CASE EndPoll
    BY <1>0, <1>7, SameScan DEF EndPoll
  <1>8. ASSUME NEW m \in Known, FetchPage(m) PROVE ScanInv'
    BY <1>8, FetchScan DEF Undisturbed
  <1>9. ASSUME NEW t \in Ours, Emit(t) \/ EmitFails(t) PROVE ScanInv'
    BY <1>0, <1>9, SameScan DEF Emit, EmitFails
  <1>10. CASE Die
    BY <1>0, <1>10, ScanEnds DEF Die
  <1>11. CASE SeedPending
    BY <1>0, <1>11, SameScan DEF SeedPending
  <1> QED BY <1>1, <1>2, <1>3, <1>4, <1>5, <1>6, <1>7, <1>8, <1>9, <1>10, <1>11 DEF Next, Cycle

-----------------------------------------------------------------------------
(* Every step is one of Watching, or none *)

Up       == stage # "down"
Passed   == {t \in Ours \cap DOMAIN time : time[t] <= cursor}
Followed == {t \in Ours : pending[t] # 0}
Reported == {t \in Ours : stored[t] # NULL}
Done     == {t \in Ours : stored[t] # NULL /\ ~ Confirming(t)}

\* The variables of Watching, by name.
LEMMA Mapped ==
    /\ Watch!Init <=> Up = TRUE /\ Passed = {} /\ Followed = {} /\ Reported = {} /\ Done = {}
    /\ Watch!Next <=>
          \/ \E S \in SUBSET Ours : Watch!Find(S) \/ Watch!Pass(S)
          \/ \E t \in Ours : Watch!Report(t) \/ Watch!Drop(t)
          \/ Watch!Crash \/ Watch!Recover
    /\ UNCHANGED Watch!vars <=> UNCHANGED <<Up, Passed, Followed, Reported, Done>>
  BY DEF Watch!Init, Watch!Next, Watch!vars, Up, Passed, Followed, Reported, Done

\* Reports and thresholds unchanged, so is what is reported and done.
LEMMA RecordsStay ==
    ASSUME UNCHANGED <<required, stored>>
    PROVE  UNCHANGED <<Reported, Done>>
  BY DEF Reported, Done, Confirming

\* Chain and cursor unchanged, so is what is passed.
LEMMA PlaceStays ==
    ASSUME UNCHANGED <<time, cursor>>
    PROVE  UNCHANGED Passed
  BY DEF Passed

\* An entry that is included is not passed.
LEMMA IncludeWatches ==
    ASSUME ScanInv, Include, NothingComesLate
    PROVE  UNCHANGED Watch!vars
  <1>1. /\ \A i \in DOMAIN time : i \in DOMAIN time' /\ time'[i] = time[i]
        /\ \A i \in DOMAIN time' : i \in DOMAIN time \/ time'[i] = now
    BY Included DEF ScanInv, AgeInv
  <1>2. now > cursor /\ now \in Nat /\ cursor \in Nat
    BY DEF NothingComesLate, ScanInv, AgeInv, TypeOK
  <1>3. UNCHANGED <<cursor, stage, pending, stored, required>>
    BY DEF Include
  <1>4. \A t \in Ours : t \in Passed' <=> t \in Passed
    BY <1>1, <1>2, <1>3 DEF Passed
  <1>5. UNCHANGED Passed
    BY <1>4 DEF Passed
  <1>6. UNCHANGED <<Up, Followed>>
    BY <1>3 DEF Up, Followed
  <1> QED BY <1>3, <1>5, <1>6, RecordsStay, Mapped

\* A page finds what of it is ours.
LEMMA FetchWatches ==
    ASSUME ScanInv, NEW m \in Known, FetchPage(m)
    PROVE  Watch!Next
  <1>1. /\ stage = "page" /\ stage' # "down" /\ pending' = Handled(Page(m))
        /\ UNCHANGED <<time, cursor, required, stored>>
    BY DEF FetchPage, BeginRefresh
  <1>2. \A t \in Page(m) : t \in DOMAIN time /\ time[t] # 0
    BY TimesOfChain DEF ScanInv, AgeInv, TypeOK, Page, Found
  <1>3. PICK S \in SUBSET Ours : S = Ours \cap Page(m)
    OBVIOUS
  <1>4. \A t \in Ours : t \in Followed' <=> t \in Followed \/ t \in S
    BY <1>1, <1>2, <1>3 DEF Handled, Followed
  <1>5. Followed' = Followed \cup S
    BY <1>3, <1>4 DEF Followed
  <1>6. Up /\ UNCHANGED <<Up, Passed, Reported, Done>>
    BY <1>1, PlaceStays, RecordsStay DEF Up
  <1>7. Watch!Find(S)
    BY <1>5, <1>6 DEF Watch!Find, Up, Passed, Followed, Reported, Done
  <1> QED BY <1>7, Mapped

\* The cursor passes what the scan has seen, or was known before it.
LEMMA SaveWatches ==
    ASSUME ScanInv, SaveCursor
    PROVE  Watch!Next \/ UNCHANGED Watch!vars
  <1>1. /\ stage = "save" /\ stage' # "down"
        /\ UNCHANGED <<time, required, stored, pending>>
    BY DEF SaveCursor, BeginRefresh
  <1>2. UNCHANGED <<Up, Followed, Reported, Done>> /\ Up
    BY <1>1, RecordsStay DEF Up, Followed
  <1>3. CASE UNCHANGED cursor
    BY <1>1, <1>2, <1>3, PlaceStays, Mapped
  <1>4. CASE cursor' = seen
    <2>1. PICK S \in SUBSET Ours : S = {t \in Ours \cap DOMAIN time : cursor < time[t] /\ time[t] <= seen}
      OBVIOUS
    <2>2. /\ start <= seen /\ (cursor = 0 \/ cursor < start)
          /\ cursor \in Nat /\ seen \in Nat /\ start \in Nat
          /\ \A t \in DOMAIN time : time[t] \in Nat
      BY <1>1, ScanNumbers DEF ScanInv, ScanOK, AgeInv
    <2>3. cursor <= seen
      BY <2>2
    <2>4. \A t \in Ours : t \in Passed' <=> t \in Passed \/ t \in S
      BY <1>1, <1>4, <2>1, <2>2, <2>3 DEF Passed
    <2>5. Passed' = Passed \cup S
      BY <2>1, <2>4 DEF Passed
    <2>6. S \subseteq Followed \cup Reported
      <3> SUFFICES ASSUME NEW t \in S PROVE pending[t] # 0 \/ stored[t] # NULL
        BY <2>1 DEF Followed, Reported
      <3>1. t \in Ours \cap DOMAIN time /\ cursor < time[t] /\ time[t] <= seen
        BY <2>1
      <3>2. CASE time[t] < start
        BY <1>1, <3>1, <3>2 DEF ScanInv, ScanOK
      <3>3. CASE ~ (time[t] < start)
        <4>1. start <= time[t]
          BY <2>2, <3>1, <3>3
        <4> QED BY <1>1, <3>1, <4>1 DEF ScanInv, ScanOK
      <3> QED BY <3>2, <3>3
    <2>7. Watch!Pass(S)
      BY <1>2, <2>5, <2>6 DEF Watch!Pass, Up, Passed, Followed, Reported, Done
    <2> QED BY <2>7, Mapped
  <1> QED BY <1>3, <1>4 DEF SaveCursor

\* A report: the transfer is dropped only when its count is the threshold, and
\* that is no less than the order's.
LEMMA EmitWatches ==
    ASSUME ScanInv, NEW t \in Ours, Emit(t), required <= confirms
    PROVE  Watch!Next
  <1>1. /\ stage = "refresh" /\ t \in items
        /\ stored' = [stored EXCEPT ![t] = IF @ = NULL THEN Count(t) ELSE Max({@, Count(t)})]
        /\ pending' = [pending EXCEPT ![t] = Kept(t)]
        /\ UNCHANGED <<time, cursor, required, stage>>
    BY DEF Emit
  <1>2. pending[t] # 0 /\ stored \in [Ours -> Nat \cup {NULL}]
        /\ pending \in [Ours -> 0..(MaxTime + Skew)]
    BY <1>1 DEF ScanInv, AgeInv, AgesOK, TypeOK, ToReport
  <1>3. Count(t) \in Nat /\ confirms \in Nat /\ required \in Nat
    BY CountIsNatural, Constants DEF ScanInv, AgeInv, TypeOK
  <1>4. PICK c : c = IF stored[t] = NULL THEN Count(t) ELSE Max({stored[t], Count(t)})
    OBVIOUS
  <1>5. c \in Nat /\ c >= Count(t)
    <2>1. stored[t] # NULL =>
             Max({stored[t], Count(t)}) = IF stored[t] >= Count(t) THEN stored[t] ELSE Count(t)
      BY <1>2, <1>3, MaxOfTwo
    <2>2. stored[t] # NULL => stored[t] \in Nat
      BY <1>2
    <2> QED BY <1>3, <1>4, <2>1, <2>2
  <1>6. \A u \in Ours : /\ stored'[u] = IF u = t THEN c ELSE stored[u]
                        /\ pending'[u] = IF u = t THEN Kept(t) ELSE pending[u]
    BY <1>1, <1>2, <1>4
  <1>7. t \in Followed /\ Up /\ UNCHANGED <<Up, Passed>>
    BY <1>1, <1>2, PlaceStays DEF Up, Followed
  <1>8. Reported' = Reported \cup {t}
    <2>1. \A u \in Ours : u \in Reported' <=> u \in Reported \/ u = t
      BY <1>5, <1>6, Constants DEF Reported
    <2> QED BY <2>1 DEF Reported
  <1>9. \A u \in Ours : u # t => (u \in Done' <=> u \in Done)
    BY <1>1, <1>6 DEF Done, Confirming
  <1>10. t \in Done' <=> c >= required
    BY <1>1, <1>3, <1>5, <1>6, Constants DEF Done, Confirming
  <1>11. CASE c >= required
    <2>1. Done' = Done \cup {t}
      <3>1. \A u \in Ours : u \in Done' <=> u \in Done \/ u = t
        BY <1>9, <1>10, <1>11
      <3> QED BY <3>1 DEF Done
    <2>2. Followed' = Followed \/ Followed' = Followed \ {t}
      <3>1. Kept(t) \in {0, pending[t]}
        BY DEF Kept
      <3> QED BY <1>6, <3>1 DEF Followed
    <2>3. Watch!Report(t)
      BY <1>7, <1>8, <2>1, <2>2 DEF Watch!Report, Up, Passed, Followed, Reported, Done
    <2> QED BY <2>3, Mapped
  <1>12. CASE ~ (c >= required)
    <2>1. Done' = Done \ {t}
      <3>1. \A u \in Ours : u \in Done' <=> u \in Done /\ u # t
        BY <1>9, <1>10, <1>12
      <3> QED BY <3>1 DEF Done
    <2>2. Kept(t) = pending[t]
      <3>1. ~ (Count(t) >= confirms)
        BY <1>3, <1>5, <1>12
      <3> QED BY <3>1 DEF Kept
    <2>3. Followed' = Followed
      BY <1>6, <2>2 DEF Followed
    <2>4. Watch!Report(t)
      BY <1>7, <1>8, <2>1, <2>3 DEF Watch!Report, Up, Passed, Followed, Reported, Done
    <2> QED BY <2>4, Mapped
  <1> QED BY <1>11, <1>12

\* A report that fails, and is not the last, leaves all as it is.
LEMMA EmitFailsWatches ==
    ASSUME ScanInv, NEW t \in Ours, EmitFails(t), LastReportLands
    PROVE  UNCHANGED Watch!vars
  <1>1. UNCHANGED <<time, cursor, required, stored, stage>>
    BY DEF EmitFails
  <1>2. Kept(t) = pending[t]
    BY DEF LastReportLands, Kept
  <1>3. pending' = pending
    BY <1>2 DEF EmitFails, ScanInv, AgeInv, TypeOK
  <1>4. UNCHANGED <<Up, Followed>>
    BY <1>1, <1>3 DEF Up, Followed
  <1> QED BY <1>1, <1>4, PlaceStays, RecordsStay, Mapped

\* A crash empties the list.
LEMMA DieWatches == ASSUME ScanInv, Die PROVE Watch!Next
  <1>1. Up /\ ~ Up' /\ Up' = FALSE /\ Followed' = {} /\ UNCHANGED <<time, cursor, required, stored>>
    BY DEF Die, Nothing, Up, Followed
  <1>2. UNCHANGED <<Passed, Reported, Done>>
    BY <1>1, PlaceStays, RecordsStay
  <1>3. Watch!Crash
    BY <1>1, <1>2 DEF Watch!Crash, Up, Passed, Followed, Reported, Done
  <1> QED BY <1>3, Mapped

\* A start fills it with what is reported and needs more, whatever the
\* threshold in force is now.
LEMMA SeedWatches == ASSUME ScanInv, SeedPending PROVE Watch!Next
  <1>1. ~ Up /\ Up' /\ Up' = TRUE /\ UNCHANGED <<time, cursor, required, stored>>
    BY DEF SeedPending, Up
  <1>2. UNCHANGED <<Passed, Reported, Done>>
    BY <1>1, PlaceStays, RecordsStay
  <1>3. \A t \in Ours : t \in Followed' <=> Confirming(t)
    <2>1. \A t \in Ours : Confirming(t) => t \in DOMAIN time /\ time[t] # 0
      BY TimesOfChain DEF Confirming, ScanInv, AgeInv, AgesOK
    <2>2. PICK c \in Clock : pending' = [t \in Ours |-> IF ~ Confirming(t) THEN 0
                                                     ELSE IF Kind = "tron" THEN time[t] ELSE c]
      BY DEF SeedPending, TronSeed, TonSeed
    <2>3. c # 0
      BY ClockIsNear DEF ScanInv, AgeInv
    <2> QED BY <2>1, <2>2, <2>3 DEF Followed
  <1>4. Followed' \in SUBSET Reported
    BY <1>3 DEF Followed, Confirming, Reported
  <1>5. Reported \ Done' \subseteq Followed'
    <2>1. \A t \in Ours : t \in Reported /\ t \notin Done => Confirming(t)
      BY DEF Reported, Done
    <2>2. Done' = Done /\ Reported \subseteq Ours
      BY <1>2 DEF Reported
    <2> QED BY <1>3, <2>1, <2>2
  <1>6. Done' \in SUBSET Reported
    BY <1>2 DEF Done, Reported
  <1>7. Watch!Recover
    BY <1>1, <1>2, <1>4, <1>5, <1>6 DEF Watch!Recover, Up, Passed, Followed, Reported, Done
  <1> QED BY <1>7, Mapped

\* Every step of the watcher is one of Watching or none.
LEMMA StepWatches ==
    ASSUME ScanInv, Next, Undisturbed
    PROVE  [Watch!Next]_(Watch!vars)
  <1>1. CASE Include
    BY <1>1, IncludeWatches DEF Undisturbed
  <1>2. CASE FetchFails \/ LoadCursor \/ Poll \/ EndPoll \/ Tick
    <2>1. UNCHANGED <<time, cursor, required, stored, pending, Up>>
      BY <1>2 DEF FetchFails, LoadCursor, Poll, EndPoll, Tick, BeginRefresh, Up
    <2>2. UNCHANGED Followed
      BY <2>1 DEF Followed
    <2> QED BY <2>1, <2>2, PlaceStays, RecordsStay, Mapped
  <1>3. CASE SaveCursor
    BY <1>3, SaveWatches
  <1>4. ASSUME NEW m \in Known, FetchPage(m) PROVE Watch!Next
    BY <1>4, FetchWatches
  <1>5. ASSUME NEW t \in Ours, Emit(t) PROVE Watch!Next
    BY <1>5, EmitWatches DEF Undisturbed
  <1>6. ASSUME NEW t \in Ours, EmitFails(t) PROVE UNCHANGED Watch!vars
    BY <1>6, EmitFailsWatches DEF Undisturbed
  <1>7. CASE Die
    BY <1>7, DieWatches
  <1>8. CASE SeedPending
    BY <1>8, SeedWatches
  <1> QED BY <1>1, <1>2, <1>3, <1>4, <1>5, <1>6, <1>7, <1>8 DEF Next, Cycle

\* The watchers of TRON and TON implement Watching, for any number of entries of
\* a time, of pages and entries on them, whatever lags, fails or dies.  This
\* holds of every behaviour in which no entry is included at a time the cursor
\* has passed, no scan ends inside the newest time it shows, the first one goes
\* back far enough, no last report fails and the threshold in force is not below
\* the orders'; without any one of the five it does not (pollOnce).
THEOREM PagedWatches == Spec /\ [][Undisturbed]_vars => Watches
  <1>1. Init => Watch!Init
    <2> SUFFICES ASSUME Init PROVE Watch!Init
      OBVIOUS
    <2>1. Up = TRUE /\ Passed = {} /\ Followed = {} /\ Reported = {} /\ Done = {}
      BY DEF Init, Nothing, Up, Passed, Followed, Reported, Done
    <2> QED BY <2>1, Mapped
  <1>2. ScanInv /\ UNCHANGED vars => ScanInv' /\ UNCHANGED Watch!vars
    <2> SUFFICES ASSUME ScanInv, UNCHANGED vars PROVE ScanInv' /\ UNCHANGED Watch!vars
      OBVIOUS
    <2>1. AgeInv'
      BY StepAges DEF ScanInv
    <2>2. ScanInv'
      BY <2>1, SameScan DEF vars
    <2>3. UNCHANGED <<time, cursor, required, stored, Up, Followed>>
      BY DEF vars, Up, Followed
    <2> QED BY <2>2, <2>3, PlaceStays, RecordsStay, Mapped
  <1>3. ScanInv /\ [Next]_vars /\ [Undisturbed]_vars => ScanInv' /\ [Watch!Next]_(Watch!vars)
    BY <1>2, StepScan, StepWatches
  <1> QED BY <1>1, <1>3, InitScan, PTL DEF Spec, Watches, Watch!Spec

=============================================================================
