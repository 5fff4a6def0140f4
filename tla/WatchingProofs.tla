--------------------------- MODULE WatchingProofs ---------------------------
(***************************************************************************)
(* What the service gets from a watcher that implements Watching.          *)
(***************************************************************************)
EXTENDS Watching, TLAPS

Accounts == reported \cup followed

\* What orders wait for is followed, and nobody follows while down.
WaitedForIsFollowed ==
    /\ done \subseteq reported
    /\ IF up THEN reported \ done \subseteq followed ELSE followed = {}

\* A transfer behind the cursor leaves the accounts at a crash only.
LostAtCrashOnly == [][\A t \in passed' : t \notin Accounts' => t \in passed /\ (t \notin Accounts \/ ~ up')]_vars

-----------------------------------------------------------------------------
\* Whatever an order still waits for is followed by the running watcher, after
\* any number of restarts (SeedPending, refreshConfirmations).
THEOREM NobodyForgotten == Spec => []WaitedForIsFollowed
<1>1. Init => WaitedForIsFollowed
  BY DEF Init, WaitedForIsFollowed
<1>2. WaitedForIsFollowed /\ [Next]_vars => WaitedForIsFollowed'
  <2> SUFFICES ASSUME WaitedForIsFollowed, [Next]_vars PROVE WaitedForIsFollowed' OBVIOUS
  <2> USE DEF WaitedForIsFollowed
  <2>1. ASSUME NEW S \in SUBSET Transfer, Find(S) \/ Pass(S) PROVE WaitedForIsFollowed'
    BY <2>1 DEF Find, Pass
  <2>2. ASSUME NEW t \in Transfer, Report(t) PROVE WaitedForIsFollowed'
    BY <2>2 DEF Report
  <2>3. ASSUME NEW t \in Transfer, Drop(t) PROVE WaitedForIsFollowed'
    BY <2>3 DEF Drop
  <2>4. CASE Crash
    BY <2>4 DEF Crash
  <2>5. CASE Recover
    BY <2>5 DEF Recover
  <2>6. CASE UNCHANGED vars
    BY <2>6 DEF vars
  <2> QED BY <2>1, <2>2, <2>3, <2>4, <2>5, <2>6 DEF Next
<1> QED BY <1>1, <1>2, PTL DEF Spec

\* A transfer the cursor has moved over is never lost but by a crash, whatever
\* fails and however often it is scanned again (pollOnce).
THEOREM OnlyCrashesLose == Spec => LostAtCrashOnly
<1>1. WaitedForIsFollowed /\ [Next]_vars =>
         [\A t \in passed' : t \notin Accounts' => t \in passed /\ (t \notin Accounts \/ ~ up')]_vars
  <2> SUFFICES ASSUME WaitedForIsFollowed, Next, NEW t \in passed', t \notin Accounts'
               PROVE  t \in passed /\ (t \notin Accounts \/ ~ up')
    OBVIOUS
  <2> USE DEF WaitedForIsFollowed, Accounts
  <2>1. ASSUME NEW S \in SUBSET Transfer, Find(S) \/ Pass(S) PROVE t \in passed /\ t \notin Accounts
    BY <2>1 DEF Find, Pass
  <2>2. ASSUME NEW u \in Transfer, Report(u) \/ Drop(u) PROVE t \in passed /\ t \notin Accounts
    BY <2>2 DEF Report, Drop
  <2>3. CASE Crash
    BY <2>3 DEF Crash
  <2>4. CASE Recover
    BY <2>4 DEF Recover
  <2> QED BY <2>1, <2>2, <2>3, <2>4 DEF Next
<1> QED BY <1>1, NobodyForgotten, PTL DEF Spec, LostAtCrashOnly
=============================================================================
