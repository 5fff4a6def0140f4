------------------------------ MODULE Watching ------------------------------
(***************************************************************************)
(* What the service relies on when it trusts a chains.ChainWatcher, in     *)
(* abstract terms: how a transfer is found, counted, and followed until it *)
(* needs no more reports is left open; only this is promised:              *)
(*                                                                         *)
(*   - the scan passes a transfer only when the watcher follows it or has  *)
(*     reported it;                                                        *)
(*   - what the watcher follows it drops only when it is done;             *)
(*   - after a restart everything reported and not done is followed again. *)
(*                                                                         *)
(* The EVM, TRON and TON watchers are shown to implement it.               *)
(***************************************************************************)
CONSTANT Transfer  \* transfers to the watched address

VARIABLES
    up,        \* is the process running?
    passed,    \* transfers the durable cursor has moved over
    followed,  \* transfers the watcher has in memory
    reported,  \* transfers the sink has made durable
    done       \* of these, the ones no order waits for

vars == <<up, passed, followed, reported, done>>

Init ==
    /\ up = TRUE
    /\ passed = {} /\ followed = {} /\ reported = {} /\ done = {}

Find(S) ==
    /\ up
    /\ followed' = followed \cup S
    /\ UNCHANGED <<up, passed, reported, done>>

\* A report, and what the sink makes of it: an order may go on waiting for the
\* transfer, or nobody does (anymore).
Report(t) ==
    /\ up /\ t \in followed
    /\ reported' = reported \cup {t}
    /\ \/ done' = done \ {t} /\ UNCHANGED followed
       \/ done' = done \cup {t} /\ followed' \in {followed, followed \ {t}}
    /\ UNCHANGED <<up, passed>>

Drop(t) ==
    /\ up /\ t \in done
    /\ followed' = followed \ {t}
    /\ UNCHANGED <<up, passed, reported, done>>

Pass(S) ==
    /\ up /\ S \subseteq followed \cup reported
    /\ passed' = passed \cup S
    /\ UNCHANGED <<up, followed, reported, done>>

Crash ==
    /\ up /\ up' = FALSE
    /\ followed' = {}
    /\ UNCHANGED <<passed, reported, done>>

\* The process comes up again; with a changed configuration, more or fewer
\* transfers may count as done.
Recover ==
    /\ ~ up /\ up' = TRUE
    /\ done' \in SUBSET reported
    /\ followed' \in SUBSET reported /\ reported \ done' \subseteq followed'
    /\ UNCHANGED <<passed, reported>>

Next ==
    \/ \E S \in SUBSET Transfer : Find(S) \/ Pass(S)
    \/ \E t \in Transfer : Report(t) \/ Drop(t)
    \/ Crash \/ Recover

Spec == Init /\ [][Next]_vars
=============================================================================
