----------------------------- MODULE Settlement -----------------------------
(***************************************************************************)
(* What internal/orders promises, without tables, statements or locks:     *)
(* orders are opened, a transfer settles at most one open order, a settled *)
(* order runs to completion, and only open orders expire.  It is the       *)
(* lifecycle diagram of the documentation with the rule that makes it      *)
(* money: one transfer, one order.                                         *)
(***************************************************************************)
CONSTANTS Order, Tx, NULL

VARIABLES
    status,  \* where each order stands
    paidBy   \* the transfer attributed to each order

vars == <<status, paidBy>>

Init ==
    /\ status = [o \in Order |-> "absent"]
    /\ paidBy = [o \in Order |-> NULL]

Unused(t) == \A o \in Order : paidBy[o] # t

\* CreateOrder.
Open(o) ==
    /\ status[o] = "absent"
    /\ status' = [status EXCEPT ![o] = "pending"]
    /\ UNCHANGED paidBy

\* OnTransfer attributes a transfer for the first time.
Settle(o, t, outcome) ==
    /\ status[o] = "pending"
    /\ Unused(t)
    /\ status' = [status EXCEPT ![o] = outcome]
    /\ paidBy' = [paidBy EXCEPT ![o] = t]

\* OnTransfer reports the confirmation that makes it final.
Confirm(o) ==
    /\ status[o] = "confirming"
    /\ status' = [status EXCEPT ![o] = "confirmed"]
    /\ UNCHANGED paidBy

\* ExpirePastDue, a batch at a time.
Expire(S) ==
    /\ \A o \in S : status[o] = "pending"
    /\ status' = [o \in Order |-> IF o \in S THEN "expired" ELSE status[o]]
    /\ UNCHANGED paidBy

Next ==
    \/ \E o \in Order : Open(o) \/ Confirm(o)
    \/ \E o \in Order, t \in Tx, outcome \in {"confirming", "confirmed", "underpaid"} :
         Settle(o, t, outcome)
    \/ \E S \in SUBSET Order : Expire(S)

Spec == Init /\ [][Next]_vars
=============================================================================
