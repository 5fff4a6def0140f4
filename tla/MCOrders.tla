------------------------------ MODULE MCOrders ------------------------------
(* Small instances of Orders for TLC. *)
EXTENDS Orders, TLC

CONSTANTS o1, o2, t1, t2, h1, h2, c1, c2, A, B

\* A transfer that matches exactly and one that falls short, or two that
\* match, on chain A; orders may be for a chain B whose watcher is quiet.
RequiredTwo   == [chain \in Chain |-> 2]
OnChainA      == [t \in Tx |-> A]
ServesA       == [h \in Handler |-> A]
MatchAndShort == t1 :> 11 @@ t2 :> 8
OneAmount     == [t \in Tx |-> 11]
MatchTwice    == t1 :> 11 @@ t2 :> 12

OrderSymmetry == Permutations(Order)
\* Handlers of one chain are alike, and so are creators.
ActorSymmetry == Permutations(Order) \cup Permutations(Handler) \cup Permutations(Creator)

(***************************************************************************)
(* Orders picks the underpaid order by comparing the winner with all its   *)
(* rivals at once (WinsOver); the code loops over the rows.  The two agree *)
(* on every result the query can return over these amounts, and what they  *)
(* pick is the smallest expected amount the payment covers enough of.      *)
(***************************************************************************)
ASSUME LoopPicksWinner ==
    \A amount \in 0..7, S \in SUBSET (1..8) :
        LET short   == {e \in S : e > amount}
            rows    == [i \in 1..Cardinality(short) |->
                          CHOOSE e \in short : Cardinality({d \in short : d <= e}) = i]
            won     == BestAfter(rows, amount)
            covered == {e \in short : 100 * amount >= (100 - MaxGapPercent) * e}
        IN  /\ IF covered = {} THEN won = 0
               ELSE won # 0 /\ rows[won] = CHOOSE e \in covered : \A d \in covered : e <= d
            /\ \A j \in DOMAIN rows :
                   (rows[j] \in covered /\ WinsOver(rows[j], covered, amount)) <=> (j = won)
=============================================================================
