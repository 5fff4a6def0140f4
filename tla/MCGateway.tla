----------------------------- MODULE MCGateway ------------------------------
(* Small instances of Gateway for TLC. *)
EXTENDS Gateway, TLC

CONSTANTS o1, o2, t1, t2, h1, c1, A

RequiredTwo  == A :> 2
OneTxChain   == [t \in Tx |-> A]
OneHandler   == h1 :> A
ExactAmount  == [t \in Tx |-> 11]
FullAndShort == t1 :> 11 @@ t2 :> 8

OrderSymmetry == Permutations(Order)
=============================================================================
