------------------------------ MODULE MCAccess ------------------------------
(* Instances of Access: the clocks of the servers are one unit ahead.      *)
EXTENDS Access, TLC

OneAhead == [s \in Servers |-> 1]
UserSymmetry == Permutations(Users)
=============================================================================
