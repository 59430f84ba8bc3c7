----------------------------- MODULE MCUpgrade ------------------------------
(* Upgrade with two windows of different builds of one protocol, for TLC. *)
EXTENDS Upgrade

OneProtocol  == [v \in Versions |-> 1]
BuildAtFirst == [w \in Windows |-> IF w = 1 THEN 1 ELSE 2]
=============================================================================
