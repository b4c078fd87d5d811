------------------------------ MODULE MCWizard ------------------------------
(***************************************************************************)
(* Instances of Wizard for TLC.                                            *)
(***************************************************************************)
EXTENDS Wizard

\* Two disjoint service networks with one DNS address each.
TwoNets == [n \in {"net1", "net2"} |-> IF n = "net1" THEN {"addr1"} ELSE {"addr2"}]

NoNets == [n \in {} |-> {}]
=============================================================================
