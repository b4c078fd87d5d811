------------------------------ MODULE MCVipPage ------------------------------
(***************************************************************************)
(* VipPage with two requests, two leases and inputs that are malformed,    *)
(* the management address, a free address and the leased addresses.        *)
(***************************************************************************)
EXTENDS VipPage

TwoLeases == {[vip |-> "lease1", hwAddr |-> "mac1"], [vip |-> "lease2", hwAddr |-> "mac2"]}
=============================================================================
