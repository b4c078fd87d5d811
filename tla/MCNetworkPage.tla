---------------------------- MODULE MCNetworkPage ----------------------------
(* One interface, and for every field a text the page takes and one it refuses. *)
EXTENDS NetworkPage

NICs == {{}, {"eth0"}}
=============================================================================
