----------------------------- MODULE MCTtlCache -----------------------------
(* Instances of TtlCache for TLC: two or three threads on a store of one.  *)
EXTENDS TtlCache
=============================================================================
