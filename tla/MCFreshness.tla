----------------------------- MODULE MCFreshness ----------------------------
(***************************************************************************)
(* A small instance of Freshness.                                          *)
(***************************************************************************)
EXTENDS Freshness
=============================================================================
