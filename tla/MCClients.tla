------------------------------ MODULE MCClients -----------------------------
(***************************************************************************)
(* A small instance of Clients: one project of one file, and three casts:  *)
(* an edit beside a read, two `remy-cc config`, and an edit beside a       *)
(* `remy-cc config`; the first also over a table that has seen a scan.     *)
(***************************************************************************)
EXTENDS Clients

CONSTANTS d1, e1, u1, u2

MCCasts == [clients : {{d1, e1}}, scanned : BOOLEAN]
             \cup [clients : {{u1, u2}, {d1, u1}}, scanned : {FALSE}]
=============================================================================
