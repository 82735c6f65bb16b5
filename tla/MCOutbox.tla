------------------------------ MODULE MCOutbox ------------------------------
(* Small instances of Outbox for TLC.  They check liveness, so no symmetry *)
(* reduction is used.                                                      *)
EXTENDS Outbox, TLC
=============================================================================
