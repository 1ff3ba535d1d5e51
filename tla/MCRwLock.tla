------------------------------ MODULE MCRwLock ------------------------------
(* An instance of RwLock for TLC. *)
EXTENDS RwLock

MCLocks == {Guard}
=============================================================================
