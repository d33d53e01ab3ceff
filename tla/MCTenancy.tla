----------------------------- MODULE MCTenancy ------------------------------
(* Small instances of Tenancy for TLC.                                      *)
EXTENDS Tenancy
=============================================================================
