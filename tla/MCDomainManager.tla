-------------------------- MODULE MCDomainManager --------------------------
(* Small instances of DomainManager for TLC.                                *)
EXTENDS DomainManager, TLC
=============================================================================
