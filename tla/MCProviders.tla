---------------------------- MODULE MCProviders ----------------------------
(* Every kind of resource, one at a time.                                  *)
EXTENDS Providers
=============================================================================
