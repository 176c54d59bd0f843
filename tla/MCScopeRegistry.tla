--------------------------- MODULE MCScopeRegistry ---------------------------
(***************************************************************************)
(* Two sessions and two scopes: enough for two creators of one scope, and  *)
(* for two that lock two scopes in opposite orders.  Scope and Session are  *)
(* model values in the configurations.                                     *)
(***************************************************************************)
EXTENDS ScopeRegistry
=============================================================================
