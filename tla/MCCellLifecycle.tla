-------------------------- MODULE MCCellLifecycle --------------------------
(***************************************************************************)
(* CellLifecycle for TLC: one profile, or two that share the namespace.    *)
(***************************************************************************)
EXTENDS CellLifecycle, TLC

CONSTANTS n1, n2, s, t, ns1, ns2

OneProfile == s :> ns1
OneNamespace == (s :> ns1) @@ (t :> ns1)
=============================================================================
