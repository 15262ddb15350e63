----------------------- MODULE MC_NamespaceLifecycle -----------------------
(* A small instance of NamespaceLifecycle.                                 *)
EXTENDS NamespaceLifecycle
=============================================================================
