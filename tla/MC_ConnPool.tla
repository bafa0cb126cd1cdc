---------------------------- MODULE MC_ConnPool ----------------------------
(* The pool alone, with three callers contending for two slots.            *)
EXTENDS ConnPool, TLC

=============================================================================
