---------------------------- MODULE MCPluginManager ----------------------------
(* One plugin and two operations at a time. An earlier process has left no row *)
(* of it, or has left it enabled for some user.                                *)
EXTENDS PluginManager

CONSTANTS o1, o2, gated, failing, broken

MCInitRows == {NoRow, [build |-> gated, enabled |-> TRUE, error |-> FALSE, users |-> TRUE]}
==============================================================================
