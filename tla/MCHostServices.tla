---------------------------- MODULE MCHostServices ----------------------------
(* The constants of HostServices' run: plugins with one service each.        *)
EXTENDS HostServices, TLC

MCManifests == {{s} : s \in Services}

Symmetry == Permutations(Calls) \cup Permutations(Keys)
===============================================================================
