------------------------------ MODULE MCLoader ------------------------------
(* Small instances of Loader for TLC: groups and tests are model values    *)
(* that nothing tells apart.                                               *)
EXTENDS Loader, TLC

CONSTANTS g1, g2, t1, t2, r1

Symmetric == Permutations({g1, g2}) \union Permutations({t1, t2})
=============================================================================
