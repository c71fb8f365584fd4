---------------------------- MODULE MCDiscovery ----------------------------
EXTENDS Discovery, TLC
CONSTANTS r1, r2, k1, k2, c1, c2, f1
Symmetry == Permutations(Containers) \cup Permutations(Keys) \cup Permutations(Requests)

(* Few of the instances have a stored key at once. *)
CONSTANT MaxStored
FewStored == Cardinality({i \in Instances : stored[i] # None}) <= MaxStored

Ambiguous == {<<c1, f1>>, <<c2, f1>>}
=============================================================================
