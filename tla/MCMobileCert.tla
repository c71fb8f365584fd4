---------------------------- MODULE MCMobileCert ----------------------------
EXTENDS MobileCert, TLC

CONSTANTS a1, a2, b1        \* two ports of one host, and another host

MCHostOf == [o \in {a1, a2, b1} |-> IF o = b1 THEN "b" ELSE "a"]
MCSymmetry == Permutations({a1, a2})
=============================================================================
