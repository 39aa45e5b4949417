---- MODULE MCSessionBundle ----
EXTENDS SessionBundle
CONSTANTS c1, c2, f1, f2
CallSymmetry == Permutations({c1, c2})
====
