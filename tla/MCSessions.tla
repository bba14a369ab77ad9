---- MODULE MCSessions ----
EXTENDS Sessions, TLC

CONSTANTS t1, t2

TagSymmetry == Permutations(Tags)
====
