---- MODULE MCDelivery ----
EXTENDS Delivery, TLC
CONSTANTS l1, l2, n1, n2
Symmetric == Permutations(Loaders) \union Permutations(Names)
====
