----------------------------- MODULE MCCluster ------------------------------
\* Cluster for TLC: the virtual nodes of the servers interleave.
EXTENDS Cluster

CONSTANTS s1, s2, s3

SomeVNodes == [s \in Server |-> CASE s = s1 -> {0, 3} [] s = s2 -> {1, 6} [] s = s3 -> {4}]
=============================================================================
