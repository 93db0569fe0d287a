-------------------------- MODULE MCClusterServer --------------------------
EXTENDS ClusterServer

\* What nodes say of themselves.
MCOneLoad == {[Speed |-> 1, NumCells |-> 2]}
=============================================================================
