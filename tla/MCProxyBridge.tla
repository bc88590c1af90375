---------------------------- MODULE MCProxyBridge ---------------------------
EXTENDS ProxyBridge, TLC

Symmetry == Permutations(Request)
=============================================================================
