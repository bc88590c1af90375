----------------------------- MODULE MCUdpRelay -----------------------------
EXTENDS UdpRelay, TLC

Symmetry == Permutations(Conn) \cup Permutations(Client) \cup Permutations(Port)
=============================================================================
