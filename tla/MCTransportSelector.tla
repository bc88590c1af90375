------------------------ MODULE MCTransportSelector -------------------------
EXTENDS TransportSelector

Durations == 0..5
=============================================================================
