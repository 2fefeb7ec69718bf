--------------------------- MODULE MCUdpGameServer ---------------------------
\* UdpGameServer for TLC: three addresses, with different hashes.
EXTENDS UdpGameServer

CONSTANTS e1, e2, e3

MCEndpoint == {e1, e2, e3}
MCHash == [e \in MCEndpoint |-> IF e = e1 THEN 1 ELSE IF e = e2 THEN 2 ELSE 3]
=============================================================================
