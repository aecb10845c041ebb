-------------------------- MODULE MCReserveAuthority --------------------------
EXTENDS ReserveAuthority
\* Two purchases that together take the whole of an authority.
Prices == [p1 |-> 1, p2 |-> 1]
=============================================================================
