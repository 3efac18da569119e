------------------------- MODULE MCConnectionPool -------------------------
EXTENDS ConnectionPool

CONSTANTS a1, x1, d1
=============================================================================
