--------------------------- MODULE MCSipConnection ---------------------------
EXTENDS SipConnection

CONSTANTS c1, c2, c3, c4, c5, c6
=============================================================================
