----------------------------- MODULE MCSipCall -----------------------------
EXTENDS SipCall

CONSTANTS o1, o2, i1, i2, h1
=============================================================================
