----------------------------- MODULE MCRingFiles -----------------------------
EXTENDS RingFiles
=============================================================================
