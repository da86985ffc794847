----------------------------- MODULE MCVideoSync -----------------------------
EXTENDS VideoSync
=============================================================================
