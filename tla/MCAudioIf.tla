------------------------------ MODULE MCAudioIf ------------------------------
EXTENDS AudioIf
=============================================================================
