------------------------------ MODULE MCHdmiI2C ------------------------------
EXTENDS HdmiI2C, TLC
=============================================================================
