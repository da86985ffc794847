---------------------------- MODULE MCStartScreen ----------------------------
EXTENDS StartScreen, TLC
=============================================================================
