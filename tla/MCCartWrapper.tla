---------------------------- MODULE MCCartWrapper ----------------------------
EXTENDS CartWrapper
=============================================================================
