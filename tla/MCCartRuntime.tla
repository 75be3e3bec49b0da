---------------------------- MODULE MCCartRuntime ----------------------------
EXTENDS CartRuntime
=============================================================================
