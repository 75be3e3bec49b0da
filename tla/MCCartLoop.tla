----------------------------- MODULE MCCartLoop -----------------------------
EXTENDS CartLoop
=============================================================================
