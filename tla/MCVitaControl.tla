---------------------------- MODULE MCVitaControl ----------------------------
EXTENDS VitaControl
=============================================================================
