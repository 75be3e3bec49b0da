----------------------------- MODULE MCCrossfade -----------------------------
EXTENDS Crossfade
=============================================================================
