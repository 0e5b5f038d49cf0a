----------------------------- MODULE MCBitmaps -----------------------------
EXTENDS Bitmaps
=============================================================================
