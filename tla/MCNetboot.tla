----------------------------- MODULE MCNetboot -----------------------------
EXTENDS Netboot
=============================================================================
