----------------------------- MODULE MCSysCtl30 -----------------------------
EXTENDS SysCtl30
=============================================================================
