------------------------- MODULE MCForegroundSession -------------------------
EXTENDS ForegroundSession
=============================================================================
