--------------------------- MODULE MCTelescopeHost ---------------------------
EXTENDS TelescopeHost
=============================================================================
