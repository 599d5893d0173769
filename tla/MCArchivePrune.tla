--------------------------- MODULE MCArchivePrune ---------------------------
EXTENDS ArchivePrune
=============================================================================
