--------------------------- MODULE MCSpoolArchive ---------------------------
EXTENDS SpoolArchive
=============================================================================
