------------------------------- MODULE MCArchive -------------------------------
(* An archive of two files, one at the frame rate and one at half of it.       *)
EXTENDS ArchiveReader

MCPeriod == <<2, 1>>
==============================================================================
