------------------------------- MODULE MCFiles -------------------------------
(* Two small files and two open files for Files.                             *)
EXTENDS Files

MCArchive == <<4, 6>>
=============================================================================
