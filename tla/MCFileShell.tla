----------------------------- MODULE MCFileShell ------------------------------
(* One index block with two sectors for files, one byte to a sector.          *)
EXTENDS FileShell

MCNames == {11, 12}
MCBytes == {1}
=============================================================================
