------------------------------ MODULE MCDerpFs --------------------------------
(* One index block with two sectors for files, two bytes to a sector.         *)
EXTENDS DerpFs

MCNames   == {11, 12}
MCBytes   == {1, 2}
MCStrings == {<<1, 2>>}
MCOffsets == {0, 1, 2, 7}
=============================================================================
