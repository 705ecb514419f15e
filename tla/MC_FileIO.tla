------------------------------ MODULE MC_FileIO ------------------------------
(* A two-page file at clusters 2 and 3 of a disk whose data region starts  *)
(* at sector 4 (sectors 0 .. 3 stand for the boot sector and the FAT).     *)
EXTENDS FileIO

MCLayout == <<2, 3>>
MCSyncArgs == {<<0, 1>>, <<1, 0>>}
=============================================================================
