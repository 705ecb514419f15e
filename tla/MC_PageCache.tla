---------------------------- MODULE MC_PageCache ----------------------------
(* A pool of four buffers (three usable, one for the bitmap), two open     *)
(* files and two page numbers: enough for two records in one list, for a   *)
(* full pool, and for the same page reserved twice.                        *)
EXTENDS PageCache, TLC

MCGfds == {"g1", "g2"}
MCPages == {0, 1}

=============================================================================
