---------------------------- MODULE MC_FatVolume ----------------------------
(* Images for FatVolume: the root directory in cluster 2 and one file "a"  *)
(* whose chain is 3 -> 4; "b" and "c" can be created.                      *)
EXTENDS FatVolume, TLC

MCFiles == {"a", "b", "c"}

\* the image's file and one more, for runs with device failures
MCFilesTwo == {"a", "b"}
MCImage == << [file |-> "a", chain |-> <<3, 4>>] >>

\* a root directory of three slots, all used: "c" sits in the last slot,
\* the one fat_fs_find_empty_entry never offers
MCImageFull == << [file |-> "a", chain |-> <<3, 4>>],
                  [file |-> "b", chain |-> <<5>>],
                  [file |-> "c", chain |-> <<6>>] >>

=============================================================================
