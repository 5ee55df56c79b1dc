------------------------------- MODULE MCWFS --------------------------------
(* Four inodes, four blocks, one entry a block, two direct pointers.  The  *)
(* names are what the image of 32 inodes and 32 blocks, the smallest that  *)
(* mkfs makes, spells: its i_blocks_ptr, 56, is the character 8 where      *)
(* entry 1 of the superblock would be, and the pointers to its blocks      *)
(* start with that byte too.  File data 2 spells b.                        *)
EXTENDS WFS

TwoNames == {"a", "b"}
ThreeNames == TwoNames \cup {"8"}
RootPaths == {<<x>> : x \in ThreeNames} \cup {<<"a", x>> : x \in TwoNames}

SuperblockName(d, j) == IF j = 1 THEN "8" ELSE ""
SpelledName(x, j) == IF x.data = 2 THEN "b" ELSE IF x.ptr[0] # 0 THEN "8" ELSE ""
=============================================================================
