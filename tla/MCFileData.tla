----------------------------- MODULE MCFileData -----------------------------
(* Instances of FileData for TLC: blocks of three words.  A write of four words    *)
(* always crosses a block boundary; reads of three words move the offset into      *)
(* the middle of a file, to its end and behind it, where a write leaves a hole.    *)
EXTENDS FileProperties

FourWords == {<<1, 2, 3, 4>>}
Lengths   == {3}
Ends      == {0}
=============================================================================
