-------------------------------- MODULE MCPanel --------------------------------
(***************************************************************************)
(* Frames for Panel with lines of one visible character and buffers of     *)
(* three: a menu entry with its marker (29), longer than the line; the     *)
(* blank line the daemon sends, which no zero ends; a short text with old  *)
(* characters after its end; scrolling on; a brightness.                   *)
(***************************************************************************)
EXTENDS Panel

MCFrames == {<<16, 29, 65, 0>>,
             <<16, 32, 32, 32>>,
             <<17, 65, 0, 49>>,
             <<32, 1>>,
             <<48, 3>>}
=============================================================================
