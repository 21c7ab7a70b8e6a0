----------------------------- MODULE MCSimcList -----------------------------
(***************************************************************************)
(* Lists of up to six items of three kinds, a stack of two spares, and     *)
(* quicksort for three items or more.                                      *)
(***************************************************************************)
EXTENDS SimcList

MCOthers == {<<>>, <<1>>, <<3, 1>>, <<2, 1, 2>>}
=============================================================================
