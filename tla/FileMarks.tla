------------------------------ MODULE FileMarks ------------------------------
(***************************************************************************)
(* What a path holds when it holds no whole file: nothing, or the part of  *)
(* a write that was cut off.                                               *)
(***************************************************************************)
CONSTANTS Nil, Torn
=============================================================================
