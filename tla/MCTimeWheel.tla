---------------------------- MODULE MCTimeWheel ----------------------------
(***************************************************************************)
(* TLC instances of TimeWheel.                                             *)
(***************************************************************************)
EXTENDS TimeWheel

\* Repeat counts (-1: for ever).
Mixed == {-1, 1, 2}
=============================================================================
