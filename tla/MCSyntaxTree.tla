---------------------------- MODULE MCSyntaxTree ----------------------------
(* The syntax tree of a buffer with a few changes. *)
EXTENDS SyntaxTree
=============================================================================
