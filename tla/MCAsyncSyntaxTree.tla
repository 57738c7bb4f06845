-------------------------- MODULE MCAsyncSyntaxTree --------------------------
(* The background parser with a few changes of the buffer. *)
EXTENDS AsyncSyntaxTree
=============================================================================
