---------------------------- MODULE MCFifoBuffer ----------------------------
(* Two characters, one of which ends lines. *)
EXTENDS FifoBuffer

CONSTANT a

MCChar == {a, EOL}
MCAllScrolls == {"No", "NotInitially", "Yes"}
=============================================================================
