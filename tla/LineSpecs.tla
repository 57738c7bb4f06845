----------------------------- MODULE LineSpecs ------------------------------
(***************************************************************************)
(* An option of type line-specs: flags put on lines of the buffer by the   *)
(* user, which follow their lines (src/src/highlighters.cc,                *)
(* update_line_specs_ifn).  The code counts the lines of the option from   *)
(* one; here they are counted from zero, without the flags' text.          *)
(***************************************************************************)
EXTENDS LineModification

VARIABLES
    line_flags,         \* the list of the option
    flags_timestamp     \* its prefix

specVars == <<line_flags, flags_timestamp>>

(* set-option: on lines of the buffer as it is now. *)
InitSpecs(lines) ==
    /\ line_flags \in {Ordered(s, <) : s \in SUBSET (0 .. Len(lines) - 1)}
    /\ flags_timestamp = 0

MovedFlags ==
    LET modifs == ComputeLineModifications(
                    SubSeq(m_changes, flags_timestamp + 1, Len(m_changes)))
        moved == [i \in DOMAIN line_flags |-> MovedLine(modifs, line_flags[i])]
    IN  SelectSeq(moved, LAMBDA l : l # -1)

UpdateLineSpecs ==
    /\ flags_timestamp # Len(m_changes)
    /\ line_flags' = MovedFlags
    /\ flags_timestamp' = Len(m_changes)
=============================================================================
