------------------------------ MODULE MCBuffer ------------------------------
(***************************************************************************)
(* A small buffer: one character besides the end of line.  Texts and groups *)
(* are long while the history is short, and the history long while they    *)
(* are short.                                                              *)
(***************************************************************************)
EXTENDS Buffer

CONSTANT a

MCChar == {a, EOL}
MCContents == {<<a>>, <<EOL>>}
MCOneContent == {<<a>>}
MCNoFile == {}
MCFileTexts == {<<a, EOL>>, <<EOL, a, EOL>>}

Short(group) == Len(group) <= 1 /\ \A i \in DOMAIN group : group[i].content = <<a>>
MCBound ==
    \/ Len(m_history) <= 2
    \/ /\ Len(text) <= 2 /\ Short(m_current_undo_group)
       /\ \A id \in DOMAIN m_history : Short(m_history[id].undo_group)
MCSpec == Init /\ [][Next /\ MCBound']_vars
=============================================================================
