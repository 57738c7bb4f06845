---------------------------- MODULE MCSelections ----------------------------
EXTENDS Selections
CONSTANTS a, b
MCChar == {a, b, EOL}
MCInserted == {<<b>>, <<EOL>>}
MCPasted == {<<b>>, <<EOL>>}
MCTexts == {<<<<a, EOL>>>>, <<<<a, EOL>>, <<a, EOL>>>>}

(* The last change is seen by short texts only. *)
Bound == \/ Len(m_changes) < MaxChanges
         \/ Len(Flat(lines_then)) <= 2 /\ Len(Flat(m_lines)) <= 4

(* The selections are described as they were set, one of them or two.        *)
Ends(ls) == Coords(ls) \ {EndCoord(ls)}
Facing(f, i) == IF i = 1 THEN Sel(f[1], f[2]) ELSE Sel(f[2], f[1])
Ranges(ls) == {f \in Ends(ls) \X Ends(ls) : AtOrBefore(f[1], f[2])}
SelectionLists(ls) ==
    LET apart(f, g) == IF MayOverlap
                       THEN ~SelPrecedes(Sel(g[1], g[2]), Sel(f[1], f[2]))
                       ELSE Precedes(f[2], g[1])
    IN  UNION {{[i \in 1 .. n |-> Facing(fs[i], i)] :
                    fs \in {gs \in [1 .. n -> Ranges(ls)] :
                            \A i \in 1 .. n - 1 : apart(gs[i], gs[i + 1])}} :
               n \in 1 .. MaxSelections}

MCInit ==
    /\ m_lines \in MCTexts /\ m_changes = <<>>
    /\ m_selections \in SelectionLists(m_lines)
    /\ m_main \in {Len(m_selections)} \cup IF LineCount(m_lines) = 1 THEN {1} ELSE {}
    /\ m_timestamp = 0 /\ lines_then = m_lines
    /\ outcome = Made("set", <<>>)

(* Every character that was inserted since the selections were set is        *)
(* selected once what was modified is (compute_modified_ranges).             *)
ModifiedIsSelected ==
    outcome.op = "modified" =>
        \A c \in Ends(m_lines) :
            m_lines[c[1] + 1][c[2] + 1] = b =>
                \E i \in DOMAIN m_selections : Covers(m_selections[i], At(c))

MCSpec == MCInit /\ [][Next /\ Bound']_vars
=============================================================================
