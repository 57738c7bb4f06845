----------------------------- MODULE LineBuffer -----------------------------
(***************************************************************************)
(* The text of a buffer as the code keeps it: a vector of lines, each      *)
(* ended by EOL, addressed by {line, column}, and the log of the changes   *)
(* made to it, whose length is the timestamp (src/src/buffer.cc, do_insert *)
(* and do_erase, insert, erase, replace; buffer.inl.hh).  The undo groups  *)
(* are in Buffer, which sees the same text as one sequence of characters.  *)
(*                                                                         *)
(* A coordinate is the pair <<line, column>>, both counted from zero.      *)
(***************************************************************************)
EXTENDS BufferText, Integers, SequencesExt

CONSTANTS
    Inserted,       \* the strings inserted
    MaxLineText,    \* bound on the number of characters of the text
    MaxChanges      \* bound on the timestamp

ASSUME LineAssumption ==
    /\ Inserted \subseteq Text \ {<<>>}
    /\ MaxLineText \in Nat /\ MaxChanges \in Nat

VARIABLES
    m_lines,
    m_changes

lineVars == <<m_lines, m_changes>>

-----------------------------------------------------------------------------
(* SetToSortSeq for a total order, without a search through all sequences.   *)
Ordered(S, Before(_, _)) ==
    [i \in 1 .. Cardinality(S) |->
        CHOOSE x \in S : Cardinality({y \in S : Before(y, x)}) = i - 1]

(* Coordinates. *)

Precedes(c, d) == c[1] < d[1] \/ (c[1] = d[1] /\ c[2] < d[2])
AtOrBefore(c, d) == c = d \/ Precedes(c, d)
MinCoord(c, d) == IF AtOrBefore(c, d) THEN c ELSE d
MaxCoord(c, d) == IF AtOrBefore(c, d) THEN d ELSE c

LineLength(ls, l) == Len(ls[l + 1])
LineCount(ls) == Len(ls)
EndCoord(ls) == <<LineCount(ls), 0>>
BackCoord(ls) == <<LineCount(ls) - 1, LineLength(ls, LineCount(ls) - 1) - 1>>
IsEnd(ls, c) == AtOrBefore(EndCoord(ls), c)
IsValid(ls, c) ==
    \/ c = EndCoord(ls)
    \/ c[1] \in 0 .. LineCount(ls) - 1 /\ c[2] \in 0 .. LineLength(ls, c[1]) - 1

CharNext(ls, c) ==
    IF c[2] < LineLength(ls, c[1]) - 1 THEN <<c[1], c[2] + 1>>
    ELSE <<c[1] + 1, 0>>
CharPrev(ls, c) ==
    IF c[2] = 0 THEN <<c[1] - 1, LineLength(ls, c[1] - 1) - 1>>
    ELSE <<c[1], c[2] - 1>>

Clamp(ls, coord) ==
    LET c == MinCoord(coord, BackCoord(ls))
        last == LineLength(ls, c[1]) - 1
    IN  <<c[1], IF c[2] < 0 THEN 0 ELSE IF c[2] > last THEN last ELSE c[2]>>

(* The flat view: what BufferText speaks of.                                *)
Flat(ls) == FlattenSeq(ls)
Offset(ls, c) == Len(Flat(SubSeq(ls, 1, c[1]))) + c[2]

Coords(ls) == {c \in (0 .. LineCount(ls)) \X (0 .. MaxLineText) : IsValid(ls, c)}

-----------------------------------------------------------------------------
(* do_insert and do_erase. *)

Change(t, b, e) == [type |-> t, begin |-> b, end |-> e]

(* What a call leaves behind: lines, changes appended, the range it returns. *)
Nothing(ls, b, e) == [lines |-> ls, changes |-> <<>>, begin |-> b, end |-> e]
Changed(ls, t, b, e, range_end) ==
    [lines |-> ls, changes |-> <<Change(t, b, e)>>,
     begin |-> b, end |-> range_end]

(* The lines that content makes between prefix and suffix. *)
EolPositions(s) == Ordered({i \in 1 .. Len(s) : s[i] = EOL}, <)
NewLines(prefix, content, suffix) ==
    LET eols == EolPositions(content)
        start(k) == IF k = 1 THEN 1 ELSE eols[k - 1] + 1
        ended == [k \in 1 .. Len(eols) |->
                    (IF k = 1 THEN prefix ELSE <<>>)
                        \o SubSeq(content, start(k), eols[k])]
        rest == SubSeq(content, start(Len(eols) + 1), Len(content)) \o suffix
    IN  IF eols = <<>> THEN <<prefix \o rest>>
        ELSE IF rest # <<>> THEN Append(ended, rest) ELSE ended

(* pos is in ls, or its end; line is the one it is in.                      *)
WithLines(ls, pos, new) ==
    SubSeq(ls, 1, pos[1]) \o new \o SubSeq(ls, pos[1] + 2, Len(ls))
InsertEnd(ls, pos, lines, suffix) ==
    LET last == pos[1] + LineCount(lines) - LineCount(ls)
    IN  IF IsEnd(ls, pos) THEN EndCoord(lines)
        ELSE <<last, LineLength(lines, last) - Len(suffix)>>
InsertedInto(ls, pos, lines, suffix) ==
    LET end == InsertEnd(ls, pos, lines, suffix)
    IN  Changed(lines, "Insert", pos, end, end)
InsertInLine(ls, pos, content, line) ==
    LET suffix == SubSeq(line, pos[2] + 1, Len(line))
    IN  InsertedInto(ls, pos,
            WithLines(ls, pos, NewLines(SubSeq(line, 1, pos[2]), content, suffix)), suffix)
DoInsert(ls, pos, content) ==
    InsertInLine(ls, pos, content, IF IsEnd(ls, pos) THEN <<>> ELSE ls[pos[1] + 1])

DoErase(ls, begin, end) ==
    LET prefix == IF begin[1] = LineCount(ls) THEN <<>>
                  ELSE SubSeq(ls[begin[1] + 1], 1, begin[2])
        suffix == IF end[1] = LineCount(ls) THEN <<>>
                  ELSE SubSeq(ls[end[1] + 1], end[2] + 1, LineLength(ls, end[1]))
        joined == IF prefix \o suffix = <<>> THEN <<>> ELSE <<prefix \o suffix>>
    IN  Changed(SubSeq(ls, 1, begin[1]) \o joined
                    \o SubSeq(ls, end[1] + 2, LineCount(ls)),
                "Erase", begin, end, begin)

-----------------------------------------------------------------------------
(* The calls on a buffer. *)

Insert(ls, pos, content) ==
    IF content = <<>> THEN Nothing(ls, pos, pos)
    ELSE DoInsert(ls, pos, IF IsEnd(ls, pos) /\ Last(content) # EOL
                           THEN Append(content, EOL) ELSE content)

(* The last EOL stays, except when whole lines are erased; or wrongly never. *)
EndAsGiven(ls, begin, end) == end
NormalizedEnd(ls, begin, end) ==
    IF ~IsEnd(ls, end) THEN end
    ELSE IF begin[2] # 0 \/ begin = <<0, 0>> THEN BackCoord(ls)
    ELSE EndCoord(ls)
Erase(ls, begin, end) ==
    LET e == NormalizedEnd(ls, begin, end)
    IN  IF AtOrBefore(e, begin) THEN Nothing(ls, begin, begin)
        ELSE DoErase(ls, begin, e)

Then(first, second) ==
    [second EXCEPT !.changes = first.changes \o second.changes]
InsertAfter(erased, content) ==
    Then(erased, Insert(erased.lines, erased.begin, content))

Content(ls, begin, end) ==
    SubSeq(Flat(ls), Offset(ls, begin) + 1, Offset(ls, end))
UpToTheEnd(result) == [result EXCEPT !.end = EndCoord(result.lines)]
Replace(ls, begin, end, content) ==
    IF Content(ls, begin, end) = content THEN Nothing(ls, begin, end)
    ELSE IF IsEnd(ls, end) /\ content # <<>> /\ Last(content) = EOL
    THEN UpToTheEnd(InsertAfter(Erase(ls, begin, BackCoord(ls)), Front(content)))
    ELSE InsertAfter(Erase(ls, begin, end), content)

Take(result) ==
    /\ m_lines' = result.lines
    /\ m_changes' = m_changes \o result.changes

Fit(result) ==
    /\ Len(Flat(result.lines)) <= MaxLineText
    /\ Len(m_changes \o result.changes) <= MaxChanges
    /\ result.changes # <<>>

TakeIfFit(result) == Fit(result) /\ Take(result)

(* An edit made by someone else than who follows the buffer here. *)
EditInsert ==
    \E pos \in Coords(m_lines), s \in Inserted :
        TakeIfFit(Insert(m_lines, pos, s))
EditErase ==
    \E begin, end \in Coords(m_lines) :
        TakeIfFit(Erase(m_lines, begin, end))
EditReplace ==
    \E begin, end \in Coords(m_lines), s \in Inserted :
        /\ Precedes(begin, end)
        /\ TakeIfFit(Replace(m_lines, begin, end, s))

-----------------------------------------------------------------------------
(* The lines against the text as one sequence. *)

(* Buffer::check_invariant, and no EOL but the one that ends the line.       *)
EachLineEnds ==
    /\ m_lines # <<>>
    /\ \A i \in DOMAIN m_lines :
            /\ m_lines[i] # <<>>
            /\ \A j \in DOMAIN m_lines[i] :
                    m_lines[i][j] = EOL <=> j = Len(m_lines[i])

(* What insert and erase do to the vector of lines is what they do to the    *)
(* text as one sequence, the rules for its end included.                     *)
LinesAreTheText ==
    /\ EachLineEnds
    /\ LET flat == Flat(m_lines)
           off(c) == Offset(m_lines, c)
       IN  \A c \in Coords(m_lines) :
        /\ \A s \in Inserted :
            Flat(Insert(m_lines, c, s).lines) = Apply(InsertionAt(flat, off(c), s), flat)
        /\ \A d \in Coords(m_lines) : Precedes(c, d) =>
            LET end == EraseEnd(flat, off(c), off(d))
            IN  Flat(Erase(m_lines, c, d).lines) =
                    Splice(flat, off(c), Max({0, end - off(c)}), <<>>)

(* A buffer and the calls that edit it, none of its followers. *)
InitLines == m_lines \in Seq(Text) /\ EachLineEnds /\ m_changes = <<>>
LineSpec == InitLines /\ [][EditInsert \/ EditErase \/ EditReplace]_lineVars
=============================================================================
