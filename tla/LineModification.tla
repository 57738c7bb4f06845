-------------------------- MODULE LineModification --------------------------
(***************************************************************************)
(* Changes told by lines (src/src/line_modification.cc): which lines were  *)
(* taken out and put in since a timestamp, and what that does to a set of  *)
(* line ranges.  Lines count from zero, as in the code.                    *)
(***************************************************************************)
EXTENDS LineBuffer

Diff(m) == m.new_line - m.old_line + m.num_added - m.num_removed

(* make_line_modif: a change within a line takes it out and puts it back.   *)
MakeLineModif(change) ==
    LET lines == change.end[1] - change.begin[1]
        within == IF change.begin[2] # 0 \/ change.end[2] # 0 THEN 1 ELSE 0
    IN  [old_line |-> change.begin[1], new_line |-> change.begin[1],
         num_removed |-> within + IF change.type = "Erase" THEN lines ELSE 0,
         num_added |-> within + IF change.type = "Insert" THEN lines ELSE 0]

(* A modification takes in another, some of whose lines it had put in, or    *)
(* that it takes out again; or wrongly without regard for those.             *)
SwallowAll(m, other, removed_from_added) ==
    [m EXCEPT !.num_removed = @ + other.num_removed,
              !.num_added = @ + other.num_added]
Swallow(m, other, removed_from_added) ==
    [m EXCEPT !.num_removed = @ + other.num_removed - removed_from_added,
              !.num_added = @ + other.num_added - removed_from_added]

(* One change onto the modifications so far: joined with the one before it   *)
(* that it touches, or put in; an erasure swallows those it reaches; the     *)
(* lines after it move.                                                      *)
Touches(prev, change) == change.new_line <= prev.new_line + prev.num_added
AddChange(res, buf_change) ==
    LET change == MakeLineModif(buf_change)
        before == Cardinality({i \in DOMAIN res : res[i].new_line <= change.new_line})
        joins == before > 0 /\ Touches(res[before], change)
        clamped(v, low, high) == Max({low, Min({v, high})})
        pos == IF joins THEN before ELSE before + 1
        placed ==
            IF joins
            THEN LET prev == res[before]
                 IN  [res EXCEPT ![before] = Swallow(prev, change,
                        clamped(prev.new_line + prev.num_added - change.new_line,
                                0, Min({prev.num_added, change.num_removed})))]
            ELSE InsertAt(res, pos,
                          IF before = 0 THEN change
                          ELSE [change EXCEPT !.old_line = @ - Diff(res[before])])
        last == change.new_line + change.num_removed
        reached == IF buf_change.type = "Insert" THEN pos
                   ELSE Max({pos} \cup {i \in pos + 1 .. Len(placed) :
                                            placed[i].new_line <= last})
        swallow(m, it) == Swallow(m, it, Min({it.num_added, last - it.new_line}))
        by == (buf_change.end[1] - buf_change.begin[1])
                * IF buf_change.type = "Insert" THEN 1 ELSE -1
        rest == SubSeq(placed, reached + 1, Len(placed))
    IN  SubSeq(placed, 1, pos - 1)
            \o <<FoldLeft(swallow, placed[pos], SubSeq(placed, pos + 1, reached))>>
            \o [i \in DOMAIN rest |-> [rest[i] EXCEPT !.new_line = @ + by]]
ComputeLineModifications(changes) == FoldLeft(AddChange, <<>>, changes)

(* The last modification that begins at line or before it, or 0.             *)
LastBefore(modifs, line) ==
    Cardinality({i \in DOMAIN modifs : modifs[i].old_line <= line})
(* Where an untouched line went; -1 if it was taken out (or wrongly the line *)
(* after it too).  update_line_specs_ifn and update_changed_lines both do it.*)
MovedLineAfter(modifs, line) ==
    LET k == LastBefore(modifs, line)
    IN  IF k = 0 THEN line
        ELSE IF line <= modifs[k].old_line + modifs[k].num_removed THEN -1
        ELSE line + Diff(modifs[k])
MovedLine(modifs, line) ==
    LET k == LastBefore(modifs, line)
    IN  IF k = 0 THEN line
        ELSE IF line < modifs[k].old_line + modifs[k].num_removed THEN -1
        ELSE line + Diff(modifs[k])

-----------------------------------------------------------------------------
(* LineRangeSet: sorted ranges of lines, the end excluded. *)

LineRange(b, e) == [begin |-> b, end |-> e]
LinesIn(ranges) ==
    UNION {ranges[i].begin .. ranges[i].end - 1 : i \in DOMAIN ranges}

(* One modification onto a range, which it may cut in two; or wrongly it     *)
(* only moves the end, the lines put in within.                              *)
StretchRange(acc, m) ==
    [acc EXCEPT !.it.end = Max({acc.it.begin, @ + m.num_added - m.num_removed})]
UpdateRange(acc, m) ==
    LET it == acc.it
        cut == IF m.num_removed = 0 THEN it
               ELSE LET first == IF m.new_line < it.begin
                                 THEN Max({m.new_line, it.begin - m.num_removed})
                                 ELSE it.begin
                    IN  LineRange(first, Max({m.new_line, first, it.end - m.num_removed}))
    IN  IF m.num_added = 0 THEN [acc EXCEPT !.it = cut]
        ELSE IF cut.begin >= m.new_line
        THEN [acc EXCEPT !.it = LineRange(cut.begin + m.num_added,
                                          cut.end + m.num_added)]
        ELSE [done |-> Append(acc.done, LineRange(cut.begin, m.new_line)),
              it |-> LineRange(m.new_line + m.num_added, cut.end + m.num_added)]

UpdateLineRanges(ranges, modifs) ==
    LET moved(r, by) == LineRange(r.begin + by, r.end + by)
        one(r) ==
            LET first == 1 + Cardinality({i \in DOMAIN modifs :
                                modifs[i].old_line + modifs[i].num_removed < r.begin})
                done == FoldLeft(UpdateRange,
                          [done |-> <<>>,
                           it |-> moved(r, modifs[first].new_line - modifs[first].old_line)],
                          SubSeq(modifs, first, LastBefore(modifs, r.end)))
            IN  IF first > Len(modifs) THEN <<moved(r, Diff(Last(modifs)))>>
                ELSE Append(done.done, done.it)
    IN  IF modifs = <<>> THEN ranges
        ELSE SelectSeq(FlattenSeq([i \in DOMAIN ranges |-> one(ranges[i])]),
                       LAMBDA r : r.begin < r.end)

(* add_range: the ranges with this one, and the parts of it that are new.    *)
AddRange(ranges, range) ==
    LET first == 1 + Cardinality({i \in DOMAIN ranges : ranges[i].end < range.begin})
        gap(b, e) == IF b < e THEN <<LineRange(b, e)>> ELSE <<>>
        step(acc, r) ==
            IF r.begin > acc.range.end THEN [acc EXCEPT !.after = Append(@, r)]
            ELSE [acc EXCEPT
                    !.new = @ \o gap(acc.pos, r.begin),
                    !.range = LineRange(Min({acc.range.begin, r.begin}),
                                        Max({acc.range.end, r.end})),
                    !.pos = r.end]
        done == FoldLeft(step, [range |-> range, pos |-> range.begin,
                                new |-> <<>>, after |-> <<>>],
                         SubSeq(ranges, first, Len(ranges)))
    IN  [ranges |-> SubSeq(ranges, 1, first - 1) \o <<done.range>> \o done.after,
         new |-> done.new \o gap(done.pos, done.range.end)]

-----------------------------------------------------------------------------
(* What they should tell: where each line comes from.  A line is new, and    *)
(* comes from nowhere (-1), once a change touched it.                        *)
LineOrigins(n, changes) ==
    LET step(origins, change) ==
            LET m == MakeLineModif(change)
            IN  SubSeq(origins, 1, m.new_line)
                \o [i \in 1 .. m.num_added |-> -1]
                \o SubSeq(origins, m.new_line + m.num_removed + 1, Len(origins))
    IN  FoldLeft(step, [i \in 1 .. n |-> i - 1], changes)
=============================================================================
