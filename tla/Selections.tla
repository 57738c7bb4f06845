----------------------------- MODULE Selections -----------------------------
(***************************************************************************)
(* The selections of a context (src/src/selection.cc, selection.hh): what  *)
(* others change in the buffer is caught up with by update(), edits made   *)
(* through the selections move those that come after, and what an undo     *)
(* changed becomes the selections.                                         *)
(*                                                                         *)
(* Each call is an action.  The captures and the target column of a        *)
(* selection are left out; the main index is counted from one.             *)
(***************************************************************************)
EXTENDS Changes

CONSTANTS
    Pasted,          \* the strings pasted or inserted through selections
    MaxSelections,   \* bound on the number of selections
    MayOverlap       \* may the selections overlap when they are set?

ASSUME SelectionsAssumption ==
    /\ Pasted \subseteq Text \ {<<>>}
    /\ MaxSelections \in Nat \ {0} /\ MayOverlap \in BOOLEAN

VARIABLES
    m_selections,
    m_main,
    m_timestamp,
    lines_then,  \* not in the code: the lines when m_timestamp was taken
    outcome      \* not in the code: the call just made through the selections

vars == <<m_lines, m_changes, m_selections, m_main, m_timestamp, lines_then,
          outcome>>

Sel(anchor, cursor) == [anchor |-> anchor, cursor |-> cursor]
At(c) == Sel(c, c)

ChangesSince(timestamp) == SubSeq(m_changes, timestamp + 1, Len(m_changes))

-----------------------------------------------------------------------------
(* Sorting and merging. *)

(* compare_selections, and its negation the other way round. *)
SelPrecedes(s, t) ==
    \/ Precedes(First(s), First(t))
    \/ First(s) = First(t) /\ Precedes(Final(s), Final(t))
InOrder(s, t) == ~SelPrecedes(t, s)

Overlaps(s, t) ==
    IF AtOrBefore(First(s), First(t)) THEN AtOrBefore(First(t), Final(s))
    ELSE AtOrBefore(First(s), Final(t))

(* stable_sort: the positions in the order of what is there. *)
Sorted(sels) ==
    LET before(i, j) == \/ SelPrecedes(sels[i], sels[j])
                        \/ ~SelPrecedes(sels[j], sels[i]) /\ i < j
        order == Ordered(DOMAIN sels, before)
    IN  [i \in DOMAIN sels |-> sels[order[i]]]
SortedMain(sels, main) ==
    1 + Cardinality({i \in DOMAIN sels :
            \/ Precedes(First(sels[i]), First(sels[main]))
            \/ First(sels[i]) = First(sels[main]) /\ i < main})

(* merge_overlapping, which puts s after the others or, when it meets the    *)
(* last of them, into it; or wrongly with a main index that stays.           *)
Joined(sels, s) == Append(Front(sels), Range2(MinCoord(First(Last(sels)), First(s)),
                                              MaxCoord(Final(Last(sels)), Final(s)), Last(sels)))
MergeMainKept(acc, s, meets) ==
    [acc EXCEPT !.sels = IF meets THEN Joined(@, s) ELSE Append(@, s)]
Merge(acc, s, meets) ==
    IF meets THEN [sels |-> Joined(acc.sels, s),
                   main |-> IF Len(acc.sels) < acc.main THEN acc.main - 1 ELSE acc.main]
    ELSE [acc EXCEPT !.sels = Append(@, s)]
Merged(sels, main) ==
    LET step(acc, s) == Merge(acc, s, Overlaps(Last(acc.sels), s))
    IN  FoldLeft(step, [sels |-> <<sels[1]>>, main |-> main], Tail(sels))

ClampSel(ls, s) == Sel(Clamp(ls, s.anchor), Clamp(ls, s.cursor))
ClampAll(ls, sels) == [i \in DOMAIN sels |-> ClampSel(ls, sels[i])]

(* update_selections: merged after each run of changes and in the end; or    *)
(* wrongly only after the runs.                                              *)
MergedIf(merge, acc) ==
    IF merge THEN Merged(acc.sels, acc.main) ELSE acc
ClampedOnly(ls, acc, merge) == [acc EXCEPT !.sels = ClampAll(ls, acc.sels)]
ClampedAndMerged(ls, acc, merge) == MergedIf(merge, ClampedOnly(ls, acc, merge))
Updated(ls, sels, main, changes, merge) ==
    LET runs == Runs(changes)
        after[k \in 0 .. Len(runs)] ==
            IF k = 0 THEN [sels |-> sels, main |-> main]
            ELSE MergedIf(merge, [after[k - 1] EXCEPT !.sels = UpdateByRun(runs[k], @)])
    IN  IF changes = <<>> THEN after[0] ELSE ClampedAndMerged(ls, after[Len(runs)], merge)

-----------------------------------------------------------------------------
(* What an undo changed: compute_modified_ranges. *)

(* The ranges of a run, once the whole of it was made; or wrongly each as it *)
(* was made.                                                                 *)
RangesAsMade(run) ==
    [i \in DOMAIN run |->
        IF run[i].type = "Insert" THEN Sel(run[i].begin, run[i].end)
        ELSE At(run[i].begin)]
RangesOf(run) ==
    RangesAsMade(IF ForwardSortedUntil(run) >= BackwardSortedUntil(run) THEN run
                 ELSE AsForward(run))

MergeAll(sels) == IF sels = <<>> THEN sels ELSE Merged(sels, 1).sels
ModifiedBy(run, ranges) ==
    MergeAll(Sorted(MergeAll(UpdateByRun(run, ranges)) \o RangesOf(run)))
InTextSel(end, s) == Sel(MinCoord(s.anchor, end), MinCoord(s.cursor, end))
RangesIn(ls, changes) ==
    LET runs == Runs(changes)
        after[k \in 0 .. Len(runs)] ==
            IF k = 0 THEN <<>> ELSE ModifiedBy(runs[k], after[k - 1])
        bounded(ranges) ==
            [i \in DOMAIN ranges |-> InTextSel(EndCoord(ls), ranges[i])]
    IN  bounded(after[Len(runs)])

(* Ranges that touch become one, and the end of a range is not part of it.  *)
Touches(ls, s, t) ==
    Final(s) = EndCoord(ls) \/ AtOrBefore(First(t), CharNext(ls, Final(s)))
MergeTouching(ls, ranges) ==
    LET step(sels, s) == IF Touches(ls, Last(sels), s) THEN Joined(sels, s)
                         ELSE Append(sels, s)
    IN  FoldLeft(step, SubSeq(ranges, 1, 1), Tail(ranges))
UpTo(ls, anchor, end) ==
    Sel(anchor, IF anchor = end THEN end ELSE CharPrev(ls, end))
WithoutEnd(ls, ranges) ==
    LET notEnd(c) == IF IsEnd(ls, c) THEN BackCoord(ls) ELSE c
    IN  [i \in DOMAIN ranges |->
            UpTo(ls, notEnd(ranges[i].anchor), notEnd(ranges[i].cursor))]
ModifiedFrom(ls, ranges) ==
    IF ranges = <<>> THEN <<>> ELSE WithoutEnd(ls, MergeTouching(ls, ranges))
ModifiedRanges(ls, changes) == ModifiedFrom(ls, RangesIn(ls, changes))

-----------------------------------------------------------------------------
(* Edits through one selection: the buffer's, and where it leaves the        *)
(* selection.  last is what the previous one pasted ends with.               *)

SelectThrough(ls, s, r) == Range2(r.begin, r.end, s)    \* or wrongly to range.end
SelectRange(ls, s, r) ==    \* min = range.begin, max = char before range.end
    Range2(r.begin,
           IF Precedes(r.begin, r.end) THEN CharPrev(ls, r.end) ELSE r.begin, s)

Selecting(s, r) == [result |-> r, sel |-> SelectRange(r.lines, s, r)]
ReplaceSel(ls, s, content, last) ==
    Selecting(s, Replace(ls, First(s), CharNext(ls, Final(s)), content))

(* update_insert: a coordinate through an insertion. *)
MoveByInsert(c, begin, end) ==
    IF Precedes(c, begin) THEN c
    ELSE <<c[1] + end[1] - begin[1],
           IF c[1] = begin[1] THEN c[2] + end[2] - begin[2] ELSE c[2]>>
MovedBy(s, r) ==
    LET moved(c) == Clamp(r.lines, MoveByInsert(c, r.begin, r.end))
    IN  [result |-> r, sel |-> Sel(moved(s.anchor), moved(s.cursor))]
InsertAtCursor(ls, s, content, last) == MovedBy(s, Insert(ls, s.cursor, content))

Linewise(content) == Last(content) = EOL
PasteAt(ls, s, content, pos) == Selecting(s, Insert(ls, pos, content))
PasteBefore(ls, s, content, last) ==
    PasteAt(ls, s, content,
            IF Linewise(content) THEN <<First(s)[1], 0>> ELSE First(s))
AfterCoord(ls, c, content) ==
    IF IsEnd(ls, c) THEN c
    ELSE IF Linewise(content) THEN <<c[1] + 1, 0>>
    ELSE CharNext(ls, c)

(* After the selection and what was pasted for the previous one. *)
PasteAfter(ls, s, content, last) ==
    PasteAt(ls, s, content, AfterCoord(ls, MaxCoord(Final(s), last), content))

Edits == {"replace", "insert", "before", "after"}
EditSel(kind, ls, s, content, last) ==
    CASE kind = "replace" -> ReplaceSel(ls, s, content, last)
      [] kind = "insert" -> InsertAtCursor(ls, s, content, last)
      [] kind = "before" -> PasteBefore(ls, s, content, last)
      [] kind = "after" -> PasteAfter(ls, s, content, last)

(* fix_overflowing_selections; or wrongly not. *)
FixNot(ls, sels) == sels
FixOverflowing(ls, sels) == ClampAll(ls, sels)

(* for_each: each selection is moved by the edits made through those before  *)
(* it.  m_timestamp follows, except when selections that overlap are         *)
(* appended to.                                                              *)
AnyOverlap(sels) == \E i \in 1 .. Len(sels) - 1 : Overlaps(sels[i], sels[i + 1])

MoveSel(t, s) == Sel(NewCoordTolerant(t, s.anchor), NewCoordTolerant(t, s.cursor))
MoveApart(t, s) == Sel(NewCoord(t, s.anchor), NewCoord(t, s.cursor))
MovedThrough(appending, changes, s) ==
    IF ~appending THEN MoveSel(TrackerAfter(changes), s)
    ELSE UpdateByRuns(changes, <<s>>)[1]
Edited(acc, result, sel) ==
    [lines |-> result.lines, changes |-> acc.changes \o result.changes,
     sels |-> Append(acc.sels, sel), last |-> Final(sel)]
Unedited(ls) == [lines |-> ls, changes |-> <<>>, sels |-> <<>>, last |-> <<0, 0>>]
InTheText(done) == [done EXCEPT !.sels = FixOverflowing(done.lines, @)]

ForEach(kind, ls, sels, content) ==
    LET appending == kind = "after" /\ AnyOverlap(sels)
        through(acc, e) == Edited(acc, e.result, e.sel)
        step(acc, s) == through(acc, EditSel(kind, acc.lines,
                            MovedThrough(appending, acc.changes, s), content, acc.last))
    IN  InTheText(FoldLeft(step, Unedited(ls), sels)) @@ [timestamped |-> ~appending]

EraseEach(ls, sels) ==
    LET through(acc, r) == Edited(acc, r, At(r.begin))
        without(acc, s) == through(acc, Erase(acc.lines, First(s), CharNext(acc.lines, Final(s))))
        step(acc, s) == without(acc, MoveApart(TrackerAfter(acc.changes), s))
    IN  InTheText(FoldLeft(step, Unedited(ls), sels)) @@ [timestamped |-> TRUE]

-----------------------------------------------------------------------------
(* The calls. *)

Made(op, content) == [op |-> op, content |-> content]

Now(merge) ==
    Updated(m_lines, m_selections, m_main, ChangesSince(m_timestamp), merge)

Keep(sels, main, timestamp, op, content) ==
    /\ m_selections' = sels
    /\ m_main' = main
    /\ m_timestamp' = timestamp
    /\ lines_then' = IF timestamp = Len(m_changes') THEN m_lines' ELSE m_lines
    /\ outcome' = Made(op, content)

(* An edit made through another context, or by a hook. *)
Others ==
    /\ EditInsert \/ EditErase
    /\ outcome' = Made("edit", <<>>)
    /\ UNCHANGED <<m_selections, m_main, m_timestamp, lines_then>>

(* SelectionList::update *)
KeepUpdated(now, op) ==
    /\ UNCHANGED lineVars
    /\ Keep(now.sels, now.main, Len(m_changes), op, <<>>)
Update(now) == m_timestamp < Len(m_changes) /\ KeepUpdated(now, "update")

(* replace and the pastes of normal mode, the insertions of insert mode. *)
TakeEdit(e, main, op, content) ==
    /\ TakeIfFit(e)
    /\ Keep(e.sels, main, IF e.timestamped THEN Len(m_changes') ELSE Len(m_changes), op, content)
EditThrough(kind, content, now) ==
    /\ \/ kind = "insert"
       \/ kind = "after" /\ MayOverlap
       \/ ~AnyOverlap(now.sels)
    /\ TakeEdit(ForEach(kind, m_lines, now.sels, content), now.main, kind, content)

(* SelectionList::erase *)
EraseMerged(merged) ==
    TakeEdit(EraseEach(m_lines, merged.sels), merged.main, "erase", <<>>)
EraseThrough(now) == EraseMerged(Merged(now.sels, now.main))

(* SelectionList::update(false); or wrongly as update(). *)
UpdatedMerged(ls, sels, main, changes) == Updated(ls, sels, main, changes, TRUE)
UpdatedUnmerged(ls, sels, main, changes) == Updated(ls, sels, main, changes, FALSE)

(* Backspace in insert mode: a list made of the characters before the        *)
(* cursors is erased, then the selections follow, without merging.  The list *)
(* is in order, as merge_overlapping asserts.                                *)
Backspaced(e, after) ==
    /\ TakeIfFit(e)
    /\ Keep(after.sels, after.main, Len(m_changes'), "backspace", <<>>)
BackspaceAt(now, list) ==
    /\ list # <<>> /\ \A i \in 1 .. Len(list) - 1 : InOrder(list[i], list[i + 1])
    /\ \E e \in {EraseEach(m_lines, Merged(list, Len(list)).sels)} :
            Backspaced(e, UpdatedUnmerged(e.lines, now.sels, now.main, e.changes))
Backspace(now) ==
    LET cursors == SelectSeq([i \in DOMAIN now.sels |-> now.sels[i].cursor],
                             LAMBDA c : c # <<0, 0>>)
    IN  BackspaceAt(now, [i \in DOMAIN cursors |-> At(CharPrev(m_lines, cursors[i]))])

(* undo, redo and move_in_history of normal.cc, the changes made being those *)
(* since the selections were set.                                            *)
SelectRanges(ranges) ==
    /\ ranges # <<>>
    /\ UNCHANGED lineVars
    /\ Keep(Sorted(ranges), Len(ranges), Len(m_changes), "modified", <<>>)
SelectModified ==
    /\ m_timestamp = 0 /\ m_changes # <<>>
    /\ SelectRanges(ModifiedRanges(m_lines, m_changes))

(* selection_list_from_strings: select -timestamp, z.  What was described    *)
(* then, in any order, is sorted, merged, and follows the text.              *)
RestoreMerged(merged) ==
    KeepUpdated(Updated(m_lines, merged.sels, merged.main, ChangesSince(m_timestamp), TRUE),
                "restore")
RestoreDescribed(described) ==
    RestoreMerged(Merged(Sorted(described), SortedMain(described, 1)))
Restore ==
    /\ m_timestamp = 0 /\ m_changes # <<>> /\ Len(m_selections) = 1
    /\ \E c \in Coords(lines_then) :
            RestoreDescribed(<<Sel(c, m_selections[1].anchor), m_selections[1]>>)

(* The keys that look at the selections, which are updated first.            *)
ByKey(now) ==
    \/ Update(now)
    \/ \E kind \in Edits, s \in Pasted : EditThrough(kind, s, now)
    \/ EraseThrough(now)
    \/ Backspace(now)

Next ==
    \/ Others
    \/ \E now \in {Now(TRUE)} : ByKey(now)
    \/ SelectModified
    \/ Restore

-----------------------------------------------------------------------------
(* What the selections should be: each change in turn, as the comment in     *)
(* selection.cc has it.                                                      *)

MoveByErase(c, begin, end) ==
    IF Precedes(c, begin) THEN c
    ELSE IF AtOrBefore(c, end) THEN begin
    ELSE <<c[1] - (end[1] - begin[1]),
           IF c[1] = end[1] THEN c[2] - (end[2] - begin[2]) ELSE c[2]>>
MoveBy(c, change) ==
    IF change.type = "Insert" THEN MoveByInsert(c, change.begin, change.end)
    ELSE MoveByErase(c, change.begin, change.end)
MoveAlong(c, changes) == FoldLeft(MoveBy, c, changes)

Survives(c, changes) ==
    \A k \in DOMAIN changes :
        LET d == MoveAlong(c, SubSeq(changes, 1, k - 1))
        IN  ~(/\ changes[k].type = "Erase"
              /\ AtOrBefore(changes[k].begin, d) /\ Precedes(d, changes[k].end))

(* c, a coordinate of before the changes, may be at d in ls now: it is where *)
(* its character is, or, if that was erased, between those that surround it. *)
MayMoveTo(before, c, changes, ls, d) ==
    LET now(e) == Clamp(ls, MoveAlong(e, changes))
    IN  IF Survives(c, changes) THEN d = now(c)
        ELSE \A e \in Coords(before) : Survives(e, changes) =>
                /\ Precedes(e, c) => AtOrBefore(now(e), d)
                /\ Precedes(c, e) => AtOrBefore(d, now(e))
MayMoveSel(before, s, changes, ls, t) ==
    /\ MayMoveTo(before, First(s), changes, ls, First(t))
    /\ MayMoveTo(before, Final(s), changes, ls, Final(t))

Covers(s, t) == AtOrBefore(First(s), First(t)) /\ AtOrBefore(Final(t), Final(s))
Extents(sels) == [i \in DOMAIN sels |-> <<First(sels[i]), Final(sels[i])>>]

-----------------------------------------------------------------------------
(* Lines are neither empty nor without an end, and nothing follows the end   *)
(* (Buffer::check_invariant); the rest are the types.                        *)
TypeOK ==
    /\ \A i \in DOMAIN m_lines :
            /\ m_lines[i] # <<>>
            /\ \A j \in DOMAIN m_lines[i] :
                    m_lines[i][j] = EOL <=> j = Len(m_lines[i])
    /\ \A k \in DOMAIN m_changes :
            /\ m_changes[k].type \in {"Insert", "Erase"}
            /\ Precedes(m_changes[k].begin, m_changes[k].end)
    /\ m_timestamp \in 0 .. Len(m_changes)

(* SelectionList::check_invariant: whatever calls led here, the selections   *)
(* that are up to date are in order, each with both ends on a character.     *)
CheckInvariant ==
    /\ TypeOK
    /\ m_main \in DOMAIN m_selections
    /\ m_timestamp = Len(m_changes) =>
            \A i \in DOMAIN m_selections :
                LET s == m_selections[i]
                IN  /\ {s.anchor, s.cursor} \subseteq
                            Coords(m_lines) \ {EndCoord(m_lines)}
                    /\ i > 1 => AtOrBefore(First(m_selections[i - 1]), First(s))

(* Each selection is what was pasted or replaced through it, or that and the *)
(* end of line that the end of the buffer was given for it.                  *)
EditedIsSelected ==
    outcome.op \in {"replace", "before", "after"} =>
        \A i \in DOMAIN m_selections :
            LET s == m_selections[i]
            IN  Content(m_lines, First(s), CharNext(m_lines, Final(s)))
                    \in {outcome.content, Append(outcome.content, EOL)}

(* ForwardChangesTracker::update asserts that each change made through the   *)
(* selections begins where the last one ended, or after it.                  *)
EditsGoForward ==
    [][outcome'.op \in Edits \cup {"erase", "backspace"} =>
        LET made == SubSeq(m_changes', Len(m_changes) + 1, Len(m_changes'))
        IN  \A k \in 2 .. Len(made) :
                AtOrBefore(IF made[k - 1].type = "Insert" THEN made[k - 1].end
                           ELSE made[k - 1].begin, made[k].begin)]_vars

(* Moved by whole runs of changes, the ends of a selection are still where   *)
(* their characters are, or between the same characters if theirs is gone.   *)
FollowsItsCharacters ==
    [][outcome'.op = "update" =>
        LET now == Now(FALSE)
        IN  \A i \in DOMAIN m_selections :
                MayMoveSel(lines_then, m_selections[i], ChangesSince(m_timestamp),
                           m_lines, now.sels[i])]_vars

(* Merging as the runs go by is merging in the end, and however selections  *)
(* merge, the main one is the one that the main one went into.              *)
MergedAsInTheEnd ==
    [][outcome'.op = "update" =>
        /\ Extents(m_selections') = Extents(Merged(Now(FALSE).sels, 1).sels)
        /\ m_main' \in DOMAIN m_selections'
        /\ Covers(m_selections'[m_main'], Now(FALSE).sels[m_main])]_vars

(* Backspace erases one character before each cursor, and the cursors stay   *)
(* on theirs, as many as they were.                                          *)
BackspaceKeepsCursors ==
    [][outcome'.op = "backspace" =>
        \E sels \in {Now(TRUE).sels} :
        LET made == SubSeq(m_changes', Len(m_changes) + 1, Len(m_changes'))
        IN  /\ Len(m_selections') = Len(sels)
            /\ \A i \in DOMAIN sels :
                    MayMoveSel(m_lines, sels[i], made, m_lines', m_selections'[i])
            /\ Len(Flat(m_lines)) - Len(Flat(m_lines')) <= Len(sels)]_vars

(* "p, P, ! and <a-!> commands now select the inserted text": what was pasted *)
(* after the selections is selected when the next key looks at them.         *)
PastedStaySelected ==
    [][outcome.op = "after" /\ outcome'.op = "update" =>
        \A i \in DOMAIN m_selections' :
            LET s == m_selections'[i]
            IN  Content(m_lines, First(s), CharNext(m_lines, Final(s)))
                    \in {outcome.content, Append(outcome.content, EOL)}]_vars

=============================================================================
