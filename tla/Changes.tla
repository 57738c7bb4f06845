------------------------------ MODULE Changes -------------------------------
(***************************************************************************)
(* Moving coordinates through the changes made to a buffer                 *)
(* (src/src/changes.hh, changes.cc).                                       *)
(*                                                                         *)
(* Coordinates are moved by a whole run of changes at a time, when each    *)
(* change begins after the end of the one before (forward), or ends before *)
(* the begin of the one before (backward).  A backward run is turned into  *)
(* the forward run that has its effect.                                    *)
(***************************************************************************)
EXTENDS LineBuffer

(* ForwardChangesTracker: the last change, before and after the changes.    *)
Tracker == [cur_pos |-> <<0, 0>>, old_pos |-> <<0, 0>>]

OldCoord(t, c) ==
    <<c[1] - (t.cur_pos[1] - t.old_pos[1]),
      IF c[1] = t.cur_pos[1] THEN c[2] - (t.cur_pos[2] - t.old_pos[2]) ELSE c[2]>>
NewCoord(t, c) ==
    <<c[1] + (t.cur_pos[1] - t.old_pos[1]),
      IF c[1] = t.old_pos[1] THEN c[2] + (t.cur_pos[2] - t.old_pos[2]) ELSE c[2]>>
NewCoordTolerant(t, c) ==
    IF Precedes(c, t.old_pos) THEN t.cur_pos ELSE NewCoord(t, c)

(* An insertion moves what follows by its length; or wrongly not.           *)
TrackErasures(t, change) ==
    IF change.type = "Insert"
    THEN [old_pos |-> OldCoord(t, change.begin), cur_pos |-> change.begin]
    ELSE [old_pos |-> OldCoord(t, change.end), cur_pos |-> change.begin]
TrackerUpdate(t, change) ==
    IF change.type = "Insert"
    THEN [old_pos |-> OldCoord(t, change.begin), cur_pos |-> change.end]
    ELSE [old_pos |-> OldCoord(t, change.end), cur_pos |-> change.begin]
TrackerAfter(changes) == FoldLeft(TrackerUpdate, Tracker, changes)

(* An insertion at the coordinate moves it; or wrongly not.                 *)
RelevantBefore(t, change, old) ==
    Precedes(change.begin, NewCoordTolerant(t, old))
Relevant(t, change, old) ==
    IF change.type = "Insert"
    THEN AtOrBefore(change.begin, NewCoordTolerant(t, old))
    ELSE Precedes(change.begin, NewCoordTolerant(t, old))

(* How many changes are taken into account for pos, i of them already were. *)
Advance(changes, i, pos) ==
    Min({k \in i .. Len(changes) :
            \/ k = Len(changes)
            \/ ~Relevant(TrackerAfter(SubSeq(changes, 1, k)), changes[k + 1], pos)})

-----------------------------------------------------------------------------
(* Runs of changes that can be taken together. *)

UntilBroken(changes, broken) ==
    IF broken = {} THEN Len(changes) ELSE Min(broken) - 1

Follows(first, next) ==
    Precedes(IF first.type = "Insert" THEN first.end ELSE first.begin, next.begin)
ForwardSortedUntil(changes) ==
    UntilBroken(changes,
        {k \in 2 .. Len(changes) : ~Follows(changes[k - 1], changes[k])})

(* A change that ends after the begin of the one before it breaks the run.  *)
Leads(first, next) == AtOrBefore(next.end, first.begin)
BackwardSortedUntil(changes) ==
    UntilBroken(changes,
        {k \in 2 .. Len(changes) : ~Leads(changes[k - 1], changes[k])})

-----------------------------------------------------------------------------
(* Ranges: pairs of coordinates, selections or others. *)

First(s) == MinCoord(s.anchor, s.cursor)
Final(s) == MaxCoord(s.anchor, s.cursor)
Range2(first, final, s) ==    \* s moved to first and final, facing as before
    IF AtOrBefore(s.anchor, s.cursor) THEN [anchor |-> first, cursor |-> final]
    ELSE [anchor |-> final, cursor |-> first]

(* update_range, for each range after the first skip of them: taken[k] of   *)
(* the changes are before the k-th of their ends, which are in order.        *)
EndOf(ranges, k) ==
    IF k % 2 = 1 THEN First(ranges[(k + 1) \div 2]) ELSE Final(ranges[k \div 2])
MovedEnd(changes, ranges, taken, k) ==
    NewCoordTolerant(TrackerAfter(SubSeq(changes, 1, taken[k])), EndOf(ranges, k))
MoveRanges(changes, ranges, skip, taken) ==
    LET to(k) == MovedEnd(changes, ranges, taken, k)
    IN  [i \in DOMAIN ranges |->
            IF i <= skip THEN ranges[i]
            ELSE Range2(to(2 * i - 1), to(2 * i), ranges[i])]
UpdateRanges(changes, ranges, skip) ==
    LET taken[k \in 2 * skip .. 2 * Len(ranges)] ==
            IF k = 2 * skip THEN 0
            ELSE Advance(changes, taken[k - 1], EndOf(ranges, k))
    IN  MoveRanges(changes, ranges, skip, taken)

UpdateForward(changes, ranges) ==
    UpdateRanges(changes, ranges,
        Min({k \in 0 .. Len(ranges) :
                k = Len(ranges) \/ ~Precedes(Final(ranges[k + 1]), changes[1].begin)}))

(* The changes of a backward run, last one first, where each is once all    *)
(* that precede it in the text were made.                                   *)
ChangeAfter(t, change) ==
    Change(change.type, NewCoord(t, change.begin), NewCoord(t, change.end))
AsForward(changes) ==
    LET step(acc, change) == Append(acc, ChangeAfter(TrackerAfter(acc), change))
    IN  FoldLeft(step, <<>>, Reverse(changes))
UpdateBackward(changes, ranges) == UpdateRanges(AsForward(changes), ranges, 0)

(* One run: how many changes it has, and what it does to ranges. *)
RunLength(changes) ==
    Max({ForwardSortedUntil(changes), BackwardSortedUntil(changes)})
UpdateByRun(changes, ranges) ==
    IF ForwardSortedUntil(changes) >= BackwardSortedUntil(changes)
    THEN UpdateForward(SubSeq(changes, 1, ForwardSortedUntil(changes)), ranges)
    ELSE UpdateBackward(SubSeq(changes, 1, BackwardSortedUntil(changes)), ranges)

(* The runs that changes fall into, in order. *)
Runs(changes) ==
    LET split[cs \in Suffixes(changes)] ==
            IF cs = <<>> THEN <<>>
            ELSE LET n == RunLength(cs)
                 IN  <<SubSeq(cs, 1, n)>> \o split[SubSeq(cs, n + 1, Len(cs))]
    IN  split[changes]

(* What a fold over the runs makes of ranges.                               *)
UpdateByRuns(changes, ranges) ==
    LET runs == Runs(changes)
        after[k \in 0 .. Len(runs)] ==
            IF k = 0 THEN ranges ELSE UpdateByRun(runs[k], after[k - 1])
    IN  after[Len(runs)]
=============================================================================
