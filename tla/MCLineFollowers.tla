-------------------------- MODULE MCLineFollowers --------------------------
(* One buffer and what follows its lines: one follower in each behaviour.   *)
EXTENDS WordDB, LineSpecs, Regions

CONSTANTS
    a, b, words, specs, regions,
    MaxLastText     \* bound on the text after the last change that regions see
VARIABLE follower    \* it stays the same

MCChar == {a, b, EOL}
MCInserted == {<<b>>, <<EOL>>, <<EOL, a>>}
MCTexts == {<<<<a, EOL>>>>, <<<<a, EOL>>, <<b, EOL>>>>}
Region(opening, closing, recurse) ==
    [opening |-> opening, closing |-> closing, recurse |-> recurse]
MCRegionSets == {<<Region(a, b, NoRegex)>>, <<Region(a, b, a)>>,
                 <<Region(b, EOL, NoRegex), Region(a, a, NoRegex)>>}

vars == <<lineVars, wordVars, specVars, regionVars, follower>>

Init ==
    /\ m_lines \in MCTexts /\ m_changes = <<>>
    /\ follower \in {words, specs, regions}
    /\ InitWords
    /\ IF follower = specs THEN InitSpecs(m_lines)
       ELSE line_flags = <<>> /\ flags_timestamp = 0
    /\ IF follower = regions THEN InitRegions
       ELSE m_regions = <<>> /\ m_regions_timestamp = 0 /\ cache = Empty

(* The words see every last change; the flags none; the regions one that     *)
(* comes after a draw and leaves more or fewer lines, in a short text. New   *)
(* regions count as a change.                                                *)
LastChange ==
    \/ follower = words
    \/ /\ follower = regions /\ m_regions_timestamp = 0
       /\ cache.buffer_timestamp = Timestamp
       /\ LineCount(m_lines') # LineCount(m_lines)
       /\ Len(Flat(m_lines')) <= MaxLastText
Edit ==
    /\ Len(m_changes) < MaxChanges
    /\ EditInsert \/ EditErase \/ EditReplace
    /\ Len(m_changes') + m_regions_timestamp < MaxChanges \/ LastChange
    /\ UNCHANGED <<wordVars, specVars, regionVars, follower>>

Words ==
    /\ follower = words /\ UpdateDB
    /\ UNCHANGED <<lineVars, specVars, regionVars, follower>>
Specs ==
    /\ follower = specs /\ UpdateLineSpecs
    /\ UNCHANGED <<lineVars, wordVars, regionVars, follower>>

(* The whole buffer, the lines shown, or a region of another highlighter;    *)
(* the last change is followed by one draw.                                  *)
DrawnRanges ==
    {[begin |-> <<0, 0>>, end |-> EndCoord(m_lines)],
     [begin |-> <<0, 0>>, end |-> <<0, LineLength(m_lines, 0)>>],
     [begin |-> CharNext(m_lines, <<0, 0>>), end |-> BackCoord(m_lines)]}
DrawSome ==
    /\ follower = regions
    /\ Len(m_changes) < MaxChanges \/ cache.buffer_timestamp # Timestamp
    /\ \E range \in {r \in DrawnRanges : Precedes(r.begin, r.end)} : Draw(range)
    /\ UNCHANGED <<lineVars, wordVars, specVars, follower>>
Redefine ==
    /\ follower = regions /\ m_regions_timestamp = 0
    /\ Len(m_changes) + 1 < MaxChanges /\ ChangeRegions
    /\ UNCHANGED <<lineVars, wordVars, specVars, follower>>

Next == Edit \/ Words \/ Specs \/ DrawSome \/ Redefine
Spec == Init /\ [][Next]_vars

-----------------------------------------------------------------------------
(* The changes that a follower has not seen are the last ones of the log.    *)
NoneIsAhead ==
    /\ {db_timestamp, flags_timestamp} \subseteq 0 .. Len(m_changes)
    /\ cache.buffer_timestamp \in 0 .. Timestamp

(* The lines there were before the last changes. *)
LinesBefore(changes) ==
    LET count(n, c) == n - MakeLineModif(c).num_added + MakeLineModif(c).num_removed
    IN  FoldLeft(count, LineCount(m_lines), changes)
SinceStart == ComputeLineModifications(m_changes)
Origins == LineOrigins(LinesBefore(m_changes), m_changes)

(* The modifications take out and put in the lines that the changes touched, *)
(* and no other, in order.                                                   *)
ModificationsAreExact ==
    /\ NoneIsAhead
    /\ follower = words =>
       LET n == LinesBefore(m_changes)
           step(acc, m) ==
               [old |-> m.old_line + m.num_removed,
                origins |-> acc.origins
                       \o [i \in 1 .. m.old_line - acc.old |-> acc.old + i - 1]
                       \o [i \in 1 .. m.num_added |-> -1]]
           done == FoldLeft(step, [old |-> 0, origins |-> <<>>], SinceStart)
       IN  done.origins \o [i \in 1 .. n - done.old |-> done.old + i - 1] = Origins

(* Ranges of lines, any of them, keep the lines that were not touched.       *)
RangesFollow ==
    follower = words => \A lines \in SUBSET (0 .. LinesBefore(m_changes) - 1) :
        LET begins == Ordered({l \in lines : l - 1 \notin lines}, <)
            end(l) == Min({e \in 0 .. MaxLineText + 1 : e > l /\ e \notin lines})
            ranges == [i \in DOMAIN begins |-> LineRange(begins[i], end(begins[i]))]
        IN  LinesIn(UpdateLineRanges(ranges, SinceStart)) =
                {l - 1 : l \in {k \in DOMAIN Origins : Origins[k] \in lines}}

(* Flags stay on their lines, and go with them. *)
FlagsFollow ==
    [][flags_timestamp' # flags_timestamp =>
        LET since == SubSeq(m_changes, flags_timestamp + 1, Len(m_changes))
            origins == LineOrigins(LinesBefore(since), since)
        IN  ToSet(line_flags') =
            {l - 1 : l \in {k \in DOMAIN origins : origins[k] \in ToSet(line_flags)}}
      ]_vars
=============================================================================
