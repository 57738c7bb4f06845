------------------------------- MODULE Regions ------------------------------
(***************************************************************************)
(* The regions highlighter (src/src/highlighters.cc, RegionsHighlighter):  *)
(* the ranges of a buffer that its regions cover, found from matches that  *)
(* are kept by line, for the ranges of lines drawn so far, across changes  *)
(* of the buffer and of the definitions.                                   *)
(*                                                                         *)
(* A regex matches one character, so matches are never empty; captures are *)
(* left out.  A match is the coordinate of its character.                  *)
(***************************************************************************)
EXTENDS LineModification

CONSTANTS
    RegionSets,     \* m_regions: sequences of [opening, closing, recurse]
    NoRegex         \* no recurse parameter

VARIABLES
    m_regions,
    m_regions_timestamp,
    cache

regionVars == <<m_regions, m_regions_timestamp, cache>>

(* Buffer::timestamp.  The first change of a buffer is the text it begins    *)
(* with, which m_changes leaves out here: no text has timestamp 0, and a     *)
(* cache that has it was never filled.                                       *)
Timestamp == 1 + Len(m_changes)
ChangesSince(timestamp) == SubSeq(m_changes, timestamp, Len(m_changes))

Empty == [buffer_timestamp |-> 0, regions_timestamp |-> 0, ranges |-> <<>>,
          matches |-> [c \in {} |-> <<>>], regions |-> [r \in {} |-> <<>>]]

RegexesOf(regions) ==
    UNION {{regions[i].opening, regions[i].closing, regions[i].recurse} :
           i \in DOMAIN regions} \ {NoRegex}

(* MatchAdder: the matches of the lines of range, after or among the others. *)
LineMatches(ls, regex, line) ==
    LET columns == {i \in DOMAIN ls[line + 1] : ls[line + 1][i] = regex}
    IN  [k \in 1 .. Cardinality(columns) |->
            <<line, Ordered(columns, <)[k] - 1>>]
MatchesIn(ls, regex, range) ==
    FlattenSeq([i \in 1 .. range.end - range.begin |->
                    LineMatches(ls, regex, range.begin + i - 1)])
MergedByLine(old, new) ==
    LET all == old \o new
        before(i, j) == \/ all[i][1] < all[j][1]
                        \/ all[i][1] = all[j][1] /\ i < j
    IN  [i \in DOMAIN all |-> all[Ordered(DOMAIN all, before)[i]]]
AddMatches(ls, matches, ranges) ==
    [regex \in DOMAIN matches |->
        MergedByLine(matches[regex],
                     FlattenSeq([i \in DOMAIN ranges |->
                                    MatchesIn(ls, regex, ranges[i])]))]

(* update_changed_lines *)
UpdateChangedLines(matches, modifs) ==
    [regex \in DOMAIN matches |->
        LET kept == SelectSeq(matches[regex],
                              LAMBDA c : MovedLine(modifs, c[1]) # -1)
        IN  [i \in DOMAIN kept |-> <<MovedLine(modifs, kept[i][1]), kept[i][2]>>]]

(* update_matches: the cache for the lines of range; it has no regions once  *)
(* anything is new in it.                                                    *)
UpdateMatches(ls, range) ==
    IF \/ cache.buffer_timestamp = 0
       \/ cache.regions_timestamp # m_regions_timestamp
    THEN [buffer_timestamp |-> Timestamp,
          regions_timestamp |-> m_regions_timestamp,
          ranges |-> <<range>>,
          matches |-> [regex \in RegexesOf(m_regions) |->
                            MatchesIn(ls, regex, range)],
          regions |-> Empty.regions]
    ELSE LET stale == cache.buffer_timestamp # Timestamp
             modifs == ComputeLineModifications(ChangesSince(cache.buffer_timestamp))
             moved == IF stale THEN UpdateChangedLines(cache.matches, modifs)
                      ELSE cache.matches
             added == AddRange(IF stale THEN UpdateLineRanges(cache.ranges, modifs)
                               ELSE cache.ranges, range)
         IN  [cache EXCEPT
                !.buffer_timestamp = Timestamp,
                !.matches = AddMatches(ls, moved, added.new),
                !.ranges = added.ranges,
                !.regions = IF stale \/ added.new # <<>> THEN Empty.regions ELSE @]

(* find_matching_end: the first closing one that nothing opened since pos    *)
(* is left for; <<>> if there is none.                                       *)
From(ms, pos) == SelectSeq(ms, LAMBDA c : AtOrBefore(pos, c))
FindMatchingEnd(ends, recurses, pos) ==
    LET es == From(ends, pos)
        opened(k) == Len(SelectSeq(From(recurses, pos),
                                   LAMBDA c : AtOrBefore(c, es[k])))
        level0 == {k \in DOMAIN es : opened(k) = k - 1}
    IN  IF level0 = {} THEN <<>> ELSE es[Min(level0)]

After(c) == <<c[1], c[2] + 1>>

(* The regions of range, one after the other: each begins at the first       *)
(* opening match, of the first region that has it, and goes to its end.      *)
RegionList(matches, range) ==
    LET begin_of(i, pos) == From(matches[m_regions[i].opening], pos)
        starts(pos) == {i \in DOMAIN m_regions : begin_of(i, pos) # <<>>}
        nearest(pos) ==
            CHOOSE i \in starts(pos) : \A j \in starts(pos) \ {i} :
                \/ Precedes(begin_of(i, pos)[1], begin_of(j, pos)[1])
                \/ begin_of(i, pos)[1] = begin_of(j, pos)[1] /\ i < j
        end_of(i, opening) ==
            FindMatchingEnd(matches[m_regions[i].closing],
                            IF m_regions[i].recurse = NoRegex THEN <<>>
                            ELSE matches[m_regions[i].recurse], After(opening))
        from[n \in 0 .. MaxLineText, pos \in Nat \X Nat] ==
            IF n = 0 \/ starts(pos) = {} THEN <<>>
            ELSE LET i == nearest(pos)
                     opening == begin_of(i, pos)[1]
                     e == end_of(i, opening)
                 IN  IF e = <<>> \/ (e # <<>> /\ AtOrBefore(range.end, After(e)))
                     THEN IF Precedes(opening, range.end)
                          THEN <<[begin |-> opening, end |-> range.end, region |-> i]>>
                          ELSE <<>>
                     ELSE <<[begin |-> opening, end |-> After(e), region |-> i]>>
                            \o from[n - 1, After(e)]
    IN  from[MaxLineText, range.begin]

(* get_regions_for_range, with the lines of a range of coordinates.          *)
LinesOfRange(ls, range) ==
    LineRange(range.begin[1], Min({LineCount(ls), range.end[1] + 1}))

InitRegions ==
    /\ m_regions \in RegionSets
    /\ m_regions_timestamp = 0
    /\ cache = Empty

Draw(range) ==
    LET updated == UpdateMatches(m_lines, LinesOfRange(m_lines, range))
    IN  /\ cache' = IF range \in DOMAIN updated.regions THEN updated
                    ELSE [updated EXCEPT !.regions =
                            (range :> RegionList(updated.matches, range)) @@ @]
        /\ UNCHANGED <<m_regions, m_regions_timestamp>>

(* add_child and remove_child *)
ChangeRegions ==
    /\ \E regions \in RegionSets \ {m_regions} : m_regions' = regions
    /\ m_regions_timestamp' = m_regions_timestamp + 1
    /\ UNCHANGED cache

-----------------------------------------------------------------------------
(* However the cache came about, the regions in it for what was just drawn   *)
(* are those that a search of the whole text would find.                     *)
RegionsOfText ==
    LET whole == LineRange(0, LineCount(m_lines))
        fresh == [regex \in RegexesOf(m_regions) |-> MatchesIn(m_lines, regex, whole)]
    IN  /\ cache.buffer_timestamp = Timestamp
        /\ cache.regions_timestamp = m_regions_timestamp
        => \A range \in DOMAIN cache.regions :
                cache.regions[range] = RegionList(fresh, range)
=============================================================================
