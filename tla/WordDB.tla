------------------------------- MODULE WordDB -------------------------------
(***************************************************************************)
(* The words of a buffer and how often they occur (src/src/word_db.cc),    *)
(* kept up to date by lines.  Characters other than EOL are word           *)
(* characters, so that a line holds at most one word.                      *)
(***************************************************************************)
EXTENDS LineModification

VARIABLES
    db_words,       \* m_words: word -> number of its occurrences
    db_lines,       \* m_lines
    db_timestamp    \* m_timestamp

wordVars == <<db_words, db_lines, db_timestamp>>

WordsOf(line) == IF Len(line) = 1 THEN {} ELSE {Front(line)}

AddWords(words, line) ==
    [w \in DOMAIN words \cup WordsOf(line) |->
        (IF w \in DOMAIN words THEN words[w] ELSE 0)
            + IF w \in WordsOf(line) THEN 1 ELSE 0]
RemoveOnce(words, line) ==    \* or wrongly whatever their number
    [w \in DOMAIN words \ WordsOf(line) |-> words[w]]
RemoveWords(words, line) ==
    LET gone == {w \in WordsOf(line) : words[w] = 1}
    IN  [w \in DOMAIN words \ gone |->
            words[w] - IF w \in WordsOf(line) THEN 1 ELSE 0]

RebuildWords(lines) == FoldLeft(AddWords, [w \in {} |-> 0], lines)

(* One modification: lines before it are kept, its old ones forgotten, its   *)
(* new ones read from the buffer.                                            *)
UpdateStep(acc, m) ==
    LET upTo == SubSeq(db_lines, acc.old + 1, m.old_line)
        gone == SubSeq(db_lines, m.old_line + 1, m.old_line + m.num_removed)
        new == SubSeq(m_lines, m.new_line + 1, m.new_line + m.num_added)
    IN  [old |-> m.old_line + m.num_removed,
         lines |-> acc.lines \o upTo \o new,
         words |-> FoldLeft(AddWords, FoldLeft(RemoveWords, acc.words, gone), new)]

InitWords ==
    /\ db_lines = m_lines
    /\ db_words = RebuildWords(m_lines)
    /\ db_timestamp = Len(m_changes)

Modifs == ComputeLineModifications(
            SubSeq(m_changes, db_timestamp + 1, Len(m_changes)))
UpdateDB ==
    LET done == FoldLeft(UpdateStep,
                         [old |-> 0, lines |-> <<>>, words |-> db_words], Modifs)
    IN  /\ db_timestamp # Len(m_changes)
        /\ db_timestamp' = Len(m_changes)
        /\ db_lines' = done.lines
                        \o SubSeq(db_lines, done.old + 1, Len(db_lines))
        /\ db_words' = done.words

(* Words are forgotten only if they are there, and each modification is      *)
(* where the lines rebuilt so far end: the assertions of update_db.          *)
UpdateFits ==
    \A k \in DOMAIN Modifs :
        LET m == Modifs[k]
            acc == FoldLeft(UpdateStep,
                            [old |-> 0, lines |-> <<>>, words |-> db_words],
                            SubSeq(Modifs, 1, k - 1))
        IN  /\ acc.old <= m.old_line
            /\ Len(acc.lines) + m.old_line - acc.old = m.new_line
            /\ m.new_line + m.num_added <= LineCount(m_lines)
            /\ m.old_line + m.num_removed <= Len(db_lines)

(* The assertions of update_db hold at every change, and once up to date the *)
(* database is the one that would be built from nothing.                     *)
WordsOfText ==
    /\ UpdateFits
    /\ db_timestamp = Len(m_changes) =>
        db_lines = m_lines /\ db_words = RebuildWords(m_lines)
=============================================================================
