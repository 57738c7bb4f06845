---------------------------- MODULE RegexMatches ----------------------------
(***************************************************************************)
(* What a regex matches (src/doc/pages/regex.asciidoc): the ways a node    *)
(* may match from a place, the preferred one first - the first alternative *)
(* that matches, as often as possible or, not greedy, as seldom.  An       *)
(* iteration that is not asked for has to match something.                 *)
(*                                                                         *)
(* This is what the machine is held against: it tries one way after the    *)
(* other, and has neither program nor threads.                             *)
(***************************************************************************)
EXTENDS RegexNodes

(* A place: a position and the captures so far.  The text is what is looked *)
(* at: [subject, flags, forward].                                           *)
Place(i) == [pos |-> i, captures |-> <<>>]
SetCapture(place, index) ==
    [place EXCEPT !.captures =
        [k \in DOMAIN @ \cup {index} |-> IF k = index THEN place.pos ELSE @[k]]]

NextTo(text, i) == IF text.forward THEN i + 1 ELSE i
MovedOn(text, place) == [place EXCEPT !.pos = IF text.forward THEN @ + 1 ELSE @ - 1]

IsWord(text, i) == i \in DOMAIN text.subject /\ text.subject[i] \in WordChars
StartsLine(text, i) ==
    IF i = 0 THEN "NotBeginOfLine" \notin text.flags ELSE text.subject[i] = NewLine
EndsLine(text, i) ==
    IF i = Len(text.subject) THEN "NotEndOfLine" \notin text.flags
    ELSE text.subject[i + 1] = NewLine
Boundary(text, i) ==
    CASE i = 0 -> "NotBeginOfWord" \notin text.flags
      [] i # 0 /\ i = Len(text.subject) -> "NotEndOfWord" \notin text.flags
      [] OTHER -> IsWord(text, i) # IsWord(text, i + 1)
(* The characters of a lookaround, when i is where their first one is.      *)
Reads(text, node, i) ==
    \A k \in DOMAIN node.children :
        i + k \in DOMAIN text.subject /\ text.subject[i + k] \in node.children[k].value

IsTrueAt(text, node, i) ==
    CASE node.op = "LineStart" -> StartsLine(text, i)
      [] node.op = "LineEnd" -> EndsLine(text, i)
      [] node.op = "WordBoundary" -> Boundary(text, i)
      [] node.op = "NotWordBoundary" -> ~Boundary(text, i)
      [] node.op = "SubjectBegin" -> i = 0
      [] node.op = "SubjectEnd" -> i = Len(text.subject)
      [] node.op = "LookAhead" -> Reads(text, node, i)
      [] node.op = "NegativeLookAhead" -> ~Reads(text, node, i)
      [] node.op = "LookBehind" -> Reads(text, node, i - Len(node.children))
      [] node.op = "NegativeLookBehind" -> ~Reads(text, node, i - Len(node.children))

(* Every way to match the node `count' times already: once more, or not.    *)
RECURSIVE Ways(_, _, _, _)
Ways(text, node, place, count) ==
    LET Once(child, from) == Ways(text, child, from, 0)
        Each(places, child) ==
            FlattenSeq([k \in DOMAIN places |-> Once(child, places[k])])
        single == [node EXCEPT !.min = 1, !.max = 1]
        first == 2 * node.value + IF text.forward THEN 0 ELSE 1
        last == 2 * node.value + IF text.forward THEN 1 ELSE 0
        captured == node.op = "Alternation" /\ node.value # NoCapture
        from == IF captured THEN SetCapture(place, first) ELSE place
        alternatives == FlattenSeq([k \in DOMAIN node.children |-> Once(node.children[k], from)])
        once ==
            CASE node.op = "Sequence" ->
                    FoldLeft(Each, <<place>>, InOrder(node.children, text.forward))
              [] node.op = "Alternation" ->
                    IF captured THEN [k \in DOMAIN alternatives |-> SetCapture(alternatives[k], last)]
                    ELSE alternatives
              [] node.op \in Consumers ->
                    LET at == NextTo(text, place.pos)
                    IN  IF at \in DOMAIN text.subject /\ text.subject[at] \in node.value
                        THEN <<MovedOn(text, place)>> ELSE <<>>
              [] node.op = "ResetStart" -> <<SetCapture(place, 0)>>
              [] OTHER -> IF IsTrueAt(text, node, place.pos) THEN <<place>> ELSE <<>>
        iterations == Once(single, place)
        MoreOf(to) ==
            IF AllowsInfiniteRepeat(node) /\ count >= node.min /\ to.pos = place.pos THEN <<>>
            ELSE Ways(text, node, to, count + 1)
        more == IF count < node.max
                THEN FlattenSeq([k \in DOMAIN iterations |-> MoreOf(iterations[k])]) ELSE <<>>
        stop == IF count >= node.min THEN <<place>> ELSE <<>>
    IN  IF node = single THEN once
        ELSE IF node.greedy THEN more \o stop ELSE stop \o more
=============================================================================
