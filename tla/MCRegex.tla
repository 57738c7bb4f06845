------------------------------ MODULE MCRegex ------------------------------
(***************************************************************************)
(* Regexes, subjects and calls for RegexVM, held against RegexMatches.     *)
(***************************************************************************)
EXTENDS RegexVM

CONSTANTS WithKnownFaults   \* also regexes whose start descriptions are wrong?

Program == INSTANCE RegexProgram
Reference == INSTANCE RegexMatches

-----------------------------------------------------------------------------
a == Node("Character", {"a"}, <<>>)
b == Node("Character", {"b"}, <<>>)
ab == Node("Character", {"a", "b"}, <<>>)
anyChar == Node("AnyChar", Alphabet, <<>>)
exceptNewLine == Node("AnyCharExceptNewLine", Alphabet \ {NewLine}, <<>>)
Plain(op) == Node(op, NoCapture, <<>>)
Group(capture, alternatives) ==
    Node("Alternation", capture,
         [k \in DOMAIN alternatives |-> Node("Sequence", NoCapture, alternatives[k])])
Regex(nodes) == Group(0, <<nodes>>)
Times(node, q) == [node EXCEPT !.min = q[1], !.max = q[2], !.greedy = q[3]]

once == <<1, 1, TRUE>>
star == <<0, Infinite, TRUE>>
Repeats == {once, star, <<0, 1, FALSE>>, <<1, Infinite, FALSE>>, <<2, Infinite, TRUE>>,
            <<1, 2, TRUE>>}
Loops == {<<0, Infinite, FALSE>>, <<1, Infinite, TRUE>>, <<0, 1, TRUE>>, <<0, 2, TRUE>>}

Sequenced ==
    {Regex(<<Times(x, q), Times(y, r)>>) :
        x \in {a, anyChar}, y \in {b, exceptNewLine}, q \in Repeats, r \in {once, star}}
Branches == {<<>>, <<a>>, <<a, b>>, <<Times(a, star)>>}
Grouped ==
    {Regex(<<Times(Group(1, <<x, y>>), q), a>>) : x, y \in Branches, q \in Loops \cup {star}}
Nested ==
    {Regex(<<Times(Group(1, <<<<Times(Group(2, <<<<a>>, x>>), q)>>, <<b>>>>), r)>>) :
        x \in {<<>>, <<a, b>>}, q \in {star, <<0, 1, FALSE>>}, r \in Loops \cup {star}}
Forked ==
    {Regex(<<Times(Group(1, <<<<a>>, <<ab>>, <<a, a>>, <<ab, a>>, <<a, b>>, <<b>>>>), q)>>) :
        q \in {once, <<1, 2, TRUE>>, <<2, 2, FALSE>>, <<1, Infinite, TRUE>>}}
Zeros ==
    {Plain(op) : op \in Assertions \cup {"ResetStart"}}
    \cup {Node(op, NoCapture, <<a>>) : op \in Lookarounds}
    \cup {Node(op, NoCapture, <<ab, b>>) : op \in Lookarounds}
Asserting == {Regex(<<x, Times(Group(1, <<<<a>>>>), <<0, 1, TRUE>>), y>>) : x, y \in Zeros}

Texts(characters, n) == UNION {[1 .. k -> characters] : k \in 0 .. n}

Call(forward, search, any, iterate) ==
    [forward |-> forward, search |-> search, any_match |-> any, saves |-> ~any,
     iterate |-> iterate, start |-> 0, flags |-> {}]
Forward == Call(TRUE, TRUE, FALSE, TRUE)
Backward == Call(FALSE, TRUE, FALSE, TRUE)
Calls == {Forward, Backward, Call(TRUE, TRUE, TRUE, FALSE),
          Call(TRUE, FALSE, TRUE, FALSE), Call(TRUE, FALSE, FALSE, FALSE)}
Outside == {"NotBeginOfLine", "NotEndOfLine", "NotBeginOfWord", "NotEndOfWord"}

Family(regexes, subjects, calls) ==
    [regexes |-> regexes, subjects |-> subjects, calls |-> calls]
Families ==
    {Family(Sequenced, Texts({"a", "b"}, 3) \cup {<<"uu", "a", "b">>, <<"uu", "uu">>}, Calls),
     Family(Grouped \cup Nested, Texts({"a", "b"}, 3), {Forward, Backward}),
     Family(Forked, Texts({"a", "b"}, 4), {Forward, Backward}),
     Family(Asserting, Texts({"a", "nl", "b", "uu"}, 2),
            {Forward, Backward, [Forward EXCEPT !.flags = Outside]})}

-----------------------------------------------------------------------------
RECURSIVE NodesOf(_)
NodesOf(node) == {node} \cup UNION {NodesOf(node.children[k]) : k \in DOMAIN node.children}

RECURSIVE MayBeEmpty(_)
MayBeEmpty(node) ==
    LET empty == {k \in DOMAIN node.children : MayBeEmpty(node.children[k])}
    IN  \/ AllowsNone(node)
        \/ node.op = "Sequence" /\ empty = DOMAIN node.children
        \/ node.op = "Alternation" /\ empty # {}
        \/ node.op \notin Consumers \cup {"Sequence", "Alternation"}

(* A loop whose body may match nothing has no say in the captures: what     *)
(* was tried before decides whether an empty iteration counts.              *)
LoopsConsume ==
    \A node \in NodesOf(regex) :
        AllowsInfiniteRepeat(node) => ~MayBeEmpty([node EXCEPT !.min = 1])

(* The start description tells where a match may start, but for this: its   *)
(* offset is not looked at when all of the text is to match, it counts the  *)
(* characters of one iteration of a group only, and what \N may start with *)
(* leaves out the characters of several bytes.                              *)
DescribesStarts ==
    /\ ~mode.search => program.start_desc.offset = 0
    /\ \A node \in NodesOf(regex) :
          /\ node.op = "AnyCharExceptNewLine" => \A i \in DOMAIN subject : subject[i] \notin MultiByte
          /\ node.op = "Alternation" /\ node.max > 1 =>
                \A inner \in NodesOf(node) : inner.op \notin {"AnyChar", "AnyCharExceptNewLine"}

Compiled(r, forward) == Program!Compile(r, 3, forward, FALSE, forward)

ASSUME CompilesToPrograms ==
    \A family \in Families, forward \in BOOLEAN :
        \A r \in family.regexes : IsProgram(Compiled(r, forward))

Init ==
    /\ \E family \in Families, forward \in BOOLEAN :
          /\ regex \in family.regexes
          /\ program = Compiled(regex, forward)
          /\ subject \in family.subjects
          /\ \E c \in {d \in family.calls : d.forward = forward} :
                mode = [c EXCEPT !.start = IF forward THEN 0 ELSE Len(subject)]
    /\ WithKnownFaults \/ DescribesStarts
    /\ InitVM

Spec == Init /\ [][Next]_vars /\ WF_vars(Next)

-----------------------------------------------------------------------------
(* The ways to match that count, those of the start that is tried first     *)
(* first.                                                                   *)
WantedWays ==
    LET text == [subject |-> subject, flags |-> config.flags, forward |-> mode.forward]
        Wanted(way) ==
            /\ mode.search \/ way.pos = config.end
            /\ ~("NotInitialNull" \in config.flags /\ way.pos = config.begin)
        Start(k) == IF mode.forward THEN config.begin + k ELSE config.begin - k
        last == IF ~mode.search THEN 0
                ELSE IF mode.forward THEN config.end - config.begin
                ELSE config.begin - config.end
        From(ways, k) == ways \o Reference!Ways(text, regex, Reference!Place(Start(k)), 0)
    IN  SelectSeq(FoldLeft(From, <<>>, [k \in 1 .. last + 1 |-> k - 1]), Wanted)

(* Every call finds a match if there is one (ThreadedRegexVM::exec), the    *)
(* first one of the text and of the ways to match there the preferred one,  *)
(* with the captures of that way.                                           *)
MatchesAsSpecified ==
    stage = "returned" =>
        \E ways \in {WantedWays} :
            /\ m_found_match <=> ways # <<>>
            /\ m_found_match /\ mode.saves /\ LoopsConsume =>
                  \A k \in DOMAIN Captures :
                     Captures[k] = IF k \in DOMAIN ways[1].captures
                                   THEN ways[1].captures[k] ELSE Unset

(* Every call ends, however a regex may match nothing, and so does every    *)
(* iteration over the matches of a text (RegexIterator::next).              *)
CallsEnd == <>(stage = "done")
=============================================================================
