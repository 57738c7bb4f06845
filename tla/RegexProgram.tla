---------------------------- MODULE RegexProgram ----------------------------
(***************************************************************************)
(* The program the compiler makes of a regex (src/src/regex_vm.cc,         *)
(* RegexCompiler): a sequence of instructions whose jumps are relative,    *)
(* and a description of where a match may start.                           *)
(***************************************************************************)
EXTENDS RegexNodes

Jump(offset) == Instruction("Jump", offset)
Split(offset, prioritize_parent) ==
    Instruction("Split", [offset |-> offset, prioritize_parent |-> prioritize_parent])
Save(index) == Instruction("Save", index)

LengthOf(codes) == Len(FlattenSeq(codes))

(* Splits that push the alternatives but the first, the last one first, and *)
(* after each alternative but the last a jump to their end.                 *)
Alternatives(codes) ==
    LET n == Len(codes)
        Branch(k) ==
            codes[k] \o IF k = n THEN <<>>
                        ELSE <<Jump(1 + LengthOf(SubSeq(codes, k + 1, n)) + (n - 1 - k))>>
        branches == [k \in 1 .. n |-> Branch(k)]
        Start(k) == n - 1 + LengthOf(SubSeq(branches, 1, k - 1))
    IN  [i \in 1 .. n - 1 |-> Split(Start(n + 1 - i) - (i - 1), TRUE)]
        \o FlattenSeq(branches)

(* The code of a node as often as its quantifier says.                      *)
Quantified(inner, node) ==
    LET times == IF node.min > 1 THEN node.min ELSE 1
        extra == IF AllowsInfiniteRepeat(node) \/ node.max < times THEN 0
                 ELSE node.max - times
        Again(k) == <<Split((extra - k + 1) * (Len(inner) + 1), node.greedy)>> \o inner
        always == FlattenSeq([k \in 1 .. times |-> inner])
        more == IF AllowsInfiniteRepeat(node)
                THEN <<Split(-Len(inner), ~node.greedy)>>
                ELSE FlattenSeq([k \in 1 .. extra |-> Again(k)])
    IN  (IF AllowsNone(node) THEN <<Split(1 + Len(always \o more), node.greedy)>> ELSE <<>>)
        \o always \o more

Saved(node, body, forward, nosubs) ==
    IF node.op = "Alternation" /\ (node.value = 0 \/ (node.value # NoCapture /\ ~nosubs))
    THEN <<Save(2 * node.value + IF forward THEN 0 ELSE 1)>> \o body
         \o <<Save(2 * node.value + IF forward THEN 1 ELSE 0)>>
    ELSE body

LookAround(node) ==
    LET ahead == node.op \in {"LookAhead", "NegativeLookAhead"} IN
    Instruction("LookAround",
                [ahead |-> ahead, positive |-> node.op \in {"LookAhead", "LookBehind"},
                 characters |-> [i \in DOMAIN node.children |->
                                   InOrder(node.children, ahead)[i].value]])

RECURSIVE CompileNode(_, _, _)
CompileNode(node, forward, nosubs) ==
    LET AndCode(codes, child) == Append(codes, CompileNode(child, forward, nosubs))
        Codes(children) == FoldLeft(AndCode, <<>>, children)
        body == CASE node.op = "Sequence" -> FlattenSeq(Codes(InOrder(node.children, forward)))
                  [] node.op = "Alternation" -> Alternatives(Codes(node.children))
                  [] node.op \in Lookarounds -> <<LookAround(node)>>
                  [] node.op = "ResetStart" -> <<Save(0)>>
                  [] OTHER -> <<Instruction(node.op, node.value)>>
    IN  Quantified(Saved(node, body, forward, nosubs), node)

-----------------------------------------------------------------------------
Target(code, i) == i + IF code[i].op = "Split" THEN code[i].param.offset ELSE code[i].param
BlockBegins(code) ==
    {i \in DOMAIN code : IsJump(code[i])}
    \cup {Target(code, i) : i \in {j \in DOMAIN code : IsJump(code[j])}}

(* Saves are moved after the assertions on the same character.              *)
SwapIfSave(code, i) ==
    IF code[i].op = "Save" /\ IsAssertion(code[i + 1])
    THEN [code EXCEPT ![i] = code[i + 1], ![i + 1] = code[i]]
    ELSE code
Optimized(code) ==
    LET PeepholeOptimize(done, i) ==
            IF i + 1 \in BlockBegins(code) THEN done ELSE SwapIfSave(done, i)
    IN  FoldLeft(PeepholeOptimize, code, [i \in 1 .. Len(code) - 1 |-> i])

-----------------------------------------------------------------------------
(* Where may a match start?  Some character of `map' is not further than    *)
(* `offset' from there; `more' says that a match may not have consumed one  *)
(* of them yet.                                                             *)
SingleByte == Alphabet \ MultiByte
EveryByte == "every byte"
NoDesc == [map |-> {}, offset |-> 0, more |-> TRUE]

Consumes(desc, node, characters) ==
    [desc EXCEPT !.map = @ \cup characters, !.more = AllowsNone(node)]
AnyConsumes(desc, node, characters) ==
    IF desc.offset + node.max <= MaxOffset
    THEN [desc EXCEPT !.offset = @ + node.max, !.more = TRUE]
    ELSE Consumes(desc, node, characters)
StartOf(characters) ==
    characters \cup IF characters \cap MultiByte = {} THEN {} ELSE MultiByte

RECURSIVE DescOf(_, _, _)
DescOf(node, forward, desc) ==
    LET Then(sofar, child) == IF sofar.more THEN DescOf(child, forward, sofar) ELSE sofar
        OneOf(sofar, child) ==
            LET after == DescOf(child, forward, sofar)
            IN  [after EXCEPT !.more = @ \/ sofar.more]
        all == FoldLeft(Then, [desc EXCEPT !.more = TRUE], InOrder(node.children, forward))
        any == FoldLeft(OneOf, [desc EXCEPT !.more = FALSE], node.children)
    IN  CASE node.op = "Character" -> Consumes(desc, node, StartOf(node.value))
          [] node.op = "AnyChar" -> AnyConsumes(desc, node, Alphabet \cup {EveryByte})
          [] node.op = "AnyCharExceptNewLine" -> AnyConsumes(desc, node, SingleByte \ {NewLine})
          [] node.op = "Sequence" -> [all EXCEPT !.more = @ \/ AllowsNone(node)]
          [] node.op = "Alternation" -> [any EXCEPT !.more = @ \/ AllowsNone(node)]
          [] OTHER -> [desc EXCEPT !.more = TRUE]

(* Without one a match may start anywhere.                                  *)
StartDesc(regex, forward) ==
    LET desc == DescOf(regex, forward, NoDesc)
    IN  IF desc.more \/ EveryByte \in desc.map
        THEN [exists |-> FALSE, map |-> {}, offset |-> 0]
        ELSE [exists |-> TRUE, map |-> desc.map, offset |-> desc.offset]

Compile(regex, captures, forward, nosubs, optimize) ==
    LET code == CompileNode(regex, forward, nosubs)
    IN  [instructions |-> (IF optimize THEN Optimized(code) ELSE code)
                          \o <<Instruction("Match", 0)>>,
         start_desc |-> StartDesc(regex, forward),
         save_count |-> 2 * captures]
=============================================================================
