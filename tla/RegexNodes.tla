---------------------------- MODULE RegexNodes ----------------------------
(***************************************************************************)
(* The nodes of a regular expression, as the parser hands them over, and   *)
(* the instructions they are compiled to (src/src/regex_vm.cc,             *)
(* ParsedRegex; regex_vm.hh, CompiledRegex).                               *)
(*                                                                         *)
(* Literals, ranges, types and classes are all sets of characters here,    *)
(* ignoring case makes larger sets, and a character is one position long   *)
(* however many bytes it has.                                              *)
(***************************************************************************)
EXTENDS Integers, Sequences, SequencesExt

CONSTANTS Alphabet,     \* the characters of the subjects
          MultiByte,    \* those that take several bytes
          NewLine,
          WordChars,
          MaxOffset,    \* StartDesc::OffsetLimits::max()
          Infinite      \* Quantifier::infinite

ASSUME RegexAssumption ==
    /\ NewLine \in Alphabet \ MultiByte
    /\ MultiByte \subseteq Alphabet /\ WordChars \subseteq Alphabet
    /\ MaxOffset \in Nat /\ Infinite \in Nat /\ Infinite > MaxOffset

NoCapture == -1

Consumers == {"Character", "AnyChar", "AnyCharExceptNewLine"}
Lookarounds == {"LookAhead", "NegativeLookAhead", "LookBehind", "NegativeLookBehind"}
Assertions == {"LineStart", "LineEnd", "WordBoundary", "NotWordBoundary",
               "SubjectBegin", "SubjectEnd"}

(* A node: its op, its value (a set of characters or a capture), its        *)
(* children and how often it is to match.                                   *)
Node(op, value, children) ==
    [op |-> op, value |-> value, children |-> children,
     min |-> 1, max |-> 1, greedy |-> TRUE]
AllowsNone(node) == node.min = 0
AllowsInfiniteRepeat(node) == node.max = Infinite

InOrder(children, forward) == IF forward THEN children ELSE Reverse(children)

-----------------------------------------------------------------------------
Instruction(op, param) == [op |-> op, param |-> param]
IsJump(inst) == inst.op \in {"Jump", "Split"}
IsAssertion(inst) == inst.op \in Assertions \cup {"LookAround"}
=============================================================================
