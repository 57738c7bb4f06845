------------------------------ MODULE HostParse ------------------------------
(***************************************************************************)
(* What the highlighters see of the parses of a buffer's text: the buffer  *)
(* changes, and now and then the tree of a newer text is there.  It is     *)
(* never older than the one before, and may be behind the text.            *)
(*                                                                         *)
(* A text is named by its timestamp, the number of changes that led to it  *)
(* (Buffer::timestamp); 0 stands for no tree.                              *)
(***************************************************************************)
EXTENDS Naturals

CONSTANT MaxTime      \* bound on the number of changes

ASSUME HostParseAssumption == MaxTime \in Nat \ {0}

VARIABLES
    now,       \* the buffer's timestamp
    started,   \* the text as it was when the parses began, or Never
    parsed     \* the text of the latest tree

Never == 0
NoTree == 0

(* The buffer changes. *)
Change ==
    /\ now < MaxTime
    /\ now' = now + 1
    /\ UNCHANGED <<started, parsed>>

(* The tree of a newer text, of those since the parses began. *)
NewTree ==
    /\ started # Never
    /\ parsed' \in {t \in started .. now : t > parsed}
    /\ UNCHANGED <<now, started>>

(* The parses begin, from scratch if there were any before. *)
Begin ==
    /\ started' = now
    /\ parsed' \in {NoTree, now}
    /\ UNCHANGED now

(* The parses end, and the tree is gone. *)
End ==
    /\ started' = Never
    /\ parsed' = NoTree
    /\ UNCHANGED now

Init ==
    /\ now = 1
    /\ \/ started = now /\ parsed \in {NoTree, now}
       \/ started = Never /\ parsed = NoTree

Next ==
    \/ Change
    \/ NewTree
    \/ Begin
    \/ End

Spec == Init /\ [][Next]_<<now, started, parsed>>
=============================================================================
