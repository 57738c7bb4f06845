---------------------------- MODULE VersionTree ----------------------------
(***************************************************************************)
(* What the history of a buffer promises its users: a tree of whole texts. *)
(*                                                                         *)
(* Every version is kept as it was when it was committed.  Undo shows the  *)
(* parent of the current version, redo the child last visited, and any     *)
(* version can be moved to.  Edits that are not committed yet become a     *)
(* version before anything but an edit (or a redo, which they forbid)      *)
(* happens.  A buffer that keeps no versions has one, which edits amend.   *)
(***************************************************************************)
EXTENDS Naturals, Sequences

CONSTANT Document      \* the texts a buffer can hold

VARIABLES
    versions,   \* the versions, each with its text, its parent and the
                \* child last visited
    current,    \* the version the edits in progress start from
    document,   \* the text shown
    edited,     \* are there edits in progress?
    forgetful   \* are edits made without keeping versions?

vars == <<versions, current, document, edited, forgetful>>

None == 0
Version == [text : Document, parent : Nat, visited : Nat]
VersionIds == 1 .. Len(versions)

NewVersion(p, d) == [text |-> d, parent |-> p, visited |-> None]

TypeOK ==
    /\ versions \in Seq(Version)
    /\ current \in VersionIds
    /\ document \in Document
    /\ edited \in BOOLEAN
    /\ forgetful \in BOOLEAN

(* The versions and the current one once the edits in progress are kept. *)
Kept ==
    IF edited
    THEN Append([versions EXCEPT ![current].visited = Len(versions) + 1],
                NewVersion(current, document))
    ELSE versions
Latest == IF edited THEN Len(versions) + 1 ELSE current

(* The versions on the way from the root to n, n included. *)
Lineage(vs, n) ==
    {m \in 1 .. Len(vs) : \A S \in SUBSET (1 .. Len(vs)) :
        (n \in S /\ \A k \in S : vs[k].parent # None => vs[k].parent \in S)
            => m \in S}

(* The versions, all those on the way to n being visited. *)
Visited(vs, n) ==
    [k \in 1 .. Len(vs) |->
        [vs[k] EXCEPT !.visited =
            IF \E c \in Lineage(vs, n) : vs[c].parent = k
            THEN CHOOSE c \in Lineage(vs, n) : vs[c].parent = k
            ELSE @]]

Init ==
    /\ document \in Document
    /\ versions = <<NewVersion(None, document)>>
    /\ current = 1
    /\ edited = FALSE
    /\ forgetful \in BOOLEAN

Edit ==
    /\ ~forgetful
    /\ document' \in Document
    /\ edited' = TRUE
    /\ UNCHANGED <<versions, current, forgetful>>

(* An edit of a buffer that keeps no versions. *)
Amend ==
    /\ forgetful
    /\ document' \in Document
    /\ versions' = <<NewVersion(None, document')>>
    /\ UNCHANGED <<current, edited, forgetful>>

Keep ==
    /\ versions' = Kept
    /\ current' = Latest
    /\ edited' = FALSE
    /\ UNCHANGED <<document, forgetful>>

Undo ==
    /\ ~edited
    /\ versions[current].parent # None
    /\ current' = versions[current].parent
    /\ document' = versions[current'].text
    /\ UNCHANGED <<versions, edited, forgetful>>

Redo ==
    /\ ~edited
    /\ versions[current].visited # None
    /\ current' = versions[current].visited
    /\ document' = versions[current'].text
    /\ UNCHANGED <<versions, edited, forgetful>>

MoveTo(n) ==
    /\ versions' = Visited(Kept, n)
    /\ current' = n
    /\ document' = versions'[n].text
    /\ edited' = FALSE
    /\ UNCHANGED forgetful

(* The versions are forgotten and another text is shown. *)
Reset ==
    /\ ~edited
    /\ document' \in Document
    /\ versions' = <<NewVersion(None, document')>>
    /\ current' = 1
    /\ forgetful' = TRUE
    /\ UNCHANGED edited

Remember ==
    /\ forgetful
    /\ forgetful' = FALSE
    /\ UNCHANGED <<versions, current, document, edited>>

Next ==
    \/ Edit \/ Amend \/ Keep
    \/ Undo \/ Redo
    \/ \E n \in VersionIds : MoveTo(n)
    \/ Reset \/ Remember

Spec == Init /\ [][Next]_vars
=============================================================================
