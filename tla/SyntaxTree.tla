----------------------------- MODULE SyntaxTree -----------------------------
(***************************************************************************)
(* The tree of a buffer that the highlighters and the tree-sitter commands *)
(* use (SyntaxTree, syntax_tree.hh).  A draw takes over the latest tree of *)
(* the parses (HostParse, which AsyncSyntaxTree implements); a command     *)
(* brings the tree up to date itself, by translating it through the        *)
(* buffer's changes and parsing again.  The injection layers' trees, bases *)
(* of the next parses, are translated through the edits that were recorded *)
(* for them; one combined layer stands for them here.                      *)
(*                                                                         *)
(* A tree is told by the text whose coordinates it is in: the one it was   *)
(* parsed from, or the one after the edits that were applied to it.        *)
(***************************************************************************)
EXTENDS HostParse, Sequences

CONSTANT HasInjectionQuery   \* has the grammar an injection query?

ASSUME SyntaxTreeAssumption == HasInjectionQuery \in BOOLEAN

VARIABLES
    late_trees,    \* may a draw find an older tree than the text?  Never changes
    follows,       \* for each change, is it after the end of the one before?
    disabled,      \* tree_sitter_disabled_id
    syntax_tree    \* the SyntaxTree in buffer.values(), or Absent

vars == <<now, started, parsed, late_trees, follows, disabled, syntax_tree>>

Garbled == MaxTime + 1      \* in the coordinates of no text
WrongEdit == 0              \* an edit with the offsets of another text
Spaces == 0 .. Garbled

(* A SyntaxTree without a parse (DeferParse). *)
Deferred == [tree |-> NoTree, byte_index |-> 0, timestamp |-> 0,
             edits_timestamp |-> 0, injection_timestamp |-> 0,
             layer |-> NoTree, pending_edits |-> <<>>, in_step |-> TRUE]

(* There is no SyntaxTree: told from an empty one by its byte index. *)
Absent == [Deferred EXCEPT !.byte_index = Garbled]

-----------------------------------------------------------------------------
(* ts_tree_edit with each of the edits, which are those of changes of the   *)
(* buffer.                                                                  *)
Translated(tree, edits) ==
    IF tree = NoTree \/ edits = <<>> THEN tree
    ELSE IF \A i \in 1 .. Len(edits) : edits[i] = tree + i
    THEN tree + Len(edits)
    ELSE Garbled

(* ts_parser_parse from an old tree is right only if that is in the         *)
(* coordinates of the text.                                                 *)
Parsed(old) == IF old \in {NoTree, now} THEN now ELSE Garbled

(* full_parse.  Without a result the tree stays, not so the byte index and  *)
(* the layers.                                                              *)
FullParse(st, inTime) ==
    [st EXCEPT !.byte_index = now,
               !.tree = IF inTime THEN Parsed(NoTree) ELSE @,
               !.timestamp = IF inTime THEN now ELSE @,
               !.edits_timestamp = IF inTime THEN now ELSE @,
               !.layer = NoTree,
               !.pending_edits = <<>>]

(* Which changes does apply_edits apply?  The ones since the edits that are *)
(* in the tree already, which are more than those it was parsed with.       *)
SinceParse(st) == st.timestamp
SinceEdits(st) == st.edits_timestamp

(* changes_since(t) is sorted forward (forward_sorted_until).  *)
ForwardSorted(t) == \A i \in t + 2 .. now : follows[i]

(* apply_edits, for changes that are sorted forward.  The byte index has to *)
(* be of the text before the changes.                                       *)
ApplyEdits(st) ==
    LET since == SinceEdits(st)
        exact == st.byte_index = since /\ \A i \in since + 2 .. now : follows[i]
        edits == [i \in 1 .. now - since |-> IF exact THEN since + i ELSE WrongEdit]
    IN  IF since = now THEN st
        ELSE [st EXCEPT !.tree = Translated(@, edits),
                        !.pending_edits = @ \o edits,
                        !.edits_timestamp = now,
                        !.byte_index = now]

(* update *)
Update(st, inTime) ==
    IF st.timestamp = now THEN st
    ELSE IF st.tree # NoTree /\ ForwardSorted(SinceEdits(st))
    THEN LET edited == ApplyEdits(st)
         IN  [edited EXCEPT !.tree = IF inTime THEN Parsed(@) ELSE @,
                            !.timestamp = IF inTime THEN now ELSE @]
    ELSE FullParse(st, inTime)

(* The layers' trees are kept when a tree of the buffer's text is adopted.  *)
WorthKeeping(st, ts) == st.tree # NoTree
KeepLayers(st, ts) == /\ st.tree # NoTree
                      /\ ts = now
                      /\ ForwardSorted(SinceEdits(st))

(* The tree that is adopted has the edits up to ts in it; or wrongly no     *)
(* edits are ever thought to be missing again.                              *)
NewestEdits(st, ts) == IF st.edits_timestamp > ts THEN st.edits_timestamp ELSE ts
EditsOfAdopted(st, ts) == ts

(* adopt_tree *)
Adopt(st, ts) ==
    LET keep == KeepLayers(st, ts)
        kept == IF keep THEN ApplyEdits(st)
                ELSE [st EXCEPT !.layer = NoTree, !.pending_edits = <<>>]
    IN  [kept EXCEPT !.tree = ts, !.byte_index = ts, !.timestamp = ts,
                     !.edits_timestamp = EditsOfAdopted(kept, ts),
                     !.injection_timestamp = ts - 1]

(* The edits are dropped once the layers are translated. *)
EditsLeft(edits) == <<>>

(* The pass over the injections is noted. *)
Noted(st) == st.timestamp

(* detect_injections: is there an injection, is the pooled layer's tree     *)
(* reused, and is the parse of the new layer in time?  Layers are parsed    *)
(* from the text as it is, however old the host's tree: in_step, which the  *)
(* code does not have, tells if that was the text of the host's tree each   *)
(* time.                                                                    *)
DetectInjections(st, found, reuse, inTime) ==
    IF \/ ~HasInjectionQuery
       \/ st.tree = NoTree
       \/ st.injection_timestamp = st.timestamp
    THEN st
    ELSE LET old == IF reuse THEN Translated(st.layer, st.pending_edits) ELSE NoTree
         IN  [st EXCEPT
                !.layer = IF ~found THEN NoTree
                          ELSE IF inTime THEN Parsed(old) ELSE old,
                !.pending_edits = EditsLeft(@),
                !.in_step = /\ inTime => st.edits_timestamp = now
                            /\ old # NoTree => @,
                !.injection_timestamp = IF found /\ ~inTime THEN st.timestamp - 1
                                        ELSE Noted(st)]

-----------------------------------------------------------------------------
(* A change of the buffer.  Those of undo and of scripts are in any order.  *)
BufferChange(further) ==
    /\ Change
    /\ follows' = Append(follows, further)
    /\ UNCHANGED <<late_trees, disabled, syntax_tree>>

(* The background parser takes over a tree (on_worker_done). *)
TreeArrives ==
    /\ late_trees
    /\ NewTree
    /\ UNCHANGED <<late_trees, follows, disabled, syntax_tree>>

(* Is there to be a tree at all? *)
WhenEnabled == ~disabled

(* A window is drawn (do_highlight), and its tree is brought up to date by  *)
(* sync_async_host_tree, which installs the latest tree of the parses, after*)
(* the poll, if it is not of the same text as the one there: an older one   *)
(* too, when a command has been faster.  The trees are made when missing,   *)
(* and again when they are of another language.                             *)
Draw(again, layerInTime) ==
    /\ WhenEnabled
    /\ started' = IF again \/ started = Never THEN now ELSE started
    /\ parsed' \in {now} \cup IF ~late_trees THEN {}
                              ELSE IF again THEN {NoTree} ELSE {parsed}
    /\ LET st == IF again \/ syntax_tree = Absent THEN Deferred ELSE syntax_tree
           ts == parsed'
           synced == IF st.timestamp # ts THEN Adopt(st, ts) ELSE st
       IN  IF ts = NoTree
           THEN syntax_tree' = st
           ELSE \E found, reuse \in BOOLEAN :
                  syntax_tree' = DetectInjections(synced, found, reuse, layerInTime)
    /\ UNCHANGED <<now, late_trees, follows, disabled>>

(* A tree-sitter command updates the tree, and may look at the injections   *)
(* (ensure_syntax_tree, ensure_textobject_query).                           *)
Command(detects) ==
    /\ syntax_tree # Absent
    /\ \E inTime, found, reuse, layerInTime \in BOOLEAN :
         LET st == Update(syntax_tree, inTime)
         IN  syntax_tree' = IF detects /\ st.tree # NoTree
                            THEN DetectInjections(st, found, reuse, layerInTime)
                            ELSE st
    /\ UNCHANGED <<now, started, parsed, late_trees, follows, disabled>>

(* tree-sitter-enable, and -lazy *)
Enable(lazy) ==
    /\ disabled' = FALSE
    /\ IF lazy \/ syntax_tree # Absent
       THEN UNCHANGED syntax_tree
       ELSE \E inTime \in BOOLEAN : syntax_tree' = FullParse(Deferred, inTime)
    /\ UNCHANGED <<now, started, parsed, late_trees, follows>>

(* tree-sitter-disable *)
Disable ==
    /\ disabled' = TRUE
    /\ syntax_tree' = Absent
    /\ End
    /\ UNCHANGED <<late_trees, follows>>

-----------------------------------------------------------------------------
SyntaxInit ==
    /\ now = 1
    /\ started = Never
    /\ parsed = NoTree
    /\ late_trees \in BOOLEAN
    /\ follows = <<TRUE>>
    /\ disabled = FALSE
    /\ syntax_tree = Absent

SyntaxNext ==
    \/ \E further \in BOOLEAN : BufferChange(further)
    \/ TreeArrives
    \/ \E again, layerInTime \in BOOLEAN : Draw(again, layerInTime)
    \/ \E detects \in BOOLEAN : Command(detects)
    \/ \E lazy \in BOOLEAN : Enable(lazy)
    \/ Disable

SyntaxSpec == SyntaxInit /\ [][SyntaxNext]_vars

-----------------------------------------------------------------------------
(* The properties. *)

Times == 0 .. now
SyntaxTrees ==
    [tree : Spaces, byte_index : Times \cup {Garbled}, timestamp : Times,
     edits_timestamp : Times, injection_timestamp : Times, layer : Spaces,
     pending_edits : Seq(Times), in_step : BOOLEAN]

(* The tree that is adopted or parsed is not one of another grammar's, so a *)
(* disabled buffer has none; no edit is recorded of a change to come.       *)
SyntaxTypeOK ==
    /\ now \in 1 .. MaxTime
    /\ started \in Times /\ parsed \in Times
    /\ late_trees \in BOOLEAN
    /\ follows \in Seq(BOOLEAN) /\ Len(follows) = now
    /\ disabled \in BOOLEAN
    /\ disabled => syntax_tree = Absent /\ started = Never
    /\ syntax_tree \in SyntaxTrees

(* m_edits_timestamp: "Buffer timestamp whose coordinate space m_tree       *)
(* currently lives in".  Changes are applied to the tree once, in order,    *)
(* and with the byte offsets of the right text, whatever parses time out.   *)
TreeInItsSpace ==
    syntax_tree.tree # NoTree => syntax_tree.tree = syntax_tree.edits_timestamp

(* "Invariant: m_edits_timestamp >= m_timestamp" *)
EditsAhead == syntax_tree.edits_timestamp >= syntax_tree.timestamp

(* A layer's tree is in the space of the host's tree once the edits that    *)
(* wait for it are applied, so that the changes to come can be applied to   *)
(* it too (adopt_tree, detect_injections), whatever trees the host had,     *)
(* older ones of late parses as well; unless those changes are not in       *)
(* order, where the layers' trees will be dropped, or the layer was parsed  *)
(* ahead of its host.                                                       *)
LayerFollowsTree ==
    (/\ syntax_tree.layer # NoTree /\ syntax_tree.in_step
     /\ ForwardSorted(syntax_tree.edits_timestamp))
    => Translated(syntax_tree.layer, syntax_tree.pending_edits)
       = syntax_tree.edits_timestamp

-----------------------------------------------------------------------------
(* Why the host's tree is where its timestamps say: the inductive           *)
(* invariant.  The byte index, from which offsets are computed, is the      *)
(* tree's, unless a full parse timed out after changes in another order;    *)
(* those stay, so that no edit will be computed from it.                    *)
ByteIndexIsOfTree ==
    syntax_tree.tree # NoTree =>
        \/ syntax_tree.byte_index = syntax_tree.edits_timestamp
        \/ ~ForwardSorted(syntax_tree.edits_timestamp)

(* A tree has been parsed at some time. *)
TreeIsDated == syntax_tree.tree # NoTree => syntax_tree.timestamp # Never

SyntaxInv ==
    /\ SyntaxTypeOK
    /\ TreeInItsSpace
    /\ EditsAhead
    /\ ByteIndexIsOfTree
    /\ TreeIsDated
=============================================================================
