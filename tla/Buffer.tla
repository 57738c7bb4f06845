------------------------------- MODULE Buffer -------------------------------
(***************************************************************************)
(* A Buffer: the text of a file or of a scratch area, and the tree of its  *)
(* undo groups (src/src/buffer.hh, buffer.cc, and create_fifo_buffer of    *)
(* buffer_utils.cc for what a fifo does to the flags).                     *)
(*                                                                         *)
(* The code keeps no copy of an earlier text.  A node of m_history holds   *)
(* the modifications that lead to it from its parent, and undo, redo and   *)
(* move_to apply them, or their inverses, one after the other.  They, and  *)
(* reload and replace, are single calls, but each modification they make   *)
(* is a step of its own here: m_walk says which call is in progress, and   *)
(* nothing else happens until it returns.                                  *)
(*                                                                         *)
(* History ids are shifted by one, so that m_history is a sequence: First  *)
(* is 1 and Invalid is 0.                                                  *)
(***************************************************************************)
EXTENDS FifoText

CONSTANTS
    Contents,      \* the strings inserted into buffers
    FileTexts,     \* the texts read from files
    MaxLen,        \* bound on the length of the text
    MaxHistory,    \* bound on the number of nodes of the history
    MaxGroup,      \* bound on the number of modifications of a group
    FifoMidEdit    \* may a fifo be opened on a buffer that is being edited?

ASSUME BufferAssumption ==
    /\ Contents \subseteq Text
    /\ FileTexts \subseteq {t \in Text : EndsWithEol(t)}
    /\ MaxLen \in Nat /\ MaxHistory \in Nat /\ MaxGroup \in Nat
    /\ FifoMidEdit \in BOOLEAN

VARIABLES
    text,                     \* m_lines
    m_flags,
    m_history,                \* m_history
    m_history_id,
    m_last_save_history_id,
    m_current_undo_group,
    m_walk,                   \* where the call in progress stands
    incoming,                 \* text the call in progress has yet to insert
    (* What follows is not in the code: it records what was, to say what   *)
    (* the code ought to restore.                                          *)
    snapshots,     \* for each node, the texts its group went through
    pending,       \* the texts the current group went through
    saved          \* the text when it was last saved or loaded

history == <<m_history, m_history_id>>
ghosts == <<snapshots, pending, saved>>
vars == <<text, m_flags, m_history, m_history_id, m_last_save_history_id,
          m_current_undo_group, m_walk, incoming, snapshots, pending, saved>>

First == 1
Invalid == 0
Ids == 1 .. Len(m_history)
Node == [parent : Nat, redo_child : Nat, undo_group : Seq(Modification)]

Flag == {"File", "New", "Fifo", "NoUndo", "ReadOnly"}
NoUndo == "NoUndo" \in m_flags
ReadOnly == "ReadOnly" \in m_flags

(* throw_if_read_only does not throw. *)
Writable == ~ReadOnly

Root == [parent |-> Invalid, redo_child |-> Invalid, undo_group |-> <<>>]

(* op: the call; at: the node it is going through, or the offset it has     *)
(* reached; i: how many modifications of that node are applied, or the      *)
(* length of the block of lines being removed; count: iterations left;      *)
(* target: where move_to goes.                                              *)
Idle == [op |-> "idle", at |-> 0, i |-> 0, count |-> 0, target |-> 0]
Walk(op, at, i, count, target) ==
    [op |-> op, at |-> at, i |-> i, count |-> count, target |-> target]
Ops == {"idle", "undo", "redo", "move", "up", "down", "reload", "replace"}
Walks == [op : Ops, at : Nat, i : Nat, count : Nat, target : Nat]

-----------------------------------------------------------------------------
(* The tree of the history. *)

Parent(n) == m_history[n].parent
Group(n) == m_history[n].undo_group

(* As it would be if redo followed the first branch instead of the last.    *)
EldestChild(n) ==
    IF \E c \in Ids : Parent(c) = n
    THEN CHOOSE c \in Ids : Parent(c) = n /\ \A d \in 1 .. c - 1 : Parent(d) # n
    ELSE Invalid
RedoChild(n) == m_history[n].redo_child

(* next_history_id *)
NextHistoryId == Len(m_history) + 1

(* history_node(n).redo_child = c; or wrongly without it. *)
LinkForgotten(n, c) == m_history
LinkRedoChild(n, c) ==
    [m_history EXCEPT ![n] = [parent |-> Parent(n), redo_child |-> c,
                              undo_group |-> Group(n)]]

(* n and its ancestors: the smallest set that holds n and, with a node, its *)
(* parent.                                                                  *)
Branch(n) ==
    {m \in Ids : \A S \in SUBSET Ids :
        (n \in S /\ \A k \in S : Parent(k) # Invalid => Parent(k) \in S)
            => m \in S}

(* find_lowest_common_parent: ids grow from parent to child, so that the    *)
(* lowest common ancestor is the greatest one.                              *)
LowestCommonParent(a, b) ==
    CHOOSE c \in Branch(a) \cap Branch(b) :
        \A d \in Branch(a) \cap Branch(b) : d <= c

(* The child of n on the way down to id; not the one last visited. *)
Toward(n, id) == CHOOSE c \in Branch(id) : Parent(c) = n

-----------------------------------------------------------------------------
(* Modifications. *)

(* A modification made by insert, erase or reload: recorded in the current  *)
(* group unless the buffer keeps no undo data.                              *)
Edit(m) ==
    /\ text' = Apply(m, text)
    /\ IF NoUndo
       THEN /\ pending' = <<text'>>
            /\ snapshots' = [snapshots EXCEPT ![m_history_id] = <<text'>>]
            /\ UNCHANGED m_current_undo_group
       ELSE /\ m_current_undo_group' = Append(m_current_undo_group, m)
            /\ pending' = Append(pending, text')
            /\ UNCHANGED snapshots

(* The nodes commit_undo_group adds, and the bound on their number. *)
Commits == IF NoUndo \/ m_current_undo_group = <<>> THEN 0 ELSE 1
RoomFor(n) == Len(m_history) + n <= MaxHistory

(* commit_undo_group *)
CommitUndoGroup ==
    IF NoUndo \/ m_current_undo_group = <<>>
    THEN UNCHANGED <<m_history, m_history_id, m_current_undo_group,
                     snapshots, pending>>
    ELSE /\ m_history' =
              Append(LinkRedoChild(m_history_id, NextHistoryId),
                     [parent |-> m_history_id, redo_child |-> Invalid,
                      undo_group |-> m_current_undo_group])
         /\ m_history_id' = NextHistoryId
         /\ m_current_undo_group' = <<>>
         /\ snapshots' = Append(snapshots, pending)
         /\ pending' = <<text>>

-----------------------------------------------------------------------------
(* Editing. *)

CanEdit ==
    /\ m_walk = Idle
    /\ Writable
    /\ Len(m_current_undo_group) < MaxGroup

(* insert *)
Insert(pos, s) ==
    LET m == InsertionAt(text, pos, s)
    IN  /\ CanEdit
        /\ s # <<>>
        /\ Len(text) + Len(m.content) <= MaxLen
        /\ Edit(m)
        /\ UNCHANGED <<m_flags, history, m_last_save_history_id, m_walk,
                       incoming, saved>>

(* erase *)
Erase(begin, e) ==
    LET end == EraseEnd(text, begin, e)
    IN  /\ CanEdit
        /\ begin < end
        /\ Edit(Erasure(begin, Slice(text, begin, end - begin)))
        /\ UNCHANGED <<m_flags, history, m_last_save_history_id, m_walk,
                       incoming, saved>>

(* replace: erase, then insert.  Replacing up to the end by a string that   *)
(* ends with EOL leaves the last EOL where it is.                           *)
Replace(begin, e, s) ==
    LET keepEol == e = Len(text) /\ EndsWithEol(s)
        end == IF keepEol THEN e - 1 ELSE EraseEnd(text, begin, e)
    IN  /\ CanEdit
        /\ begin < e
        /\ Slice(text, begin, e - begin) # s
        /\ Len(text) + begin + Len(s) + 1 <= MaxLen + end
        /\ IF begin < end
           THEN Edit(Erasure(begin, Slice(text, begin, end - begin)))
           ELSE UNCHANGED <<text, pending, snapshots, m_current_undo_group>>
        /\ incoming' = IF keepEol THEN Slice(s, 0, Len(s) - 1) ELSE s
        /\ m_walk' = Walk("replace", begin, 0, 0, 0)
        /\ UNCHANGED <<m_flags, history, m_last_save_history_id, saved>>

ReplaceInsert ==
    /\ m_walk.op = "replace"
    /\ IF incoming = <<>>
       THEN UNCHANGED <<text, pending, snapshots, m_current_undo_group>>
       ELSE Edit(InsertionAt(text, m_walk.at, incoming))
    /\ incoming' = <<>>
    /\ m_walk' = Idle
    /\ UNCHANGED <<m_flags, history, m_last_save_history_id, saved>>

(* commit_undo_group, as Context::end_edition calls it. *)
Commit ==
    /\ m_walk = Idle
    /\ RoomFor(1)
    /\ ~NoUndo /\ m_current_undo_group # <<>>
    /\ CommitUndoGroup
    /\ UNCHANGED <<text, m_flags, m_last_save_history_id, m_walk, incoming,
                   saved>>

-----------------------------------------------------------------------------
(* Moving in the history. *)

(* undo(count): commit, then give up if there is nothing to undo. *)
Undo(count) ==
    /\ m_walk = Idle
    /\ Writable
    /\ RoomFor(Commits)
    /\ CommitUndoGroup
    /\ m_walk' = IF m_history'[m_history_id'].parent = Invalid THEN Idle
                 ELSE Walk("undo", m_history_id',
                           Len(m_history'[m_history_id'].undo_group),
                           count, 0)
    /\ UNCHANGED <<text, m_flags, m_last_save_history_id, incoming, saved>>

(* The modification to revert when i of those of g are applied: the last of *)
(* them, or wrongly the first.                                              *)
EarliestApplied(g, i) == g[Len(g) - i + 1]
LatestApplied(g, i) == g[i]

(* The next modification of the node m_walk.at is reverted. *)
RevertModification ==
    /\ m_walk.op \in {"undo", "up"}
    /\ m_walk.i > 0
    /\ text' = Apply(InverseOf(LatestApplied(Group(m_walk.at), m_walk.i)), text)
    /\ m_walk' = [m_walk EXCEPT !.i = @ - 1]
    /\ UNCHANGED <<m_flags, history, m_last_save_history_id,
                   m_current_undo_group, incoming, snapshots, pending, saved>>

(* All of them are: undo goes on with the parent, or returns. *)
UndoNext ==
    LET p == Parent(m_walk.at)
    IN  /\ m_walk.op = "undo"
        /\ m_walk.i = 0
        /\ m_history_id' = p
        /\ pending' = <<text>>
        /\ m_walk' = IF m_walk.count = 1 \/ Parent(p) = Invalid THEN Idle
                     ELSE Walk("undo", p, Len(Group(p)), m_walk.count - 1, 0)
        /\ UNCHANGED <<text, m_flags, m_history, m_last_save_history_id,
                       m_current_undo_group, incoming, snapshots, saved>>

(* redo(count): nothing is committed; a group in progress forbids it. *)
NothingToRedo(c) == c = Invalid \/ m_current_undo_group # <<>>

Redo(count) ==
    LET c == RedoChild(m_history_id)
    IN  /\ m_walk = Idle
        /\ Writable
        /\ ~NothingToRedo(c)
        /\ m_history_id' = c
        /\ m_walk' = Walk("redo", c, 0, count, 0)
        /\ UNCHANGED <<text, m_flags, m_history, m_last_save_history_id,
                       m_current_undo_group, incoming, ghosts>>

(* The next modification of the node m_walk.at is applied. *)
ApplyModification ==
    /\ m_walk.op \in {"redo", "down"}
    /\ m_walk.i < Len(Group(m_walk.at))
    /\ text' = Apply(Group(m_walk.at)[m_walk.i + 1], text)
    /\ m_walk' = [m_walk EXCEPT !.i = @ + 1]
    /\ UNCHANGED <<m_flags, history, m_last_save_history_id,
                   m_current_undo_group, incoming, snapshots, pending, saved>>

RedoNext ==
    LET c == RedoChild(m_walk.at)
    IN  /\ m_walk.op = "redo"
        /\ m_walk.i = Len(Group(m_walk.at))
        /\ pending' = <<text>>
        /\ IF m_walk.count = 1 \/ c = Invalid
           THEN m_walk' = Idle /\ UNCHANGED m_history_id
           ELSE /\ m_walk' = Walk("redo", c, 0, m_walk.count - 1, 0)
                /\ m_history_id' = c
        /\ UNCHANGED <<text, m_flags, m_history, m_last_save_history_id,
                       m_current_undo_group, incoming, snapshots, saved>>

(* move_to(id): commit, then up to the lowest common parent and down again. *)
MoveTo(id) ==
    /\ m_walk = Idle
    /\ Writable
    /\ RoomFor(Commits)
    /\ CommitUndoGroup
    /\ m_walk' = Walk("move", 0, 0, 0, id)
    /\ UNCHANGED <<text, m_flags, m_last_save_history_id, incoming, saved>>

(* apply_from_parent, from the node n that is reached: the target is, and   *)
(* becomes the current node, or its next ancestor becomes the redo_child of *)
(* n before its group is applied.                                           *)
Descend(n) ==
    IF n = m_walk.target
    THEN /\ m_history_id' = n
         /\ pending' = <<text>>
         /\ m_walk' = Idle
         /\ UNCHANGED m_history
    ELSE LET c == Toward(n, m_walk.target)
         IN  /\ m_history' = LinkRedoChild(n, c)
             /\ m_walk' = Walk("down", c, 0, 0, m_walk.target)
             /\ UNCHANGED <<m_history_id, pending>>

Ascend(n) ==
    /\ m_walk' = Walk("up", n, Len(Group(n)), 0, m_walk.target)
    /\ UNCHANGED <<history, pending>>

MoveNext ==
    LET top == LowestCommonParent(m_history_id, m_walk.target)
    IN  /\ \/ /\ m_walk.op = "move"
              /\ IF m_history_id = top THEN Descend(top)
                 ELSE Ascend(m_history_id)
           \/ /\ m_walk.op = "up" /\ m_walk.i = 0
              /\ IF Parent(m_walk.at) = top THEN Descend(top)
                 ELSE Ascend(Parent(m_walk.at))
           \/ /\ m_walk.op = "down" /\ m_walk.i = Len(Group(m_walk.at))
              /\ Descend(m_walk.at)
        /\ UNCHANGED <<text, m_flags, m_last_save_history_id,
                       m_current_undo_group, incoming, snapshots, saved>>

-----------------------------------------------------------------------------
(* Reloading, saving and renaming. *)

(* The length of the first line of t, and where the last one starts. *)
FirstLine(t) == CHOOSE n \in 1 .. Len(t) :
                    t[n] = EOL /\ \A k \in 1 .. n - 1 : t[k] # EOL
LastLineStart(t) == CHOOSE p \in 0 .. Len(t) - 1 :
                    /\ ~InsideLine(t, p)
                    /\ \A k \in p + 1 .. Len(t) - 1 : t[k] # EOL

(* reload of a buffer that keeps undo data: the difference with the new     *)
(* text is applied, line by line, as an undo group.  The text before        *)
(* m_walk.at is done with, and the rest of the old text, after it, faces    *)
(* incoming.  The difference found is left open (diff.hh).                  *)
Reload(t) ==
    /\ m_walk = Idle
    /\ "File" \in m_flags
    /\ ~NoUndo
    /\ RoomFor(Commits + 1)
    /\ CommitUndoGroup
    /\ incoming' = t
    /\ m_walk' = Walk("reload", 0, 0, 0, 0)
    /\ UNCHANGED <<text, m_flags, m_last_save_history_id, saved>>

Reloading == m_walk.op = "reload" /\ m_walk.i = 0

(* DiffOp::Keep *)
ReloadKeep ==
    LET n == FirstLine(incoming)
    IN  /\ Reloading
        /\ incoming # <<>>
        /\ m_walk.at + n <= Len(text)
        /\ Slice(text, m_walk.at, n) = Slice(incoming, 0, n)
        /\ incoming' = Slice(incoming, n, Len(incoming) - n)
        /\ m_walk' = [m_walk EXCEPT !.at = @ + n]
        /\ UNCHANGED <<text, m_flags, history, m_last_save_history_id,
                       m_current_undo_group, ghosts>>

(* DiffOp::Add *)
ReloadAdd ==
    LET n == FirstLine(incoming)
    IN  /\ Reloading
        /\ incoming # <<>>
        /\ Edit(Insertion(m_walk.at, Slice(incoming, 0, n)))
        /\ incoming' = Slice(incoming, n, Len(incoming) - n)
        /\ m_walk' = [m_walk EXCEPT !.at = @ + n]
        /\ UNCHANGED <<m_flags, history, m_last_save_history_id, saved>>

(* DiffOp::Remove: a block of lines goes, the last line first. *)
ReloadRemove(len) ==
    /\ Reloading
    /\ m_walk.at + len <= Len(text)
    /\ text[m_walk.at + len] = EOL
    /\ m_walk' = [m_walk EXCEPT !.i = len]
    /\ UNCHANGED <<text, m_flags, history, m_last_save_history_id,
                   m_current_undo_group, incoming, ghosts>>

ReloadRemoveLine ==
    LET start == LastLineStart(Slice(text, m_walk.at, m_walk.i))
        pos == m_walk.at + start
    IN  /\ m_walk.op = "reload"
        /\ m_walk.i > 0
        /\ Edit(Erasure(pos, Slice(text, pos, m_walk.i - start)))
        /\ m_walk' = [m_walk EXCEPT !.i = start]
        /\ UNCHANGED <<m_flags, history, m_last_save_history_id, incoming,
                       saved>>

ReloadDone ==
    /\ Reloading
    /\ m_walk.at = Len(text) /\ incoming = <<>>
    /\ CommitUndoGroup
    /\ m_last_save_history_id' = m_history_id'
    /\ m_flags' = m_flags \ {"New"}
    /\ saved' = text
    /\ m_walk' = Idle
    /\ UNCHANGED <<text, incoming>>

(* notify_saved, once the text is written to the file. *)
NotifySaved ==
    /\ m_walk = Idle
    /\ "File" \in m_flags
    /\ RoomFor(Commits)
    /\ CommitUndoGroup
    /\ m_flags' = m_flags \ {"New"}
    /\ m_last_save_history_id' = m_history_id'
    /\ saved' = text
    /\ UNCHANGED <<text, m_walk, incoming>>

(* set_name, when no file has the new name. *)
SetName ==
    /\ m_walk = Idle
    /\ "File" \in m_flags
    /\ m_flags' = m_flags \cup {"New"}
    /\ m_last_save_history_id' = Invalid
    /\ UNCHANGED <<text, history, m_current_undo_group, m_walk, incoming,
                   ghosts>>

(* on_option_changed, for the option readonly. *)
SetReadOnly(on) ==
    /\ m_walk = Idle
    /\ m_flags' = IF on THEN m_flags \cup {"ReadOnly"}
                  ELSE m_flags \ {"ReadOnly"}
    /\ UNCHANGED <<text, history, m_last_save_history_id,
                   m_current_undo_group, m_walk, incoming, ghosts>>

-----------------------------------------------------------------------------
(* Fifos (create_fifo_buffer). *)

(* A fifo is opened on the buffer: NoUndo is set first, so that reload      *)
(* records nothing, commits nothing, forgets the history, and replaces the  *)
(* whole text by an empty line.                                             *)
OpenFifo ==
    /\ m_walk = Idle
    /\ FifoMidEdit \/ m_current_undo_group = <<>>
    /\ m_flags' = {"Fifo", "NoUndo"}
    /\ text' = <<EOL>>
    /\ m_history' = <<Root>>
    /\ m_history_id' = First
    /\ m_last_save_history_id' = First
    /\ snapshots' = << <<text'>> >>
    /\ pending' = <<text'>>
    /\ saved' = text'
    /\ UNCHANGED <<m_current_undo_group, m_walk, incoming>>

(* read_fifo, for one chunk of what it reads: read-only or not, the buffer  *)
(* changes (FifoBuffer has the reading itself).                             *)
ReadFifo(s) ==
    /\ m_walk = Idle
    /\ "Fifo" \in m_flags
    /\ s # <<>>
    /\ Len(text) + Len(s) + 1 <= MaxLen
    /\ \E scroll \in AutoScroll, had \in BOOLEAN :
         text' = Received(text, s, scroll, had)
    /\ pending' = <<text'>>
    /\ snapshots' = [snapshots EXCEPT ![m_history_id] = <<text'>>]
    /\ UNCHANGED <<m_flags, history, m_last_save_history_id,
                   m_current_undo_group, m_walk, incoming, saved>>

(* The fifo is closed by its writer: ~FifoWatcher. *)
CloseFifo ==
    /\ m_walk = Idle
    /\ "Fifo" \in m_flags
    /\ m_flags' = m_flags \ {"Fifo", "NoUndo"}
    /\ UNCHANGED <<text, history, m_last_save_history_id,
                   m_current_undo_group, m_walk, incoming, ghosts>>

-----------------------------------------------------------------------------
(* The constructor: a file that exists, a new file or a scratch buffer with *)
(* one empty line, or a fifo.                                               *)
Init ==
    /\ \/ m_flags = {"File"} /\ text \in FileTexts
       \/ m_flags \in {{"File", "New"}, {}, {"Fifo", "NoUndo"}} /\ text = <<EOL>>
    /\ m_history = <<Root>>
    /\ m_history_id = First
    /\ m_last_save_history_id = First
    /\ m_current_undo_group = <<>>
    /\ m_walk = Idle
    /\ incoming = <<>>
    /\ snapshots = << <<text>> >>
    /\ pending = <<text>>
    /\ saved = text

Editing ==
    \/ \E pos \in 0 .. Len(text), s \in Contents : Insert(pos, s)
    \/ \E b, e \in 0 .. Len(text) : Erase(b, e)
    \/ \E b, e \in 0 .. Len(text), s \in Contents : Replace(b, e, s)

(* What a call in progress does next. *)
Step ==
    \/ ReplaceInsert
    \/ RevertModification \/ ApplyModification
    \/ UndoNext \/ RedoNext \/ MoveNext
    \/ ReloadKeep \/ ReloadAdd
    \/ \E len \in 1 .. Len(text) : ReloadRemove(len)
    \/ ReloadRemoveLine \/ ReloadDone

Next ==
    \/ Editing
    \/ Commit
    \/ \E count \in 1 .. MaxHistory : Undo(count) \/ Redo(count)
    \/ \E id \in Ids : MoveTo(id)
    \/ \E t \in FileTexts : Reload(t)
    \/ NotifySaved \/ SetName
    \/ \E on \in BOOLEAN : SetReadOnly(on)
    \/ OpenFifo \/ CloseFifo
    \/ \E s \in Contents : ReadFifo(s)
    \/ Step

Spec == Init /\ [][Next]_vars

-----------------------------------------------------------------------------
(* What the buffer promises. *)

(* Every variable keeps to its type. *)
TypeOK ==
    /\ text \in Text
    /\ m_flags \subseteq Flag
    /\ m_history \in Seq(Node) /\ m_history # <<>>
    /\ m_history_id \in Ids
    /\ m_last_save_history_id \in Ids \cup {Invalid}
    /\ m_current_undo_group \in Seq(Modification)
    /\ m_walk \in Walks
    /\ incoming \in Text
    /\ snapshots \in Seq(Seq(Text))
    /\ pending \in Seq(Text)
    /\ saved \in Text

(* apply_modification only ever sees modifications that fit the text: the   *)
(* coordinate is valid and what is erased is what the history says was      *)
(* there (the assertions of apply_modification), whatever the order in      *)
(* which edits, commits, undos, redos, moves and reloads happened before.   *)
ModificationsFit ==
    /\ m_walk.op \in {"undo", "up"} /\ m_walk.i > 0 =>
         Fits(InverseOf(LatestApplied(Group(m_walk.at), m_walk.i)), text)
    /\ m_walk.op \in {"redo", "down"} /\ m_walk.i < Len(Group(m_walk.at)) =>
         Fits(Group(m_walk.at)[m_walk.i + 1], text)

(* check_invariant: between two calls the text has at least one line, and   *)
(* its last one is ended.  (A reload may empty it for a while.)             *)
LinesAreEnded == m_walk.op \notin {"reload", "undo", "redo", "up", "down"}
                    => EndsWithEol(text)

(* The node that the call in progress has come to. *)
Reached == IF m_walk.op = "down" THEN m_walk.at ELSE m_history_id

(* Going down the redo_child links from any ancestor of the current node    *)
(* leads back to the current node: redo always follows the branch last      *)
(* visited, whether it was reached by edits, by redo or by move_to.  On its *)
(* way down, move_to already leaves the links to where it is.               *)
RedoFollowsCurrentBranch ==
    \A n \in Branch(Reached) \ {First} : RedoChild(Parent(n)) = n

(* The history is a tree rooted at First, whose nodes come after their      *)
(* parent, are not empty, and whose redo_child is one of their children.    *)
HistoryIsATree ==
    /\ m_history[First].parent = Invalid
    /\ \A n \in Ids \ {First} : Parent(n) \in 1 .. n - 1 /\ Group(n) # <<>>
    /\ \A n \in Ids : RedoChild(n) # Invalid =>
                        RedoChild(n) \in Ids /\ Parent(RedoChild(n)) = n

(* is_modified, and as it would be without a look at the current group. *)
IsModifiedSinceCommit ==
    "File" \in m_flags /\ m_history_id # m_last_save_history_id
IsModified ==
    /\ "File" \in m_flags
    /\ \/ m_history_id # m_last_save_history_id
       \/ m_current_undo_group # <<>>

(* "returns true if the buffer is in a different state than the last time   *)
(* it was saved": a file buffer that does not say it is modified holds the  *)
(* text that was last saved or loaded, even after moving through the        *)
(* history back to the node that was saved.                                 *)
UnmodifiedIsSaved ==
    m_walk = Idle /\ "File" \in m_flags /\ ~IsModified => text = saved

-----------------------------------------------------------------------------
(* Why these hold: the inductive invariant.                                 *)

(* The texts a group went through: each modification fits the text it was   *)
(* made to and leads to the next one.                                       *)
Traces(trail, group) ==
    /\ Len(trail) = Len(group) + 1
    /\ \A i \in 1 .. Len(group) :
         /\ Fits(group[i], trail[i])
         /\ trail[i + 1] = Apply(group[i], trail[i])

(* The text at node n: where its group leads. *)
Snapshot(n) == snapshots[n][Len(snapshots[n])]

(* Every node was committed on top of its parent's text. *)
HistoryIsTraced ==
    /\ Len(snapshots) = Len(m_history)
    /\ \A n \in Ids :
         /\ Traces(snapshots[n], Group(n))
         /\ n # First => snapshots[n][1] = Snapshot(Parent(n))

(* The current group leads from the current node to the text; there is none *)
(* while a call goes through the history.                                   *)
CurrentGroupIsTraced ==
    IF m_walk.op \in {"idle", "reload", "replace"}
    THEN /\ Traces(pending, m_current_undo_group)
         /\ pending[1] = Snapshot(m_history_id)
         /\ pending[Len(pending)] = text
    ELSE m_current_undo_group = <<>>

(* Where each call in progress stands. *)
WalkIsOnTrack ==
    /\ m_walk.op = "idle" => m_walk = Idle
    /\ m_walk.op \in {"undo", "redo", "up", "down"} =>
         /\ m_walk.at \in Ids \ {First}
         /\ m_walk.i <= Len(Group(m_walk.at))
         /\ text = snapshots[m_walk.at][m_walk.i + 1]
    /\ m_walk.op \in {"undo", "redo"} =>
         m_walk.at = m_history_id /\ m_walk.count > 0
    /\ m_walk.op = "move" => text = Snapshot(m_history_id)
    /\ m_walk.op \in {"move", "up", "down"} => m_walk.target \in Ids
    /\ m_walk.op = "up" =>
         LET top == LowestCommonParent(m_history_id, m_walk.target)
         IN  m_walk.at # top /\ top \in Branch(m_walk.at)
    /\ m_walk.op = "down" => m_walk.at \in Branch(m_walk.target)
    /\ m_walk.op = "replace" => m_walk.at <= Len(text)
    /\ m_walk.op = "reload" =>
         /\ m_walk.at + m_walk.i <= Len(text)
         /\ incoming # <<>> => EndsWithEol(incoming)
         /\ IF m_walk.at = 0 THEN incoming # <<>> ELSE text[m_walk.at] = EOL

(* A buffer that keeps no undo data has no history to contradict. *)
NoUndoNoHistory ==
    /\ "Fifo" \in m_flags => NoUndo
    /\ NoUndo =>
              /\ m_history = <<Root>>
              /\ m_current_undo_group = <<>>
              /\ "File" \notin m_flags
              /\ m_walk.op \in {"idle", "replace", "move"}

(* The node last saved holds the text last saved. *)
SavedNodeIsSaved ==
    "File" \in m_flags /\ m_last_save_history_id # Invalid =>
        saved = Snapshot(m_last_save_history_id)

(* Every version ends with EOL. *)
VersionsAreEnded == \A n \in Ids : EndsWithEol(Snapshot(n))

HistoryInv ==
    /\ TypeOK
    /\ LinesAreEnded
    /\ VersionsAreEnded
    /\ HistoryIsATree
    /\ HistoryIsTraced
    /\ CurrentGroupIsTraced
    /\ WalkIsOnTrack
    /\ NoUndoNoHistory
    /\ SavedNodeIsSaved

-----------------------------------------------------------------------------
(* The buffer implements a tree of whole texts.  A version is the last of   *)
(* the texts its group went through.  While a call goes through the history *)
(* the buffer already counts as showing the node it is bound for.           *)
Moving == m_walk.op \in {"move", "up", "down"}
Shown == IF Moving THEN m_walk.target ELSE m_history_id

ShownVersions ==
    [n \in Ids |->
        [text |-> Snapshot(n), parent |-> Parent(n),
         visited |-> IF Moving /\ \E c \in Branch(Shown) : Parent(c) = n
                     THEN Toward(n, Shown) ELSE RedoChild(n)]]

Versions == INSTANCE VersionTree WITH
    Document <- Text,
    versions <- ShownVersions,
    current <- Shown,
    document <- IF m_walk.op \in {"idle", "reload", "replace"} THEN text
                ELSE Snapshot(Shown),
    edited <- m_current_undo_group # <<>>,
    forgetful <- NoUndo

(* Every behaviour of the buffer is one of the version tree. *)
ImplementsVersionTree == Versions!Spec
=============================================================================
