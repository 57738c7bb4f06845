------------------------------ MODULE Contexts ------------------------------
(***************************************************************************)
(* What a context remembers of its selections (src/src/context.cc,         *)
(* context.hh): the jump list, the tree of the selections it had, and the  *)
(* edition in which they are changing.                                     *)
(*                                                                         *)
(* Selections are the buffer they are in and a place there: how they       *)
(* follow the text is in Selections.  Nodes of the history are counted     *)
(* from one, m_current from zero as in the code.                           *)
(***************************************************************************)
EXTENDS Integers, Sequences, FiniteSets, SequencesExt

Invalid == 0
Unstaged == [parent |-> -1]

SelIn(buffer, place) == [buffer |-> buffer, place |-> place]
Node(sel, parent) == [sel |-> sel, parent |-> parent, redo_child |-> Invalid]

(* A context of a new client. *)
NewContext(sel) ==
    [m_history |-> <<Node(sel, Invalid)>>, m_history_id |-> 1,
     m_staging |-> Unstaged, m_in_edition |-> 0,
     m_jumps |-> <<>>, m_current |-> 0]

(* What stays of a sequence: its elements at some places, in their order.   *)
Kept(s, places) ==
    [k \in 1 .. Cardinality(places) |->
        s[CHOOSE i \in places : Cardinality({j \in places : j < i}) = k - 1]]

Staged(ctx) == ctx.m_staging # Unstaged
SelectionsOf(ctx) ==
    IF Staged(ctx) THEN ctx.m_staging.sel ELSE ctx.m_history[ctx.m_history_id].sel
BufferOf(ctx) == SelectionsOf(ctx).buffer

-----------------------------------------------------------------------------
(* JumpList *)

Push(ctx, jump) ==
    LET end == IF ctx.m_current # Len(ctx.m_jumps)
               THEN ctx.m_current + 1 ELSE Len(ctx.m_jumps)
        others == {i \in 1 .. end : ctx.m_jumps[i] # jump}
        jumps == Append(Kept(ctx.m_jumps, others), jump)
    IN  [ctx EXCEPT !.m_jumps = jumps, !.m_current = Len(jumps)]
PushJump(ctx) == Push(ctx, SelectionsOf(ctx))

Jumped(ctx) == ctx.m_jumps[ctx.m_current + 1]

HasForward(ctx) == ctx.m_current + 1 < Len(ctx.m_jumps)
GoForward(ctx) == [ctx EXCEPT !.m_current = @ + 1]

(* The selections that are left are pushed first, unless they are those of  *)
(* the jump the list is at.                                                 *)
AtJump(ctx) ==
    ctx.m_current # Len(ctx.m_jumps) /\ Jumped(ctx) = SelectionsOf(ctx)
PushedBefore(ctx) == IF AtJump(ctx) THEN ctx ELSE PushJump(ctx)
Steps(ctx) == IF AtJump(ctx) THEN 1 ELSE 2
HasBackward(ctx) == PushedBefore(ctx).m_current >= Steps(ctx)
GoBackward(ctx) == [PushedBefore(ctx) EXCEPT !.m_current = @ - Steps(ctx)]

(* The jump the list was at may go as well; or wrongly the index stays.     *)
JumpsOutOf(ctx, buffer) ==
    {i \in DOMAIN ctx.m_jumps : ctx.m_jumps[i].buffer # buffer}
ForgetJumpsOnly(ctx, buffer) ==
    [ctx EXCEPT !.m_jumps = Kept(@, JumpsOutOf(ctx, buffer))]
ForgetJumps(ctx, buffer) ==
    LET kept == JumpsOutOf(ctx, buffer)
        at == ctx.m_current
    IN  [ctx EXCEPT !.m_jumps = Kept(@, kept),
                    !.m_current =
                        IF at < Len(ctx.m_jumps) /\ at + 1 \notin kept
                        THEN Cardinality(kept)
                        ELSE Cardinality({i \in kept : i <= at})]

(* Context::last_buffer: the first jump to another buffer from the one      *)
(* before the index on, or else the last one before it.                     *)
OtherJumps(ctx) ==
    {i \in DOMAIN ctx.m_jumps : ctx.m_jumps[i].buffer # BufferOf(ctx)}
LastBuffers(ctx) ==
    LET ahead == {i \in OtherJumps(ctx) : ctx.m_current > 0 /\ i >= ctx.m_current}
        behind == {i \in OtherJumps(ctx) : i <= ctx.m_current}
        first == {i \in ahead : \A j \in ahead : i <= j}
        last == {i \in behind : \A j \in behind : j <= i}
    IN  {ctx.m_jumps[i].buffer : i \in IF ahead # {} THEN first ELSE last}

-----------------------------------------------------------------------------
(* SelectionHistory *)

BeginEdition(ctx) ==
    [ctx EXCEPT !.m_in_edition = @ + 1,
                !.m_staging = IF ctx.m_in_edition > 0 THEN @
                              ELSE [sel |-> SelectionsOf(ctx), parent |-> ctx.m_history_id]]
Write(ctx, sel) ==
    IF Staged(ctx) THEN [ctx EXCEPT !.m_staging.sel = sel]
    ELSE [ctx EXCEPT !.m_history[ctx.m_history_id].sel = sel]

Unchanged(ctx) ==
    /\ ctx.m_history_id # Invalid
    /\ ctx.m_history[ctx.m_history_id].sel = ctx.m_staging.sel
Close(ctx) ==
    IF Unchanged(ctx) THEN [ctx EXCEPT !.m_staging = Unstaged]
    ELSE [ctx EXCEPT !.m_history = Append(@, Node(ctx.m_staging.sel, ctx.m_staging.parent)),
                     !.m_history_id = Len(ctx.m_history) + 1,
                     !.m_staging = Unstaged]
EndEditions(ctx, n) ==
    IF n = 0 THEN ctx
    ELSE IF ctx.m_in_edition = n THEN Close([ctx EXCEPT !.m_in_edition = 0])
    ELSE [ctx EXCEPT !.m_in_edition = @ - n]
EndEdition(ctx) == EndEditions(ctx, 1)

InEdition(ctx, sel) == EndEdition(Write(BeginEdition(ctx), sel))

(* undo<direction>: the node to go to, and going there; or wrongly without  *)
(* a way back.                                                              *)
NextNode(ctx, backward) ==
    IF backward THEN ctx.m_history[ctx.m_history_id].parent
    ELSE ctx.m_history[ctx.m_history_id].redo_child
SelectNextOnly(ctx, next, backward) == [ctx EXCEPT !.m_history_id = next]
SelectNext(ctx, next, backward) ==
    [ctx EXCEPT !.m_history_id = next,
                !.m_history[next].redo_child =
                    IF backward THEN ctx.m_history_id ELSE @]

(* forget_buffer: the nodes that stay are renumbered; or wrongly not those  *)
(* they name.                                                               *)
NodesOutOf(ctx, buffer) ==
    {i \in DOMAIN ctx.m_history : ctx.m_history[i].sel.buffer # buffer}
NewId(ctx, buffer, id) ==
    IF id \notin NodesOutOf(ctx, buffer) THEN Invalid
    ELSE Cardinality({i \in NodesOutOf(ctx, buffer) : i <= id})
Renumbered(ctx, buffer, node) ==
    [node EXCEPT !.parent = NewId(ctx, buffer, @),
                 !.redo_child = NewId(ctx, buffer, @)]
ForgetNodesOnly(ctx, buffer) ==
    [ctx EXCEPT !.m_history = Kept(@, NodesOutOf(ctx, buffer)),
                !.m_history_id = NewId(ctx, buffer, @)]
ForgetNodes(ctx, buffer) ==
    LET nodes == Kept(ctx.m_history, NodesOutOf(ctx, buffer))
        staging == ctx.m_staging
    IN  [ctx EXCEPT !.m_history =
                        [i \in DOMAIN nodes |-> Renumbered(ctx, buffer, nodes[i])],
                    !.m_history_id = NewId(ctx, buffer, ctx.m_history_id),
                    !.m_staging =
                        IF Staged(ctx)
                        THEN [staging EXCEPT !.parent = NewId(ctx, buffer, staging.parent)]
                        ELSE staging]

-----------------------------------------------------------------------------
(* The history is a tree whose parents are older and whose way forward      *)
(* leads back; there is a node or an edition to be in, and the index of the *)
(* jump list is in it or at its end.                                        *)
Sound(ctx) ==
    /\ \A i \in DOMAIN ctx.m_history :
          LET node == ctx.m_history[i] IN
          /\ node.parent \in 0 .. i - 1
          /\ node.redo_child # Invalid =>
                /\ node.redo_child \in i + 1 .. Len(ctx.m_history)
                /\ ctx.m_history[node.redo_child].parent = i
    /\ ctx.m_history_id \in 0 .. Len(ctx.m_history)
    /\ ctx.m_history_id = Invalid => Staged(ctx)
    /\ Staged(ctx) => ctx.m_staging.parent \in 0 .. Len(ctx.m_history)
    /\ Staged(ctx) <=> ctx.m_in_edition > 0
    /\ ctx.m_current \in 0 .. Len(ctx.m_jumps)
=============================================================================
