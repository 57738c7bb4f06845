----------------------------- MODULE BufferText -----------------------------
(***************************************************************************)
(* The text of a buffer and the single modifications made to it            *)
(* (src/src/buffer.cc, Buffer::Modification, do_insert, do_erase).         *)
(*                                                                         *)
(* The code keeps a vector of lines and addresses them by {line, column};  *)
(* here the text is the sequence of its characters, lines being separated  *)
(* by the character EOL that ends each of them, and a coordinate is the    *)
(* number of characters before it: {0,0} is 0 and end_coord() is Len(t).   *)
(* The two views are in bijection as long as every line ends with EOL.     *)
(***************************************************************************)
EXTENDS Naturals, Sequences

CONSTANTS
    Char,   \* the characters a text is made of
    EOL     \* the one that ends a line

ASSUME CharAssumption == EOL \in Char

Text == Seq(Char)

(* t with the del characters after offset pos replaced by ins. *)
Splice(t, pos, del, ins) ==
    [i \in 1 .. (Len(t) - del + Len(ins)) |->
        IF i <= pos THEN t[i]
        ELSE IF i <= pos + Len(ins) THEN ins[i - pos]
        ELSE t[i - Len(ins) + del]]

(* The n characters of t after offset pos. *)
Slice(t, pos, n) == [i \in 1 .. n |-> t[pos + i]]

EndsWithEol(t) == t # <<>> /\ t[Len(t)] = EOL

(* column # 0 at offset pos: the character before it does not end a line. *)
InsideLine(t, pos) == pos > 0 /\ t[pos] # EOL

-----------------------------------------------------------------------------
(* Buffer::Modification. *)
Modification == [type : {"Insert", "Erase"}, pos : Nat, content : Text]

Insertion(p, s) == [type |-> "Insert", pos |-> p, content |-> s]
Erasure(p, s) == [type |-> "Erase", pos |-> p, content |-> s]

InverseOf(m) ==
    [type |-> IF m.type = "Insert" THEN "Erase" ELSE "Insert",
     pos |-> m.pos, content |-> m.content]

(* What apply_modification asserts of the text it is about to change: the   *)
(* coordinate is valid, and an erasure finds the content it is to remove.   *)
Fits(m, t) ==
    /\ m.pos <= Len(t)
    /\ m.type = "Erase" =>
         /\ m.pos + Len(m.content) <= Len(t)
         /\ Slice(t, m.pos, Len(m.content)) = m.content

(* do_insert and do_erase. *)
Apply(m, t) ==
    IF m.type = "Insert" THEN Splice(t, m.pos, 0, m.content)
    ELSE Splice(t, m.pos, Len(m.content), <<>>)

(* Buffer::insert: an insertion at the end is completed with an EOL. *)
InsertionAt(t, pos, s) ==
    Insertion(pos, IF pos = Len(t) /\ s[Len(s)] # EOL THEN Append(s, EOL)
                   ELSE s)

(* Buffer::erase keeps the last EOL, except when whole lines are erased. *)
EraseEnd(t, begin, end) ==
    IF end = Len(t) /\ (InsideLine(t, begin) \/ begin = 0) THEN end - 1
    ELSE end
=============================================================================
