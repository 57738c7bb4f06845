------------------------------ MODULE FifoText ------------------------------
(***************************************************************************)
(* What FifoWatcher::read_fifo does to the text of a buffer when a chunk   *)
(* of data comes out of the fifo (src/src/buffer_utils.cc).  A fifo buffer *)
(* starts with one empty line, so that the first chunk takes its place,    *)
(* and the EOL that ends the last line is either part of what was read or  *)
(* an addition of the buffer's, depending on the way it scrolls.           *)
(***************************************************************************)
EXTENDS BufferText

AutoScroll == {"No", "NotInitially", "Yes"}

(* back_coord() is {0,0}: the text is an empty line. *)
IsFirst(t) == Len(t) = 1

(* Where a chunk goes: after the last EOL, or before it. *)
ReadPosition(t, scroll, hadTrailing) ==
    IF \/ scroll = "No" /\ (IsFirst(t) \/ hadTrailing)
       \/ scroll = "NotInitially" /\ IsFirst(t)
    THEN Len(t) ELSE Len(t) - 1

(* The EOL of the initial line, or the one that a chunk ending with EOL     *)
(* makes superfluous, is then erased.                                       *)
Received(t, s, scroll, hadTrailing) ==
    LET pos == ReadPosition(t, scroll, hadTrailing)
        u == Apply(InsertionAt(t, pos, s), t)
    IN  IF scroll # "Yes" /\ IsFirst(t)
        THEN LET v == Splice(u, 0, 1, <<>>)
             IN  IF scroll = "NotInitially" /\ EndsWithEol(s)
                 THEN Splice(v, Len(v), 0, <<EOL>>) ELSE v
        ELSE IF scroll = "No" /\ ~hadTrailing /\ EndsWithEol(s)
        THEN Splice(u, pos + Len(s) - 1, 1, <<>>)
        ELSE u
=============================================================================
