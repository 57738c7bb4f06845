----------------------------- MODULE FifoBuffer -----------------------------
(***************************************************************************)
(* A fifo buffer: a process writes to a fifo, and FifoWatcher::read_fifo,  *)
(* called back by the event loop when there is something to read, appends  *)
(* what it gets to the buffer (src/src/buffer_utils.cc).                   *)
(*                                                                         *)
(* What is written arrives in chunks that have nothing to do with lines: a *)
(* callback makes up to MaxLoop reads of at most BufferSize characters,    *)
(* and the writer may write between any two of them.  The text is the one  *)
(* of BufferText; nobody else edits the buffer here (Buffer has that).     *)
(***************************************************************************)
EXTENDS FifoText, Integers

CONSTANTS
    Scrolls,       \* the ways the buffer may scroll
    BufferSize,    \* buffer_size: the most that is read at once
    MaxLoop,       \* max_loop: the most reads made by a callback
    MaxData        \* bound on the number of characters written

ASSUME FifoAssumption ==
    /\ Scrolls \subseteq AutoScroll
    /\ BufferSize \in Nat \ {0} /\ MaxLoop \in Nat \ {0}
    /\ MaxData \in Nat

VARIABLES
    text,                    \* the lines of m_buffer
    m_scroll,
    m_had_trailing_newline,
    insert_begin,            \* the Optional: no coordinate, or one
    loop,                    \* the reads made by the callback in progress
    closed,                  \* has it met the end of the fifo?
    watching,                \* is there a FifoWatcher?
    pipe,                    \* what is written and not read yet
    open,                    \* does the writer have the fifo open?
    (* Ghosts. *)
    received,                \* all that was read
    fresh,                   \* what the callback in progress read
    announced                \* what BufReadFifo was last told, and what was
                             \* read then

reader == <<text, m_had_trailing_newline, insert_begin, loop, closed, watching,
            received, fresh, announced>>
vars == <<text, m_scroll, m_had_trailing_newline, insert_begin, loop, closed,
          watching, pipe, open, received, fresh, announced>>

Least(a, b) == IF a < b THEN a ELSE b

-----------------------------------------------------------------------------
(* The writer. *)

Write(c) ==
    /\ open
    /\ Len(received) + Len(pipe) < MaxData
    /\ pipe' = Append(pipe, c)
    /\ UNCHANGED <<reader, m_scroll, open>>

Close ==
    /\ open
    /\ open' = FALSE
    /\ UNCHANGED <<reader, m_scroll, pipe>>

-----------------------------------------------------------------------------
(* The watcher. *)

(* fd_readable: there is data, or the end of it. *)
Readable == pipe # <<>> \/ ~open

(* The callback starts, or goes on with another read: not for ever. *)
CanRead == watching /\ ~closed /\ loop < MaxLoop /\ Readable

(* As it would be if the initial line stayed. *)
BeginAsInserted(begin, first) == begin

(* --insert_begin->line, once the line above is erased. *)
BeginOnceErased(begin, first) ==
    IF m_scroll # "Yes" /\ first THEN begin - 1 ELSE begin

(* have_trailing_newline, and as if chunks were lines. *)
HadAnyway(s) == TRUE
HaveTrailingNewline(s) == EndsWithEol(s)

ReadChunk ==
    LET n == Least(BufferSize, Len(pipe))
        s == SubSeq(pipe, 1, n)
        begin == IF insert_begin = {}
                 THEN ReadPosition(text, m_scroll, m_had_trailing_newline)
                 ELSE CHOOSE b \in insert_begin : TRUE
    IN  /\ CanRead
        /\ pipe # <<>>
        /\ text' = Received(text, s, m_scroll, m_had_trailing_newline)
        /\ insert_begin' = {BeginOnceErased(begin, IsFirst(text))}
        /\ m_had_trailing_newline' = HaveTrailingNewline(s)
        /\ loop' = loop + 1
        /\ pipe' = SubSeq(pipe, n + 1, Len(pipe))
        /\ received' = received \o s
        /\ fresh' = fresh \o s
        /\ UNCHANGED <<m_scroll, closed, watching, open, announced>>

(* read returns 0. *)
ReadEnd ==
    /\ CanRead
    /\ pipe = <<>>
    /\ closed' = TRUE
    /\ UNCHANGED <<text, m_scroll, m_had_trailing_newline, insert_begin, loop,
                   watching, pipe, open, received, fresh, announced>>

(* insert_back *)
InsertBack ==
    IF m_had_trailing_newline /\ m_scroll = "No" THEN Len(text) - 1
    ELSE Len(text) - 2

(* A range that starts before the text shows nothing. *)
Shown(begin) ==
    IF begin < 0 THEN <<>> ELSE Slice(text, begin, InsertBack - begin + 1)

(* The watcher stays until the end of the fifo; not longer. *)
WatchForever == TRUE
StillWatching == ~closed

(* No more reads: the BufReadFifo hook is told what was inserted, and at    *)
(* the end of the fifo the watcher is removed.                              *)
EndOfCallback ==
    /\ watching
    /\ loop > 0 \/ closed
    /\ closed \/ loop = MaxLoop \/ ~Readable
    /\ announced' = IF insert_begin = {} THEN announced
                    ELSE [shown |-> Shown(CHOOSE b \in insert_begin : TRUE),
                          read |-> fresh]
    /\ insert_begin' = {}
    /\ fresh' = <<>>
    /\ loop' = 0
    /\ closed' = FALSE
    /\ watching' = StillWatching
    /\ UNCHANGED <<text, m_scroll, m_had_trailing_newline, pipe, open, received>>

Init ==
    /\ text = <<EOL>>
    /\ m_scroll \in Scrolls
    /\ m_had_trailing_newline = FALSE
    /\ insert_begin = {}
    /\ loop = 0
    /\ closed = FALSE
    /\ watching = TRUE
    /\ pipe = <<>>
    /\ open = TRUE
    /\ received = <<>>
    /\ fresh = <<>>
    /\ announced = [shown |-> <<>>, read |-> <<>>]

Callback == ReadChunk \/ ReadEnd \/ EndOfCallback

Next == (\E c \in Char : Write(c)) \/ Close \/ Callback

(* The event loop calls back as long as the fifo is readable, and a         *)
(* callback goes on to its end.                                             *)
Spec == Init /\ [][Next]_vars /\ WF_vars(Callback)

-----------------------------------------------------------------------------

(* The text that shows d: d itself with its last line ended, and one more   *)
(* line for what is to come when the buffer scrolls.                        *)
TextOf(d) ==
    IF m_scroll = "No" /\ EndsWithEol(d) THEN d ELSE Append(d, EOL)

(* "continually appends data from the fifo": however the data is cut into   *)
(* chunks, the buffer shows all of it and nothing else.                     *)
BufferShowsData == received # <<>> => text = TextOf(received)

(* As BufferShowsData, but for data that starts with an empty line in a     *)
(* buffer that does not scroll.                                             *)
StartsWithEmptyLine == m_scroll = "No" /\ received # <<>> /\ Head(received) = EOL
BufferShowsLines == ~StartsWithEmptyLine => BufferShowsData

(* "The hook param contains the range of text that was just inserted": what *)
(* BufReadFifo is told selects what the callback read, over all its reads.  *)
AnnouncedIsRead == ~StartsWithEmptyLine => announced.shown = announced.read

(* When the writer is gone the buffer ends up with no watcher, and then all *)
(* that was written has been read.                                          *)
ClosedInTheEnd == ~open ~> (~watching /\ pipe = <<>>)

-----------------------------------------------------------------------------
(* Why the buffer shows the data: the inductive invariant.                  *)

FifoTypeOK ==
    /\ m_scroll \in Scrolls
    /\ m_had_trailing_newline \in BOOLEAN
    /\ pipe \in Text /\ received \in Text /\ fresh \in Text

(* Before the first chunk the buffer is as it was opened. *)
NothingReceived ==
    received = <<>> =>
        /\ text = <<EOL>>
        /\ ~m_had_trailing_newline

(* The last chunk ended with EOL if all that was read does. *)
RemembersTrailing ==
    received # <<>> => m_had_trailing_newline = EndsWithEol(received)

(* What the callback in progress read is the last of all that was read, and *)
(* the range starts where it does.                                          *)
BeginIsFresh ==
    /\ (fresh = <<>>) <=> (insert_begin = {})
    /\ Len(fresh) <= Len(received)
    /\ Slice(received, Len(received) - Len(fresh), Len(fresh)) = fresh
    /\ ~StartsWithEmptyLine /\ insert_begin # {}
       => insert_begin = {Len(received) - Len(fresh)}

FifoInv ==
    /\ FifoTypeOK
    /\ NothingReceived
    /\ RemembersTrailing
    /\ BeginIsFresh
    /\ BufferShowsLines
    /\ AnnouncedIsRead
=============================================================================
