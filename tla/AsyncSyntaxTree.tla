--------------------------- MODULE AsyncSyntaxTree ---------------------------
(***************************************************************************)
(* Threshold-gated background parsing (AsyncSyntaxTree, syntax_tree.hh).   *)
(*                                                                         *)
(* A redraw polls the tree.  While parses are fast they are made in the    *)
(* poll; a slow one switches the buffer to background mode, where a worker *)
(* thread parses a snapshot of the text, stores the result, clears         *)
(* m_job_running and writes a byte to a pipe, and the event loop takes the *)
(* result over (on_worker_done).  The steps of the worker interleave with  *)
(* those of the main thread; the main thread's are atomic, a join being    *)
(* the rest of what the worker has to do.                                  *)
(*                                                                         *)
(* One client shows the buffer all the time.                               *)
(***************************************************************************)
EXTENDS Naturals, Sequences

CONSTANTS
    MaxTime,       \* bound on the number of changes of the buffer
    MayTimeOut     \* may the worker run out of its budget?

ASSUME AsyncAssumption == MaxTime \in Nat \ {0} /\ MayTimeOut \in BOOLEAN

VARIABLES
    now,                      \* buffer.timestamp()
    made,                     \* ghost: the timestamp at the construction
    redraw,                   \* is a redraw requested?
    m_current,
    m_background_mode,
    worker,                   \* m_worker: what it does next
    m_job_running,
    m_pending_snapshot,       \* the text in the snapshot
    parse,                    \* result, as the worker builds it
    m_worker_result,
    m_dispatched_timestamp,
    m_last_parse_timed_out,
    woken                     \* are there bytes in m_wake_pipe?

jobs == <<worker, m_job_running, m_pending_snapshot, parse, m_worker_result>>
vars == <<now, made, redraw, m_current, m_background_mode, jobs,
          m_dispatched_timestamp, m_last_parse_timed_out, woken>>

Never == 0

(* ParsedSyntax: the text the tree is of, the one byte_index was made from, *)
(* and the one timestamp tells.                                             *)
NoParse == [tree |-> Never, byte_index |-> Never, timestamp |-> Never]
ParseOf(t) == [tree |-> t, byte_index |-> t, timestamp |-> t]
IsValid(p) == p.tree # Never

(* The worker's steps; after the last one, or before the first thread, there *)
(* is nothing to join.                                                       *)
WakesFirst == <<"parse", "index", "store", "wake", "stop", "done">>
WorkerSteps == <<"parse", "index", "store", "stop", "wake", "done">>
NextStep == worker' = WorkerSteps[1 + CHOOSE i \in 1 .. 5 : WorkerSteps[i] = worker]

-----------------------------------------------------------------------------
(* The main thread. *)

(* m_worker.join(), when m_job_running is clear: all that the worker may    *)
(* still have to do is to wake the event loop.                              *)
WokenByJoin == worker = "wake"

(* The buffer changes, which asks for a redraw (Window::needs_redraw). *)
Change ==
    /\ now < MaxTime
    /\ now' = now + 1
    /\ redraw' = TRUE
    /\ UNCHANGED <<made, m_current, m_background_mode, jobs,
                   m_dispatched_timestamp, m_last_parse_timed_out, woken>>

(* parse_sync: the parse is in time or not, and slow or not.                 *)
(* enter_background_mode fails when there is no pipe.                        *)
ParseSync ==
    /\ \E inTime \in {TRUE, ~MayTimeOut}, background \in BOOLEAN :
         /\ m_current' = IF inTime THEN ParseOf(now) ELSE m_current
         /\ m_background_mode' = background
    /\ UNCHANGED <<jobs, m_dispatched_timestamp, woken, m_last_parse_timed_out>>

(* A text that took too long is not tried again. *)
AlwaysWorthTrying == TRUE
WorthTrying == ~(m_last_parse_timed_out /\ m_dispatched_timestamp = now)

(* start_job *)
StartJob ==
    /\ IF m_job_running
       THEN UNCHANGED <<jobs, woken, m_dispatched_timestamp>>
       ELSE /\ woken' = (woken \/ WokenByJoin)
            /\ IF WorthTrying
               THEN /\ m_pending_snapshot' = now
                    /\ m_dispatched_timestamp' = now
                    /\ m_job_running' = TRUE
                    /\ worker' = "parse"
                    /\ UNCHANGED <<parse, m_worker_result>>
               ELSE /\ worker' = "none"
                    /\ UNCHANGED <<m_job_running, m_pending_snapshot, parse,
                                   m_worker_result, m_dispatched_timestamp>>
    /\ UNCHANGED <<m_current, m_background_mode, m_last_parse_timed_out>>

(* A slow buffer is parsed by the worker; or by the poll if that is busy. *)
InBackgroundIfIdle == m_background_mode /\ ~m_job_running
InBackground == m_background_mode

(* poll *)
Poll ==
    IF m_current.timestamp = now
    THEN UNCHANGED <<m_current, m_background_mode, jobs, woken,
                     m_dispatched_timestamp, m_last_parse_timed_out>>
    ELSE IF InBackground THEN StartJob ELSE ParseSync

(* The window is drawn because something asked for it, or because the user  *)
(* moved around.                                                            *)
Redraw ==
    /\ redraw
    /\ redraw' = FALSE
    /\ Poll
    /\ UNCHANGED <<now, made>>
Scroll ==
    /\ ~redraw
    /\ Poll
    /\ UNCHANGED <<now, made, redraw>>

(* Is there something to take over? *)
GotTree == IsValid(m_worker_result)

(* on_worker_done: the pipe is drained; unless a job is running its result  *)
(* is taken over, if there is a tree in it, and a redraw is asked for.      *)
OnWorkerDone ==
    /\ woken
    /\ IF m_job_running
       THEN /\ woken' = FALSE
            /\ UNCHANGED <<redraw, m_current, jobs, m_last_parse_timed_out>>
       ELSE /\ woken' = WokenByJoin
            /\ worker' = "none"
            /\ m_last_parse_timed_out' = ~GotTree
            /\ m_current' = IF GotTree THEN m_worker_result ELSE m_current
            /\ m_worker_result' = NoParse
            /\ m_pending_snapshot' = Never
            /\ redraw' = (redraw \/ GotTree)
            /\ UNCHANGED <<m_job_running, parse>>
    /\ UNCHANGED <<now, made, m_background_mode, m_dispatched_timestamp>>

(* The trees are removed and made again (sync_async_host_tree, for another  *)
(* language): the destructor joins the worker, the constructor parses, and  *)
(* the poll right after that starts a job or tries again.                   *)
Recreate ==
    /\ \E inTime \in {TRUE, ~MayTimeOut}, background, started \in BOOLEAN :
         /\ started => ~inTime /\ background
         /\ m_current' = IF inTime THEN ParseOf(now) ELSE NoParse
         /\ m_background_mode' = background
         /\ m_job_running' = started
         /\ worker' = IF started THEN "parse" ELSE "none"
         /\ m_pending_snapshot' = IF started THEN now ELSE Never
         /\ m_dispatched_timestamp' = IF started THEN now ELSE Never
    /\ parse' = NoParse
    /\ m_worker_result' = NoParse
    /\ m_last_parse_timed_out' = FALSE
    /\ woken' = FALSE
    /\ made' = now
    /\ UNCHANGED <<now, redraw>>

-----------------------------------------------------------------------------
(* The worker. *)

MainUnchanged == UNCHANGED <<now, made, redraw, m_current, m_background_mode,
    m_pending_snapshot, m_dispatched_timestamp, m_last_parse_timed_out>>

(* worker_parse_host reads the snapshot, within its budget. *)
WorkerParse ==
    /\ worker = "parse"
    /\ NextStep
    /\ \E inTime \in {TRUE, ~MayTimeOut} :
         parse' = [NoParse EXCEPT !.tree = IF inTime THEN m_pending_snapshot
                                           ELSE Never]
    /\ UNCHANGED <<m_job_running, m_worker_result, woken>>
    /\ MainUnchanged

(* The timestamp is the snapshot's; the buffer's may be another by now. *)
ParsedTime == m_pending_snapshot

(* The timestamp and the byte index are made after that. *)
WorkerIndex ==
    /\ worker = "index"
    /\ NextStep
    /\ parse' = [parse EXCEPT !.timestamp = ParsedTime,
                              !.byte_index = IF IsValid(parse)
                                             THEN m_pending_snapshot ELSE @]
    /\ UNCHANGED <<m_job_running, m_worker_result, woken>>
    /\ MainUnchanged

WorkerStore ==
    /\ worker = "store"
    /\ NextStep
    /\ m_worker_result' = parse
    /\ UNCHANGED <<m_job_running, parse, woken>>
    /\ MainUnchanged

WorkerStop ==
    /\ worker = "stop"
    /\ NextStep
    /\ m_job_running' = FALSE
    /\ UNCHANGED <<parse, m_worker_result, woken>>
    /\ MainUnchanged

WorkerWake ==
    /\ worker = "wake"
    /\ NextStep
    /\ woken' = TRUE
    /\ UNCHANGED <<m_job_running, parse, m_worker_result>>
    /\ MainUnchanged

Worker == WorkerParse \/ WorkerIndex \/ WorkerStore \/ WorkerStop \/ WorkerWake

-----------------------------------------------------------------------------
Init ==
    /\ now = 1
    /\ made = 1
    /\ redraw = TRUE
    /\ m_current \in {ParseOf(now)} \cup (IF MayTimeOut THEN {NoParse} ELSE {})
    /\ m_background_mode \in BOOLEAN
    /\ worker = "none"
    /\ m_job_running = FALSE
    /\ m_pending_snapshot = Never
    /\ parse = NoParse
    /\ m_worker_result = NoParse
    /\ m_dispatched_timestamp = Never
    /\ m_last_parse_timed_out = FALSE
    /\ woken = FALSE

Next ==
    \/ Change
    \/ Redraw
    \/ Scroll
    \/ OnWorkerDone
    \/ Recreate
    \/ Worker

(* The thread runs; the event loop calls back while there is something to   *)
(* read, and draws the windows that ask for it before it waits again.       *)
Spec ==
    /\ Init
    /\ [][Next]_vars
    /\ WF_vars(Worker)
    /\ WF_vars(OnWorkerDone)
    /\ WF_vars(Redraw)

-----------------------------------------------------------------------------
(* The properties. *)

Times == 1 .. now
Parses == [tree : {Never} \cup Times, byte_index : {Never} \cup Times,
           timestamp : {Never} \cup Times]

(* The job flag is up exactly while the worker may touch what it shares     *)
(* with the main thread (start_job, on_worker_done), and there is then a    *)
(* snapshot for it.                                                         *)
TypeOK ==
    /\ now \in 1 .. MaxTime /\ made \in Times
    /\ redraw \in BOOLEAN /\ m_background_mode \in BOOLEAN /\ woken \in BOOLEAN
    /\ m_current \in Parses /\ parse \in Parses /\ m_worker_result \in Parses
    /\ m_pending_snapshot \in {Never} \cup Times
    /\ m_dispatched_timestamp \in {Never} \cup Times
    /\ worker \in {"none", "parse", "index", "store", "stop", "wake", "done"}
    /\ m_job_running <=> worker \in {"parse", "index", "store", "stop"}
    /\ m_job_running => m_pending_snapshot = m_dispatched_timestamp
    /\ m_last_parse_timed_out \in BOOLEAN

(* What the render thread is handed is a tree, the byte index of the same   *)
(* text, and that text's timestamp; or nothing yet (ParsedSyntax).          *)
CurrentIsOneParse ==
    m_current = NoParse \/ \E t \in Times : m_current = ParseOf(t)

(* A text whose parse gave a tree is not given up: when the worker's result *)
(* was for the buffer as it is and nothing more is to come, it was a        *)
(* time-out (on_worker_done, start_job).                                    *)
NoResultLost ==
    (/\ m_dispatched_timestamp = now /\ m_current.timestamp # now
     /\ ~m_job_running /\ ~woken /\ worker # "wake")
    => m_last_parse_timed_out /\ ~IsValid(parse)

(* Once the loop knows that a parse timed out, it does not parse the same   *)
(* text again, unless with another grammar (start_job).                     *)
TimedOutIsNotRetried ==
    [][worker = "none" /\ m_job_running' /\ ~m_job_running
       => m_dispatched_timestamp' # m_dispatched_timestamp \/ Recreate]_vars

(* The trees handed out are those of newer and newer texts, none of them    *)
(* from before the parses began.                                            *)
Host == INSTANCE HostParse WITH started <- made, parsed <- m_current.tree
ImplementsHostParse == Host!Spec

(* When nobody moves around or makes the trees again, and the last parse is *)
(* not one that ran out of its budget, the tree gets to be the one of the   *)
(* buffer's text (poll: "the next poll after completion sees the newer      *)
(* timestamp").                                                             *)
GaveUp ==    \* in the worker, or in parse_sync before there was one
    \/ m_last_parse_timed_out
    \/ m_dispatched_timestamp = Never /\ ~redraw /\ m_current.timestamp # now
CatchesUp ==
    <>[][~Scroll /\ ~Recreate]_vars /\ <>[]~GaveUp
        => <>[](m_current.timestamp = now)

-----------------------------------------------------------------------------
(* Why the safety properties hold: the inductive invariant.                 *)

(* The first texts the trees can be of are those since they were made; the  *)
(* tree there is not newer than the last text given to the worker, which    *)
(* has been given none as long as the parses are fast.                      *)
TimesAreOrdered ==
    /\ m_current.tree # Never => m_current.tree \in made .. now
    /\ m_dispatched_timestamp # Never =>
         /\ m_dispatched_timestamp \in made .. now
         /\ m_current.tree <= m_dispatched_timestamp
         /\ m_background_mode
    /\ m_dispatched_timestamp = Never =>
         worker = "none" /\ m_worker_result = NoParse

(* What the worker has made so far of the text it was given. *)
WorkerIsOnTrack ==
    /\ worker = "index" =>
         \E t \in {Never, m_dispatched_timestamp} :
            parse = [NoParse EXCEPT !.tree = t]
    /\ worker \in {"store", "stop"} =>
         \/ parse = ParseOf(m_dispatched_timestamp)
         \/ ~IsValid(parse)
    /\ worker = "stop" => m_worker_result = parse

(* Once the job is done, its tree waits in m_worker_result for the wake-up  *)
(* to be served, or has been taken over; or it gave none, which the main    *)
(* thread has noted or will be woken to note.                               *)
Notified == woken \/ worker = "wake"
JobIsAccountedFor ==
    (~m_job_running /\ m_dispatched_timestamp # Never) =>
        \/ /\ parse = ParseOf(m_dispatched_timestamp)
           /\ \/ m_worker_result = parse /\ Notified
              \/ ~IsValid(m_worker_result) /\ m_current = parse
        \/ /\ ~IsValid(parse) /\ ~IsValid(m_worker_result)
           /\ Notified \/ m_last_parse_timed_out

(* A worker that has been joined leaves its tree, or the time-out is known. *)
JoinedIsKnown ==
    (worker = "none" /\ m_dispatched_timestamp # Never) =>
        \/ m_current = ParseOf(m_dispatched_timestamp)
        \/ m_last_parse_timed_out

(* All of it. *)
AsyncInv ==
    /\ TypeOK
    /\ CurrentIsOneParse
    /\ TimesAreOrdered
    /\ WorkerIsOnTrack
    /\ JobIsAccountedFor
    /\ JoinedIsKnown
=============================================================================
