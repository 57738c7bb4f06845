------------------------ MODULE AsyncSyntaxTreeProofs ------------------------
(***************************************************************************)
(* The background parser, for every number of changes of the buffer: what  *)
(* it hands out is one parse, results are not lost, parses that timed out  *)
(* are not tried again, and it implements HostParse.                       *)
(***************************************************************************)
EXTENDS AsyncSyntaxTree, TLAPS

(* The order of the worker's steps. *)
LEMMA Steps ==
  ASSUME NextStep
  PROVE  /\ worker = "parse" => worker' = "index"
         /\ worker = "index" => worker' = "store"
         /\ worker = "store" => worker' = "stop"
         /\ worker = "stop" => worker' = "wake"
         /\ worker = "wake" => worker' = "done"
<1>1. \A i, j \in 1 .. 5 : WorkerSteps[i] = WorkerSteps[j] => i = j
  BY DEF WorkerSteps
<1>2. ASSUME NEW i \in 1 .. 5, worker = WorkerSteps[i]
      PROVE  worker' = WorkerSteps[i + 1]
  <2>1. (CHOOSE j \in 1 .. 5 : WorkerSteps[j] = worker) = i
    BY <1>1, <1>2
  <2>2. worker' = WorkerSteps[1 + i]
    BY <2>1 DEF NextStep
  <2> QED
    BY <2>2
<1> QED
  BY <1>2 DEF WorkerSteps

(* Timestamps and the parses made of them. *)
LEMMA ParseFacts ==
  ASSUME AsyncAssumption, TypeOK
  PROVE  /\ now \in Nat /\ now >= 1 /\ now <= MaxTime
         /\ made \in Nat /\ made >= 1 /\ made <= now
         /\ ParseOf(now) \in Parses /\ NoParse \in Parses
         /\ ParseOf(now).tree = now /\ NoParse.tree = Never
         /\ ParseOf(now).timestamp = now /\ NoParse.timestamp = Never
         /\ m_current.tree \in Nat /\ m_dispatched_timestamp \in Nat
BY DEF AsyncAssumption, TypeOK, Times, Parses, ParseOf, NoParse, Never

-----------------------------------------------------------------------------
LEMMA InitAsyncInv == AsyncAssumption /\ Init => AsyncInv
<1> SUFFICES ASSUME AsyncAssumption, Init PROVE AsyncInv
  OBVIOUS
<1>1. TypeOK
  <2>1. m_current \in {ParseOf(now), NoParse}
    BY DEF Init
  <2>2. ParseOf(now) \in Parses /\ NoParse \in Parses
    BY DEF Init, Parses, Times, ParseOf, NoParse, Never
  <2>3. now \in 1 .. MaxTime /\ made \in Times
    BY DEF AsyncAssumption, Init, Times
  <2>4. /\ redraw = TRUE /\ woken = FALSE /\ m_background_mode \in BOOLEAN
        /\ parse = NoParse /\ m_worker_result = NoParse
        /\ m_pending_snapshot = Never /\ m_dispatched_timestamp = Never
        /\ worker = "none" /\ m_job_running = FALSE
        /\ m_last_parse_timed_out = FALSE
    BY DEF Init
  <2> QED
    BY <2>1, <2>2, <2>3, <2>4 DEF TypeOK
<1>2. CurrentIsOneParse
  BY DEF Init, CurrentIsOneParse, Times
<1>3. TimesAreOrdered
  BY DEF Init, TimesAreOrdered, ParseOf, NoParse, Never
<1>4. WorkerIsOnTrack /\ JobIsAccountedFor /\ JoinedIsKnown
  BY DEF Init, WorkerIsOnTrack, JobIsAccountedFor, JoinedIsKnown
<1> QED
  BY <1>1, <1>2, <1>3, <1>4 DEF AsyncInv

(* A new change makes room for newer timestamps and for nothing else. *)
LEMMA ChangePreserves == AsyncAssumption /\ AsyncInv /\ Change => AsyncInv'
<1> SUFFICES ASSUME AsyncAssumption, AsyncInv, Change PROVE AsyncInv'
  OBVIOUS
<1> USE DEF AsyncInv
<1>1. TypeOK'
  BY DEF Change, jobs, AsyncAssumption, TypeOK, Times, Parses, Never
<1>2. CurrentIsOneParse'
  BY DEF Change, CurrentIsOneParse, Times, TypeOK, AsyncAssumption
<1>3. TimesAreOrdered'
  BY DEF Change, jobs, TimesAreOrdered, TypeOK, Times, AsyncAssumption
<1>4. WorkerIsOnTrack' /\ JobIsAccountedFor' /\ JoinedIsKnown'
  BY DEF Change, jobs, WorkerIsOnTrack, JobIsAccountedFor, JoinedIsKnown,
         Notified
<1> QED
  BY <1>1, <1>2, <1>3, <1>4

(* A parse made by the poll: the buffer is not parsed in the background, so *)
(* that nothing was given to the worker.                                    *)
LEMMA ParseSyncPreserves ==
  ASSUME AsyncAssumption, AsyncInv, ~m_background_mode, ParseSync,
         redraw' \in BOOLEAN, UNCHANGED <<now, made>>
  PROVE  AsyncInv'
<1> USE DEF AsyncInv
<1>1. UNCHANGED <<now, made, worker, m_job_running, m_pending_snapshot, parse,
                  m_worker_result, m_dispatched_timestamp, woken,
                  m_last_parse_timed_out>>
  BY DEF ParseSync, jobs
<1>2. m_dispatched_timestamp = Never /\ worker = "none"
  BY DEF TimesAreOrdered
<1>3. m_background_mode' \in BOOLEAN /\ m_current' \in {ParseOf(now), m_current}
  BY DEF ParseSync
<1>4. TypeOK'
  BY <1>1, <1>3, ParseFacts DEF TypeOK, Times, Parses
<1>5. CurrentIsOneParse'
  BY <1>1, <1>3, ParseFacts DEF CurrentIsOneParse, Times
<1>6. TimesAreOrdered'
  BY <1>1, <1>2, <1>3, ParseFacts DEF TimesAreOrdered
<1>7. WorkerIsOnTrack' /\ JobIsAccountedFor' /\ JoinedIsKnown'
  BY <1>1, <1>2 DEF WorkerIsOnTrack, JobIsAccountedFor, JoinedIsKnown
<1> QED
  BY <1>4, <1>5, <1>6, <1>7

(* A job is started, is running already, or is not worth trying. *)
LEMMA StartJobPreserves ==
  ASSUME AsyncAssumption, AsyncInv, m_background_mode, StartJob,
         redraw' \in BOOLEAN, UNCHANGED <<now, made>>
  PROVE  AsyncInv'
<1> USE DEF AsyncInv
<1>1. UNCHANGED <<now, made, m_current, m_background_mode, m_worker_result, parse,
                  m_last_parse_timed_out>>
  BY DEF StartJob, jobs
<1>2. CurrentIsOneParse'
  BY <1>1 DEF CurrentIsOneParse, Times
<1>3. CASE m_job_running
  <2>1. UNCHANGED <<worker, m_job_running, m_pending_snapshot, woken,
                    m_dispatched_timestamp>>
    BY <1>3 DEF StartJob, jobs
  <2>2. TypeOK'
    BY <1>1, <2>1 DEF TypeOK, Times, Parses
  <2>3. TimesAreOrdered' /\ WorkerIsOnTrack' /\ JobIsAccountedFor' /\ JoinedIsKnown'
    BY <1>1, <2>1 DEF TimesAreOrdered, WorkerIsOnTrack, JobIsAccountedFor,
                      JoinedIsKnown, Notified
  <2> QED
    BY <1>2, <2>2, <2>3
<1>4. CASE ~m_job_running /\ WorthTrying
  <2>1. /\ worker' = "parse" /\ m_job_running' = TRUE
        /\ m_pending_snapshot' = now /\ m_dispatched_timestamp' = now
        /\ woken' = (woken \/ WokenByJoin)
    BY <1>4 DEF StartJob
  <2>2. TypeOK'
    BY <1>1, <2>1, ParseFacts DEF TypeOK, Times, Parses, WokenByJoin
  <2>3. m_current.tree <= now
    BY ParseFacts DEF TimesAreOrdered, Never
  <2>4. TimesAreOrdered'
    BY <1>1, <2>1, <2>3, ParseFacts DEF TimesAreOrdered, Never
  <2>5. WorkerIsOnTrack' /\ JobIsAccountedFor' /\ JoinedIsKnown'
    BY <2>1 DEF WorkerIsOnTrack, JobIsAccountedFor, JoinedIsKnown
  <2> QED
    BY <1>2, <2>2, <2>4, <2>5
<1>5. CASE ~m_job_running /\ ~WorthTrying
  <2>1. /\ worker' = "none" /\ woken' = (woken \/ WokenByJoin)
        /\ UNCHANGED <<m_job_running, m_pending_snapshot, m_dispatched_timestamp>>
    BY <1>5 DEF StartJob
  <2>2. m_last_parse_timed_out
    BY <1>5 DEF WorthTrying
  <2>3. TypeOK'
    BY <1>1, <1>5, <2>1 DEF TypeOK, Times, Parses, WokenByJoin
  <2>4. TimesAreOrdered'
    BY <1>1, <2>1 DEF TimesAreOrdered
  <2>5. WorkerIsOnTrack' /\ JoinedIsKnown'
    BY <1>1, <2>1, <2>2 DEF WorkerIsOnTrack, JoinedIsKnown
  <2>6. JobIsAccountedFor'
    BY <1>1, <2>1, <2>2 DEF JobIsAccountedFor, Notified, WokenByJoin
  <2> QED
    BY <1>2, <2>3, <2>4, <2>5, <2>6
<1> QED
  BY <1>3, <1>4, <1>5

LEMMA PollPreserves ==
  ASSUME AsyncAssumption, AsyncInv, Poll, redraw' \in BOOLEAN,
         UNCHANGED <<now, made>>
  PROVE  AsyncInv'
<1>1. CASE m_current.timestamp = now
  <2>1. UNCHANGED <<m_current, m_background_mode, worker, m_job_running,
                    m_pending_snapshot, parse, m_worker_result, woken,
                    m_dispatched_timestamp, m_last_parse_timed_out>>
    BY <1>1 DEF Poll, jobs
  <2>2. TypeOK'
    BY <2>1 DEF AsyncInv, TypeOK, Times, Parses
  <2> QED
    BY <2>1, <2>2 DEF AsyncInv, CurrentIsOneParse, Times, TimesAreOrdered,
       WorkerIsOnTrack, JobIsAccountedFor, JoinedIsKnown, Notified
<1>2. CASE m_current.timestamp # now /\ m_background_mode
  BY <1>2, StartJobPreserves DEF Poll, InBackground
<1>3. CASE m_current.timestamp # now /\ ~m_background_mode
  BY <1>3, ParseSyncPreserves DEF Poll, InBackground
<1> QED
  BY <1>1, <1>2, <1>3

LEMMA RedrawPreserves == AsyncAssumption /\ AsyncInv /\ Redraw => AsyncInv'
BY PollPreserves DEF Redraw

LEMMA ScrollPreserves == AsyncAssumption /\ AsyncInv /\ Scroll => AsyncInv'
<1> SUFFICES ASSUME AsyncAssumption, AsyncInv, Scroll PROVE AsyncInv'
  OBVIOUS
<1>1. redraw' \in BOOLEAN
  BY DEF AsyncInv, TypeOK, Scroll
<1> QED
  BY <1>1, PollPreserves DEF Scroll

(* The result is taken over, once the worker is done with it. *)
LEMMA OnWorkerDonePreserves ==
  AsyncAssumption /\ AsyncInv /\ OnWorkerDone => AsyncInv'
<1> SUFFICES ASSUME AsyncAssumption, AsyncInv, OnWorkerDone PROVE AsyncInv'
  OBVIOUS
<1> USE DEF AsyncInv
<1>1. UNCHANGED <<now, made, m_background_mode, m_dispatched_timestamp>>
  BY DEF OnWorkerDone
<1>2. CASE m_job_running
  <2>1. /\ woken' = FALSE
        /\ UNCHANGED <<redraw, m_current, worker, m_job_running, parse,
                       m_pending_snapshot, m_worker_result,
                       m_last_parse_timed_out>>
    BY <1>2 DEF OnWorkerDone, jobs
  <2>2. TypeOK'
    <3>1. Times' = Times /\ Parses' = Parses
      BY <1>1 DEF Times, Parses
    <3>2. woken' \in BOOLEAN
      BY <2>1
    <3> QED
      BY <1>1, <2>1, <3>1, <3>2 DEF TypeOK
  <2> QED
    BY <1>1, <1>2, <2>1, <2>2 DEF CurrentIsOneParse, Times, TimesAreOrdered,
       WorkerIsOnTrack, JobIsAccountedFor, JoinedIsKnown
<1>3. CASE ~m_job_running
  <2>1. /\ worker' = "none" /\ woken' = WokenByJoin
        /\ m_worker_result' = NoParse /\ m_pending_snapshot' = Never
        /\ m_last_parse_timed_out' = ~GotTree
        /\ redraw' = (redraw \/ GotTree)
        /\ UNCHANGED <<m_job_running, parse>>
    BY <1>3 DEF OnWorkerDone
  <2>2. m_current' = IF IsValid(m_worker_result) THEN m_worker_result
                     ELSE m_current
    BY <1>3 DEF OnWorkerDone, GotTree
  <2>3. IsValid(m_worker_result) /\ m_dispatched_timestamp # Never
        => m_worker_result = ParseOf(m_dispatched_timestamp)
    BY <1>3 DEF JobIsAccountedFor
  <2>4. TypeOK'
    <3>1. m_current' \in Parses' /\ m_worker_result' \in Parses' /\ parse' \in Parses'
      BY <1>1, <2>1, <2>2, ParseFacts DEF TypeOK, Parses, Times
    <3>2. woken' \in BOOLEAN /\ redraw' \in BOOLEAN /\ m_last_parse_timed_out' \in BOOLEAN
      BY <2>1 DEF TypeOK, WokenByJoin, GotTree, IsValid
    <3>3. worker' = "none" /\ m_job_running' = FALSE
      BY <1>3, <2>1 DEF TypeOK
    <3> QED
      BY <1>1, <2>1, <3>1, <3>2, <3>3 DEF TypeOK, Times
  <2>5. CASE m_dispatched_timestamp = Never
    <3>1. ~IsValid(m_worker_result)
      BY <2>5 DEF TimesAreOrdered, IsValid, NoParse
    <3> QED
      BY <1>1, <2>1, <2>2, <2>4, <2>5, <3>1 DEF CurrentIsOneParse, Times,
         TimesAreOrdered, WorkerIsOnTrack, JobIsAccountedFor, JoinedIsKnown
  <2>6. CASE m_dispatched_timestamp # Never
    <3>1. CurrentIsOneParse'
      BY <1>1, <2>2, <2>3, <2>6
         DEF CurrentIsOneParse, TimesAreOrdered, TypeOK, Times
    <3>2. TimesAreOrdered'
      BY <1>1, <2>1, <2>2, <2>3, <2>6, ParseFacts DEF TimesAreOrdered, ParseOf
    <3>3. WorkerIsOnTrack'
      BY <2>1 DEF WorkerIsOnTrack
    <3>4. JobIsAccountedFor'
      BY <1>1, <1>3, <2>1, <2>2, <2>6, ParseFacts
         DEF JobIsAccountedFor, Notified, IsValid, GotTree
    <3>5. JoinedIsKnown'
      BY <1>1, <2>1, <2>2, <2>3, <2>6 DEF JoinedIsKnown, GotTree
    <3> QED
      BY <2>4, <3>1, <3>2, <3>3, <3>4, <3>5
  <2> QED
    BY <2>5, <2>6
<1> QED
  BY <1>2, <1>3

(* The trees are made again. *)
LEMMA RecreatePreserves == AsyncAssumption /\ AsyncInv /\ Recreate => AsyncInv'
<1> SUFFICES ASSUME AsyncAssumption, AsyncInv, Recreate PROVE AsyncInv'
  OBVIOUS
<1> USE DEF AsyncInv
<1>1. PICK inTime \in {TRUE, ~MayTimeOut}, background \in BOOLEAN,
           started \in BOOLEAN :
        /\ started => ~inTime /\ background
        /\ m_current' = IF inTime THEN ParseOf(now) ELSE NoParse
        /\ m_background_mode' = background
        /\ m_job_running' = started
        /\ worker' = IF started THEN "parse" ELSE "none"
        /\ m_pending_snapshot' = IF started THEN now ELSE Never
        /\ m_dispatched_timestamp' = IF started THEN now ELSE Never
  BY DEF Recreate
<1>2. /\ parse' = NoParse /\ m_worker_result' = NoParse
      /\ m_last_parse_timed_out' = FALSE /\ woken' = FALSE /\ made' = now
      /\ now' = now /\ redraw' = redraw
  BY DEF Recreate
<1>3. m_current' = ParseOf(now) \/ m_current' = NoParse
  BY <1>1
<1>4. TypeOK'
  <2>1. m_current' \in Parses' /\ parse' \in Parses' /\ m_worker_result' \in Parses'
    BY <1>2, <1>3, ParseFacts DEF Parses, Times
  <2>2. now' \in 1 .. MaxTime /\ made' \in Times'
    BY <1>2, ParseFacts DEF TypeOK, Times
  <2>3. CASE started
    BY <1>1, <1>2, <2>1, <2>2, <2>3, ParseFacts DEF TypeOK, Times
  <2>4. CASE ~started
    BY <1>1, <1>2, <2>1, <2>2, <2>4, ParseFacts DEF TypeOK, Times
  <2> QED
    BY <2>3, <2>4
<1>5. CurrentIsOneParse'
  BY <1>2, <1>3, ParseFacts DEF CurrentIsOneParse, Times
<1>6. TimesAreOrdered'
  <2>1. CASE started
    BY <1>1, <1>2, <1>3, <2>1, ParseFacts DEF TimesAreOrdered, Never
  <2>2. CASE ~started
    BY <1>1, <1>2, <1>3, <2>2, ParseFacts DEF TimesAreOrdered
  <2> QED
    BY <2>1, <2>2
<1>7. WorkerIsOnTrack' /\ JobIsAccountedFor' /\ JoinedIsKnown'
  <2>1. CASE started
    BY <1>1, <1>2, <2>1 DEF WorkerIsOnTrack, JobIsAccountedFor, JoinedIsKnown
  <2>2. CASE ~started
    BY <1>1, <1>2, <2>2 DEF WorkerIsOnTrack, JobIsAccountedFor, JoinedIsKnown
  <2> QED
    BY <2>1, <2>2
<1> QED
  BY <1>4, <1>5, <1>6, <1>7


-----------------------------------------------------------------------------
(* The worker. *)

(* What a step of the worker leaves alone keeps its part of the invariant.  *)
LEMMA WorkerLeaves ==
  ASSUME AsyncAssumption, AsyncInv, MainUnchanged,
         worker \in {"parse", "index", "store", "stop", "wake"},
         worker' \in {"index", "store", "stop", "wake", "done"},
         m_job_running' \in BOOLEAN,
         m_job_running' => m_job_running,
         m_job_running' <=> worker' \in {"index", "store", "stop"},
         woken' \in BOOLEAN,
         parse' \in Parses, m_worker_result' \in Parses
  PROVE  TypeOK' /\ CurrentIsOneParse' /\ TimesAreOrdered' /\ JoinedIsKnown'
<1> USE DEF AsyncInv
<1>1. UNCHANGED <<now, made, redraw, m_current, m_background_mode,
                  m_pending_snapshot, m_dispatched_timestamp,
                  m_last_parse_timed_out>>
  BY DEF MainUnchanged
<1>2. Times' = Times /\ Parses' = Parses
  BY <1>1 DEF Times, Parses
<1>4. TypeOK'
  BY <1>1, <1>2 DEF TypeOK
<1>5. CurrentIsOneParse'
  BY <1>1, <1>2 DEF CurrentIsOneParse
<1>6. m_dispatched_timestamp # Never
  BY DEF TimesAreOrdered
<1>7. TimesAreOrdered' /\ JoinedIsKnown'
  BY <1>1, <1>6 DEF TimesAreOrdered, JoinedIsKnown
<1> QED
  BY <1>4, <1>5, <1>7

(* The text the worker was given, and what it can make of it. *)
LEMMA WorkerFacts ==
  ASSUME AsyncAssumption, AsyncInv, worker \in {"parse", "index", "store", "stop"}
  PROVE  /\ m_job_running
         /\ m_pending_snapshot = m_dispatched_timestamp
         /\ m_dispatched_timestamp # Never /\ m_dispatched_timestamp \in Times
         /\ ParseOf(m_dispatched_timestamp) \in Parses
<1>1. /\ m_job_running /\ m_pending_snapshot = m_dispatched_timestamp
      /\ m_dispatched_timestamp \in {Never} \cup Times
  BY DEF AsyncInv, TypeOK
<1>2. m_dispatched_timestamp # Never
  BY DEF AsyncInv, TimesAreOrdered
<1> QED
  BY <1>1, <1>2 DEF ParseOf, Parses

LEMMA WorkerParsePreserves ==
  AsyncAssumption /\ AsyncInv /\ WorkerParse => AsyncInv'
<1> SUFFICES ASSUME AsyncAssumption, AsyncInv, WorkerParse PROVE AsyncInv'
  OBVIOUS
<1>1. /\ worker = "parse" /\ worker' = "index" /\ MainUnchanged
      /\ UNCHANGED <<m_job_running, m_worker_result, woken>>
  BY Steps DEF WorkerParse
<1>2. PICK t \in {Never, m_dispatched_timestamp} :
        parse' = [NoParse EXCEPT !.tree = t]
  BY <1>1, WorkerFacts DEF WorkerParse
<1>3. parse' \in Parses /\ m_worker_result' \in Parses /\ woken' \in BOOLEAN
      /\ m_job_running'
  BY <1>1, <1>2, WorkerFacts DEF AsyncInv, TypeOK, Parses, NoParse
<1>4. TypeOK' /\ CurrentIsOneParse' /\ TimesAreOrdered' /\ JoinedIsKnown'
  BY <1>1, <1>3, WorkerFacts, WorkerLeaves
<1>5. m_dispatched_timestamp' = m_dispatched_timestamp
  BY <1>1 DEF MainUnchanged
<1>6. WorkerIsOnTrack' /\ JobIsAccountedFor'
  BY <1>1, <1>2, <1>3, <1>5 DEF WorkerIsOnTrack, JobIsAccountedFor
<1> QED
  BY <1>4, <1>6 DEF AsyncInv

LEMMA WorkerIndexPreserves ==
  AsyncAssumption /\ AsyncInv /\ WorkerIndex => AsyncInv'
<1> SUFFICES ASSUME AsyncAssumption, AsyncInv, WorkerIndex PROVE AsyncInv'
  OBVIOUS
<1> DEFINE d == m_dispatched_timestamp
<1>1. /\ worker = "index" /\ worker' = "store" /\ MainUnchanged
      /\ UNCHANGED <<m_job_running, m_worker_result, woken>>
  BY Steps DEF WorkerIndex
<1>2. PICK t \in {Never, d} : parse = [NoParse EXCEPT !.tree = t]
  BY <1>1 DEF AsyncInv, WorkerIsOnTrack
<1>3. parse' = [parse EXCEPT !.timestamp = d,
                             !.byte_index = IF IsValid(parse) THEN d ELSE @]
  BY <1>1, WorkerFacts DEF WorkerIndex, ParsedTime
<1>4. parse' = [tree |-> t, byte_index |-> t, timestamp |-> d]
  <2>1. parse = [tree |-> t, byte_index |-> Never, timestamp |-> Never]
    BY <1>2 DEF NoParse
  <2>2. IsValid(parse) <=> t # Never
    BY <2>1 DEF IsValid
  <2>3. t # Never => t = d
    BY <1>2
  <2> HIDE DEF d
  <2> QED
    BY <1>3, <2>1, <2>2, <2>3
<1>5. parse' \in Parses /\ m_worker_result' \in Parses /\ woken' \in BOOLEAN
      /\ m_job_running'
  BY <1>1, <1>4, WorkerFacts DEF AsyncInv, TypeOK, Parses
<1>6. TypeOK' /\ CurrentIsOneParse' /\ TimesAreOrdered' /\ JoinedIsKnown'
  BY <1>1, <1>5, WorkerFacts, WorkerLeaves
<1>7. m_dispatched_timestamp' = d
  BY <1>1 DEF MainUnchanged
<1>8. parse' = ParseOf(d) \/ ~IsValid(parse)'
  BY <1>4 DEF ParseOf, IsValid
<1>9. WorkerIsOnTrack' /\ JobIsAccountedFor'
  BY <1>1, <1>5, <1>7, <1>8 DEF WorkerIsOnTrack, JobIsAccountedFor
<1> QED
  BY <1>6, <1>9 DEF AsyncInv

LEMMA WorkerStorePreserves ==
  AsyncAssumption /\ AsyncInv /\ WorkerStore => AsyncInv'
<1> SUFFICES ASSUME AsyncAssumption, AsyncInv, WorkerStore PROVE AsyncInv'
  OBVIOUS
<1>1. /\ worker = "store" /\ worker' = "stop" /\ MainUnchanged
      /\ m_worker_result' = parse
      /\ UNCHANGED <<m_job_running, parse, woken>>
  BY Steps DEF WorkerStore
<1>2. parse' \in Parses /\ m_worker_result' \in Parses /\ woken' \in BOOLEAN
      /\ m_job_running'
  BY <1>1, WorkerFacts DEF AsyncInv, TypeOK
<1>3. TypeOK' /\ CurrentIsOneParse' /\ TimesAreOrdered' /\ JoinedIsKnown'
  BY <1>1, <1>2, WorkerFacts, WorkerLeaves
<1>4. m_dispatched_timestamp' = m_dispatched_timestamp
  BY <1>1 DEF MainUnchanged
<1>5. WorkerIsOnTrack' /\ JobIsAccountedFor'
  BY <1>1, <1>2, <1>4 DEF AsyncInv, WorkerIsOnTrack, JobIsAccountedFor
<1> QED
  BY <1>3, <1>5 DEF AsyncInv

LEMMA WorkerStopPreserves ==
  AsyncAssumption /\ AsyncInv /\ WorkerStop => AsyncInv'
<1> SUFFICES ASSUME AsyncAssumption, AsyncInv, WorkerStop PROVE AsyncInv'
  OBVIOUS
<1>1. /\ worker = "stop" /\ worker' = "wake" /\ MainUnchanged
      /\ m_job_running' = FALSE
      /\ UNCHANGED <<parse, m_worker_result, woken>>
  BY Steps DEF WorkerStop
<1>2. parse' \in Parses /\ m_worker_result' \in Parses /\ woken' \in BOOLEAN
  BY <1>1 DEF AsyncInv, TypeOK
<1>3. TypeOK' /\ CurrentIsOneParse' /\ TimesAreOrdered' /\ JoinedIsKnown'
  BY <1>1, <1>2, WorkerLeaves
<1>4. m_dispatched_timestamp' = m_dispatched_timestamp
  BY <1>1 DEF MainUnchanged
<1>5. WorkerIsOnTrack' /\ JobIsAccountedFor'
  BY <1>1, <1>4 DEF AsyncInv, WorkerIsOnTrack, JobIsAccountedFor, Notified
<1> QED
  BY <1>3, <1>5 DEF AsyncInv

LEMMA WorkerWakePreserves ==
  AsyncAssumption /\ AsyncInv /\ WorkerWake => AsyncInv'
<1> SUFFICES ASSUME AsyncAssumption, AsyncInv, WorkerWake PROVE AsyncInv'
  OBVIOUS
<1>1. /\ worker = "wake" /\ worker' = "done" /\ MainUnchanged
      /\ woken' = TRUE
      /\ UNCHANGED <<m_job_running, parse, m_worker_result>>
  BY Steps DEF WorkerWake
<1>2. parse' \in Parses /\ m_worker_result' \in Parses /\ m_job_running' = FALSE
  BY <1>1 DEF AsyncInv, TypeOK
<1>3. TypeOK' /\ CurrentIsOneParse' /\ TimesAreOrdered' /\ JoinedIsKnown'
  BY <1>1, <1>2, WorkerLeaves
<1>4. UNCHANGED <<m_dispatched_timestamp, m_current, m_last_parse_timed_out>>
  BY <1>1 DEF MainUnchanged
<1>5. WorkerIsOnTrack' /\ JobIsAccountedFor'
  BY <1>1, <1>4 DEF AsyncInv, WorkerIsOnTrack, JobIsAccountedFor, Notified
<1> QED
  BY <1>3, <1>5 DEF AsyncInv


-----------------------------------------------------------------------------
LEMMA NextAsyncInv == AsyncAssumption /\ AsyncInv /\ [Next]_vars => AsyncInv'
<1> SUFFICES ASSUME AsyncAssumption, AsyncInv, [Next]_vars PROVE AsyncInv'
  OBVIOUS
<1>1. CASE Change
  BY <1>1, ChangePreserves
<1>2. CASE Redraw
  BY <1>2, RedrawPreserves
<1>3. CASE Scroll
  BY <1>3, ScrollPreserves
<1>4. CASE OnWorkerDone
  BY <1>4, OnWorkerDonePreserves
<1>5. CASE Recreate
  BY <1>5, RecreatePreserves
<1>6. CASE Worker
  BY <1>6, WorkerParsePreserves, WorkerIndexPreserves, WorkerStorePreserves,
     WorkerStopPreserves, WorkerWakePreserves DEF Worker
<1>7. CASE UNCHANGED vars
  <2>1. UNCHANGED <<now, made, redraw, m_current, m_background_mode, worker,
                    m_job_running, m_pending_snapshot, parse, m_worker_result,
                    m_dispatched_timestamp, m_last_parse_timed_out, woken>>
    BY <1>7 DEF vars, jobs
  <2>2. Times' = Times /\ Parses' = Parses
    BY <2>1 DEF Times, Parses
  <2> QED
    BY <2>1, <2>2 DEF AsyncInv, TypeOK, CurrentIsOneParse, TimesAreOrdered,
       WorkerIsOnTrack, JobIsAccountedFor, JoinedIsKnown, Notified
<1> QED
  BY <1>1, <1>2, <1>3, <1>4, <1>5, <1>6, <1>7 DEF Next

(* The inductive invariant: what the worker has made, what the main thread  *)
(* knows of it, and the order of the timestamps (AsyncSyntaxTree).          *)
THEOREM BackgroundIsSound == Spec => []AsyncInv
<1>1. Init => AsyncInv
  BY InitAsyncInv, AsyncAssumption
<1>2. AsyncInv /\ [Next]_vars => AsyncInv'
  BY NextAsyncInv, AsyncAssumption
<1> QED
  BY <1>1, <1>2, PTL DEF Spec

(* The job flag is up exactly while the worker may touch what it shares     *)
(* (start_job, on_worker_done): the main thread, which only touches that    *)
(* while the flag is down, never races with it.                             *)
THEOREM NothingIsShared == Spec => []TypeOK
<1>1. AsyncInv => TypeOK
  BY DEF AsyncInv
<1> QED
  BY <1>1, BackgroundIsSound, PTL

(* What the render thread is handed is one parse: tree, byte index and      *)
(* timestamp of the same text (poll, current).                              *)
THEOREM CurrentIsAlwaysOneParse == Spec => []CurrentIsOneParse
<1>1. AsyncInv => CurrentIsOneParse
  BY DEF AsyncInv
<1> QED
  BY <1>1, BackgroundIsSound, PTL

(* A tree that was made of the text as it is gets there, unless the parse   *)
(* timed out (on_worker_done).                                              *)
THEOREM NoResultIsLost == Spec => []NoResultLost
<1>1. AsyncInv => NoResultLost
  <2> SUFFICES ASSUME AsyncInv, m_dispatched_timestamp = now,
                      m_current.timestamp # now, ~m_job_running, ~woken,
                      worker # "wake"
               PROVE  m_last_parse_timed_out /\ ~IsValid(parse)
    BY DEF NoResultLost
  <2>1. m_dispatched_timestamp # Never
    BY DEF AsyncInv, TypeOK, Never
  <2>2. m_current # ParseOf(m_dispatched_timestamp)
    BY DEF ParseOf
  <2> QED
    BY <2>1, <2>2 DEF AsyncInv, JobIsAccountedFor, Notified
<1> QED
  BY <1>1, BackgroundIsSound, PTL

(* A text whose parse is known to have timed out is not parsed again, until *)
(* the trees are made again (start_job).                                    *)
THEOREM TimedOutIsNeverRetried == Spec => TimedOutIsNotRetried
<1> DEFINE Retry == worker = "none" /\ m_job_running' /\ ~m_job_running
           Fresh == m_dispatched_timestamp' # m_dispatched_timestamp \/ Recreate
<1>1. AsyncInv /\ [Next]_vars => [Retry => Fresh]_vars
  <2> SUFFICES ASSUME AsyncInv, Next, Retry, ~Recreate
               PROVE  m_dispatched_timestamp' # m_dispatched_timestamp
    OBVIOUS
  <2>1. Redraw \/ Scroll
    BY DEF Next, Change, jobs, OnWorkerDone, Worker, WorkerParse, WorkerIndex,
           WorkerStore, WorkerStop, WorkerWake
  <2>2. m_current.timestamp # now /\ StartJob /\ WorthTrying
        /\ m_dispatched_timestamp' = now
    BY <2>1 DEF Redraw, Scroll, Poll, StartJob, ParseSync, jobs
  <2>3. m_dispatched_timestamp # now
    <3> SUFFICES ASSUME m_dispatched_timestamp = now PROVE FALSE
      OBVIOUS
    <3>1. m_dispatched_timestamp # Never
      BY DEF AsyncInv, TypeOK, Never
    <3>2. ~m_last_parse_timed_out
      BY <2>2 DEF WorthTrying
    <3>3. m_current = ParseOf(now)
      BY <3>1, <3>2 DEF AsyncInv, JoinedIsKnown
    <3> QED
      BY <2>2, <3>3 DEF ParseOf
  <2> QED
    BY <2>2, <2>3
<1>2. Spec => [][Next]_vars
  BY PTL DEF Spec
<1> QED
  BY <1>1, <1>2, BackgroundIsSound, PTL DEF TimedOutIsNotRetried

-----------------------------------------------------------------------------
(* The refinement of HostParse. *)

LEMMA HostInit == AsyncAssumption /\ Init => Host!Init
BY DEF AsyncAssumption, Init, Host!Init, ParseOf, NoParse, Never, Host!NoTree,
       Host!Never

(* A newer tree, or none. *)
LEMMA HostNewTree ==
  ASSUME AsyncAssumption, AsyncInv, UNCHANGED <<now, made>>,
         \/ m_current' = m_current
         \/ \E t \in made .. now : m_current' = ParseOf(t) /\ m_current.tree <= t
  PROVE  [Host!Next]_<<now, made, m_current.tree>>
<1>1. CASE m_current'.tree = m_current.tree
  BY <1>1
<1>2. CASE m_current'.tree # m_current.tree
  <2>1. PICK t \in made .. now : m_current' = ParseOf(t) /\ m_current.tree <= t
    BY <1>2
  <2>2. m_current'.tree = t
    BY <2>1 DEF ParseOf
  <2>3. t > m_current.tree /\ made # Host!Never
    BY <1>2, <2>1, <2>2, ParseFacts DEF AsyncInv, Host!Never
  <2>4. Host!NewTree
    BY <2>2, <2>3 DEF Host!NewTree
  <2> QED
    BY <2>4 DEF Host!Next
<1> QED
  BY <1>1, <1>2

LEMMA HostStep == AsyncAssumption /\ AsyncInv /\ [Next]_vars
                    => [Host!Next]_<<now, made, m_current.tree>>
<1> SUFFICES ASSUME AsyncAssumption, AsyncInv, [Next]_vars
             PROVE  [Host!Next]_<<now, made, m_current.tree>>
  OBVIOUS
<1>1. CASE Change
  BY <1>1 DEF Change, Host!Change, Host!Next
<1>2. CASE Redraw \/ Scroll
  <2>1. Poll /\ UNCHANGED <<now, made>>
    BY <1>2 DEF Redraw, Scroll
  <2>2. CASE m_current.timestamp # now /\ ~m_background_mode
    <3>1. m_current' \in {ParseOf(now), m_current}
      BY <2>1, <2>2 DEF Poll, InBackground, ParseSync
    <3>2. now \in made .. now /\ m_current.tree <= now
      BY ParseFacts DEF AsyncInv, TimesAreOrdered, Never
    <3> QED
      BY <2>1, <3>1, <3>2, HostNewTree
  <2>3. CASE m_current.timestamp = now \/ m_background_mode
    <3>1. m_current' = m_current
      BY <2>1, <2>3 DEF Poll, InBackground, StartJob
    <3> QED
      BY <2>1, <3>1, HostNewTree
  <2> QED
    BY <2>2, <2>3
<1>3. CASE OnWorkerDone
  <2>1. UNCHANGED <<now, made>>
    BY <1>3 DEF OnWorkerDone
  <2>2. CASE m_current' = m_current
    BY <2>1, <2>2, HostNewTree
  <2>3. CASE m_current' # m_current
    <3>1. ~m_job_running /\ IsValid(m_worker_result)
          /\ m_current' = m_worker_result
      BY <1>3, <2>3 DEF OnWorkerDone, GotTree
    <3>2. m_dispatched_timestamp # Never
      BY <3>1 DEF AsyncInv, TimesAreOrdered, IsValid, NoParse
    <3>3. m_worker_result = ParseOf(m_dispatched_timestamp)
      BY <3>1, <3>2 DEF AsyncInv, JobIsAccountedFor
    <3>4. m_dispatched_timestamp \in made .. now
          /\ m_current.tree <= m_dispatched_timestamp
      BY <3>2 DEF AsyncInv, TimesAreOrdered
    <3> QED
      BY <2>1, <3>1, <3>3, <3>4, HostNewTree
  <2> QED
    BY <2>2, <2>3
<1>4. CASE Recreate
  <2>1. now' = now /\ made' = now
    BY <1>4 DEF Recreate
  <2>2. m_current' \in {ParseOf(now), NoParse}
    BY <1>4 DEF Recreate
  <2>3. m_current'.tree \in {Host!NoTree, now}
    BY <2>2 DEF ParseOf, NoParse, Never, Host!NoTree
  <2> QED
    BY <2>1, <2>3 DEF Host!Begin, Host!Next
<1>5. CASE Worker
  BY <1>5 DEF Worker, WorkerParse, WorkerIndex, WorkerStore, WorkerStop,
     WorkerWake, MainUnchanged
<1>6. CASE UNCHANGED vars
  BY <1>6 DEF vars
<1> QED
  BY <1>1, <1>2, <1>3, <1>4, <1>5, <1>6 DEF Next

(* The trees handed out are of newer and newer texts, none from before the  *)
(* parses began: what SyntaxTree relies on (on_worker_done, poll).          *)
THEOREM TreesOnlyGetNewer == Spec => ImplementsHostParse
<1>1. Init => Host!Init
  BY HostInit, AsyncAssumption
<1>2. AsyncInv /\ [Next]_vars => [Host!Next]_<<now, made, m_current.tree>>
  BY HostStep, AsyncAssumption
<1> QED
  BY <1>1, <1>2, BackgroundIsSound, PTL DEF Spec, ImplementsHostParse, Host!Spec

=============================================================================
