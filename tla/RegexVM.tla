------------------------------ MODULE RegexVM ------------------------------
(***************************************************************************)
(* How the program of a regex is run over a subject                        *)
(* (src/src/regex_vm.hh, ThreadedRegexVM, and RegexIterator of regex.hh):  *)
(* threads in the order of their priority, all at the same position, each  *)
(* stepped until it consumes the character there; an instruction runs once *)
(* a step, and the positions a thread saves are shared until it writes.    *)
(*                                                                         *)
(* Positions count characters.  Saves and instructions are numbered from   *)
(* 1, and 0 is none.                                                       *)
(***************************************************************************)
EXTENDS RegexNodes, ThreadStack, FiniteSetsExt

CONSTANTS MaxStep,      \* the largest uint16_t, at which current_step wraps
          MaskBits      \* the bits of a valid_mask

ASSUME VMAssumption == MaxStep \in Nat \ {0, 1} /\ MaskBits \in Nat \ {0}

VARIABLES
    regex,          \* what was compiled
    program,
    subject,
    mode,           \* RegexMode, and is the call a RegexIterator's?
    config,         \* ExecConfig
    m_threads,
    m_saves,        \* m_saves and m_first_free
    m_captures,
    m_found_match,
    last_step,      \* of each instruction
    current_step,
    pos,
    next_start,
    thread,         \* the one being stepped
    stage,          \* where the call stands
    m_results       \* the match the iterator is at: from, to, and all captures

call == <<regex, program, subject, mode, config, m_results>>
place == <<stage, current_step, pos, next_start>>
found == <<m_captures, m_found_match>>
vars == <<call, place, found, m_threads, m_saves, last_step, thread>>

None == 0
Unset == -1
Idle == [inst |-> None, saves |-> None]
Matched == [inst |-> -1, saves |-> None]    \* the threads after the one that matched go
Insts == program.instructions
Inst == Insts[thread.inst]
Beyond(i) == IF mode.forward THEN i + 1 ELSE i - 1
CharAt(i) == subject[IF mode.forward THEN i + 1 ELSE i]

-----------------------------------------------------------------------------
(* The positions that are saved, counted by the threads that share them.    *)
Bit(index) == index % MaskBits
BitWidth(mask) == IF mask = {} THEN 0 ELSE Max(mask) + 1
Blank == [index \in 0 .. program.save_count - 1 |-> Unset]
NoSaves == [all |-> <<>>, first_free |-> None]

Shared(saves, i) == i # None /\ saves.all[i].refcount > 1
Share(saves, i) == IF i = None THEN saves ELSE [saves EXCEPT !.all[i].refcount = @ + 1]
ReleaseSaves(saves, i) ==
    IF i = None THEN saves
    ELSE IF Shared(saves, i) THEN [saves EXCEPT !.all[i].refcount = @ - 1]
    ELSE [saves EXCEPT !.all[i].next_free = saves.first_free, !.first_free = i]

FirstFree(saves) == IF saves.first_free # None THEN saves.first_free ELSE Len(saves.all) + 1
CopiedInto(old, from, mask) ==
    [index \in DOMAIN old |-> IF index < BitWidth(mask) THEN from[index] ELSE old[index]]
NewSaves(saves, from, mask) ==
    LET i == saves.first_free
    IN  IF i = None
        THEN [saves EXCEPT !.all = Append(@, [refcount |-> 1, next_free |-> None,
                                              valid_mask |-> mask, pos |-> from])]
        ELSE [all |-> [saves.all EXCEPT ![i].pos = CopiedInto(@, from, mask),
                                        ![i].valid_mask = mask],
              first_free |-> saves.all[i].next_free]

(* Saves that a thread may write to: its own, new ones, or a copy.          *)
OwnIndex(saves, i) == IF i = None \/ Shared(saves, i) THEN FirstFree(saves) ELSE i
CopyKeepingShare(saves, i) ==
    IF i = None THEN NewSaves(saves, Blank, {})
    ELSE IF Shared(saves, i) THEN NewSaves(saves, saves.all[i].pos, saves.all[i].valid_mask)
    ELSE saves
OwnSaves(saves, i) ==
    IF i = None THEN NewSaves(saves, Blank, {})
    ELSE IF Shared(saves, i)
    THEN NewSaves([saves EXCEPT !.all[i].refcount = @ - 1],
                  saves.all[i].pos, saves.all[i].valid_mask)
    ELSE saves

Captures ==
    IF m_captures = None THEN <<>>
    ELSE [index \in DOMAIN m_saves.all[m_captures].pos |->
            IF Bit(index) \in m_saves.all[m_captures].valid_mask
            THEN m_saves.all[m_captures].pos[index] ELSE Unset]

-----------------------------------------------------------------------------
(* Assertions look at the whole subject, whatever part of it is searched.   *)
IsLineStart(i) ==
    IF i = 0 THEN "NotBeginOfLine" \notin config.flags ELSE subject[i] = NewLine
IsLineEnd(i) ==
    IF i = Len(subject) THEN "NotEndOfLine" \notin config.flags ELSE subject[i + 1] = NewLine
IsWordBoundary(i) ==
    IF i = 0 THEN "NotBeginOfWord" \notin config.flags
    ELSE IF i = Len(subject) THEN "NotEndOfWord" \notin config.flags
    ELSE (subject[i] \in WordChars) # (subject[i + 1] \in WordChars)
LooksAround(param, i) ==
    \A k \in DOMAIN param.characters :
        LET at == IF param.ahead THEN i + k ELSE i - k + 1
        IN  at \in DOMAIN subject /\ subject[at] \in param.characters[k]

Holds(inst, i) ==
    CASE inst.op = "LineStart" -> IsLineStart(i)
      [] inst.op = "LineEnd" -> IsLineEnd(i)
      [] inst.op = "WordBoundary" -> IsWordBoundary(i)
      [] inst.op = "NotWordBoundary" -> ~IsWordBoundary(i)
      [] inst.op = "SubjectBegin" -> i = 0
      [] inst.op = "SubjectEnd" -> i = Len(subject)
      [] inst.op = "LookAround" -> LooksAround(inst.param, i) = inst.param.positive

-----------------------------------------------------------------------------
(* The first position from i on where a match may start.                    *)
Least(S) == CHOOSE i \in S : \A j \in S : i <= j
FindNextStart(i) ==
    LET desc == program.start_desc
        Steps == {n \in 0 .. Len(subject) :
                    LET at == IF mode.forward THEN i + n ELSE i - n
                    IN  /\ IF mode.forward THEN at < config.end ELSE at > config.end
                        /\ CharAt(at) \in desc.map}
        n == Least(Steps) - desc.offset
    IN  IF Steps = {} THEN config.end
        ELSE IF n <= 0 THEN i
        ELSE IF mode.forward THEN i + n ELSE i - n

(* A call, or the next of an iterator: NotInitialNull after an empty match. *)
AfterEmpty == m_results.from = m_results.to /\ m_results.from # Unset
NullAgain == mode.flags
ExecFlags == mode.flags \cup IF AfterEmpty THEN {"NotInitialNull"} ELSE {}
Begin ==
    IF m_results.from = Unset THEN mode.start
    ELSE IF mode.forward THEN m_results.to ELSE m_results.from
End == IF mode.forward THEN Len(subject) ELSE 0

Exec ==
    /\ stage = "call"
    /\ config' = [begin |-> Begin, end |-> End, flags |-> ExecFlags]
    /\ stage' = IF "NotInitialNull" \in ExecFlags /\ Begin = End THEN "done" ELSE "exec"
    /\ UNCHANGED <<regex, program, subject, mode, m_results, current_step, pos, next_start,
                   found, m_threads, m_saves, last_step, thread>>

NewThread == [inst |-> 1, saves |-> None]
StartsNowhere(first) ==
    /\ program.start_desc.exists
    /\ \/ first = config.end
       \/ ~mode.search /\ CharAt(config.begin) \notin program.start_desc.map

ExecProgram ==
    LET first == IF program.start_desc.exists /\ mode.search
                 THEN FindNextStart(config.begin) ELSE config.begin
    IN  /\ stage = "exec"
        /\ m_saves' = ReleaseSaves(m_saves, m_captures)
        /\ m_captures' = None /\ m_found_match' = FALSE
        /\ next_start' = first /\ pos' = first
        /\ current_step' = MaxStep
        /\ IF StartsNowhere(first)
           THEN stage' = "exit" /\ m_threads' = m_threads
           ELSE stage' = "loop" /\ m_threads' = PushCurrent(m_threads, NewThread)
        /\ UNCHANGED <<call, last_step, thread>>

(* The step counter wraps, and 0 is the step of what has never run.         *)
StepAfter(step) == (step + 1) % (MaxStep + 1)
NextStep(step) == IF StepAfter(step) = 0 THEN 1 ELSE StepAfter(step)
StepsNeverCleared(steps, step) == steps
StepsKept(steps, step) ==
    IF StepAfter(step) = 0 THEN [i \in DOMAIN steps |-> 0] ELSE steps

StepBegins ==
    /\ stage = "loop"
    /\ current_step' = NextStep(current_step)
    /\ last_step' = StepsKept(last_step, current_step)
    /\ stage' = IF pos = config.end THEN "last step" ELSE "step"
    /\ UNCHANGED <<call, pos, next_start, found, m_threads, m_saves, thread>>

Stepping == stage \in {"step", "last step"}

PopThread ==
    /\ Stepping
    /\ thread = Idle /\ ~CurrentIsEmpty(m_threads)
    /\ thread' = CurrentTop(m_threads)
    /\ m_threads' = PopCurrent(m_threads)
    /\ UNCHANGED <<call, place, found, m_saves, last_step>>

-----------------------------------------------------------------------------
(* The instructions (step_current_thread).                                  *)
Visited(i) == last_step[i] = current_step

Fails == m_saves' = ReleaseSaves(m_saves, thread.saves) /\ thread' = Idle
GoesTo(i) == thread' = [thread EXCEPT !.inst = i]
GoesOn == GoesTo(thread.inst + 1)

(* A match ends the thread, and the threads after it are dropped.           *)
MayMatch ==
    /\ mode.search \/ pos = config.end
    /\ ~("NotInitialNull" \in config.flags /\ pos = config.begin)

Match ==
    /\ Inst.op = "Match" /\ MayMatch
    /\ m_captures' = thread.saves /\ m_found_match' = TRUE
    /\ m_saves' = ReleaseSaves(m_saves, m_captures)
    /\ thread' = Matched
    /\ UNCHANGED m_threads

DropLower ==
    /\ Stepping /\ thread = Matched
    /\ IF CurrentIsEmpty(m_threads)
       THEN thread' = Idle /\ UNCHANGED <<m_threads, m_saves>>
       ELSE /\ m_saves' = ReleaseSaves(m_saves, CurrentTop(m_threads).saves)
            /\ m_threads' = PopCurrent(m_threads)
            /\ UNCHANGED thread
    /\ UNCHANGED <<call, place, found, last_step>>

NoMatch ==
    /\ Inst.op = "Match" /\ ~MayMatch
    /\ Fails
    /\ UNCHANGED <<found, m_threads>>

Accepts == Inst.op = "AnyChar" \/ (pos # config.end /\ CharAt(pos) \in Inst.param)

Consume ==
    /\ Inst.op \in Consumers
    /\ IF Accepts
       THEN /\ m_threads' = PushNext(m_threads, [thread EXCEPT !.inst = @ + 1])
            /\ thread' = Idle /\ m_saves' = m_saves
       ELSE Fails /\ m_threads' = m_threads
    /\ UNCHANGED found

TakeJump ==
    /\ Inst.op = "Jump"
    /\ GoesTo(thread.inst + Inst.param)
    /\ UNCHANGED <<found, m_threads, m_saves>>

(* The thread goes one way and one with its saves waits to go the other.    *)
TakeSplit ==
    LET parent == thread.inst + 1
        target == thread.inst + Inst.param.offset
        first == IF Inst.param.prioritize_parent THEN parent ELSE target
        second == IF Inst.param.prioritize_parent THEN target ELSE parent
    IN  /\ Inst.op = "Split"
        /\ IF last_step'[target] = current_step
           THEN GoesOn /\ UNCHANGED <<m_threads, m_saves>>
           ELSE /\ GoesTo(first)
                /\ m_threads' = PushCurrent(m_threads, [thread EXCEPT !.inst = second])
                /\ m_saves' = Share(m_saves, thread.saves)
        /\ UNCHANGED found

SavePosition ==
    LET own == OwnIndex(m_saves, thread.saves)
    IN  /\ Inst.op = "Save"
        /\ IF mode.saves
           THEN /\ thread' = [inst |-> thread.inst + 1, saves |-> own]
                /\ m_saves' = [OwnSaves(m_saves, thread.saves) EXCEPT
                                 !.all[own].pos[Inst.param] = pos,
                                 !.all[own].valid_mask = @ \cup {Bit(Inst.param)}]
           ELSE GoesOn /\ m_saves' = m_saves
        /\ UNCHANGED <<found, m_threads>>

CheckAssertion ==
    /\ IsAssertion(Inst)
    /\ IF Holds(Inst, pos) THEN GoesOn /\ m_saves' = m_saves ELSE Fails
    /\ UNCHANGED <<found, m_threads>>

(* An instruction that ran in this step ran for a thread that goes first.   *)
Redundant ==
    /\ Stepping /\ thread \notin {Idle, Matched}
    /\ Visited(thread.inst)
    /\ Fails
    /\ UNCHANGED <<call, place, found, m_threads, last_step>>

StepThread ==
    /\ Stepping /\ thread \notin {Idle, Matched}
    /\ ~Visited(thread.inst)
    /\ last_step' = [last_step EXCEPT ![thread.inst] = current_step]
    /\ \/ Match \/ NoMatch \/ Consume
       \/ TakeJump \/ TakeSplit \/ SavePosition \/ CheckAssertion
    /\ UNCHANGED <<call, place>>

-----------------------------------------------------------------------------
(* All the threads have been stepped.                                       *)
Stepped == stage = "step" /\ thread = Idle /\ CurrentIsEmpty(m_threads)
Searching == mode.search /\ ~m_found_match
Advance(to, threads) ==
    /\ pos' = to
    /\ m_threads' = SwapNext(threads)
    /\ stage' = "loop"

(* The search goes on from the next character, or from the next one where a *)
(* match may start when no thread is left.                                  *)
SearchOn ==
    LET desc == program.start_desc
        start == IF desc.exists /\ pos = next_start THEN FindNextStart(Beyond(pos))
                 ELSE next_start
        next == IF desc.exists /\ NextIsEmpty(m_threads) THEN start ELSE Beyond(pos)
    IN  /\ Stepped /\ Searching
        /\ next_start' = start
        /\ Advance(next, IF ~desc.exists \/ next = start
                         THEN PushNext(m_threads, NewThread) ELSE m_threads)
        /\ UNCHANGED <<call, found, m_saves, last_step, current_step, thread>>

StepEnds ==
    /\ Stepped /\ ~Searching
    /\ IF NextIsEmpty(m_threads) \/ (m_found_match /\ mode.any_match)
       THEN stage' = "exit" /\ UNCHANGED <<pos, m_threads>>
       ELSE Advance(Beyond(pos), m_threads)
    /\ UNCHANGED <<call, found, m_saves, last_step, current_step, next_start, thread>>

LastStepEnds ==
    /\ stage = "last step" /\ thread = Idle /\ CurrentIsEmpty(m_threads)
    /\ stage' = "exit"
    /\ UNCHANGED <<call, found, m_threads, m_saves, last_step, current_step, pos,
                   next_start, thread>>

DropThread ==
    /\ stage = "exit" /\ ~NextIsEmpty(m_threads)
    /\ m_saves' = ReleaseSaves(m_saves, NextTop(m_threads).saves)
    /\ m_threads' = PopNext(m_threads)
    /\ UNCHANGED <<call, place, found, last_step, thread>>

Return ==
    /\ stage = "exit" /\ NextIsEmpty(m_threads)
    /\ stage' = "returned"
    /\ UNCHANGED <<call, found, m_threads, m_saves, last_step, current_step, pos,
                   next_start, thread>>

(* The iterator goes on from where the match ends.                          *)
Iterate ==
    /\ stage = "returned"
    /\ IF m_found_match /\ mode.iterate
       THEN m_results' = [from |-> Captures[0], to |-> Captures[1]] /\ stage' = "call"
       ELSE m_results' = m_results /\ stage' = "done"
    /\ UNCHANGED <<regex, program, subject, mode, config, current_step, pos, next_start,
                   found, m_threads, m_saves, last_step, thread>>

(* A vm for a program that has not run yet.                                 *)
InitVM ==
    /\ config = [begin |-> 0, end |-> 0, flags |-> {}]
    /\ m_threads = EmptyRing(Idle)
    /\ m_saves = NoSaves
    /\ m_captures = None /\ m_found_match = FALSE
    /\ last_step = [i \in DOMAIN Insts |-> 0]
    /\ current_step = 0 /\ pos = 0 /\ next_start = 0
    /\ thread = Idle
    /\ stage = "call"
    /\ m_results = [from |-> Unset, to |-> Unset]

Next ==
    \/ Exec \/ ExecProgram \/ StepBegins \/ PopThread \/ Redundant \/ StepThread
    \/ DropLower \/ SearchOn \/ StepEnds \/ LastStepEnds \/ DropThread \/ Return \/ Iterate

(* Any program that can be run: no instruction leads out of it, the last    *)
(* one is Match, and positions are saved where there is room for them.      *)
Followers(code, i) ==
    LET inst == code[i]
    IN  CASE inst.op = "Match" -> {}
          [] inst.op = "Jump" -> {i + inst.param}
          [] inst.op = "Split" -> {i + 1, i + inst.param.offset}
          [] OTHER -> {i + 1}
IsProgram(compiled) ==
    LET code == compiled.instructions
    IN  /\ code \in Seq({code[i] : i \in DOMAIN code}) /\ code # <<>>
        /\ code[Len(code)].op = "Match"
        /\ compiled.save_count \in Nat
        /\ \A i \in DOMAIN code :
              /\ Followers(code, i) \subseteq DOMAIN code
              /\ code[i].op = "Save" => code[i].param \in 0 .. compiled.save_count - 1

RunsAnyProgram == IsProgram(program) /\ InitVM /\ [][Next]_vars

-----------------------------------------------------------------------------
(* "Maximum capacity should be 2*instruction count": an instruction runs    *)
(* once a step, so there are never more threads than instructions, however  *)
(* they fork and wherever the search starts new ones.                       *)
RingIsBounded == m_threads.capacity <= Max({InitialCapacity, 2 * Len(Insts)})

Holders ==
    LET ring == Current(m_threads) \o NextThreads(m_threads)
    IN  [k \in DOMAIN ring |-> ring[k].saves] \o <<thread.saves, m_captures>>
HeldBy(holders, i) == Cardinality({k \in DOMAIN holders : holders[k] = i})

(* The saves in the free list, the one that is taken first first.           *)
FreeList[k \in 0 .. Len(m_saves.all)] ==
    IF k = 0 THEN m_saves.first_free
    ELSE IF FreeList[k - 1] = None THEN None ELSE m_saves.all[FreeList[k - 1]].next_free

(* What a refcount counts: the threads that share the saves, the one being  *)
(* stepped and the captures.  Saves that nobody holds are free, and free    *)
(* once, whatever way threads ended (new_saves, release_saves).             *)
SavesAreCounted ==
    LET n == Len(m_saves.all)
        holders == Holders
        Free == {FreeList[k] : k \in 0 .. n} \ {None}
    IN  /\ FreeList[n] = None
        /\ \A i \in 1 .. n :
              IF i \in Free THEN HeldBy(holders, i) = 0 /\ m_saves.all[i].refcount = 1
              ELSE HeldBy(holders, i) = m_saves.all[i].refcount
=============================================================================
