---------------------------- MODULE EventManager ----------------------------
(***************************************************************************)
(* The event loop: watchers of file descriptors, in the order of the       *)
(* vector they are kept in, and what one call of handle_next_events does   *)
(* with them. Events are of one kind, Read; a descriptor stands for the    *)
(* object of the kernel it is open on, until it is closed and its number   *)
(* given to another.                                                       *)
(*                                                                         *)
(* Calls nest: a callback may run a shell, which waits in                  *)
(* handle_next_events for the events that are urgent. stack has a frame    *)
(* for every call in progress, the innermost one last; a frame of          *)
(* handle_next_events keeps the descriptors that were ready when pselect   *)
(* returned and whose turn is yet to come. Timers only end the wait.       *)
(***************************************************************************)
EXTENDS Naturals, Sequences, SequencesExt

CONSTANT
    MaxFd    \* descriptors are the numbers 1..MaxFd; what needs more is left out

ASSUME MaxFdAssumption == MaxFd \in Nat \ {0}

VARIABLES
    fds,             \* [descriptor -> the object it is open on, or Closed]
    m_fd_watchers,   \* the watchers: [who, fd, mode]
    stack            \* the calls in progress

Closed == <<"closed", 0>>
None == 0            \* -1, a watcher that watches nothing
Normal == "Normal"
Urgent == "Urgent"

Top == Last(stack)
Below == Front(stack)
Called(frame) == Append(stack, frame)
Replaced(frame) == Append(Below, frame)

(* The kernel gives the lowest numbers that are free. *)
Rank(table, fd) == Cardinality({other \in 1..fd : table[other] = Closed})
Opened(table, objects) == [fd \in DOMAIN table |->
    IF table[fd] = Closed /\ Rank(table, fd) <= Len(objects)
    THEN objects[Rank(table, fd)] ELSE table[fd]]
HasFree(table, n) == Rank(table, MaxFd) >= n
FdIn(table, object) == CHOOSE fd \in DOMAIN table : table[fd] = object

(* unordered_erase: the last one takes the place of the one that goes.       *)
UnorderedErase(watchers, who) ==
    LET last == Len(watchers)
    IN  IF \E i \in 1..last : watchers[i].who = who
        THEN [i \in 1..last - 1 |-> IF watchers[i].who = who THEN watchers[last] ELSE watchers[i]]
        ELSE watchers

Watcher(who, fd, mode) == [who |-> who, fd |-> fd, mode |-> mode]
ResetFd(watchers, who, fd) == [i \in DOMAIN watchers |->
    IF watchers[i].who = who THEN [watchers[i] EXCEPT !.fd = fd] ELSE watchers[i]]
FdOf(who) == (CHOOSE w \in ToSet(m_fd_watchers) : w.who = who).fd

-----------------------------------------------------------------------------
(* The descriptors given to pselect: in Urgent mode only those of the urgent *)
(* watchers.*)
Serves(mode, watcher) == mode = Normal \/ watcher.mode = Urgent
Watched(mode) == {w.fd : w \in {v \in ToSet(m_fd_watchers) : Serves(mode, v)}} \ {None}

(* pselect returns with what is ready, or is ended by a time-out or a signal *)
(* with nothing. Given a descriptor that is closed it fails at once, without *)
(* looking at the others.                                                    *)
OpenWatched(mode) == \A fd \in Watched(mode) : fds[fd] # Closed
ReadyFds(mode, readable) ==
    IF OpenWatched(mode) THEN {fd \in Watched(mode) : fds[fd] \in readable} ELSE {}

HandleNextEvents(frame, mode, readable, mayEnd) ==
    \E now \in {readable} :
        LET ready == ReadyFds(mode, now)
        IN  /\ ready # {} \/ mayEnd \/ ~OpenWatched(mode)
            /\ stack' = Replaced(frame) \o
                  <<[at |-> "events", mode |-> mode, ready |-> ready, some |-> ready # {}]>>

(* The first watcher that has the descriptor now, whatever its mode, is the  *)
(* one that runs; the descriptor may have been closed, or been given to      *)
(* another, since pselect returned.                                          *)
InEvents == stack # <<>> /\ Top.at = "events"
WithWatcher == Top.ready \cap {m_fd_watchers[i].fd : i \in DOMAIN m_fd_watchers}
NextFd == Min(WithWatcher)
IsFirst(i) == \A k \in 1..i - 1 : m_fd_watchers[k].fd # m_fd_watchers[i].fd
Runs(who) ==
    /\ InEvents
    /\ \E i \in DOMAIN m_fd_watchers :
        /\ m_fd_watchers[i].who = who /\ m_fd_watchers[i].fd \in Top.ready
        /\ m_fd_watchers[i].fd = NextFd /\ IsFirst(i)
Served == Replaced([Top EXCEPT !.ready = {fd \in @ : fd > NextFd}])

(* The loop has come to its end; what called it goes on with the result.     *)
EventsDone == InEvents /\ WithWatcher = {}
=============================================================================
