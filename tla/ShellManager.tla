---------------------------- MODULE ShellManager ----------------------------
(***************************************************************************)
(* Commands, and the shells they run: ShellManager::eval starts a child    *)
(* and waits for it in handle_next_events, in Urgent mode, with readers of *)
(* its output and of the fifo through which it may send commands back. A   *)
(* command sent that way runs in the middle of the wait, and may run a     *)
(* shell of its own. Errors and cancellations are exceptions: they unwind  *)
(* the calls up to the first one that catches them.                        *)
(*                                                                         *)
(* Text is counted in chunks. The error output is as the output and left   *)
(* out; the input is empty, so that its end is what the writer writes.     *)
(***************************************************************************)
EXTENDS EventManager

CONSTANTS
    MaxDepth,    \* how many shells may wait for one another
    Scripts,     \* what children do: sequences of ChildOp
    Nested       \* what the children of nested shells do

VARIABLES
    child,       \* the child of each depth
    sigchld,     \* SIGCHLD is pending
    m_clients,   \* ClientManager: the clients, in order
    m_client_trash

Depth == 1..MaxDepth
Cmd == {"plain", "shell", "pipe", "fail", "quit"}
ChildOp == Cmd \cup {"out", "shut", "close", "wait"}
ASSUME ShellAssumption ==
    /\ MaxDepth \in Nat
    /\ Scripts \subseteq Seq(ChildOp) /\ Nested \subseteq Seq(ChildOp)
NoClient == 0

NoChild == [state |-> "none", ops |-> <<>>, out |-> 0, open |-> FALSE, fifo |-> <<>>,
            writing |-> FALSE, seen |-> FALSE, told |-> 0, wrote |-> 0]

ShellObjects == {"fifo", "stdin", "in", "out", "stdout"} \X Depth

(* What pselect finds of the shells' descriptors: the fifo once a writer has *)
(* been there, for its data or for its end.                                  *)
ShellReadable(object) ==
    LET kind == object[1] d == object[2]
    IN  \/ kind = "in"
        \/ kind = "out" /\ (child[d].out > 0 \/ ~child[d].open)
        \/ kind = "fifo" /\ child[d].seen /\ (child[d].fifo # <<>> \/ ~child[d].writing)

-----------------------------------------------------------------------------
(* The calls in progress. *)
RunFrame(cmds, client) == [at |-> "run", cmds |-> cmds, client |-> client]
EvalFrame(d, client, wait) ==
    [at |-> "eval", d |-> d, client |-> client, wait |-> wait, events |-> FALSE,
     terminated |-> FALSE, in |-> TRUE, out |-> TRUE, got |-> 0, command |-> <<>>,
     ran |-> 0, sound |-> TRUE, cancelling |-> FALSE]

OnTop(at) == stack # <<>> /\ Top.at = at
EvalIndexes == {i \in DOMAIN stack : stack[i].at = "eval"}
EvalIndex(d) == CHOOSE i \in EvalIndexes : stack[i].d = d
FrameOf(d) == stack[EvalIndex(d)]
NextDepth == Cardinality(EvalIndexes) + 1
IsNested(d) == d > 1

(* An exception ends in the first of these calls; of a cancellation main     *)
(* knows too, and an error that gets that far would end the server. A shell  *)
(* that is cancelled is killed, so that what it had left to do is not done.  *)
Catchers == {"eval", "keys", "connect", "command", "main"}
CatchIndex(calls) == CHOOSE i \in DOMAIN calls :
    /\ calls[i].at \in Catchers
    /\ \A k \in i + 1..Len(calls) : calls[k].at \notin Catchers
Caught(frame, kind) ==
    CASE frame.at = "eval" -> [frame EXCEPT !.sound = FALSE, !.cancelling = @ \/ kind = "cancel"]
      [] frame.at = "main" -> [frame EXCEPT !.pc = "outer"]
      [] OTHER -> frame
Killed(frame, children) ==
    IF frame.at = "eval" /\ children[frame.d].state = "running"
    THEN [children EXCEPT ![frame.d].ops = <<>>] ELSE children
Throw(calls, children, kind) ==
    LET i == CatchIndex(calls)
    IN  /\ stack' = SubSeq(calls, 1, i - 1) \o <<Caught(calls[i], kind)>>
        /\ child' = IF kind = "cancel" THEN Killed(calls[i], children) ELSE children

-----------------------------------------------------------------------------
(* The child does the next thing it has to do, and in the end exits, which   *)
(* closes what it has open. It may wait for its commands to be answered.     *)
Does(c, op) ==
    CASE op = "out" -> [c EXCEPT !.out = @ + 1, !.wrote = @ + 1]
      [] op = "shut" -> [c EXCEPT !.open = FALSE]
      [] op = "close" -> [c EXCEPT !.writing = FALSE]
      [] op = "wait" -> c
      [] OTHER -> [c EXCEPT !.fifo = Append(@, op), !.told = @ + 1,
                            !.writing = TRUE, !.seen = TRUE]
ChildGoesOn(d) ==
    LET c == child[d]
    IN  /\ c.state = "running" /\ c.ops # <<>>
        /\ Head(c.ops) = "wait" => FrameOf(d).ran = c.told
        /\ child' = [child EXCEPT ![d] = Does([c EXCEPT !.ops = Tail(@)], Head(c.ops))]
        /\ UNCHANGED sigchld
ChildExits(d) ==
    LET c == child[d]
    IN  /\ c.state = "running" /\ c.ops = <<>>
        /\ child' = [child EXCEPT ![d] = [c EXCEPT !.state = "zombie", !.open = FALSE,
                                                   !.writing = FALSE]]
        /\ sigchld' = TRUE
Child == /\ \E d \in Depth : ChildGoesOn(d) \/ ChildExits(d)
         /\ UNCHANGED <<fds, m_fd_watchers, stack, m_clients, m_client_trash>>

-----------------------------------------------------------------------------
(* eval: the fifo is opened if the command line names it, then the pipes of  *)
(* which the child's ends are closed again; then the watchers.               *)
UsesFifo(ops) == ToSet(ops) \cap Cmd # {}
ShellDescriptors(d, ops) ==
    (IF UsesFifo(ops) THEN << <<"fifo", d>> >> ELSE <<>>)
    \o << <<"stdin", d>>, <<"in", d>>, <<"out", d>>, <<"stdout", d>> >>
OpenedShell(d, ops) == Opened(fds, ShellDescriptors(d, ops))
ChildEndsClosed(table) == [fd \in DOMAIN table |->
    IF table[fd][1] \in {"stdin", "stdout"} THEN Closed ELSE table[fd]]

WatcherOf(object, table) == Watcher(object, FdIn(table, object), Urgent)
ShellWatchers(table, d, ops) ==
    (IF UsesFifo(ops) THEN <<WatcherOf(<<"fifo", d>>, table)>> ELSE <<>>)
    \o <<WatcherOf(<<"out", d>>, table), WatcherOf(<<"in", d>>, table)>>

Eval(run, client, wait) ==
    LET d == NextDepth
    IN  \E ops \in IF IsNested(d) THEN Nested ELSE Scripts :
          /\ d \in Depth /\ HasFree(fds, Len(ShellDescriptors(d, ops)))
          /\ fds' = ChildEndsClosed(OpenedShell(d, ops))
          /\ m_fd_watchers' = m_fd_watchers \o ShellWatchers(fds', d, ops)
          /\ child' = [child EXCEPT ![d] =
                [NoChild EXCEPT !.state = "running", !.ops = ops, !.open = TRUE]]
          /\ stack' = Replaced(run) \o <<EvalFrame(d, client, wait)>>
          /\ UNCHANGED <<sigchld, m_clients, m_client_trash>>

(* The loop waits for the child, and for its output if that is asked for; or *)
(* wrongly for the child only.                                               *)
GoesOnForChild(frame) == ~frame.terminated \/ frame.in
GoesOn(frame) == ~frame.terminated \/ frame.in \/ (frame.wait /\ frame.out)

(* SIGCHLD is blocked but while pselect waits, with the mask of before: a    *)
(* nested eval finds it blocked by the one around it. The timers of clients  *)
(* end the wait as well; with nothing to see that is a stuttering step. Or   *)
(* wrongly the signal is blocked there too. What is served is what is        *)
(* urgent; or wrongly all.                                                   *)
KeptBlocked(d) == FALSE
Interrupts(d) == sigchld /\ ~IsNested(d)
TimerEnds(d) == m_clients # <<>> /\ child[d].state = "zombie"
AnyEvents == Normal
EvalEvents == Urgent
EvalWaits(readable) ==
    /\ OnTop("eval") /\ ~Top.events /\ GoesOn(Top)
    /\ HandleNextEvents([Top EXCEPT !.events = TRUE], EvalEvents, readable,
                        Interrupts(Top.d) \/ TimerEnds(Top.d))
    /\ sigchld' = (sigchld /\ IsNested(Top.d))
    /\ UNCHANGED <<fds, m_fd_watchers, child, m_clients, m_client_trash>>

(* After the events, or what they threw, the child is waited for.            *)
IsReaped(frame) == child[frame.d].state = "zombie"
Polled(frame) == [frame EXCEPT !.events = FALSE, !.terminated = @ \/ IsReaped(frame)]
ReapedBy(frame) == IF IsReaped(frame) THEN [child EXCEPT ![frame.d].state = "reaped"] ELSE child
EvalPolls ==
    /\ OnTop("eval") /\ Top.events
    /\ stack' = Replaced(Polled(Top)) /\ child' = ReapedBy(Top)
    /\ UNCHANGED <<fds, m_fd_watchers, sigchld, m_clients, m_client_trash>>

(* ~CommandFifos closes what the fifo's watcher has, which is nothing after a *)
(* command that ended in an exception: the watcher was disabled for it, and   *)
(* the descriptor stays open for good. The pipes are closed in any case.      *)
Leaked(fd) == <<"leaked", fd>>
AfterFifo(d, fd) == IF FdOf(<<"fifo", d>>) = None THEN Leaked(fd) ELSE Closed
AfterShell(d) == [fd \in DOMAIN fds |->
    IF fds[fd] = <<"fifo", d>> THEN AfterFifo(d, fd)
    ELSE IF fds[fd] \in ShellObjects /\ fds[fd][2] = d THEN Closed ELSE fds[fd]]

Erased(watchers, kind, d) == UnorderedErase(watchers, <<kind, d>>)
EvalReturns ==
    LET d == Top.d
        reaped == [child EXCEPT ![d] = NoChild]
    IN  /\ OnTop("eval") /\ ~Top.events /\ ~GoesOn(Top)
        /\ m_fd_watchers' = Erased(Erased(Erased(m_fd_watchers, "in", d), "out", d), "fifo", d)
        /\ fds' = AfterShell(d)
        /\ IF Top.cancelling THEN Throw(Below, reaped, "cancel")
           ELSE stack' = Below /\ child' = reaped
        /\ UNCHANGED <<sigchld, m_clients, m_client_trash>>

-----------------------------------------------------------------------------
(* The callbacks of the watchers of a shell, in the events of its own wait   *)
(* or of that of a shell nested in it.                                       *)
ServedEval(d, frame) == [Served EXCEPT ![EvalIndex(d)] = frame]

(* make_reader: all there is, and the end of it. *)
OutReader(d) ==
    LET ends == ~child[d].open
    IN  /\ Runs(<<"out", d>>)
        /\ stack' = ServedEval(d, [FrameOf(d) EXCEPT !.got = @ + child[d].out, !.out = ~ends])
        /\ child' = [child EXCEPT ![d].out = 0]
        /\ IF ends THEN /\ fds' = [fds EXCEPT ![NextFd] = Closed]
                        /\ m_fd_watchers' = ResetFd(m_fd_watchers, <<"out", d>>, None)
           ELSE UNCHANGED <<fds, m_fd_watchers>>
        /\ UNCHANGED <<sigchld, m_clients, m_client_trash>>

(* make_pipe_writer, with nothing to write. *)
InWriter(d) ==
    /\ Runs(<<"in", d>>)
    /\ stack' = ServedEval(d, [FrameOf(d) EXCEPT !.in = FALSE])
    /\ fds' = [fds EXCEPT ![NextFd] = Closed]
    /\ m_fd_watchers' = ResetFd(m_fd_watchers, <<"in", d>>, None)
    /\ UNCHANGED <<child, sigchld, m_clients, m_client_trash>>

(* CommandFifos: at the end of the fifo what was read is executed, and the   *)
(* watcher, disabled meanwhile, watches again.                               *)
FifoReader(d) ==
    LET command == FrameOf(d).command \o child[d].fifo
        frame == [FrameOf(d) EXCEPT !.command = command]
        runs == ~child[d].writing /\ command # <<>>
    IN  /\ Runs(<<"fifo", d>>)
        /\ child' = [child EXCEPT ![d].fifo = <<>>]
        /\ stack' = ServedEval(d, frame)
                    \o (IF runs THEN <<[at |-> "fifo", d |-> d, fd |-> NextFd],
                                      RunFrame(command, frame.client)>>
                        ELSE <<>>)
        /\ m_fd_watchers' = IF runs THEN ResetFd(m_fd_watchers, <<"fifo", d>>, None)
                            ELSE m_fd_watchers
        /\ UNCHANGED <<fds, sigchld, m_clients, m_client_trash>>
(* After a command the watcher has its descriptor again; or wrongly not. *)
StaysDisabled(fd) == None
WatchesAgain(fd) == fd
FifoDone ==
    /\ OnTop("fifo")
    /\ LET d == Top.d
       IN  /\ stack' = [Below EXCEPT ![EvalIndex(d)] =
                           [FrameOf(d) EXCEPT !.ran = @ + Len(FrameOf(d).command),
                                              !.command = <<>>]]
           /\ m_fd_watchers' = ResetFd(m_fd_watchers, <<"fifo", d>>, WatchesAgain(Top.fd))
    /\ UNCHANGED <<fds, child, sigchld, m_clients, m_client_trash>>

-----------------------------------------------------------------------------
(* CommandManager::execute, command by command. *)
Rest == [Top EXCEPT !.cmds = Tail(@)]
RunsNext(cmd) == OnTop("run") /\ Top.cmds # <<>> /\ Head(Top.cmds) = cmd
RunPlain ==
    /\ RunsNext("plain") /\ stack' = Replaced(Rest)
    /\ UNCHANGED <<fds, m_fd_watchers, child, sigchld, m_clients, m_client_trash>>
RunShell ==     \* %sh{}, which waits for the output, or echo -to-shell-script
    \/ RunsNext("shell") /\ Eval(Rest, Top.client, TRUE)
    \/ RunsNext("pipe") /\ Eval(Rest, Top.client, FALSE)
RunFail ==
    /\ RunsNext("fail") /\ Throw(stack, child, "runtime_error")
    /\ UNCHANGED <<fds, m_fd_watchers, sigchld, m_clients, m_client_trash>>
(* quit, of the client whose command it is; without one it fails. The client *)
(* lives on in the trash for the calls that are in progress.                 *)
RemovedClient(c) == RemoveFirst(m_clients, c)
RunQuit ==
    /\ RunsNext("quit")
    /\ IF Top.client = NoClient
       THEN Throw(stack, child, "runtime_error") /\ UNCHANGED <<m_clients, m_client_trash>>
       ELSE /\ stack' = Replaced(Rest) /\ child' = child
            /\ m_clients' = RemovedClient(Top.client)
            /\ m_client_trash' = m_client_trash \cup {Top.client}
    /\ UNCHANGED <<fds, m_fd_watchers, sigchld>>
RunDone ==
    /\ OnTop("run") /\ Top.cmds = <<>> /\ stack' = Below
    /\ UNCHANGED <<fds, m_fd_watchers, child, sigchld, m_clients, m_client_trash>>

ShellStep(readable) ==
    \/ EvalWaits(readable) \/ EvalPolls \/ EvalReturns
    \/ \E d \in Depth : OutReader(d) \/ InWriter(d) \/ FifoReader(d)
    \/ FifoDone \/ RunPlain \/ RunShell \/ RunFail \/ RunQuit \/ RunDone
=============================================================================
