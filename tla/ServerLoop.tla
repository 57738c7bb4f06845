----------------------------- MODULE ServerLoop -----------------------------
(***************************************************************************)
(* The main loop of a server that is a daemon (run_server): events, the    *)
(* keys of the clients, and then what is in the trash, without end.        *)
(***************************************************************************)
EXTENDS Remote

serverVars == <<fds, m_fd_watchers, stack, child, sigchld, m_clients, m_client_trash>>
vars == <<serverVars, remoteVars>>

MainFrame == [at |-> "main", pc |-> "top"]
Init ==
    /\ fds = [fd \in 1..MaxFd |-> IF fd = 1 THEN Listener ELSE Closed]
    /\ m_fd_watchers = <<Watcher(Listener, 1, Urgent)>>
    /\ stack = <<MainFrame>>
    /\ child = [d \in Depth |-> NoChild] /\ sigchld = FALSE
    /\ m_clients = <<>> /\ m_client_trash = {}
    /\ script \in Connections
    /\ sent = [c \in Conn |-> 0] /\ read = [c \in Conn |-> 0]
    /\ state = [c \in Conn |-> "away"]
    /\ accepter = [c \in Conn |-> Gone] /\ ui = [c \in Conn |-> Gone]
    /\ m_pending_keys = [c \in Conn |-> <<>>] /\ handled = [c \in Conn |-> <<>>]

Readable == {object \in Range(fds) : ShellReadable(object) \/ RemoteReadable(object)}

-----------------------------------------------------------------------------
(* A call of handle_next_events ends: eval goes on to look for its child,    *)
(* main to the clients' keys.                                                *)
ProcessFrame == [at |-> "process", i |-> 1, had |-> FALSE, some |-> FALSE]
EventsReturn ==
    LET caller == Last(Below)
    IN  /\ EventsDone
        /\ stack' = Front(Below) \o
                IF caller.at = "eval" THEN <<Polled(caller)>>
                ELSE <<[caller EXCEPT !.pc = IF Top.some THEN "inner" ELSE "outer"], ProcessFrame>>
        /\ child' = IF caller.at = "eval" THEN ReapedBy(caller) ELSE child
        /\ UNCHANGED <<fds, m_fd_watchers, sigchld, m_clients, m_client_trash, remoteVars>>

(* The inner loop handles events until a client had something to do; it does *)
(* not wait if a client has keys, or once it has gone round.                 *)
HasPendingInputs == \E i \in DOMAIN m_clients : m_pending_keys[m_clients[i]] # <<>>
AtMain(pc) == OnTop("main") /\ Top.pc = pc
MainWaits ==
    /\ AtMain("top")
    /\ HandleNextEvents(Top, Normal, Readable, HasPendingInputs)
    /\ UNCHANGED <<fds, m_fd_watchers, child, sigchld, m_clients, m_client_trash, remoteVars>>
MainAgain ==
    /\ AtMain("again")
    /\ HandleNextEvents(Top, Normal, Readable, TRUE)
    /\ UNCHANGED <<fds, m_fd_watchers, child, sigchld, m_clients, m_client_trash, remoteVars>>
MainProcesses ==    \* after an exception
    /\ AtMain("outer")
    /\ stack' = Called(ProcessFrame)
    /\ UNCHANGED <<fds, m_fd_watchers, child, sigchld, m_clients, m_client_trash, remoteVars>>

(* The destructors, in any order: ~RemoteUI closes the socket. *)
EmptiesTrash ==
    /\ AtMain("trash")
    /\ \E c \in m_client_trash :
        /\ fds' = [fd \in DOMAIN fds |-> IF fd = FdOf(Ui(c)) THEN Closed ELSE fds[fd]]
        /\ m_fd_watchers' = UnorderedErase(m_fd_watchers, Ui(c))
        /\ m_client_trash' = m_client_trash \ {c}
        /\ ui' = [ui EXCEPT ![c] = Gone]
    /\ stack' = Replaced([MainFrame EXCEPT !.pc = IF m_client_trash' = {} THEN "top" ELSE "trash"])
    /\ UNCHANGED <<child, sigchld, m_clients, script, sent, read, state, accepter,
                   m_pending_keys, handled>>

-----------------------------------------------------------------------------
(* ClientManager::process_pending_inputs: the clients by index, while keys   *)
(* may remove some; again from the first as long as one had something to do. *)
IsUiOk(c) == FdOf(Ui(c)) # None
IsIdle(c) == IsUiOk(c) /\ m_pending_keys[c] = <<>>
Busy == {i \in Top.i..Len(m_clients) : ~IsIdle(m_clients[i])}
Processing == OnTop("process") /\ Busy # {}
ProcessRemoves ==
    LET c == m_clients[Min(Busy)]
    IN  /\ Processing /\ ~IsUiOk(c)
        /\ stack' = Replaced([Top EXCEPT !.i = Min(Busy)])
        /\ m_client_trash' = m_client_trash \cup {c}
        /\ m_clients' = RemovedClient(c)
        /\ UNCHANGED <<fds, m_fd_watchers, child, sigchld, remoteVars>>

(* Keys are stolen: more may come while they are handled. *)
ProcessClient ==
    LET c == m_clients[Min(Busy)]
    IN  /\ Processing /\ IsUiOk(c)
        /\ stack' = Replaced([Top EXCEPT !.i = Min(Busy) + 1, !.had = TRUE, !.some = TRUE])
                    \o <<[at |-> "keys", c |-> c, keys |-> m_pending_keys[c]]>>
        /\ m_pending_keys' = [m_pending_keys EXCEPT ![c] = <<>>]
        /\ UNCHANGED <<fds, m_fd_watchers, child, sigchld, m_clients, m_client_trash, script,
                       sent, read, state, accepter, ui, handled>>
AfterProcess(frame, some) ==
    IF frame.pc = "outer" THEN [frame EXCEPT !.pc = IF m_client_trash = {} THEN "top" ELSE "trash"]
    ELSE [frame EXCEPT !.pc = IF some THEN "outer" ELSE "again"]
ProcessEnds ==
    /\ OnTop("process") /\ Busy = {}
    /\ stack' = IF Top.had THEN Replaced([Top EXCEPT !.i = 1, !.had = FALSE])
                ELSE Front(Below) \o <<AfterProcess(Last(Below), Top.some)>>
    /\ UNCHANGED <<fds, m_fd_watchers, child, sigchld, m_clients, m_client_trash, remoteVars>>

(* Client::process_pending_inputs: key after key, whatever they throw. *)
HandleKey ==
    /\ OnTop("keys") /\ Top.keys # <<>>
    /\ LET key == Head(Top.keys)
       IN  /\ handled' = [handled EXCEPT ![Top.c] = Append(@, key)]
           /\ stack' = Replaced([Top EXCEPT !.keys = Tail(@)])
                       \o <<RunFrame(<<KeyOf(Top.c, key)>>, Top.c)>>
    /\ UNCHANGED <<fds, m_fd_watchers, child, sigchld, m_clients, m_client_trash, script,
                   sent, read, state, accepter, ui, m_pending_keys>>
KeysEnd ==
    /\ OnTop("keys") /\ Top.keys = <<>>
    /\ stack' = Below
    /\ UNCHANGED <<fds, m_fd_watchers, child, sigchld, m_clients, m_client_trash, remoteVars>>

MainStep ==
    \/ EventsReturn \/ MainWaits \/ MainAgain \/ MainProcesses \/ EmptiesTrash
    \/ ProcessRemoves \/ ProcessClient \/ ProcessEnds \/ HandleKey \/ KeysEnd

(* Everything below runs on one thread; a call goes on as soon as it can.    *)
ServerStep == MainStep \/ RemoteStep \/ (ShellStep(Readable) /\ UNCHANGED remoteVars)
ChildStep == LooksForChild /\ Child /\ UNCHANGED remoteVars
Next == ServerStep \/ RemoteClient \/ ChildStep

(* What children have to do they do: they run beside the server, and it is    *)
(* only here that they have to find it looking. Clients owe nothing: neither *)
(* to connect nor to send more, nor to close their end.                      *)
Spec == /\ Init /\ [][Next]_vars
        /\ WF_vars(ServerStep) /\ SF_vars(ChildStep)

-----------------------------------------------------------------------------
TypeOK ==
    /\ DOMAIN fds = 1..MaxFd
    /\ \A i \in DOMAIN m_fd_watchers : m_fd_watchers[i].fd \in 0..MaxFd
                                      /\ m_fd_watchers[i].mode \in {Normal, Urgent}
    /\ stack # <<>> /\ stack[1].at = "main"
    /\ \A c \in Conn : /\ read[c] <= sent[c] /\ sent[c] <= Units(c)
                       /\ accepter[c] \in Gone..MessageSize /\ ui[c] \in Gone..MessageSize - 1
    /\ m_client_trash \cap ToSet(m_clients) = {}

(* A watcher watches nothing, or what it was made for, open still: no        *)
(* callback reads, or closes, what belongs to another. But an accepter whose *)
(* client is being made has passed its socket on.                            *)
Watches(who) == IF who[1] \in {"accepter", "ui"} THEN <<"conn", who[2]>> ELSE who
IsPassedOn(who) == who[1] = "accepter" /\ IsHandled(who[2])
WatchersAreOwners ==
    /\ TypeOK
    /\ \A w \in ToSet(m_fd_watchers) :
            w.fd = None \/ fds[w.fd] = Watches(w.who) \/ IsPassedOn(w.who)

(* However messages are cut, whoever reads them and whatever runs meanwhile, *)
(* each key of a client is handled at most once, and in order; without       *)
(* ctrl-g all that were read are handled or wait for it.                     *)
Handling(c) == {i \in DOMAIN stack : stack[i].at = "keys" /\ stack[i].c = c}
BeingHandled(c) == IF Handling(c) = {} THEN <<>> ELSE stack[CHOOSE i \in Handling(c) : TRUE].keys
HasCancel(c) == \E n \in 2..Len(script[c]) : KeyOf(c, n) = "cancel"
KeysInOrder ==
    \A c \in Conn :
        LET keys == handled[c] \o BeingHandled(c) \o m_pending_keys[c]
        IN  /\ \A i \in 2..Len(keys) : keys[i - 1] < keys[i]
            /\ ~HasCancel(c) /\ ui[c] # Gone =>
                    keys = [i \in 1..(read[c] \div MessageSize) - 1 |-> i + 1]

(* A shell that waits for its output returns with all that its child wrote,  *)
(* and after all commands the child sent were run, if none of them failed    *)
(* and nothing was cancelled.                                                *)
Gives(i) == LET frame == stack[i] IN
    frame.sound /\ frame.wait => /\ frame.got = child[frame.d].wrote
                                /\ frame.ran = child[frame.d].told
EvalIsComplete ==
    [][\A i \in EvalIndexes :
           i > Len(stack') \/ stack'[i].at # "eval" => Gives(i)]_vars

(* A descriptor is lost only by a shell in whose wait an exception was       *)
(* caught: after that of a command of its fifo it is, but after ctrl-g only  *)
(* if such a command was running.                                            *)
LeakedFds == {fd \in DOMAIN fds : fds[fd] = Leaked(fd)}
OnlyFailuresLeak ==
    [][LeakedFds' # LeakedFds => OnTop("eval") /\ ~Top.sound]_vars

(* While a shell is waited for, what runs is what its own children ask for:  *)
(* no client is created, no command of another connection starts and no key  *)
(* is handled.                                                               *)
Started(calls) == {i \in DOMAIN calls : calls[i].at \in {"connect", "command", "keys"}}
NothingStartsMeanwhile ==
    [][EvalIndexes # {} => /\ Started(stack') \subseteq Started(stack)
                           /\ handled' = handled]_vars

(* The keys a client sends are handled in the end, unless it leaves or uses   *)
(* ctrl-g, whatever shells are waited for meanwhile.                         *)
HasLeft(c) == state[c] = "down" \/ (read[c] >= MessageSize /\ c \notin ToSet(m_clients))
Settled(c) == HasLeft(c) \/ HasCancel(c)
              \/ 2..(sent[c] \div MessageSize) \subseteq Range(handled[c])
KeysAreHandled == []<>(\A c \in Conn : Settled(c))
=============================================================================
