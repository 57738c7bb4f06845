------------------------------- MODULE Remote -------------------------------
(***************************************************************************)
(* The server's side of its connections: the listener makes an Accepter of *)
(* each, the Accepter reads the first message and, when it is Connect,     *)
(* makes the RemoteUI of a new client, which reads the keys that follow    *)
(* from the same socket.                                                   *)
(*                                                                         *)
(* A message is a header, which has the size, and a body. The bytes of a   *)
(* connection are those of its script, two units for each message, so that *)
(* a socket is two counters; those that are cut arrive in pieces, and a    *)
(* client may close its end at any time. What the server sends is left     *)
(* out.                                                                    *)
(***************************************************************************)
EXTENDS ShellManager

CONSTANTS
    Conn,         \* the connections, 1..n
    Connections   \* what they may send: functions from Conn to messages

VARIABLES
    script,          \* the messages each connection is to send
    sent, read,      \* units sent by the client, and read by the server
    state,           \* of the connection: "away", "backlog", "up", "down"
    accepter,        \* m_accepters: the units it has read, or Gone
    ui,              \* the units its m_reader has of a message, or Gone
    m_pending_keys,  \* of the client: the numbers of messages
    handled          \* history: those its keys were handled for

remoteVars == <<script, sent, read, state, accepter, ui, m_pending_keys, handled>>

Gone == -1
MessageSize == 2
Key == {"plain", "shell", "quit", "cancel"}
MessageRecords == [type : {"Connect", "Command", "Key"}, cmds : Seq(Cmd), key : Key,
                   cut : BOOLEAN]

ASSUME ConnAssumption ==
    /\ IsFiniteSet(Conn) /\ NoClient \notin Conn
    /\ Connections \subseteq [Conn -> Seq(MessageRecords)]

Units(c) == MessageSize * Len(script[c])

(* fd_readable: there are bytes, or the client has closed its end. *)
RemoteReadable(object) ==
    LET c == object[2]
    IN  \/ object[1] = "conn" /\ (read[c] < sent[c] \/ state[c] = "down")
        \/ object[1] = "listener" /\ \E d \in Conn : state[d] = "backlog"
Listener == <<"listener", 0>>
Acc(c) == <<"accepter", c>>
Ui(c) == <<"ui", c>>

-----------------------------------------------------------------------------
(* The clients of the socket; once the server has closed its end no one sees *)
(* what they do.                                                             *)
Connects(c) ==
    /\ state[c] = "away"
    /\ state' = [state EXCEPT ![c] = "backlog"]
    /\ UNCHANGED <<sent>>
IsOpen(c) == state[c] = "backlog" \/ (state[c] = "up" /\ <<"conn", c>> \in Range(fds))
Sends(c) ==
    /\ IsOpen(c) /\ sent[c] < Units(c)
    /\ sent' = [sent EXCEPT ![c] = @ + (IF script[c][(@ \div MessageSize) + 1].cut
                                        THEN 1 ELSE MessageSize)]
    /\ UNCHANGED <<state>>
Disconnects(c) ==
    /\ state[c] = "up" /\ IsOpen(c)
    /\ state' = [state EXCEPT ![c] = "down"]
    /\ UNCHANGED <<sent>>
(* What the clients and the children do is seen when the server looks at its *)
(* descriptors or for its child. They have their turns then: in the midst of *)
(* other work, theirs and the server's steps commute, and what arrives       *)
(* between two callbacks counts as having been there before.                 *)
Looks == (OnTop("eval") /\ ~Top.events) \/ (OnTop("main") /\ Top.pc \in {"top", "again"})
LooksForChild == Looks \/ OnTop("eval") \/ (EventsDone /\ Last(Below).at = "eval")
RemoteClient ==
    /\ Looks
    /\ \E c \in Conn : Connects(c) \/ Sends(c) \/ Disconnects(c)
    /\ UNCHANGED <<fds, m_fd_watchers, stack, child, sigchld, m_clients, m_client_trash,
                   script, read, accepter, ui, m_pending_keys, handled>>

-----------------------------------------------------------------------------
(* The listener's callback: one connection is accepted. *)
Backlog == {c \in Conn : state[c] = "backlog"}
Accept ==
    /\ Runs(Listener) /\ HasFree(fds, 1)
    /\ \E c \in Backlog :
        /\ state' = [state EXCEPT ![c] = "up"]
        /\ fds' = Opened(fds, << <<"conn", c>> >>)
        /\ m_fd_watchers' =
                Append(m_fd_watchers, Watcher(Acc(c), FdIn(fds', <<"conn", c>>), Normal))
        /\ accepter' = [accepter EXCEPT ![c] = 0]
    /\ stack' = Served
    /\ UNCHANGED <<child, sigchld, m_clients, m_client_trash, script, sent, read, ui,
                   m_pending_keys, handled>>

(* close(sock), and remove_accepter. *)
NoAccepter(c) == [accepter EXCEPT ![c] = Gone]
WithoutAccepter(c) == UnorderedErase(m_fd_watchers, Acc(c))

(* read_available reads no further than the message it is reading: what      *)
(* comes after it stays in the socket. Or wrongly it takes what there is.    *)
TakeAll(c, has) == sent[c] - read[c]
TakeMessage(c, has) == Min({MessageSize - has, sent[c] - read[c]})

(* The Accepter's callback, with a message that is not complete yet: in      *)
(* whatever mode it reads what there is, and goes when that is the end.      *)
AccepterReads(c) ==
    LET taken == TakeMessage(c, accepter[c])
        has == accepter[c] + taken
    IN  /\ Runs(Acc(c)) /\ accepter[c] < MessageSize /\ fds[NextFd] = <<"conn", c>>
        /\ has < MessageSize
        /\ read' = [read EXCEPT ![c] = @ + taken]
        /\ stack' = Served
        /\ IF state[c] = "down"
           THEN /\ fds' = [fds EXCEPT ![NextFd] = Closed]
                /\ m_fd_watchers' = WithoutAccepter(c)
                /\ accepter' = NoAccepter(c)
           ELSE /\ accepter' = [accepter EXCEPT ![c] = has]
                /\ UNCHANGED <<fds, m_fd_watchers>>
        /\ UNCHANGED <<child, sigchld, m_clients, m_client_trash, script, sent, state, ui,
                       m_pending_keys, handled>>

(* In Urgent mode, which is another watcher's on the same socket, a complete *)
(* message is left for later: it is that of the client being made. Or        *)
(* wrongly it is taken in whatever mode.                                     *)
Whatever(mode) == TRUE
InMode(mode) == Top.mode = mode
AccepterLeavesIt(c) ==
    /\ Runs(Acc(c)) /\ accepter[c] = MessageSize /\ ~InMode(Normal)
    /\ stack' = Served
    /\ UNCHANGED <<fds, m_fd_watchers, child, sigchld, m_clients, m_client_trash, remoteVars>>

(* The message is complete: the client is created, and the socket is its     *)
(* RemoteUI's, but the Accepter stays until the client's first commands are  *)
(* done; or the command is run in an empty context. A message that was       *)
(* handled already has nothing left to read: that is an error, and the       *)
(* socket is closed.                                                         *)
Introduction(c) == script[c][1]
IsHandled(c) == \E i \in DOMAIN stack :
    stack[i].at \in {"connect", "command"} /\ stack[i].c = c
Introduced(c) ==
    IF Introduction(c).type = "Connect"
    THEN /\ ui' = [ui EXCEPT ![c] = 0]
         /\ m_fd_watchers' = Append(m_fd_watchers, Watcher(Ui(c), NextFd, Urgent))
         /\ m_clients' = Append(m_clients, c)
         /\ stack' = Served \o <<[at |-> "connect", c |-> c],
                                 RunFrame(Introduction(c).cmds, c)>>
    ELSE /\ stack' = Served \o <<[at |-> "command", c |-> c, fd |-> NextFd],
                                 RunFrame(Introduction(c).cmds, NoClient)>>
         /\ UNCHANGED <<ui, m_fd_watchers, m_clients>>
AccepterHandles(c) ==
    LET taken == TakeMessage(c, accepter[c])
    IN  /\ Runs(Acc(c)) /\ InMode(Normal) /\ accepter[c] + taken >= MessageSize
        /\ read' = [read EXCEPT ![c] = @ + taken]
        /\ IF IsHandled(c)
           THEN /\ fds' = [fds EXCEPT ![NextFd] = Closed]
                /\ m_fd_watchers' = WithoutAccepter(c)
                /\ accepter' = NoAccepter(c)
                /\ stack' = Served
                /\ UNCHANGED <<ui, m_clients>>
           ELSE /\ accepter' = [accepter EXCEPT ![c] = MessageSize]
                /\ Introduced(c)
                /\ UNCHANGED fds
        /\ UNCHANGED <<child, sigchld, m_client_trash, script, sent, state, m_pending_keys,
                       handled>>
ConnectDone ==
    /\ OnTop("connect")
    /\ m_fd_watchers' = WithoutAccepter(Top.c)
    /\ accepter' = NoAccepter(Top.c)
    /\ stack' = Below
    /\ UNCHANGED <<fds, child, sigchld, m_clients, m_client_trash, script, sent, read, state,
                   ui, m_pending_keys, handled>>
CommandDone ==
    /\ OnTop("command")
    /\ fds' = [fds EXCEPT ![Top.fd] = Closed]
    /\ m_fd_watchers' = WithoutAccepter(Top.c)
    /\ accepter' = NoAccepter(Top.c)
    /\ stack' = Below
    /\ UNCHANGED <<child, sigchld, m_clients, m_client_trash, script, sent, read, state,
                   ui, m_pending_keys, handled>>

-----------------------------------------------------------------------------
(* The RemoteUI's callback reads message after message: keys are kept for    *)
(* process_pending_inputs; ctrl-g forgets those kept so far, and throws.     *)
NewMessages(c, units) ==
    LET done == read[c] \div MessageSize
    IN  [i \in 1..((read[c] + units) \div MessageSize) - done |-> done + i]
KeyOf(c, n) == script[c][n].key
Cancels(c, units) == {n \in Range(NewMessages(c, units)) : KeyOf(c, n) = "cancel"}
FirstCancel(c) == Min(Cancels(c, sent[c] - read[c]))

UiCancels(c) ==
    LET available == sent[c] - read[c]
        units == MessageSize * FirstCancel(c) - read[c]
    IN  /\ Runs(Ui(c)) /\ fds[NextFd] = <<"conn", c>>
        /\ Cancels(c, available) # {}
        /\ read' = [read EXCEPT ![c] = @ + units]
        /\ ui' = [ui EXCEPT ![c] = 0]
        /\ m_pending_keys' = [m_pending_keys EXCEPT ![c] = <<>>]
        /\ Throw(Served, child, "cancel")
        /\ UNCHANGED <<fds, m_fd_watchers, sigchld, m_clients, m_client_trash, script, sent,
                       state, accepter, handled>>
UiReads(c) ==
    LET available == sent[c] - read[c]
    IN  /\ Runs(Ui(c)) /\ fds[NextFd] = <<"conn", c>>
        /\ Cancels(c, available) = {}
        /\ read' = [read EXCEPT ![c] = @ + available]
        /\ ui' = [ui EXCEPT ![c] = (@ + available) % MessageSize]
        /\ m_pending_keys' = [m_pending_keys EXCEPT ![c] = @ \o NewMessages(c, available)]
        /\ stack' = Served
        /\ IF state[c] = "down"
           THEN /\ fds' = [fds EXCEPT ![NextFd] = Closed]
                /\ m_fd_watchers' = ResetFd(m_fd_watchers, Ui(c), None)
           ELSE UNCHANGED <<fds, m_fd_watchers>>
        /\ UNCHANGED <<child, sigchld, m_clients, m_client_trash, script, sent, state,
                       accepter, handled>>

RemoteStep ==
    \/ Accept \/ ConnectDone \/ CommandDone
    \/ \E c \in Conn : \/ AccepterReads(c) \/ AccepterLeavesIt(c) \/ AccepterHandles(c)
                       \/ UiReads(c) \/ UiCancels(c)
=============================================================================
