--------------------------- MODULE ServerObjects ---------------------------
(***************************************************************************)
(* The buffers, clients and windows of a server and who refers to whom     *)
(* (src/src/buffer_manager.cc, client_manager.cc, client.cc, context.cc,   *)
(* hook_manager.cc), under the keys of several clients and hooks that      *)
(* create and delete buffers and remove clients in the middle of them.     *)
(*                                                                         *)
(* There is one thread: `calls' is what is left of the calls in progress,  *)
(* the innermost first, and a step runs up to the next hook.  An exception *)
(* drops what is left up to the hook that catches it.  The objects of a    *)
(* buffer are its name and a number; a window is the buffer it shows, and  *)
(* a hook has one command, set for the whole server.  Text, options and    *)
(* the debug buffer are left out, as are the keys a client that quits has  *)
(* yet to handle.                                                          *)
(***************************************************************************)
EXTENDS Contexts

CONSTANTS Client,      \* the clients that may connect
          Names,       \* names of the buffers a command may open
          Places,      \* places in a buffer
          HookConfigs, \* the hooks of a server: from names of hooks to commands
          KeysOf,      \* [Client -> the keys a client may press]
          Opened,      \* the names the server is started with
          MaxKeys      \* keys pressed, by all the clients

Scratch == "*scratch*"

(* What is not asked of the code: a hook that quits while the clients are     *)
(* made to forget a buffer shortens the list they are in, one that deletes  *)
(* other buffers as a window is made renumbers the nodes an undo is on its  *)
(* way to, and one that deletes what is being created leaves clients behind.*)
ASSUME HooksAssumption ==
    \A config \in HookConfigs : \A hook \in DOMAIN config :
        LET command == config[hook] IN
        /\ command.cmd = "quit" => hook \in {"ClientCreate", "ClientClose"}
        /\ command.cmd = "delete-buffer" =>
              hook # "WinCreate" /\ (hook = "BufCreate" => command.name # "")

(* Commands name files; what stands for a client is no buffer.              *)
ASSUME NamesAssumption ==
    /\ Opened \in Seq(Names)
    /\ \A c \in Client : \A key \in KeysOf[c] : key.cmd = "edit" => key.name \in Names
    /\ \A config \in HookConfigs : \A hook \in DOMAIN config :
          config[hook].cmd = "edit" => config[hook].name \in Names
ASSUME ClientAssumption ==
    \A c \in Client : c # Scratch /\ c \notin (Names \cup {Scratch}) \X Nat

VARIABLES
    m_buffers,
    m_buffer_trash,
    locked,             \* the buffers with the flag Locked
    m_clients,
    m_client_trash,
    m_free_windows,
    clients,            \* [Client -> a window, a context and a mode]
    m_running_hooks,
    hooks,              \* the command of each hook
    calls,              \* what is left to do, innermost first
    keys,               \* how many were pressed
    trip                \* the jump or undo last made

server == <<m_buffers, m_buffer_trash, locked>>
lists == <<m_clients, m_client_trash, m_free_windows>>
views == <<lists, clients>>
running == <<m_running_hooks, hooks>>
ghosts == <<keys, trip>>
vars == <<server, views, running, ghosts, calls>>

Nothing == [stage |-> "nothing"]

Registered(buffer) == buffer \in ToSet(m_buffers)
Named(name) == {b \in ToSet(m_buffers) : b[1] = name}
NewBuffer(name) ==
    LET known == ToSet(m_buffers) \cup m_buffer_trash
    IN  <<name, CHOOSE k \in 1 .. Cardinality(known) + 1 : <<name, k>> \notin known>>
Context(c) == clients[c].context
NoClient == [m_window |-> Invalid, context |-> NewContext(SelIn(Invalid, 0)), mode |-> "normal"]

Without(list, elements) == Kept(list, {i \in DOMAIN list : list[i] \notin elements})

Idle == calls = <<>>
Doing(op) == ~Idle /\ Head(calls).do = op
It == Head(calls)
Call(todo) == calls' = todo \o Tail(calls)

(* What a hook catches: the calls up to the end of the innermost one.       *)
Caught ==
    LET ends == {i \in DOMAIN calls : calls[i].do = "hook done"}
    IN  IF ends = {} THEN Len(calls) ELSE (CHOOSE i \in ends : \A j \in ends : i <= j) - 1
OpenEditions(c) ==
    Cardinality({i \in 1 .. Caught : calls[i].do = "end jump" /\ calls[i].client = c})
Throw ==
    /\ calls' = SubSeq(calls, Caught + 1, Len(calls))
    /\ clients' = [c \in Client |->
                     [clients[c] EXCEPT !.context =
                        IF OpenEditions(c) = 0 THEN @ ELSE EndEditions(@, OpenEditions(c))]]
    /\ trip' = IF trip.stage = "out" /\ calls' = <<>> THEN Nothing ELSE trip
    /\ UNCHANGED <<server, lists, running, keys>>

Update(c, ctx) == clients' = [clients EXCEPT ![c].context = ctx]

-----------------------------------------------------------------------------
(* Hooks (HookManager::run_hook), where one is set.                         *)

Hook(hook, param, at) ==
    IF hook \in DOMAIN hooks
    THEN <<[do |-> "hook", hook |-> hook, param |-> param, at |-> at]>> ELSE <<>>
HookDone(hook, param) == [do |-> "hook done", hook |-> hook, param |-> param]
Command(at, cmd) == [do |-> "command", at |-> at, cmd |-> cmd]

RunHook ==
    /\ Doing("hook")
    /\ IF <<It.hook, It.param>> \in m_running_hooks
       THEN Call(<<>>) /\ UNCHANGED m_running_hooks
       ELSE /\ Call(<<Command(It.at, hooks[It.hook]), HookDone(It.hook, It.param)>>)
            /\ m_running_hooks' = m_running_hooks \cup {<<It.hook, It.param>>}
    /\ UNCHANGED <<server, views, hooks, ghosts>>

EndHook ==
    /\ Doing("hook done")
    /\ m_running_hooks' = m_running_hooks \ {<<It.hook, It.param>>}
    /\ Call(<<>>)
    /\ UNCHANGED <<server, views, hooks, ghosts>>

-----------------------------------------------------------------------------
(* Windows (Client::change_buffer, ClientManager).                          *)

ChangeTo(c, buffer) ==
    [do |-> "change buffer", client |-> c, buffer |-> buffer, select |-> Invalid, backward |-> FALSE]
UndoIn(c, buffer, node, backward) ==
    [do |-> "change buffer", client |-> c, buffer |-> buffer, select |-> node, backward |-> backward]
Show(change, sel) == [do |-> "show", change |-> change, sel |-> sel]
Shown(c, buffer) == [do |-> "shown", client |-> c, buffer |-> buffer]

FreeWindows(buffer) == {i \in DOMAIN m_free_windows : m_free_windows[i].buffer = buffer}
LastOf(is) == CHOOSE i \in is : \A j \in is : j <= i
Window(buffer, sel) == [buffer |-> buffer, sel |-> sel]

(* ClientManager::get_free_window, for the call that has its selections.     *)
GetFreeWindow(buffer, call) ==
    LET free == FreeWindows(buffer) IN
    IF free = {}
    THEN /\ Call(Hook("WinCreate", buffer[1], buffer) \o <<call>>)
         /\ UNCHANGED m_free_windows
    ELSE /\ Call(<<[call EXCEPT !.sel = m_free_windows[LastOf(free)].sel]>>)
         /\ m_free_windows' = RemoveAt(m_free_windows, LastOf(free))

(* ClientManager::add_free_window; or wrongly whatever became of its buffer.*)
WithAnyWindow(windows, client) ==
    Append(windows, Window(client.m_window, SelectionsOf(client.context)))
WithFreeWindow(windows, client) ==
    IF Registered(client.m_window)
    THEN Append(windows, Window(client.m_window, SelectionsOf(client.context)))
    ELSE windows

ChangeBuffer ==
    /\ Doing("change buffer")
    /\ IF It.buffer = BufferOf(Context(It.client))
       THEN Call(<<>>) /\ UNCHANGED <<server, views, running, ghosts>>
       ELSE IF BufferOf(Context(It.client)) \in locked THEN Throw
       ELSE /\ locked' = locked \cup {It.buffer}
            /\ GetFreeWindow(It.buffer, Show(It, SelIn(It.buffer, 0)))
            /\ UNCHANGED <<m_buffers, m_buffer_trash, m_clients, m_client_trash,
                           clients, running, ghosts>>

ShownContext(ctx, change, sel) ==
    IF change.select # Invalid THEN SelectNext(ctx, change.select, change.backward)
    ELSE InEdition(ctx, sel)

(* The window that is left is free with the selections of before the change;*)
(* or wrongly with those of after it.                                       *)
LeftWindowLate(client, change, sel) ==
    WithFreeWindow(m_free_windows, [client EXCEPT !.context = ShownContext(@, change, sel)])
LeftWindow(client, change, sel) == WithFreeWindow(m_free_windows, client)
ShowBuffer ==
    /\ Doing("show")
    /\ LET change == It.change
           c == change.client
       IN  /\ m_free_windows' = LeftWindow(clients[c], change, It.sel)
           /\ clients' = [clients EXCEPT ![c].m_window = change.buffer,
                                         ![c].context = ShownContext(@, change, It.sel)]
           /\ Call(Hook("WinDisplay", change.buffer[1], c) \o <<Shown(c, change.buffer)>>)
    /\ UNCHANGED <<server, m_clients, m_client_trash, running, ghosts>>

(* InputHandler::reset_normal_mode: the editions of the mode end with it.   *)
NormalMode(client) ==
    IF client.mode = "normal" THEN client
    ELSE [client EXCEPT !.mode = "normal", !.context = EndEdition(@)]
EndShow ==
    /\ Doing("shown")
    /\ locked' = locked \ {It.buffer}
    /\ clients' = [clients EXCEPT ![It.client] = NormalMode(@)]
    /\ Call(<<>>)
    /\ UNCHANGED <<m_buffers, m_buffer_trash, m_clients, m_client_trash,
                   m_free_windows, running, ghosts>>

-----------------------------------------------------------------------------
(* Buffers (BufferManager), and a context that has to forget one.           *)

Created(buffer, then) == [do |-> "created", buffer |-> buffer, then |-> then]
DeleteBuffer(buffer) == [do |-> "delete buffer", buffer |-> buffer]
CloseWindows(buffer) == [do |-> "close windows", buffer |-> buffer]
Forget(at, buffer) == [do |-> "forget", at |-> at, buffer |-> buffer]
ForgetSelections(c, buffer) == [do |-> "forget selections", client |-> c, buffer |-> buffer]
ToFirst(at) == [do |-> "to first buffer", at |-> at]

ShowFor(at, buffer) == IF at \in Client THEN <<ChangeTo(at, buffer)>> ELSE <<>>

(* BufferManager::create_buffer, of a name that is not in use.              *)
CreateBuffer(name, then) ==
    /\ m_buffers' = Append(m_buffers, NewBuffer(name))
    /\ Call(Hook("BufCreate", name, NewBuffer(name)) \o <<Created(NewBuffer(name), then)>>)
    /\ UNCHANGED <<m_buffer_trash, locked>>
EndCreate ==
    /\ Doing("created")
    /\ IF It.buffer \in m_buffer_trash THEN Throw
       ELSE /\ Call(It.then)
            /\ UNCHANGED <<server, views, running, ghosts>>

(* BufferManager::get_first_buffer                                          *)
GetFirstBuffer ==
    /\ Doing("to first buffer")
    /\ IF m_buffers = <<>> THEN CreateBuffer(Scratch, <<It>>)
       ELSE /\ Call(ShowFor(It.at, Last(m_buffers)))
            /\ UNCHANGED server
    /\ UNCHANGED <<views, running, ghosts>>

(* Every client has to forget the buffer before its windows are closed.     *)
RemoveBuffer ==
    /\ Doing("delete buffer")
    /\ IF It.buffer \in locked THEN Throw
       ELSE /\ IF ~Registered(It.buffer) THEN Call(<<>>) /\ UNCHANGED <<server, trip>>
               ELSE /\ m_buffers' = Without(m_buffers, {It.buffer})
                    /\ m_buffer_trash' = m_buffer_trash \cup {It.buffer}
                    /\ trip' = Nothing
                    /\ Call([i \in DOMAIN m_clients |-> Forget(m_clients[i], It.buffer)]
                            \o <<CloseWindows(It.buffer)>>
                            \o Hook("BufClose", It.buffer[1], It.buffer))
                    /\ UNCHANGED locked
            /\ UNCHANGED <<views, running, keys>>

(* ClientManager::ensure_no_client_uses_buffer                              *)
CloseFreeWindows ==
    /\ Doing("close windows")
    /\ m_free_windows' =
           Kept(m_free_windows, DOMAIN m_free_windows \ FreeWindows(It.buffer))
    /\ LET hook == Hook("WinClose", It.buffer[1], It.buffer) IN
       Call(IF hook = <<>> THEN <<>>
            ELSE [i \in 1 .. Cardinality(FreeWindows(It.buffer)) |-> Head(hook)])
    /\ UNCHANGED <<server, m_clients, m_client_trash, clients, running, ghosts>>

(* Context::forget_buffer.  In a hook's own context only what it creates    *)
(* outlives it.                                                             *)
Forgetting(client, buffer) ==
    LET left == [client EXCEPT !.context = ForgetJumps(@, buffer)] IN
    IF BufferOf(client.context) = buffer /\ client.mode = "insert" THEN NormalMode(left)
    ELSE left
LeaveFor(c, others) ==
    IF others # {} THEN ChangeTo(c, CHOOSE b \in others : TRUE)
    ELSE ToFirst(c)
ForgetBuffer ==
    /\ Doing("forget")
    /\ It.at \in Client
    /\ LET c == It.at
           forgetting == Forgetting(clients[c], It.buffer)
       IN  /\ clients' = [clients EXCEPT ![c] = forgetting]
           /\ Call(IF BufferOf(forgetting.context) = It.buffer
                   THEN <<LeaveFor(c, LastBuffers(forgetting.context)),
                          ForgetSelections(c, It.buffer)>>
                   ELSE <<ForgetSelections(c, It.buffer)>>)
    /\ UNCHANGED <<server, lists, running, ghosts>>
ForgetInHook ==
    /\ Doing("forget")
    /\ It.at \notin Client
    /\ Call(IF It.at = It.buffer THEN <<ToFirst(It.at)>> ELSE <<>>)
    /\ UNCHANGED <<server, views, running, ghosts>>
ForgetHistory ==
    /\ Doing("forget selections")
    /\ Update(It.client, ForgetNodes(Context(It.client), It.buffer))
    /\ Call(<<>>)
    /\ UNCHANGED <<server, lists, running, ghosts>>

-----------------------------------------------------------------------------
(* Commands, of a key or of a hook.                                         *)

Edit(name) == [cmd |-> "edit", name |-> name]
Delete(name) == [cmd |-> "delete-buffer", name |-> name]
DeleteCurrent == [cmd |-> "delete-buffer", name |-> ""]
Quit == [cmd |-> "quit", name |-> ""]

Ordered(cmd) == Doing("command") /\ It.cmd.cmd = cmd
CurrentOf(at) == IF at \in Client THEN BufferOf(Context(at)) ELSE at

(* edit: the jump to the buffer comes after its creation.                   *)
EditBuffer ==
    /\ Ordered("edit")
    /\ LET buffers == Named(It.cmd.name)
           shown(buffer) == [do |-> "leave for", at |-> It.at, buffer |-> buffer]
       IN  IF buffers = {} THEN CreateBuffer(It.cmd.name, <<shown(NewBuffer(It.cmd.name))>>)
           ELSE /\ Call(<<shown(CHOOSE b \in buffers : TRUE)>>)
                /\ UNCHANGED server
    /\ UNCHANGED <<views, running, ghosts>>
LeaveBuffer ==
    /\ Doing("leave for")
    /\ IF It.at \in Client /\ It.buffer # CurrentOf(It.at)
       THEN /\ Update(It.at, PushJump(Context(It.at)))
            /\ Call(<<ChangeTo(It.at, It.buffer)>>)
       ELSE Call(<<>>) /\ UNCHANGED clients
    /\ UNCHANGED <<server, lists, running, ghosts>>

DeleteNamed ==
    /\ Ordered("delete-buffer")
    /\ LET named == IF It.cmd.name = "" THEN {CurrentOf(It.at)} ELSE Named(It.cmd.name)
       IN  IF named = {} THEN Throw
           ELSE /\ Call(<<DeleteBuffer(CHOOSE b \in named : TRUE),
                          Forget(It.at, CHOOSE b \in named : TRUE)>>)
                /\ UNCHANGED <<server, views, running, ghosts>>

(* ClientManager::remove_client                                             *)
RemoveClient ==
    /\ Ordered("quit")
    /\ It.at \in Client
    /\ IF It.at \in ToSet(m_clients)
       THEN /\ m_clients' = Without(m_clients, {It.at})
            /\ m_client_trash' = Append(m_client_trash, It.at)
            /\ Call(Hook("ClientClose", It.at, It.at))
       ELSE Call(<<>>) /\ UNCHANGED <<m_clients, m_client_trash>>
    /\ UNCHANGED <<server, m_free_windows, clients, running, ghosts>>

-----------------------------------------------------------------------------
(* Undo of selections and jumps, which may cross buffers.                   *)

UndoFrom(c, backward, sel) ==
    [do |-> "undo", client |-> c, backward |-> backward, old |-> sel]
UndoMore(undo) == [undo EXCEPT !.do = "undo more"]
EndJump(c, sel) == [do |-> "end jump", client |-> c, sel |-> sel]

(* SelectionHistory::undo                                                   *)
Undo ==
    /\ Doing("undo")
    /\ LET c == It.client
           next == NextNode(Context(c), It.backward)
       IN  IF next = Invalid THEN Throw
           ELSE /\ LET buffer == Context(c).m_history[next].sel.buffer
                   IN  IF buffer = BufferOf(Context(c))
                       THEN /\ Update(c, SelectNext(Context(c), next, It.backward))
                            /\ Call(<<UndoMore(It)>>)
                       ELSE /\ Call(<<UndoIn(c, buffer, next, It.backward), UndoMore(It)>>)
                            /\ UNCHANGED clients
                /\ UNCHANGED <<server, lists, running, ghosts>>
EndUndo ==
    /\ Doing("undo more")
    /\ Call(IF SelectionsOf(Context(It.client)) = It.old
            THEN <<[It EXCEPT !.do = "undo"]>> ELSE <<>>)
    /\ UNCHANGED <<server, views, running, ghosts>>

(* jump: the selections are written in an edition once they are shown.      *)
JumpTo(c, ctx) ==
    LET jump == Jumped(ctx) IN
    /\ Update(c, BeginEdition(ctx))
    /\ calls' = (IF jump.buffer # BufferOf(ctx) THEN <<ChangeTo(c, jump.buffer)>> ELSE <<>>)
                \o <<EndJump(c, jump)>>
SelectJump ==
    /\ Doing("end jump")
    /\ Update(It.client, EndEdition(Write(Context(It.client), It.sel)))
    /\ Call(<<>>)
    /\ UNCHANGED <<server, lists, running, ghosts>>

-----------------------------------------------------------------------------
(* The keys of clients.                                                     *)

Key(c, key) ==
    /\ Idle
    /\ keys < MaxKeys
    /\ c \in ToSet(m_clients)
    /\ key \in KeysOf[c]
    /\ keys' = keys + 1
    /\ UNCHANGED <<server, lists, running>>

(* The trip ends with any other key of the client.                          *)
Out(c, by) == [stage |-> "out", client |-> c, by |-> by, sel |-> SelectionsOf(Context(c))]
Ended(c) == IF trip # Nothing /\ trip.client = c THEN Nothing ELSE trip
Back(c, by) ==
    IF trip.stage = "out" /\ trip.client = c /\ trip.by = by
    THEN [trip EXCEPT !.stage = "back"] ELSE Ended(c)

Enter(c, cmd) ==
    /\ Key(c, cmd)
    /\ cmd.cmd \in {"edit", "delete-buffer", "quit"}
    /\ calls' = <<Command(c, cmd)>>
    /\ trip' = Ended(c)
    /\ UNCHANGED clients

Act(c, key, client) ==
    /\ Key(c, [cmd |-> key])
    /\ clients' = [clients EXCEPT ![c] = client]
    /\ trip' = Ended(c)
    /\ UNCHANGED calls
Select(c) ==
    \E place \in Places :
        Act(c, "select", [clients[c] EXCEPT !.context =
                            InEdition(@, SelIn(BufferOf(@), place))])
SaveSelections(c) == Act(c, "save", [clients[c] EXCEPT !.context = PushJump(@)])
EnterMode(c, mode) ==
    /\ clients[c].mode = "normal"
    /\ Act(c, mode, [clients[c] EXCEPT !.mode = mode, !.context = BeginEdition(@)])
Escape(c) == clients[c].mode # "normal" /\ Act(c, "escape", NormalMode(clients[c]))

UndoSelections(c, backward) ==
    /\ Key(c, [cmd |-> IF backward THEN "undo" ELSE "redo"])
    /\ Context(c).m_in_edition = 0
    /\ calls' = <<UndoFrom(c, backward, SelectionsOf(Context(c)))>>
    /\ trip' = IF backward THEN Out(c, "undo") ELSE Back(c, "undo")
    /\ UNCHANGED clients

(* Going back may add the selections that are left even when there is no    *)
(* jump to go to.                                                           *)
JumpBackward(c) ==
    /\ Key(c, [cmd |-> "jump backward"])
    /\ IF HasBackward(Context(c))
       THEN JumpTo(c, GoBackward(Context(c))) /\ trip' = Out(c, "jump")
       ELSE /\ Update(c, PushedBefore(Context(c)))
            /\ trip' = Ended(c)
            /\ UNCHANGED calls
JumpForward(c) ==
    /\ Key(c, [cmd |-> "jump forward"])
    /\ IF HasForward(Context(c)) THEN JumpTo(c, GoForward(Context(c)))
       ELSE UNCHANGED <<clients, calls>>
    /\ trip' = Back(c, "jump")

(* ga: the jump comes before the change, which may fail.                    *)
GoToLast(c) ==
    \E buffer \in LastBuffers(Context(c)) :
        /\ Key(c, [cmd |-> "last buffer"])
        /\ Update(c, PushJump(Context(c)))
        /\ calls' = <<ChangeTo(c, buffer)>>
        /\ trip' = Ended(c)

-----------------------------------------------------------------------------
(* A client comes (ClientManager::create_client), and what is left of those *)
(* that went is destroyed.                                                  *)

NewClient(c) == [do |-> "new client", client |-> c]
Connected(c, buffer, sel) == [do |-> "connected", client |-> c, buffer |-> buffer, sel |-> sel]
Joins(c) == [do |-> "joins", client |-> c]

Connect(c) ==
    /\ Idle
    /\ c \notin ToSet(m_clients) \cup ToSet(m_client_trash)
    /\ calls' = IF m_buffers = <<>> THEN <<ToFirst(Scratch), NewClient(c)>> ELSE <<NewClient(c)>>
    /\ UNCHANGED <<server, views, running, ghosts>>
OpenWindow ==
    /\ Doing("new client")
    /\ LET buffer == Last(m_buffers) IN
       /\ locked' = locked \cup {buffer}
       /\ GetFreeWindow(buffer, Connected(It.client, buffer, SelIn(buffer, 0)))
    /\ UNCHANGED <<m_buffers, m_buffer_trash, m_clients, m_client_trash, clients, running, ghosts>>
CreateClient ==
    /\ Doing("connected")
    /\ clients' = [clients EXCEPT ![It.client] =
                     [m_window |-> It.buffer, context |-> NewContext(It.sel), mode |-> "normal"]]
    /\ Call(Hook("WinDisplay", It.buffer[1], It.client) \o <<Joins(It.client)>>)
    /\ UNCHANGED <<server, lists, running, ghosts>>
Join ==
    /\ Doing("joins")
    /\ m_clients' = Append(m_clients, It.client)
    /\ locked' = locked \ {clients[It.client].m_window}
    /\ Call(Hook("ClientCreate", It.client, It.client))
    /\ UNCHANGED <<m_buffers, m_buffer_trash, m_client_trash, m_free_windows, clients, running, ghosts>>

Destroyed(c) == [do |-> "destroyed", client |-> c]
ClearTrash ==
    /\ Idle
    /\ m_client_trash # <<>> \/ m_buffer_trash # {}
    /\ calls' = [i \in DOMAIN m_client_trash |-> Destroyed(m_client_trash[i])]
    /\ m_client_trash' = <<>>
    /\ m_buffer_trash' = {}
    /\ UNCHANGED <<m_buffers, locked, m_clients, m_free_windows, clients, running, ghosts>>
DestroyClient ==
    /\ Doing("destroyed")
    /\ m_free_windows' = WithFreeWindow(m_free_windows, clients[It.client])
    /\ clients' = [clients EXCEPT ![It.client] = NoClient]
    /\ Call(<<>>)
    /\ UNCHANGED <<server, m_clients, m_client_trash, running, ghosts>>

-----------------------------------------------------------------------------
Init ==
    /\ m_buffers = [i \in DOMAIN Opened |-> <<Opened[i], 1>>]
    /\ m_buffer_trash = {} /\ locked = {}
    /\ m_clients = <<>> /\ m_client_trash = <<>> /\ m_free_windows = <<>>
    /\ clients = [c \in Client |-> NoClient]
    /\ m_running_hooks = {} /\ hooks \in HookConfigs
    /\ calls = <<>>
    /\ keys = 0 /\ trip = Nothing

Step ==
    \/ RunHook \/ EndHook
    \/ ChangeBuffer \/ ShowBuffer \/ EndShow
    \/ EndCreate \/ GetFirstBuffer \/ RemoveBuffer \/ CloseFreeWindows
    \/ ForgetBuffer \/ ForgetInHook \/ ForgetHistory
    \/ EditBuffer \/ LeaveBuffer \/ DeleteNamed \/ RemoveClient
    \/ Undo \/ EndUndo \/ SelectJump
    \/ OpenWindow \/ CreateClient \/ Join \/ DestroyClient

Press(c) ==
    \/ \E cmd \in KeysOf[c] : Enter(c, cmd)
    \/ Select(c) \/ SaveSelections(c) \/ Escape(c)
    \/ \E mode \in {"insert", "prompt"} : EnterMode(c, mode)
    \/ \E backward \in BOOLEAN : UndoSelections(c, backward)
    \/ JumpBackward(c) \/ JumpForward(c) \/ GoToLast(c)

Next ==
    \/ Step
    \/ \E c \in Client : Press(c) \/ Connect(c)
    \/ ClearTrash

Spec == Init /\ [][Next]_vars

-----------------------------------------------------------------------------
(* Between keys no client and no free window refers to a buffer that is     *)
(* gone: not its window, nor what it shows, jumps to, undoes or edits       *)
(* (Context::forget_buffer, ClientManager::ensure_no_client_uses_buffer).   *)
Referred(client) ==
    {client.m_window, BufferOf(client.context)}
    \cup {node.sel.buffer : node \in ToSet(client.context.m_history)}
    \cup {jump.buffer : jump \in ToSet(client.context.m_jumps)}
NoStaleBuffers ==
    Idle => /\ \A c \in ToSet(m_clients) : Referred(clients[c]) \subseteq ToSet(m_buffers)
            /\ \A w \in ToSet(m_free_windows) :
                   {w.buffer, w.sel.buffer} \subseteq ToSet(m_buffers)

(* Between keys a client's window shows the buffer of its selections, and   *)
(* no buffer stays locked (the assertion of Context::set_window, the unlock *)
(* of Client::change_buffer).                                               *)
WindowShowsSelections ==
    Idle => /\ locked = {} /\ m_running_hooks = {}
            /\ \A c \in ToSet(m_clients) : clients[c].m_window = BufferOf(Context(c))
            /\ \A w \in ToSet(m_free_windows) : w.buffer = w.sel.buffer

(* Between keys the history and the jump list of every context are sound    *)
(* and the only edition open is that of the client's mode                   *)
(* (SelectionHistory::forget_buffer, JumpList::forget_buffer, and the       *)
(* assertions on m_history_id and m_current).                               *)
HistoriesAreSound ==
    Idle => \A c \in ToSet(m_clients) :
              /\ Sound(Context(c))
              /\ Context(c).m_in_edition = IF clients[c].mode = "normal" THEN 0 ELSE 1

(* A jump backward and then one forward, or an undo of selections and then  *)
(* the redo, are where they left, whatever other clients did meanwhile, as  *)
(* long as no buffer was deleted (JumpList, SelectionHistory::undo).        *)
RoundTrip ==
    Idle /\ trip.stage = "back" => SelectionsOf(Context(trip.client)) = trip.sel
=============================================================================
