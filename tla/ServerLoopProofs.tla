-------------------------- MODULE ServerLoopProofs --------------------------
(***************************************************************************)
(* Which calls of the server may be in progress, that no callback reads or *)
(* closes what belongs to another, that nothing starts while a shell is    *)
(* waited for, and that the keys of a client are handled once and in       *)
(* order, whatever is nested, thrown or cancelled: for any number of       *)
(* connections, whatever they send, and for shells nested to any depth.    *)
(***************************************************************************)
EXTENDS ServerLoop, FiniteSetTheorems, SequenceTheorems, WellFoundedInduction, TLAPS

-----------------------------------------------------------------------------
(* Types: the frames of each call, the watchers, the children. *)
Clients == Conn \cup {NoClient}
AnyCmd == Cmd \cup Key
MainFrames == [at : {"main"}, pc : {"top", "again", "inner", "outer", "trash"}]
EventsFrames == [at : {"events"}, mode : {Normal, Urgent}, ready : SUBSET (1..MaxFd),
                 some : BOOLEAN]
ProcessFrames == [at : {"process"}, i : Nat \ {0}, had : BOOLEAN, some : BOOLEAN]
KeysFrames == [at : {"keys"}, c : Conn, keys : Seq(Nat)]
RunFrames == [at : {"run"}, cmds : Seq(AnyCmd), client : Clients]
EvalFrames == [at : {"eval"}, d : Depth, client : Clients, wait : BOOLEAN, events : BOOLEAN,
               terminated : BOOLEAN, in : BOOLEAN, out : BOOLEAN, got : Nat,
               command : Seq(Cmd), ran : Nat, sound : BOOLEAN, cancelling : BOOLEAN]
FifoFrames == [at : {"fifo"}, d : Depth, fd : 1..MaxFd]
ConnectFrames == [at : {"connect"}, c : Conn]
CommandFrames == [at : {"command"}, c : Conn, fd : 1..MaxFd]
Frames == UNION {MainFrames, EventsFrames, ProcessFrames, KeysFrames, RunFrames, EvalFrames,
                 FifoFrames, ConnectFrames, CommandFrames}

ShellEnds == {"fifo", "in", "out"} \X Depth
Conns == {"conn"} \X Conn
Leaks == {Leaked(fd) : fd \in 1..MaxFd}
Objects == {Listener} \cup Conns \cup ShellEnds \cup Leaks
Whos == {Listener} \cup ({"accepter", "ui"} \X Conn) \cup ShellEnds
WatcherRecords == [who : Whos, fd : 0..MaxFd, mode : {Normal, Urgent}]
Children == [state : {"none", "running", "zombie", "reaped"}, ops : Seq(ChildOp), out : Nat,
             open : BOOLEAN, fifo : Seq(Cmd), writing : BOOLEAN, seen : BOOLEAN, told : Nat,
             wrote : Nat]

Types ==
    /\ fds \in [1..MaxFd -> Objects \cup {Closed}]
    /\ m_fd_watchers \in Seq(WatcherRecords)
    /\ stack \in Seq(Frames)
    /\ child \in [Depth -> Children] /\ sigchld \in BOOLEAN
    /\ m_clients \in Seq(Conn) /\ m_client_trash \in SUBSET Conn
    /\ script \in Connections
    /\ sent \in [Conn -> Nat] /\ read \in [Conn -> Nat]
    /\ state \in [Conn -> {"away", "backlog", "up", "down"}]
    /\ accepter \in [Conn -> Gone..MessageSize] /\ ui \in [Conn -> Gone..MessageSize - 1]
    /\ m_pending_keys \in [Conn -> Seq(Nat)] /\ handled \in [Conn -> Seq(Nat)]

-----------------------------------------------------------------------------
(* The calls in progress: what may call what, and the shells by depth. *)
Calls(frame, callee) ==
    CASE callee.at = "main" -> FALSE
      [] callee.at = "events" -> \/ frame.at = "main" /\ callee.mode = Normal
                                 \/ frame.at = "eval" /\ callee.mode = Urgent
      [] callee.at = "process" -> frame.at = "main"
      [] callee.at = "keys" -> frame.at = "process"
      [] callee.at = "run" -> frame.at \in {"keys", "fifo", "connect", "command"}
      [] callee.at = "eval" -> frame.at = "run"
      [] callee.at = "fifo" -> frame.at = "events"
      [] OTHER -> frame.at = "events" /\ frame.mode = Normal
InEval == {"events", "fifo", "run", "eval"}
Evals(calls) == {i \in DOMAIN calls : calls[i].at = "eval"}
Depths(calls) == {calls[i].d : i \in Evals(calls)}
CallsFit(calls) ==
    /\ calls # <<>> /\ calls[1].at = "main"
    /\ \A i \in 2..Len(calls) : Calls(calls[i - 1], calls[i])
    /\ \A i \in Evals(calls) : \A j \in i + 1..Len(calls) : calls[j].at \in InEval
    /\ \A i, j \in Evals(calls) : i < j => calls[i].d < calls[j].d
    /\ \E n \in 0..MaxDepth : Depths(calls) = 1..n
    /\ \A j \in DOMAIN calls : calls[j].at = "fifo" =>
            \E i \in Evals(calls) : i < j /\ calls[i].d = calls[j].d

(* What a frame knows of its client, its connection and its descriptor.      *)
FrameFits(frame, uis, table) ==
    /\ frame.at \in {"run", "eval"} => frame.client = NoClient \/ uis[frame.client] # Gone
    /\ frame.at \in {"keys", "connect"} => uis[frame.c] # Gone
    /\ frame.at = "keys" => Range(frame.keys) \subseteq DOMAIN script[frame.c]
    /\ frame.at = "command" => uis[frame.c] = Gone /\ table[frame.fd] = <<"conn", frame.c>>
    /\ frame.at = "fifo" => table[frame.fd] = <<"fifo", frame.d>>
FramesFit == \A i \in DOMAIN stack : FrameFits(stack[i], ui, fds)

-----------------------------------------------------------------------------
(* Connections and clients. *)
Watchers == ToSet(m_fd_watchers)
ConnsFit ==
    /\ \A c \in Conn :
        /\ accepter[c] = MessageSize <=> IsHandled(c)
        /\ ui[c] # Gone => accepter[c] \in {Gone, MessageSize}
        /\ state[c] \in {"away", "backlog"} => accepter[c] = Gone /\ ui[c] = Gone
        /\ ui[c] # Gone => \E w \in Watchers : w.who = Ui(c)
    /\ \A c \in ToSet(m_clients) \cup m_client_trash : ui[c] # Gone
    /\ ToSet(m_clients) \cap m_client_trash = {}
    /\ \A i, j \in DOMAIN m_clients : m_clients[i] = m_clients[j] => i = j

-----------------------------------------------------------------------------
(* Watchers and descriptors. *)
FitsIn(w, table, depths, accepters, uis) ==
    CASE w.who = Listener -> w.fd # None /\ table[w.fd] = Listener
      [] w.who[1] = "accepter" -> /\ accepters[w.who[2]] # Gone /\ w.fd # None
                                  /\ uis[w.who[2]] = Gone => table[w.fd] = <<"conn", w.who[2]>>
      [] w.who[1] = "ui" -> /\ uis[w.who[2]] # Gone
                            /\ w.fd # None => table[w.fd] = <<"conn", w.who[2]>>
      [] OTHER -> w.who[2] \in depths /\ (w.fd # None => table[w.fd] = w.who)
Fits(w) == FitsIn(w, fds, Depths(stack), accepter, ui)
WatchersFit ==
    /\ \A i, j \in DOMAIN m_fd_watchers : m_fd_watchers[i].who = m_fd_watchers[j].who => i = j
    /\ \A w \in Watchers : Fits(w)
FdsFit ==
    /\ \A a, b \in 1..MaxFd : fds[a] # Closed /\ fds[a] = fds[b] => a = b
    /\ \A fd \in 1..MaxFd :
        /\ fds[fd] \in ShellEnds => fds[fd][2] \in Depths(stack)
        /\ fds[fd] \in Conns => state[fds[fd][2]] \in {"up", "down"}
        /\ fds[fd] \in Leaks => fds[fd] = Leaked(fd)

-----------------------------------------------------------------------------
(* What was read, and the keys. *)
UnitsFit ==
    \A c \in Conn :
        /\ read[c] <= sent[c] /\ sent[c] <= Units(c)
        /\ sent[c] % MessageSize # 0 => script[c][(sent[c] \div MessageSize) + 1].cut
        /\ accepter[c] \in 0..1 => read[c] = accepter[c]
        /\ accepter[c] = MessageSize \/ ui[c] # Gone => read[c] >= MessageSize
        /\ ui[c] # Gone => read[c] % MessageSize = ui[c]
        /\ state[c] \in {"away", "backlog"} => read[c] = 0
        /\ Range(m_pending_keys[c]) \subseteq DOMAIN script[c]

-----------------------------------------------------------------------------
(* Sequences. *)
LEMMA LastOne ==
    ASSUME NEW S, NEW s \in Seq(S), s # <<>>
    PROVE  /\ Len(s) \in Nat \ {0} /\ Len(s) \in DOMAIN s /\ DOMAIN s = 1..Len(s)
           /\ Last(s) = s[Len(s)] /\ Last(s) \in S
<1>1. Len(s) \in Nat /\ DOMAIN s = 1..Len(s) /\ Len(s) # 0
  BY LenProperties, EmptySeq
<1> QED BY <1>1, ElementOfSeq DEF Last

LEMMA TheFront ==
    ASSUME NEW S, NEW s \in Seq(S), s # <<>>
    PROVE  /\ Front(s) \in Seq(S) /\ Len(Front(s)) = Len(s) - 1
           /\ DOMAIN Front(s) = 1..Len(s) - 1
           /\ \A i \in 1..Len(s) - 1 : Front(s)[i] = s[i]
<1>1. Len(s) \in Nat \ {0} BY LastOne
<1> DEFINE n == Len(s) - 1
          r == SubSeq(s, 1, n)
<1>2. n \in Int /\ 1 \in Int /\ \A i \in 1..n : s[i] \in S BY <1>1, ElementOfSeq
<1>3. /\ r \in Seq(S) /\ Len(r) = n /\ \A i \in 1..n : r[i] = s[i]
  <2> HIDE DEF n
  <2>1. r \in Seq(S) /\ Len(r) = (IF 1 <= n THEN n - 1 + 1 ELSE 0)
        /\ \A i \in 1..n - 1 + 1 : r[i] = s[1 + i - 1]
    BY <1>2, SubSeqProperties
  <2>2. n \in Nat BY <1>1 DEF n
  <2> QED BY <2>1, <2>2
<1>4. DOMAIN r = 1..Len(s) - 1 BY <1>3, LenProperties
<1> QED BY <1>3, <1>4 DEF Front

LEMMA WithLast ==
    ASSUME NEW S, NEW s \in Seq(S), s # <<>>, NEW f \in S
    PROVE  LET r == Append(Front(s), f)
           IN  /\ r \in Seq(S) /\ Len(r) = Len(s) /\ DOMAIN r = 1..Len(s) /\ r # <<>>
               /\ \A i \in 1..Len(s) - 1 : r[i] = s[i]
               /\ r[Len(s)] = f /\ Last(r) = f
<1> DEFINE r == Append(Front(s), f)
<1>1. Len(s) \in Nat \ {0} BY LastOne
<1>2. r \in Seq(S) /\ Len(r) = Len(s)
  BY <1>1, TheFront, AppendProperties
<1>3. /\ \A i \in 1..Len(s) - 1 : r[i] = s[i]
      /\ r[Len(s)] = f
  BY <1>1, TheFront, AppendProperties
<1>4. DOMAIN r = 1..Len(s) /\ r # <<>> BY <1>1, <1>2, LenProperties
<1> QED BY <1>1, <1>2, <1>3, <1>4 DEF Last

LEMMA Pushed ==
    ASSUME NEW S, NEW s \in Seq(S), NEW f \in S
    PROVE  LET r == s \o <<f>>
           IN  /\ r \in Seq(S) /\ Len(r) = Len(s) + 1 /\ r # <<>> /\ r = Append(s, f)
               /\ DOMAIN r = 1..Len(s) + 1 /\ DOMAIN s = 1..Len(s)
               /\ \A i \in 1..Len(s) : r[i] = s[i]
               /\ r[Len(s) + 1] = f /\ Last(r) = f
<1> DEFINE r == Append(s, f)
<1>1. Len(s) \in Nat /\ DOMAIN s = 1..Len(s) BY LenProperties
<1>2. /\ r \in Seq(S) /\ Len(r) = Len(s) + 1 /\ \A i \in 1..Len(s) : r[i] = s[i]
      /\ r[Len(s) + 1] = f
  BY <1>1, AppendProperties
<1>3. s \o <<f>> = r BY AppendIsConcat
<1>4. r # <<>> /\ DOMAIN r = 1..Len(s) + 1 BY <1>1, <1>2, LenProperties
<1> QED BY <1>1, <1>2, <1>3, <1>4 DEF Last

LEMMA LeastNatural ==
    ASSUME NEW S \in SUBSET Nat, S # {}
    PROVE  \E x \in S : \A y \in S : x <= y
<1> DEFINE Less == {ss \in Nat \X Nat : ss[1] < ss[2]}
<1>1. IsWellFoundedOn(Less, Nat)
  BY NatLessThanWellFounded DEF OpToRel
<1>2. PICK x \in S : \A y \in S : ~(<<y, x>> \in Less)
  BY <1>1, WFMin, Zenon
<1>3. \A y \in S : ~(y < x) BY <1>2, Zenon
<1> QED BY <1>3

LEMMA LeastOne ==
    ASSUME NEW S \in SUBSET Nat, S # {}
    PROVE  Min(S) \in S /\ \A y \in S : Min(S) <= y
BY LeastNatural, Zenon DEF Min

LEMMA GreatestBelow ==
    ASSUME NEW n \in Nat, NEW S \in SUBSET (1..n), S # {}
    PROVE  \E x \in S : \A y \in S : y <= x
<1> DEFINE T == {t \in Nat : n - t \in S}
<1>1. T \in SUBSET Nat /\ T # {}
  <2>1. PICK y \in S : TRUE BY Zenon
  <2>2. n - y \in Nat /\ n - (n - y) = y BY <2>1
  <2> QED BY <2>2, Zenon
<1>2. PICK t \in T : \A y \in T : t <= y BY <1>1, LeastNatural, Zenon
<1>3. n - t \in S BY <1>2
<1>4. \A y \in S : n - y \in T /\ y \in Nat OBVIOUS
<1> QED BY <1>2, <1>3, <1>4

LEMMA DownClosed ==
    ASSUME NEW n \in Nat, NEW D \in SUBSET (1..n),
           \A d \in D : \A e \in 1..n : e < d => e \in D
    PROVE  \E k \in 0..n : D = 1..k
<1>1. CASE D = {} BY <1>1
<1>2. CASE D # {}
  <2>1. PICK x \in D : \A y \in D : y <= x BY <1>2, GreatestBelow, Zenon
  <2>2. x \in 1..n /\ \A y \in D : y \in 1..n BY <2>1
  <2>3. \A e \in 1..x : e \in D BY <2>1, <2>2
  <2>4. \A e \in D : e \in 1..x BY <2>1, <2>2
  <2>5. D = 1..x BY <2>3, <2>4, Zenon
  <2> QED BY <2>2, <2>5
<1> QED BY <1>1, <1>2

-----------------------------------------------------------------------------
(* What leaked is nothing else. *)
LEMMA LeaksAre ==
    /\ \A fd \in 1..MaxFd : Leaked(fd) \in Leaks /\ Leaked(fd) \in Objects
    /\ \A fd, e \in 1..MaxFd : Leaked(fd) = Leaked(e) => fd = e
    /\ \A x \in Leaks : /\ x \in Objects /\ x # Closed /\ x # Listener
                        /\ x \notin Conns /\ x \notin ShellEnds /\ x \notin ShellObjects
<1>1. \A fd, e \in 1..MaxFd : Leaked(fd) = Leaked(e) => fd = e BY DEF Leaked
<1>2. \A x \in Leaks : x[1] = "leaked" BY DEF Leaks, Leaked
<1>3. /\ Closed[1] # "leaked" /\ Listener[1] # "leaked"
      /\ \A x \in Conns \cup ShellEnds \cup ShellObjects : x[1] # "leaked"
  BY DEF Closed, Listener, Conns, ShellEnds, ShellObjects
<1>4. \A fd \in 1..MaxFd : Leaked(fd) \in Leaks BY DEF Leaks
<1>5. Leaks \subseteq Objects BY DEF Objects
<1>6. \A x \in Leaks : x # Closed /\ x # Listener BY <1>2, <1>3
<1>7. \A x \in Leaks : x \notin Conns /\ x \notin ShellEnds /\ x \notin ShellObjects
  BY <1>2, <1>3
<1> QED BY <1>1, <1>4, <1>5, <1>6, <1>7

-----------------------------------------------------------------------------
(* The calls in progress: what is called, and what returns. *)
LEMMA FrameKinds ==
    ASSUME NEW f \in Frames
    PROVE  /\ f.at \in {"main", "events", "process", "keys", "run", "eval", "fifo", "connect",
                        "command"}
           /\ f.at = "main" => f \in MainFrames
           /\ f.at = "events" => f \in EventsFrames
           /\ f.at = "process" => f \in ProcessFrames
           /\ f.at = "keys" => f \in KeysFrames
           /\ f.at = "run" => f \in RunFrames
           /\ f.at = "eval" => f \in EvalFrames
           /\ f.at = "fifo" => f \in FifoFrames
           /\ f.at = "connect" => f \in ConnectFrames
           /\ f.at = "command" => f \in CommandFrames
BY DEF Frames, MainFrames, EventsFrames, ProcessFrames, KeysFrames, RunFrames, EvalFrames,
       FifoFrames, ConnectFrames, CommandFrames

LEMMA FramesAre ==
    MainFrames \cup EventsFrames \cup ProcessFrames \cup KeysFrames \cup RunFrames \cup EvalFrames
        \cup FifoFrames \cup ConnectFrames \cup CommandFrames \subseteq Frames
BY DEF Frames

(* Two frames of one call, at different times. *)
Alike(f, g) ==
    /\ f.at = g.at
    /\ f.at = "events" => f.mode = g.mode
    /\ f.at \in {"eval", "fifo"} => f.d = g.d
    /\ f.at \in {"run", "eval"} => f.client = g.client
    /\ f.at \in {"keys", "connect", "command"} => f.c = g.c
    /\ f.at \in {"fifo", "command"} => f.fd = g.fd
    /\ f.at = "keys" => g.keys = f.keys

LEMMA AlikeCalls ==
    ASSUME NEW a, NEW b, NEW f, NEW g, Alike(a, f), Alike(b, g)
    PROVE  Calls(a, b) = Calls(f, g)
BY Zenon DEF Alike, Calls

LEMMA Callers ==
    ASSUME NEW a, NEW b, Calls(a, b)
    PROVE  /\ b.at # "main"
           /\ b.at = "events" =>
                (a.at = "main" /\ b.mode = Normal) \/ (a.at = "eval" /\ b.mode = Urgent)
           /\ b.at = "process" => a.at = "main"
           /\ b.at = "keys" => a.at = "process"
           /\ b.at = "run" => a.at # "main"
           /\ b.at = "eval" => a.at = "run"
           /\ b.at = "fifo" => a.at = "events"
           /\ b.at \in {"connect", "command"} => a.at = "events" /\ a.mode = Normal
<1>1. b.at # "main" BY DEF Calls
<1>2. b.at = "events" =>
                (a.at = "main" /\ b.mode = Normal) \/ (a.at = "eval" /\ b.mode = Urgent)
  BY DEF Calls
<1>3. b.at = "process" => a.at = "main" BY DEF Calls
<1>4. b.at = "keys" => a.at = "process" BY DEF Calls
<1>5. b.at = "run" => a.at # "main" BY DEF Calls
<1>6. b.at = "eval" => a.at = "run" BY DEF Calls
<1>7. b.at = "fifo" => a.at = "events" BY DEF Calls
<1>8. b.at = "connect" => a.at = "events" /\ a.mode = Normal BY DEF Calls
<1>9. b.at = "command" => a.at = "events" /\ a.mode = Normal BY DEF Calls
<1> QED BY <1>1, <1>2, <1>3, <1>4, <1>5, <1>6, <1>7, <1>8, <1>9

LEMMA AlikeFits ==
    ASSUME NEW f, NEW g, Alike(f, g), NEW u, NEW t
    PROVE  FrameFits(f, u, t) => FrameFits(g, u, t)
BY DEF Alike, FrameFits

LEMMA EvalsOf ==
    ASSUME NEW s \in Seq(Frames)
    PROVE  /\ Evals(s) = {i \in 1..Len(s) : s[i].at = "eval"} /\ Len(s) \in Nat
           /\ DOMAIN s = 1..Len(s)
           /\ \A i \in 1..Len(s) : s[i] \in Frames
           /\ \A i \in Evals(s) : s[i].d \in Depth
<1>1. DOMAIN s = 1..Len(s) /\ Len(s) \in Nat BY LenProperties
<1>2. \A i \in 1..Len(s) : s[i] \in Frames BY <1>1, ElementOfSeq
<1>3. \A i \in 1..Len(s) : s[i].at = "eval" => s[i].d \in Depth BY <1>2, FrameKinds DEF EvalFrames
<1> QED BY <1>1, <1>2, <1>3 DEF Evals

(* Where calls are: main handles events, or processes the keys of a client;  *)
(* messages are handled in its events.                                       *)
LEMMA Positions ==
    ASSUME NEW s \in Seq(Frames), CallsFit(s), NEW i \in DOMAIN s
    PROVE  /\ s[i].at = "main" => i = 1
           /\ s[i].at = "events" /\ s[i].mode = Normal => i = 2
           /\ s[i].at = "process" => i = 2
           /\ s[i].at = "keys" => i = 3 /\ s[2].at = "process"
           /\ s[i].at \in {"connect", "command"} => i = 3 /\ s[2].at = "events"
           /\ s[i].at = "events" /\ s[i].mode = Urgent => i > 2 /\ s[i - 1].at = "eval"
           /\ s[i].at = "eval" => i > 2 /\ s[i - 1].at = "run"
           /\ s[i].at = "run" => i > 2
           /\ s[i].at = "fifo" => i > 2 /\ s[i - 1].at = "events" /\ s[i - 1].mode = Urgent
<1>1. DOMAIN s = 1..Len(s) /\ Len(s) \in Nat BY LenProperties
<1>2. s[1].at = "main" BY DEF CallsFit
<1>3. \A j \in 1..Len(s) : j > 1 =>
              /\ j - 1 \in 1..Len(s) /\ s[j].at # "main"
              /\ s[j].at = "events" =>
                    (s[j - 1].at = "main" /\ s[j].mode = Normal) \/ (s[j - 1].at = "eval" /\ s[j].mode = Urgent)
              /\ s[j].at = "process" => s[j - 1].at = "main"
              /\ s[j].at = "keys" => s[j - 1].at = "process"
              /\ s[j].at = "run" => s[j - 1].at # "main"
              /\ s[j].at = "eval" => s[j - 1].at = "run"
              /\ s[j].at = "fifo" => s[j - 1].at = "events"
              /\ s[j].at \in {"connect", "command"} => s[j - 1].at = "events" /\ s[j - 1].mode = Normal
  <2> SUFFICES ASSUME NEW j \in 1..Len(s), j > 1
               PROVE  Calls(s[j - 1], s[j]) /\ j - 1 \in 1..Len(s)
    BY Callers
  <2>1. j \in 2..Len(s) /\ j - 1 \in 1..Len(s) BY <1>1
  <2> QED BY <2>1 DEF CallsFit
<1>4. ASSUME NEW j \in 1..Len(s), s[j].at = "main" PROVE j = 1
  <2>1. ~(j > 1) BY <1>3, <1>4, Zenon
  <2> QED BY <1>1, <2>1
<1>5. \A j \in 1..Len(s) : s[j].at = "process" => j = 2
  <2> SUFFICES ASSUME NEW j \in 1..Len(s), s[j].at = "process" PROVE j = 2 OBVIOUS
  <2>1. j > 1
    <3>1. j # 1 BY <1>2
    <3> QED BY <1>1, <3>1
  <2>2. s[j - 1].at = "main" /\ j - 1 \in 1..Len(s) BY <1>3, <2>1
  <2>3. j - 1 = 1 BY <1>4, <2>2
  <2> QED BY <1>1, <2>3
<1>6. \A j \in 1..Len(s) : s[j].at = "events" =>
          (s[j].mode = Normal /\ j = 2) \/ (s[j].mode = Urgent /\ j > 1 /\ s[j - 1].at = "eval")
  <2> SUFFICES ASSUME NEW j \in 1..Len(s), s[j].at = "events"
      PROVE  (s[j].mode = Normal /\ j = 2)
             \/ (s[j].mode = Urgent /\ j > 1 /\ s[j - 1].at = "eval")
    OBVIOUS
  <2>1. j > 1
    <3>1. j # 1 BY <1>2
    <3> QED BY <1>1, <3>1
  <2>2. /\ j - 1 \in 1..Len(s)
        /\ \/ s[j - 1].at = "main" /\ s[j].mode = Normal
           \/ s[j - 1].at = "eval" /\ s[j].mode = Urgent
    BY <1>3, <2>1
  <2>3. s[j - 1].at = "main" => j = 2
    <3>1. s[j - 1].at = "main" => j - 1 = 1 BY <1>4, <2>2
    <3> QED BY <1>1, <3>1
  <2> QED BY <2>1, <2>2, <2>3
<1>7. Normal # Urgent BY DEF Normal, Urgent
<1>8. \A j \in 1..Len(s) : s[j].at = "keys" => j = 3 /\ s[2].at = "process"
  BY <1>1, <1>2, <1>3, <1>5
<1>9. \A j \in 1..Len(s) : s[j].at \in {"connect", "command"} => j = 3 /\ s[2].at = "events"
  BY <1>1, <1>2, <1>3, <1>6, <1>7
<1>10. \A j \in 1..Len(s) : s[j].at = "run" => j > 2
  BY <1>1, <1>2, <1>3
<1>11. \A j \in 1..Len(s) : s[j].at = "eval" => j > 2 /\ s[j - 1].at = "run"
  BY <1>1, <1>2, <1>3
<1>12. ASSUME s[i].at = "fifo" PROVE i > 2 /\ s[i - 1].at = "events" /\ s[i - 1].mode = Urgent
  <2>1. PICK j \in Evals(s) : j < i BY <1>12 DEF CallsFit
  <2>2. i > 1 /\ s[i - 1].at = "events" BY <1>1, <1>2, <1>3, <1>12
  <2>3. j > 2 /\ i - 1 # 2 BY <1>1, <1>11, <2>1 DEF Evals
  <2> QED BY <1>1, <1>3, <1>6, <2>1, <2>2, <2>3
<1> QED BY <1>1, <1>4, <1>5, <1>6, <1>7, <1>8, <1>9, <1>10, <1>11, <1>12

(* What is left when calls return, or go on, fits. *)
LEMMA PrefixFits ==
    ASSUME NEW s \in Seq(Frames), CallsFit(s), NEW t \in Seq(Frames),
           1 <= Len(t), Len(t) <= Len(s), \A i \in 1..Len(t) : Alike(s[i], t[i])
    PROVE  CallsFit(t) /\ Evals(t) = Evals(s) \cap 1..Len(t)
<1>1. /\ DOMAIN s = 1..Len(s) /\ Len(s) \in Nat
      /\ DOMAIN t = 1..Len(t) /\ Len(t) \in Nat
      /\ Evals(s) = {i \in 1..Len(s) : s[i].at = "eval"}
      /\ Evals(t) = {i \in 1..Len(t) : t[i].at = "eval"}
  BY EvalsOf
<1>2. \A i \in 1..Len(t) : i \in 1..Len(s) /\ t[i].at = s[i].at
  BY <1>1 DEF Alike
<1>3. Evals(t) = Evals(s) \cap 1..Len(t)
  BY <1>1, <1>2
<1>4. \A i \in Evals(t) : i \in Evals(s) /\ t[i].d = s[i].d
  BY <1>1, <1>2 DEF Alike
<1>5. t # <<>> /\ t[1].at = "main"
  BY <1>1, <1>2, EmptySeq DEF CallsFit
<1>6. ASSUME NEW i \in 2..Len(t) PROVE Calls(t[i - 1], t[i])
  <2>1. i \in 2..Len(s) /\ i \in 1..Len(t) /\ i - 1 \in 1..Len(t) BY <1>1
  <2>2. Calls(s[i - 1], s[i]) BY <2>1 DEF CallsFit
  <2> QED BY <2>1, <2>2, AlikeCalls
<1>7. ASSUME NEW i \in Evals(t), NEW j \in i + 1..Len(t) PROVE t[j].at \in InEval
  <2>1. i \in Evals(s) /\ j \in i + 1..Len(s) /\ j \in 1..Len(t) BY <1>1, <1>4
  <2>2. s[j].at \in InEval BY <2>1 DEF CallsFit
  <2> QED BY <1>2, <2>1, <2>2
<1>8. \A i, j \in Evals(t) : i < j => t[i].d < t[j].d
  BY <1>4 DEF CallsFit
<1>9. \E n \in 0..MaxDepth : Depths(t) = 1..n
  <2>1. PICK m \in 0..MaxDepth : Depths(s) = 1..m BY DEF CallsFit
  <2>2. Depths(t) \in SUBSET (1..m) BY <1>4, <2>1 DEF Depths
  <2>3. ASSUME NEW d \in Depths(t), NEW e \in 1..m, e < d PROVE e \in Depths(t)
    <3>1. PICK i \in Evals(t) : t[i].d = d BY DEF Depths
    <3>2. PICK j \in Evals(s) : s[j].d = e BY <2>1, Zenon DEF Depths
    <3>3. i \in Evals(s) /\ s[i].d = d BY <1>4, <3>1
    <3>4. i \in 1..Len(t) /\ j \in 1..Len(s) BY <1>1
    <3>5. d \in Int /\ e \in Int BY <2>2, ShellAssumption
    <3>6. ~(i < j) /\ i # j
      BY <2>3, <3>2, <3>3, <3>5 DEF CallsFit
    <3>7. j \in 1..Len(t) BY <1>1, <3>4, <3>6
    <3>8. j \in Evals(t) /\ t[j].d = e BY <1>3, <1>4, <3>2, <3>7
    <3> QED BY <3>8 DEF Depths
  <2>4. m \in Nat BY ShellAssumption
  <2>5. PICK k \in 0..m : Depths(t) = 1..k BY <2>2, <2>3, <2>4, DownClosed, Zenon
  <2>6. k \in 0..MaxDepth BY ShellAssumption
  <2> QED BY <2>5, <2>6
<1>10. ASSUME NEW j \in DOMAIN t, t[j].at = "fifo"
       PROVE  \E i \in Evals(t) : i < j /\ t[i].d = t[j].d
  <2>1. j \in DOMAIN s /\ s[j].at = "fifo" /\ t[j].d = s[j].d BY <1>1, <1>2, <1>10 DEF Alike
  <2>2. PICK i \in Evals(s) : i < j /\ s[i].d = s[j].d BY <2>1 DEF CallsFit
  <2>3. i \in 1..Len(t) BY <1>1, <1>10, <2>2
  <2>4. i \in Evals(t) BY <1>3, <2>3
  <2> QED BY <1>4, <2>1, <2>2, <2>4
<1> QED BY <1>3, <1>5, <1>6, <1>7, <1>8, <1>9, <1>10 DEF CallsFit

LEMMA EvalsCount ==
    ASSUME NEW s \in Seq(Frames), CallsFit(s), NEW n \in Nat, Depths(s) = 1..n
    PROVE  IsFiniteSet(Evals(s)) /\ Cardinality(Evals(s)) = n
<1>1. /\ DOMAIN s = 1..Len(s) /\ Len(s) \in Nat
      /\ Evals(s) = {i \in 1..Len(s) : s[i].at = "eval"}
      /\ \A i \in Evals(s) : s[i].d \in Depth
  BY EvalsOf
<1> DEFINE f == [i \in Evals(s) |-> s[i].d]
<1>2. f \in [Evals(s) -> 1..n] BY DEF Depths
<1>3. \A i, j \in Evals(s) : s[i].d = s[j].d => i = j
  <2> SUFFICES ASSUME NEW i \in Evals(s), NEW j \in Evals(s), s[i].d = s[j].d PROVE i = j
    OBVIOUS
  <2>1. i \in Int /\ j \in Int BY <1>1
  <2>2. s[i].d \in Int /\ s[j].d \in Int BY <1>1, ShellAssumption DEF Depth
  <2> QED BY <2>1, <2>2 DEF CallsFit
<1>4. f \in Bijection(Evals(s), 1..n)
  <2>1. \A d \in 1..n : \E i \in Evals(s) : f[i] = d BY Zenon DEF Depths
  <2>2. f \in Injection(Evals(s), 1..n) BY <1>2, <1>3 DEF Injection, IsInjective
  <2> QED BY <1>2, <2>1, <2>2, Zenon DEF Bijection, Surjection
<1>5. IsFiniteSet(Evals(s))
  <2>1. IsFiniteSet(1..Len(s)) BY <1>1, FS_Interval
  <2> QED BY <1>1, <2>1, FS_Subset
<1>6. IsFiniteSet(1..n) /\ Cardinality(1..n) = n
  BY FS_Interval
<1>7. ExistsBijection(Evals(s), 1..n) BY <1>4 DEF ExistsBijection
<1> QED BY <1>5, <1>6, <1>7, FS_Bijection

(* A call that may be made fits. *)
LEMMA PushFits ==
    ASSUME NEW s \in Seq(Frames), CallsFit(s), NEW f \in Frames, Calls(Last(s), f),
           f.at = "eval" => f.d = Cardinality(Evals(s)) + 1,
           f.at = "fifo" => \E i \in Evals(s) : s[i].d = f.d
    PROVE  /\ CallsFit(Append(s, f))
           /\ Evals(Append(s, f)) = Evals(s) \cup (IF f.at = "eval" THEN {Len(s) + 1} ELSE {})
<1> DEFINE t == Append(s, f)
<1>0. s # <<>> BY DEF CallsFit
<1>1. /\ DOMAIN s = 1..Len(s) /\ Len(s) \in Nat \ {0}
      /\ Evals(s) = {i \in 1..Len(s) : s[i].at = "eval"}
      /\ \A i \in Evals(s) : s[i].d \in Depth
      /\ Last(s) = s[Len(s)]
  BY <1>0, EvalsOf, LastOne
<1>2. /\ t \in Seq(Frames) /\ Len(t) = Len(s) + 1 /\ t # <<>> /\ DOMAIN t = 1..Len(s) + 1
      /\ \A i \in 1..Len(s) : t[i] = s[i]
      /\ t[Len(s) + 1] = f
  BY Pushed
<1> HIDE DEF t
<1>3. Evals(t) = {i \in 1..Len(s) + 1 : t[i].at = "eval"} BY <1>2, EvalsOf
<1>4. Evals(t) = Evals(s) \cup (IF f.at = "eval" THEN {Len(s) + 1} ELSE {})
  BY <1>1, <1>2, <1>3
<1>5. \A i \in Evals(s) : i \in Evals(t) /\ i \in 1..Len(s) /\ t[i] = s[i] BY <1>1, <1>2, <1>4
<1>6. t[1].at = "main" BY <1>1, <1>2 DEF CallsFit
<1>7. ASSUME NEW i \in 2..Len(t) PROVE Calls(t[i - 1], t[i])
  <2>1. CASE i = Len(s) + 1
    <3>1. i - 1 = Len(s) /\ Len(s) \in 1..Len(s) BY <1>1, <2>1
    <3>2. t[i - 1] = Last(s) BY <1>1, <1>2, <3>1
    <3> QED BY <1>2, <2>1, <3>2
  <2>2. CASE i # Len(s) + 1
    <3>1. i \in 2..Len(s) /\ i \in 1..Len(s) /\ i - 1 \in 1..Len(s) BY <1>1, <1>2, <2>2
    <3>2. Calls(s[i - 1], s[i]) BY <3>1 DEF CallsFit
    <3> QED BY <1>2, <3>1, <3>2
  <2> QED BY <2>1, <2>2
<1>8. Evals(s) # {} => f.at \in InEval
  <2> SUFFICES ASSUME NEW i \in Evals(s) PROVE f.at \in InEval OBVIOUS
  <2>1. CASE i = Len(s)
    <3>1. Last(s).at = "eval" BY <1>1, <2>1
    <3> QED BY <3>1, Callers, FrameKinds DEF InEval
  <2>2. CASE i # Len(s)
    <3>1. Len(s) \in i + 1..Len(s) BY <1>1, <2>2
    <3>2. Last(s).at \in InEval BY <1>1, <3>1 DEF CallsFit
    <3>3. i > 2 BY <1>1, Positions
    <3>4. ~(f.at \in {"connect", "command"})
      <4>1. f.at \in {"connect", "command"} => Last(s).at = "events" /\ Last(s).mode = Normal
        BY Callers
      <4>2. Len(s) # 2 BY <1>1, <3>3
      <4>3. Len(s) \in DOMAIN s /\ s[Len(s)] = Last(s) BY <1>1
      <4>4. s[Len(s)].at = "events" /\ s[Len(s)].mode = Normal => Len(s) = 2
        BY <4>3, Positions, Zenon
      <4> QED BY <4>1, <4>2, <4>3, <4>4
    <3> QED BY <3>2, <3>4, Callers, FrameKinds DEF InEval
  <2> QED BY <2>1, <2>2
<1>9. ASSUME NEW i \in Evals(t), NEW j \in i + 1..Len(t) PROVE t[j].at \in InEval
  <2>1. i \in Evals(s) BY <1>1, <1>2, <1>3, <1>4
  <2>2. CASE j = Len(s) + 1 BY <1>2, <1>8, <2>1, <2>2
  <2>3. CASE j # Len(s) + 1
    <3>1. j \in i + 1..Len(s) /\ j \in 1..Len(s) BY <1>1, <1>2, <2>1, <2>3
    <3> QED BY <1>2, <2>1, <3>1 DEF CallsFit
  <2> QED BY <2>2, <2>3
<1>10. PICK n \in 0..MaxDepth : Depths(s) = 1..n BY DEF CallsFit
<1>11. n \in Nat /\ Cardinality(Evals(s)) = n BY <1>10, EvalsCount, ShellAssumption
<1>12. \A i \in Evals(s) : s[i].d \in 1..n BY <1>10 DEF Depths
<1>13. f.at = "eval" => f.d = n + 1 /\ n + 1 \in Depth BY <1>11, FrameKinds DEF EvalFrames
<1>14. ASSUME NEW i \in Evals(t), NEW j \in Evals(t), i < j PROVE t[i].d < t[j].d
  <2>1. i \in Evals(s) BY <1>1, <1>2, <1>3, <1>4, <1>14
  <2>2. CASE j \in Evals(s) BY <1>5, <1>14, <2>1, <2>2, Zenon DEF CallsFit
  <2>3. CASE j \notin Evals(s)
    <3>1. f.at = "eval" /\ t[j] = f BY <1>2, <1>4, <2>3
    <3>2. t[i].d \in 1..n BY <1>5, <1>12, <2>1
    <3> QED BY <1>11, <1>13, <3>1, <3>2
  <2> QED BY <2>2, <2>3
<1>15. \E k \in 0..MaxDepth : Depths(t) = 1..k
  <2>1. CASE f.at # "eval"
    <3>1. Evals(t) = Evals(s) BY <1>4, <2>1
    <3>2. Depths(t) = Depths(s) BY <1>5, <3>1 DEF Depths
    <3> QED BY <1>10, <3>2
  <2>2. CASE f.at = "eval"
    <3>1. Depths(t) = Depths(s) \cup {n + 1}
      <4>1. Evals(t) = Evals(s) \cup {Len(s) + 1} /\ t[Len(s) + 1].d = n + 1
        BY <1>2, <1>4, <1>13, <2>2
      <4> QED BY <1>5, <4>1 DEF Depths
    <3>2. Depths(t) = 1..n + 1 BY <1>10, <1>11, <3>1
    <3>3. n + 1 \in 0..MaxDepth BY <1>13, <2>2, <1>11 DEF Depth
    <3> QED BY <3>2, <3>3
  <2> QED BY <2>1, <2>2
<1>16. ASSUME NEW j \in DOMAIN t, t[j].at = "fifo"
       PROVE  \E i \in Evals(t) : i < j /\ t[i].d = t[j].d
  <2>1. CASE j = Len(s) + 1
    <3>1. PICK i \in Evals(s) : s[i].d = f.d BY <1>2, <1>16, <2>1
    <3>2. i < j BY <1>1, <2>1
    <3> QED BY <1>2, <1>5, <2>1, <3>1, <3>2
  <2>2. CASE j # Len(s) + 1
    <3>1. j \in DOMAIN s /\ s[j].at = "fifo" /\ t[j] = s[j] BY <1>1, <1>2, <1>16, <2>2
    <3>2. PICK i \in Evals(s) : i < j /\ s[i].d = s[j].d BY <3>1 DEF CallsFit
    <3> QED BY <1>5, <3>1, <3>2
  <2> QED BY <2>1, <2>2
<1>17. CallsFit(t)
  BY <1>2, <1>6, <1>7, <1>9, <1>14, <1>15, <1>16 DEF CallsFit
<1> QED BY <1>4, <1>17 DEF t

-----------------------------------------------------------------------------
(* What catches exceptions stays until it returns; whatever else is in       *)
(* progress stays the call it is, but that after the events main processes   *)
(* the clients' keys.                                                        *)
Goes(f, g) == Alike(f, g) \/ (f.at = "events" /\ g.at = "process")
Keeps(s, t) ==
    /\ \A i \in DOMAIN s : s[i].at \in Catchers => i \in DOMAIN t
    /\ \A i \in DOMAIN s \cap DOMAIN t : Goes(s[i], t[i])
Same(s, t) == \A i \in DOMAIN s \cap DOMAIN t : Alike(s[i], t[i])

LEMMA AlikeGoes ==
    ASSUME NEW f, NEW g, Alike(f, g)
    PROVE  Goes(f, g)
BY DEF Goes

LEMMA PrefixKeeps ==
    ASSUME NEW s \in Seq(Frames), CallsFit(s), NEW t \in Seq(Frames),
           1 <= Len(t), Len(t) <= Len(s), \A i \in 1..Len(t) : Alike(s[i], t[i]),
           \A i \in Len(t) + 1..Len(s) : s[i].at \notin Catchers
    PROVE  CallsFit(t) /\ Keeps(s, t) /\ Evals(t) = Evals(s) /\ Same(s, t)
<1>1. /\ DOMAIN s = 1..Len(s) /\ Len(s) \in Nat
      /\ DOMAIN t = 1..Len(t) /\ Len(t) \in Nat
      /\ Evals(s) = {i \in 1..Len(s) : s[i].at = "eval"}
  BY EvalsOf
<1>2. CallsFit(t) /\ Evals(t) = Evals(s) \cap 1..Len(t) BY PrefixFits
<1>3. \A i \in 1..Len(s) : s[i].at \in Catchers => i \in 1..Len(t) BY <1>1
<1>4. Evals(s) \subseteq 1..Len(t) BY <1>1, <1>3 DEF Catchers
<1>5. Keeps(s, t) BY <1>1, <1>3, AlikeGoes DEF Keeps
<1>6. Same(s, t) BY <1>1 DEF Same
<1> QED BY <1>2, <1>4, <1>5, <1>6

LEMMA ReplacedKeeps ==
    ASSUME NEW s \in Seq(Frames), CallsFit(s), NEW f \in Frames, Alike(Last(s), f)
    PROVE  LET t == Append(Front(s), f)
           IN  /\ t \in Seq(Frames) /\ CallsFit(t) /\ Keeps(s, t) /\ Evals(t) = Evals(s)
               /\ Same(s, t)
               /\ Len(t) = Len(s) /\ DOMAIN t = DOMAIN s /\ Last(t) = f /\ t # <<>>
               /\ t[Len(s)] = f /\ \A i \in 1..Len(s) - 1 : t[i] = s[i]
<1> DEFINE t == Append(Front(s), f)
<1>0. s # <<>> BY DEF CallsFit
<1>1. Len(s) \in Nat \ {0} /\ DOMAIN s = 1..Len(s) /\ Last(s) = s[Len(s)] BY <1>0, LastOne
<1>2. /\ t \in Seq(Frames) /\ Len(t) = Len(s) /\ DOMAIN t = 1..Len(s) /\ t # <<>>
      /\ \A i \in 1..Len(s) - 1 : t[i] = s[i]
      /\ t[Len(s)] = f /\ Last(t) = f
  BY <1>0, WithLast
<1> HIDE DEF t
<1>3. \A i \in 1..Len(t) : Alike(s[i], t[i])
  <2> SUFFICES ASSUME NEW i \in 1..Len(t) PROVE Alike(s[i], t[i]) OBVIOUS
  <2>1. CASE i = Len(s) BY <1>1, <1>2, <2>1
  <2>2. CASE i # Len(s)
    <3>1. i \in 1..Len(s) - 1
      <4>1. Len(t) = Len(s) /\ Len(s) \in Nat /\ i \in 1..Len(t) BY <1>1, <1>2
      <4> QED BY <4>1, <2>2
    <3>2. t[i] = s[i] BY <1>2, <3>1
    <3> QED BY <3>2 DEF Alike
  <2> QED BY <2>1, <2>2
<1>4. 1 <= Len(t) /\ Len(t) <= Len(s) /\ Len(t) + 1..Len(s) = {} BY <1>1, <1>2
<1>5. CallsFit(t) /\ Keeps(s, t) /\ Evals(t) = Evals(s) /\ Same(s, t)
  BY <1>2, <1>3, <1>4, PrefixKeeps
<1> QED BY <1>1, <1>2, <1>5, Zenon DEF t

LEMMA PushKeeps ==
    ASSUME NEW s \in Seq(Frames), NEW r \in Seq(Frames), NEW f \in Frames,
           Len(s) <= Len(r), Keeps(s, r)
    PROVE  /\ Keeps(s, r \o <<f>>) /\ Len(s) <= Len(r \o <<f>>)
           /\ Same(s, r) => Same(s, r \o <<f>>)
<1> DEFINE t == r \o <<f>>
<1>1. DOMAIN s = 1..Len(s) /\ Len(s) \in Nat BY LenProperties
<1>2. /\ Len(t) = Len(r) + 1 /\ DOMAIN t = 1..Len(r) + 1 /\ DOMAIN r = 1..Len(r)
      /\ \A i \in 1..Len(r) : t[i] = r[i]
  BY Pushed
<1>3. Len(r) \in Nat BY LenProperties
<1> HIDE DEF t
<1>4. DOMAIN s \cap DOMAIN t = DOMAIN s \cap DOMAIN r /\ DOMAIN s \subseteq DOMAIN t
  BY <1>1, <1>2, <1>3
<1>5. \A i \in DOMAIN s \cap DOMAIN t : t[i] = r[i] /\ i \in DOMAIN s \cap DOMAIN r
  BY <1>2, <1>4
<1>6. Keeps(s, t)
  BY <1>4, <1>5 DEF Keeps
<1>7. Same(s, r) => Same(s, t) BY <1>5 DEF Same
<1> QED BY <1>1, <1>2, <1>3, <1>6, <1>7 DEF t

(* An exception unwinds the calls up to the last one that catches it. *)
LEMMA TheCatch ==
    ASSUME NEW s \in Seq(Frames), CallsFit(s)
    PROVE  /\ CatchIndex(s) \in 1..Len(s) /\ s[CatchIndex(s)].at \in Catchers
           /\ s[CatchIndex(s)] \in Frames
           /\ \A k \in CatchIndex(s) + 1..Len(s) : s[k].at \notin Catchers
<1>0. s # <<>> BY DEF CallsFit
<1>1. Len(s) \in Nat \ {0} /\ DOMAIN s = 1..Len(s) BY <1>0, LastOne
<1> DEFINE C == {i \in 1..Len(s) : s[i].at \in Catchers}
<1>2. 1 \in C BY <1>1 DEF CallsFit, Catchers
<1>3. PICK i \in C : \A y \in C : y <= i BY <1>1, <1>2, GreatestBelow, Zenon
<1>4. i \in DOMAIN s /\ s[i].at \in Catchers /\ \A k \in i + 1..Len(s) : s[k].at \notin Catchers
  <2>1. ASSUME NEW k \in i + 1..Len(s) PROVE s[k].at \notin Catchers
    <3>1. k \in 1..Len(s) /\ ~(k <= i) BY <1>1, <1>3
    <3> QED BY <1>3, <3>1
  <2> QED BY <1>1, <1>3, <2>1
<1>5. /\ CatchIndex(s) \in DOMAIN s /\ s[CatchIndex(s)].at \in Catchers
      /\ \A k \in CatchIndex(s) + 1..Len(s) : s[k].at \notin Catchers
  BY <1>4 DEF CatchIndex
<1>6. s[CatchIndex(s)] \in Frames BY <1>1, <1>5, ElementOfSeq
<1> QED BY <1>1, <1>5, <1>6

LEMMA CaughtIsAlike ==
    ASSUME NEW f \in Frames, f.at \in Catchers, NEW kind
    PROVE  Caught(f, kind) \in Frames /\ Alike(f, Caught(f, kind))
<1>1. CASE f.at = "eval"
  <2>1. f \in EvalFrames BY <1>1, FrameKinds
  <2>2. Caught(f, kind) = [f EXCEPT !.sound = FALSE, !.cancelling = @ \/ kind = "cancel"]
    BY <1>1 DEF Caught
  <2>3. (f.cancelling \/ kind = "cancel") \in BOOLEAN BY <2>1 DEF EvalFrames
  <2>4. Caught(f, kind) \in EvalFrames
    <3> DEFINE b == f.cancelling \/ kind = "cancel"
    <3>1. Caught(f, kind) = [f EXCEPT !.sound = FALSE, !.cancelling = b] BY <2>2
    <3>2. b \in BOOLEAN BY <2>3
    <3> HIDE DEF b
    <3> QED BY <2>1, <3>1, <3>2, Zenon DEF EvalFrames
  <2>5. Alike(f, Caught(f, kind)) BY <1>1, <2>1, <2>2 DEF EvalFrames, Alike
  <2> QED BY <2>4, <2>5, FramesAre
<1>2. CASE f.at = "main"
  <2>1. f \in MainFrames BY <1>2, FrameKinds
  <2>2. Caught(f, kind) = [f EXCEPT !.pc = "outer"] BY <1>2 DEF Caught
  <2>3. Caught(f, kind) \in MainFrames /\ Caught(f, kind).at = "main"
    BY <2>1, <2>2 DEF MainFrames
  <2> QED BY <1>2, <2>3, FramesAre DEF Alike
<1>3. CASE f.at # "eval" /\ f.at # "main"
  <2>1. Caught(f, kind) = f BY <1>3 DEF Caught
  <2> QED BY <2>1 DEF Alike
<1> QED BY <1>1, <1>2, <1>3

LEMMA ThrowKeeps ==
    ASSUME NEW s \in Seq(Frames), CallsFit(s), NEW kind
    PROVE  LET i == CatchIndex(s)
               t == SubSeq(s, 1, i - 1) \o <<Caught(s[i], kind)>>
           IN  /\ t \in Seq(Frames) /\ CallsFit(t) /\ Keeps(s, t) /\ Evals(t) = Evals(s)
               /\ Same(s, t) /\ DOMAIN t \subseteq DOMAIN s
<1> DEFINE i == CatchIndex(s)
           f == Caught(s[i], kind)
           r == SubSeq(s, 1, i - 1)
           t == r \o <<f>>
<1>0. s # <<>> BY DEF CallsFit
<1>1. Len(s) \in Nat \ {0} /\ DOMAIN s = 1..Len(s) BY <1>0, LastOne
<1>2. /\ i \in 1..Len(s) /\ s[i].at \in Catchers /\ s[i] \in Frames
      /\ \A k \in i + 1..Len(s) : s[k].at \notin Catchers
  BY TheCatch
<1>3. f \in Frames /\ Alike(s[i], f) BY <1>2, CaughtIsAlike
<1> HIDE DEF f
<1>4. r \in Seq(Frames) /\ Len(r) = i - 1 /\ \A k \in 1..i - 1 : r[k] = s[k]
  <2> HIDE DEF i
  <2> DEFINE n == i - 1
  <2>1. n \in Nat /\ 1 \in Int /\ \A k \in 1..n : s[k] \in Frames /\ k \in 1..Len(s)
    BY <1>1, <1>2, ElementOfSeq
  <2> HIDE DEF n
  <2>2. SubSeq(s, 1, n) \in Seq(Frames) /\ Len(SubSeq(s, 1, n)) = (IF 1 <= n THEN n - 1 + 1 ELSE 0)
        /\ \A k \in 1..n - 1 + 1 : SubSeq(s, 1, n)[k] = s[1 + k - 1]
    BY <2>1, SubSeqProperties
  <2>3. SubSeq(s, 1, n) \in Seq(Frames) /\ Len(SubSeq(s, 1, n)) = n
        /\ \A k \in 1..n : SubSeq(s, 1, n)[k] = s[k]
    BY <2>1, <2>2
  <2> QED BY <2>3 DEF n
<1> HIDE DEF r, i
<1>5. /\ t \in Seq(Frames) /\ Len(t) = i /\ DOMAIN t = 1..i
      /\ \A k \in 1..i - 1 : t[k] = s[k]
      /\ t[i] = f
  <2>1. i - 1 + 1 = i BY <1>2
  <2>2. /\ t \in Seq(Frames) /\ Len(t) = Len(r) + 1 /\ DOMAIN t = 1..Len(r) + 1
        /\ \A k \in 1..Len(r) : t[k] = r[k]
        /\ t[Len(r) + 1] = f
    BY <1>3, <1>4, Pushed
  <2> HIDE DEF t
  <2> QED BY <1>4, <2>1, <2>2
<1> HIDE DEF t
<1>6. \A k \in 1..Len(t) : Alike(s[k], t[k])
  <2> SUFFICES ASSUME NEW k \in 1..i PROVE Alike(s[k], t[k]) BY <1>5
  <2>1. CASE k = i BY <1>3, <1>5, <2>1
  <2>2. CASE k # i
    <3>1. t[k] = s[k] BY <1>2, <1>5, <2>2
    <3> QED BY <3>1 DEF Alike
  <2> QED BY <2>1, <2>2
<1>7. CallsFit(t) /\ Keeps(s, t) /\ Evals(t) = Evals(s) /\ Same(s, t)
  <2>1. 1 <= Len(t) /\ Len(t) <= Len(s) BY <1>1, <1>2, <1>5
  <2>2. \A k \in Len(t) + 1..Len(s) : s[k].at \notin Catchers BY <1>2, <1>5
  <2> QED BY <1>5, <1>6, <2>1, <2>2, PrefixKeeps
<1>8. DOMAIN t \subseteq DOMAIN s BY <1>1, <1>2, <1>5
<1> QED BY <1>5, <1>7, <1>8 DEF t, r, f, i

-----------------------------------------------------------------------------
(* The invariant. *)
Inv == /\ Types /\ CallsFit(stack) /\ FramesFit /\ ConnsFit
       /\ WatchersFit /\ FdsFit /\ UnitsFit

HandledIn(calls) == {calls[i].c : i \in {j \in DOMAIN calls : calls[j].at \in {"connect", "command"}}}

LEMMA HandledOnes ==
    \A c : IsHandled(c) <=> c \in HandledIn(stack)
BY DEF IsHandled, HandledIn

LEMMA KeepsFacts ==
    ASSUME NEW s \in Seq(Frames), NEW t \in Seq(Frames), Keeps(s, t), NEW u, NEW tb,
           \A i \in DOMAIN t \ DOMAIN s : t[i].at \notin {"eval", "connect", "command"}
    PROVE  /\ Depths(t) = Depths(s) /\ HandledIn(t) = HandledIn(s) /\ Evals(t) = Evals(s)
           /\ \A i \in Evals(s) : t[i].d = s[i].d
           /\ \/ \E i \in DOMAIN s : ~FrameFits(s[i], u, tb)
              \/ \E i \in DOMAIN t \ DOMAIN s : ~FrameFits(t[i], u, tb)
              \/ \A i \in DOMAIN t : FrameFits(t[i], u, tb)
<1>1. \A i \in DOMAIN s : s[i].at \in {"eval", "connect", "command"} =>
          i \in DOMAIN t /\ Alike(s[i], t[i])
  BY DEF Keeps, Catchers, Goes
<1>2. \A i \in DOMAIN t : t[i].at \in {"eval", "connect", "command"} =>
          i \in DOMAIN s /\ Alike(s[i], t[i])
  BY DEF Keeps, Goes
<1>3. Evals(t) = Evals(s) /\ \A i \in Evals(s) : t[i].d = s[i].d
  BY <1>1, <1>2 DEF Evals, Alike
<1>4. Depths(t) = Depths(s) BY <1>3 DEF Depths
<1>5. HandledIn(t) = HandledIn(s)
  <2>1. \A i \in DOMAIN s : s[i].at \in {"connect", "command"} =>
            i \in DOMAIN t /\ t[i].at \in {"connect", "command"} /\ t[i].c = s[i].c
    BY <1>1 DEF Alike
  <2>2. \A i \in DOMAIN t : t[i].at \in {"connect", "command"} =>
            i \in DOMAIN s /\ s[i].at \in {"connect", "command"} /\ t[i].c = s[i].c
    BY <1>2 DEF Alike
  <2> QED BY <2>1, <2>2 DEF HandledIn
<1>6. ASSUME \A i \in DOMAIN s : FrameFits(s[i], u, tb),
             \A i \in DOMAIN t \ DOMAIN s : FrameFits(t[i], u, tb),
             NEW i \in DOMAIN t
      PROVE  FrameFits(t[i], u, tb)
  <2>1. CASE i \in DOMAIN s /\ Alike(s[i], t[i]) BY <1>6, <2>1, AlikeFits
  <2>2. CASE i \notin DOMAIN s BY <1>6, <2>2
  <2>3. CASE t[i].at = "process" BY <2>3 DEF FrameFits
  <2> QED BY <2>1, <2>2, <2>3 DEF Keeps, Goes
<1> QED BY <1>3, <1>4, <1>5, <1>6

LEMMA FramesKept ==
    ASSUME NEW s \in Seq(Frames), NEW t \in Seq(Frames), Keeps(s, t), NEW u, NEW tb,
           \A i \in DOMAIN t \ DOMAIN s : t[i].at \notin {"eval", "connect", "command"},
           \A i \in DOMAIN s : FrameFits(s[i], u, tb),
           \A i \in DOMAIN t \ DOMAIN s : FrameFits(t[i], u, tb)
    PROVE  \A i \in DOMAIN t : FrameFits(t[i], u, tb)
BY KeepsFacts, Zenon


-----------------------------------------------------------------------------
(* The calls after a step that is quiet: no shell, no client and no command  *)
(* of a connection begins.                                                   *)
QuietStack(t) ==
    /\ t \in Seq(Frames) /\ CallsFit(t) /\ Keeps(stack, t)
    /\ \A i \in DOMAIN t \ DOMAIN stack :
        /\ t[i].at \notin {"eval", "connect", "command", "keys"}
        /\ FrameFits(t[i], ui, fds)

LEMMA TopIs ==
    ASSUME Types, CallsFit(stack)
    PROVE  /\ stack # <<>> /\ stack \in Seq(Frames) /\ Len(stack) \in Nat \ {0}
           /\ DOMAIN stack = 1..Len(stack) /\ Len(stack) \in DOMAIN stack
           /\ Top = stack[Len(stack)] /\ Top \in Frames
           /\ \A i \in DOMAIN stack : stack[i] \in Frames
<1>1. stack \in Seq(Frames) /\ stack # <<>> BY DEF Types, CallsFit
<1> QED BY <1>1, LastOne, EvalsOf DEF Top

LEMMA StackReplaced ==
    ASSUME Types, CallsFit(stack), NEW f \in Frames, Alike(Top, f)
    PROVE  /\ QuietStack(Replaced(f)) /\ DOMAIN Replaced(f) = DOMAIN stack
           /\ Len(Replaced(f)) = Len(stack) /\ Last(Replaced(f)) = f
           /\ Evals(Replaced(f)) = Evals(stack) /\ Replaced(f)[Len(stack)] = f
           /\ \A i \in 1..Len(stack) - 1 : Replaced(f)[i] = stack[i]
<1>1. stack \in Seq(Frames) BY DEF Types
<1> QED BY <1>1, ReplacedKeeps DEF Replaced, Below, Top, QuietStack

(* A call on top of calls that are quiet. *)
LEMMA StackPushed ==
    ASSUME Types, CallsFit(stack), NEW r, QuietStack(r), Len(stack) <= Len(r),
           NEW g \in Frames, Calls(Last(r), g), g.at \notin {"eval", "connect", "command", "keys"},
           g.at = "fifo" => g.d \in Depths(stack), FrameFits(g, ui, fds)
    PROVE  /\ QuietStack(r \o <<g>>) /\ Len(stack) <= Len(r \o <<g>>)
           /\ Last(r \o <<g>>) = g
<1> DEFINE t == r \o <<g>>
<1>1. /\ r \in Seq(Frames) /\ CallsFit(r) /\ Keeps(stack, r) /\ stack \in Seq(Frames)
      /\ DOMAIN stack = 1..Len(stack) /\ Len(stack) \in Nat
      /\ \A i \in DOMAIN r \ DOMAIN stack :
            /\ r[i].at \notin {"eval", "connect", "command", "keys"}
            /\ FrameFits(r[i], ui, fds)
  BY TopIs DEF QuietStack
<1>2. /\ t \in Seq(Frames) /\ Len(t) = Len(r) + 1 /\ t = Append(r, g)
      /\ DOMAIN t = 1..Len(r) + 1 /\ DOMAIN r = 1..Len(r)
      /\ \A i \in 1..Len(r) : t[i] = r[i]
      /\ t[Len(r) + 1] = g /\ Last(t) = g
  BY <1>1, Pushed
<1>3. Keeps(stack, t) /\ Len(stack) <= Len(t) BY <1>1, PushKeeps
<1>4. Depths(r) = Depths(stack)
  BY <1>1, KeepsFacts
<1>5. g.at = "fifo" => \E i \in Evals(r) : r[i].d = g.d BY <1>4, Zenon DEF Depths
<1>6. CallsFit(t) BY <1>1, <1>2, <1>5, PushFits, Zenon
<1>7. Len(r) \in Nat BY <1>1, LenProperties
<1> HIDE DEF t
<1>8. ASSUME NEW i \in DOMAIN t \ DOMAIN stack
      PROVE  /\ t[i].at \notin {"eval", "connect", "command", "keys"}
             /\ FrameFits(t[i], ui, fds)
  <2>1. CASE i = Len(r) + 1 BY <1>2, <2>1
  <2>2. CASE i # Len(r) + 1
    <3>1. i \in DOMAIN r \ DOMAIN stack /\ t[i] = r[i] BY <1>2, <1>7, <2>2
    <3> QED BY <1>1, <3>1
  <2> QED BY <2>1, <2>2
<1>9. QuietStack(t) BY <1>2, <1>3, <1>6, <1>8 DEF QuietStack
<1> QED BY <1>2, <1>3, <1>9 DEF t

LEMMA StackPopped ==
    ASSUME Types, CallsFit(stack), Top.at \notin Catchers
    PROVE  QuietStack(Below) /\ Len(stack) > 1 /\ Same(stack, Below) /\ Evals(Below) = Evals(stack)
<1>1. /\ stack # <<>> /\ stack \in Seq(Frames) /\ Len(stack) \in Nat \ {0}
      /\ DOMAIN stack = 1..Len(stack) /\ Top = stack[Len(stack)]
  BY TopIs
<1>2. stack[1].at \in Catchers BY DEF CallsFit, Catchers
<1>3. Len(stack) > 1 BY <1>1, <1>2
<1>4. /\ Below \in Seq(Frames) /\ Len(Below) = Len(stack) - 1
      /\ DOMAIN Below = 1..Len(stack) - 1
      /\ \A i \in 1..Len(stack) - 1 : Below[i] = stack[i]
  BY <1>1, TheFront, Zenon DEF Below
<1>5. \A i \in 1..Len(Below) : Alike(stack[i], Below[i]) BY <1>4 DEF Alike
<1>6. \A i \in Len(Below) + 1..Len(stack) : stack[i].at \notin Catchers
  <2>1. Len(Below) + 1 = Len(stack)
    <3>1. Len(Below) = Len(stack) - 1 /\ Len(stack) \in Nat BY <1>1, <1>4
    <3> QED BY <3>1
  <2>2. \A i \in Len(stack)..Len(stack) : i = Len(stack)
    <3>1. \A n \in Nat : \A i \in n..n : i = n OBVIOUS
    <3>2. Len(stack) \in Nat BY <1>1
    <3> QED BY <3>1, <3>2
  <2> QED BY <1>1, <2>1, <2>2
<1>7. 1 <= Len(Below) /\ Len(Below) <= Len(stack) BY <1>1, <1>3, <1>4
<1>8. CallsFit(Below) /\ Keeps(stack, Below) /\ Evals(Below) = Evals(stack) /\ Same(stack, Below)
  BY <1>1, <1>4, <1>5, <1>6, <1>7, PrefixKeeps, Zenon
<1>9. DOMAIN Below \ DOMAIN stack = {} BY <1>1, <1>4
<1> QED BY <1>3, <1>4, <1>8, <1>9 DEF QuietStack

LEMMA StackThrown ==
    ASSUME Types, CallsFit(stack), NEW s, QuietStack(s), DOMAIN s = DOMAIN stack,
           Same(stack, s), NEW kind
    PROVE  QuietStack(SubSeq(s, 1, CatchIndex(s) - 1) \o <<Caught(s[CatchIndex(s)], kind)>>)
<1> DEFINE t == SubSeq(s, 1, CatchIndex(s) - 1) \o <<Caught(s[CatchIndex(s)], kind)>>
<1>1. s \in Seq(Frames) /\ CallsFit(s) /\ Keeps(stack, s) BY DEF QuietStack
<1>2. /\ t \in Seq(Frames) /\ CallsFit(t) /\ Keeps(s, t) /\ Same(s, t)
      /\ DOMAIN t \subseteq DOMAIN s
  BY <1>1, ThrowKeeps, Zenon
<1> HIDE DEF t
<1>3. \A i \in DOMAIN stack : stack[i].at \in Catchers => i \in DOMAIN t
  <2>1. \A i \in DOMAIN stack : stack[i].at = s[i].at BY DEF Same, Alike
  <2> QED BY <1>2, <2>1 DEF Keeps
<1>4. \A i \in DOMAIN stack \cap DOMAIN t : Alike(stack[i], t[i])
  <2> SUFFICES ASSUME NEW i \in DOMAIN stack \cap DOMAIN t PROVE Alike(stack[i], t[i])
    OBVIOUS
  <2>1. Alike(stack[i], s[i]) BY DEF Same
  <2>2. Alike(s[i], t[i]) BY <1>2 DEF Same
  <2> QED BY <2>1, <2>2 DEF Alike
<1>5. Keeps(stack, t) BY <1>3, <1>4, AlikeGoes DEF Keeps
<1>6. DOMAIN t \ DOMAIN stack = {} BY <1>2
<1> QED BY <1>2, <1>5, <1>6 DEF QuietStack, t

(* Within the events. *)
LEMMA ServedIs ==
    ASSUME Types, CallsFit(stack), InEvents
    PROVE  /\ QuietStack(Served) /\ DOMAIN Served = DOMAIN stack /\ Len(Served) = Len(stack)
           /\ Last(Served) \in EventsFrames /\ Last(Served).mode = Top.mode
           /\ Same(stack, Served) /\ Top \in EventsFrames
           /\ Served[Len(stack)] = Last(Served)
           /\ \A i \in 1..Len(stack) - 1 : Served[i] = stack[i]
           /\ Evals(Served) = Evals(stack)
<1> DEFINE f == [Top EXCEPT !.ready = {fd \in @ : fd > NextFd}]
<1>1. Top \in EventsFrames /\ Top.at = "events" BY TopIs, FrameKinds DEF InEvents
<1>2. f \in EventsFrames /\ f.mode = Top.mode /\ f.at = "events"
  <2> DEFINE R == {fd \in Top.ready : fd > NextFd}
  <2>1. R \in SUBSET (1..MaxFd) BY <1>1 DEF EventsFrames
  <2>2. f = [Top EXCEPT !.ready = R] OBVIOUS
  <2> HIDE DEF R, f
  <2> QED BY <1>1, <2>1, <2>2 DEF EventsFrames
<1>3. f \in Frames /\ Alike(Top, f) BY <1>1, <1>2, FramesAre DEF Alike
<1>4. Served = Replaced(f) BY DEF Served
<1> HIDE DEF f
<1>5. Same(stack, Replaced(f)) BY <1>3, ReplacedKeeps DEF Replaced, Below, Top, Types
<1> QED BY <1>1, <1>2, <1>3, <1>4, <1>5, StackReplaced

-----------------------------------------------------------------------------
(* The types, and the calls, step by step. *)
OtherTypes ==
    /\ fds \in [1..MaxFd -> Objects \cup {Closed}]
    /\ m_fd_watchers \in Seq(WatcherRecords)
    /\ child \in [Depth -> Children] /\ sigchld \in BOOLEAN
    /\ m_clients \in Seq(Conn) /\ m_client_trash \in SUBSET Conn
ConnTypes ==
    /\ script \in Connections
    /\ sent \in [Conn -> Nat] /\ read \in [Conn -> Nat]
    /\ state \in [Conn -> {"away", "backlog", "up", "down"}]
    /\ accepter \in [Conn -> Gone..MessageSize] /\ ui \in [Conn -> Gone..MessageSize - 1]
    /\ m_pending_keys \in [Conn -> Seq(Nat)] /\ handled \in [Conn -> Seq(Nat)]

LEMMA EventsCall ==
    ASSUME Types, CallsFit(stack), NEW f \in Frames, Alike(Top, f), NEW mode,
           (f.at = "main" /\ mode = Normal) \/ (f.at = "eval" /\ mode = Urgent),
           NEW R \in SUBSET (1..MaxFd), NEW some \in BOOLEAN
    PROVE  QuietStack(Replaced(f) \o <<[at |-> "events", mode |-> mode, ready |-> R, some |-> some]>>)
<1> DEFINE g == [at |-> "events", mode |-> mode, ready |-> R, some |-> some]
<1>1. g \in EventsFrames /\ g.at = "events" /\ g.mode = mode BY DEF EventsFrames
<1> HIDE DEF g
<1>2. g \in Frames BY <1>1, FramesAre
<1>3. /\ QuietStack(Replaced(f)) /\ Len(Replaced(f)) = Len(stack) /\ Last(Replaced(f)) = f
  BY StackReplaced
<1>4. Calls(f, g)
  <2>1. Calls(f, g) = ((f.at = "main" /\ g.mode = Normal) \/ (f.at = "eval" /\ g.mode = Urgent))
    BY <1>1, Zenon DEF Calls
  <2> QED BY <1>1, <2>1, Zenon
<1>5. FrameFits(g, ui, fds) BY <1>1 DEF FrameFits
<1>6. Len(stack) <= Len(Replaced(f)) BY <1>3, TopIs
<1>7. QuietStack(Replaced(f) \o <<g>>)
  BY <1>1, <1>2, <1>3, <1>4, <1>5, <1>6, StackPushed
<1> QED BY <1>7 DEF g

LEMMA TheReady ==
    ASSUME Types, NEW mode, NEW readable
    PROVE  ReadyFds(mode, readable) \in SUBSET (1..MaxFd)
<1>1. \A w \in ToSet(m_fd_watchers) : w.fd \in 0..MaxFd
  <2>1. \A i \in DOMAIN m_fd_watchers : m_fd_watchers[i] \in WatcherRecords
    BY ElementOfSeq, LenProperties DEF Types
  <2> QED BY <2>1 DEF ToSet, WatcherRecords
<1>2. Watched(mode) \in SUBSET (1..MaxFd) BY <1>1, MaxFdAssumption DEF Watched, None
<1> QED BY <1>2 DEF ReadyFds

LEMMA EvalTop ==
    ASSUME Types, CallsFit(stack), OnTop("eval")
    PROVE  Top \in EvalFrames /\ Top.at = "eval" /\ Top.d \in Depth /\ Top.d \in Depths(stack)
<1>1. Top \in EvalFrames /\ Top.at = "eval" BY TopIs, FrameKinds DEF OnTop
<1>2. Len(stack) \in Evals(stack) BY <1>1, TopIs DEF Evals
<1> QED BY <1>1, <1>2, TopIs DEF EvalFrames, Depths

LEMMA EvalWaitsQuiet ==
    ASSUME Types, CallsFit(stack), EvalWaits(Readable)
    PROVE  QuietStack(stack') /\ OtherTypes'
<1>1. OnTop("eval") /\ Top \in EvalFrames /\ Top.at = "eval" BY EvalTop DEF EvalWaits
<1> DEFINE f == [Top EXCEPT !.events = TRUE]
<1>2. f \in EvalFrames BY <1>1, Zenon DEF EvalFrames
<1>3. f \in Frames /\ Alike(Top, f)
  BY <1>1, <1>2, FramesAre DEF Alike, EvalFrames
<1>4. \E R \in SUBSET (1..MaxFd), some \in BOOLEAN :
        stack' = Replaced(f) \o <<[at |-> "events", mode |-> Urgent, ready |-> R, some |-> some]>>
  <2> DEFINE R == ReadyFds(Urgent, Readable)
  <2>1. stack' = Replaced(f) \o <<[at |-> "events", mode |-> Urgent, ready |-> R, some |-> R # {}]>>
    BY DEF EvalWaits, HandleNextEvents, EvalEvents
  <2>2. R \in SUBSET (1..MaxFd) BY TheReady
  <2> HIDE DEF R, f
  <2> QED BY <2>1, <2>2, Zenon
<1>5. f.at = "eval" BY <1>2 DEF EvalFrames
<1> HIDE DEF f
<1>6. QuietStack(stack') BY <1>3, <1>4, <1>5, EventsCall, Zenon
<1>7. OtherTypes'
  <2>1. sigchld' \in BOOLEAN /\ UNCHANGED <<fds, m_fd_watchers, child, m_clients, m_client_trash>>
    BY DEF EvalWaits
  <2> QED BY <2>1 DEF OtherTypes, Types
<1> QED BY <1>6, <1>7

LEMMA ReapedType ==
    ASSUME Types, NEW f \in EvalFrames
    PROVE  /\ ReapedBy(f) \in [Depth -> Children] /\ Polled(f) \in EvalFrames
           /\ Polled(f) \in Frames /\ Alike(f, Polled(f))
<1>1. child \in [Depth -> Children] /\ f.d \in Depth BY DEF Types, EvalFrames
<1>2. [child[f.d] EXCEPT !.state = "reaped"] \in Children BY <1>1, Zenon DEF Children
<1>3. ReapedBy(f) \in [Depth -> Children] BY <1>1, <1>2 DEF ReapedBy
<1>4. Polled(f) \in EvalFrames
  <2> DEFINE b == f.terminated \/ IsReaped(f)
  <2>1. b \in BOOLEAN BY DEF EvalFrames, IsReaped
  <2>2. Polled(f) = [f EXCEPT !.events = FALSE, !.terminated = b] BY DEF Polled
  <2> HIDE DEF b
  <2> QED BY <2>1, <2>2, Zenon DEF EvalFrames
<1>5. Alike(f, Polled(f)) BY <1>4 DEF Alike, Polled, EvalFrames
<1> QED BY <1>3, <1>4, <1>5, FramesAre

LEMMA EvalPollsQuiet ==
    ASSUME Types, CallsFit(stack), EvalPolls
    PROVE  QuietStack(stack') /\ OtherTypes'
<1>1. Top \in EvalFrames BY EvalTop DEF EvalPolls
<1>2. QuietStack(stack') BY <1>1, ReapedType, StackReplaced DEF EvalPolls
<1>3. child' \in [Depth -> Children] BY <1>1, ReapedType DEF EvalPolls
<1> QED BY <1>2, <1>3 DEF EvalPolls, OtherTypes, Types

LEMMA RunTop ==
    ASSUME Types, CallsFit(stack), OnTop("run")
    PROVE  /\ Top \in RunFrames /\ Top.at = "run" /\ Top.at \notin Catchers /\ Top.client \in Clients
           /\ Top.cmds # <<>> => Rest \in Frames /\ Alike(Top, Rest) /\ Rest.at = "run"
                                 /\ Rest.client = Top.client /\ Rest \in RunFrames
<1>1. Top \in RunFrames /\ Top.at = "run" BY TopIs, FrameKinds DEF OnTop
<1>2. ASSUME Top.cmds # <<>> PROVE Rest \in RunFrames
  <2>1. Top.cmds \in Seq(AnyCmd) BY <1>1 DEF RunFrames
  <2>2. Tail(Top.cmds) \in Seq(AnyCmd) BY <1>2, <2>1, HeadTailProperties
  <2> QED BY <1>1, <2>2, Zenon DEF RunFrames, Rest
<1>3. Top.cmds # <<>> => Rest \in Frames /\ Alike(Top, Rest) /\ Rest.at = "run"
                         /\ Rest.client = Top.client
  BY <1>1, <1>2, FramesAre DEF Rest, Alike, RunFrames
<1> QED BY <1>1, <1>2, <1>3 DEF Catchers, RunFrames

LEMMA RunPlainQuiet ==
    ASSUME Types, CallsFit(stack), RunPlain
    PROVE  QuietStack(stack') /\ OtherTypes'
<1>1. Top.cmds # <<>> /\ OnTop("run") /\ stack' = Replaced(Rest) BY DEF RunPlain, RunsNext
<1>2. QuietStack(stack') BY <1>1, RunTop, StackReplaced
<1> QED BY <1>2 DEF RunPlain, OtherTypes, Types

LEMMA RunDoneQuiet ==
    ASSUME Types, CallsFit(stack), RunDone
    PROVE  QuietStack(stack') /\ OtherTypes'
<1>1. OnTop("run") /\ stack' = Below BY DEF RunDone
<1>2. QuietStack(stack') BY <1>1, RunTop, StackPopped
<1> QED BY <1>2 DEF RunDone, OtherTypes, Types

LEMMA KilledType ==
    ASSUME NEW f \in Frames, NEW children \in [Depth -> Children]
    PROVE  Killed(f, children) \in [Depth -> Children]
<1>1. CASE f.at = "eval"
  <2>1. f.d \in Depth BY <1>1, FrameKinds DEF EvalFrames
  <2>2. [children[f.d] EXCEPT !.ops = <<>>] \in Children
    <3>1. <<>> \in Seq(ChildOp) BY EmptySeq
    <3> QED BY <2>1, <3>1, Zenon DEF Children
  <2> QED BY <1>1, <2>1, <2>2 DEF Killed
<1>2. CASE f.at # "eval" BY <1>2 DEF Killed
<1> QED BY <1>1, <1>2

(* Whatever is thrown, what catches it goes on. *)
LEMMA ThrowQuiet ==
    ASSUME Types, CallsFit(stack), NEW s, QuietStack(s), DOMAIN s = DOMAIN stack,
           Same(stack, s), NEW children \in [Depth -> Children], NEW kind, Throw(s, children, kind)
    PROVE  QuietStack(stack') /\ child' \in [Depth -> Children]
<1>1. QuietStack(stack') BY StackThrown, Zenon DEF Throw
<1>2. s[CatchIndex(s)] \in Frames BY TheCatch DEF QuietStack
<1>3. child' \in [Depth -> Children] BY <1>2, KilledType DEF Throw
<1> QED BY <1>1, <1>3

LEMMA StackStays ==
    ASSUME Types, CallsFit(stack)
    PROVE  QuietStack(stack) /\ Same(stack, stack)
<1>1. Same(stack, stack) BY DEF Same, Alike
<1>2. Keeps(stack, stack) BY <1>1, AlikeGoes DEF Keeps, Same
<1> QED BY <1>1, <1>2 DEF QuietStack, Types

LEMMA RunFailQuiet ==
    ASSUME Types, CallsFit(stack), RunFail
    PROVE  QuietStack(stack') /\ OtherTypes'
<1>1. child \in [Depth -> Children] /\ Throw(stack, child, "runtime_error") BY DEF Types, RunFail
<1>2. QuietStack(stack') /\ child' \in [Depth -> Children] BY <1>1, StackStays, ThrowQuiet
<1> QED BY <1>2 DEF RunFail, OtherTypes, Types

(* A client that is removed is gone from the list, and the others are not.   *)
LEMMA RemovedIs ==
    ASSUME NEW s \in Seq(Conn), NEW c,
           \A i, j \in DOMAIN s : s[i] = s[j] => i = j
    PROVE  /\ RemoveFirst(s, c) \in Seq(Conn)
           /\ ToSet(RemoveFirst(s, c)) = ToSet(s) \ {c}
           /\ LET r == RemoveFirst(s, c) IN \A i, j \in DOMAIN r : r[i] = r[j] => i = j
<1>1. Len(s) \in Nat /\ DOMAIN s = 1..Len(s) BY LenProperties
<1>2. CASE ~\E i \in 1..Len(s) : s[i] = c
  <2>1. RemoveFirst(s, c) = s BY <1>2 DEF RemoveFirst
  <2>2. c \notin ToSet(s) BY <1>1, <1>2 DEF ToSet
  <2> QED BY <2>1, <2>2
<1>3. CASE \E i \in 1..Len(s) : s[i] = c
  <2> DEFINE I == {i \in 1..Len(s) : s[i] = c}
             k == Min(I)
             p == SubSeq(s, 1, k - 1)
             q == SubSeq(s, k + 1, Len(s))
             r == p \o q
  <2>1. I \in SUBSET Nat /\ I # {} BY <1>1, <1>3
  <2>2. k \in I BY <2>1, LeastOne, Zenon
  <2>3. SelectInSeq(s, LAMBDA v : v = c) = k BY <2>1 DEF SelectInSeq
  <2>4. RemoveFirst(s, c) = r BY <1>3, <2>3, Zenon DEF RemoveFirst, RemoveAt
  <2>5. k \in 1..Len(s) /\ s[k] = c BY <2>2
  <2> HIDE DEF k
  <2> DEFINE n == Len(s)
             a == k - 1
             b == k + 1
  <2>6. /\ n \in Nat /\ a \in Nat /\ b \in Nat /\ a + 2 = b /\ a < n /\ k = a + 1 /\ b <= n + 1
        /\ n - a - 1 \in Nat
        /\ p = SubSeq(s, 1, a) /\ q = SubSeq(s, b, n)
    BY <1>1, <2>5
  <2>7. \A i \in 1..n : s[i] \in Conn BY <1>1, ElementOfSeq
  <2> HIDE DEF n, a, b, p, q
  <2>8. p \in Seq(Conn) /\ Len(p) = a /\ \A i \in 1..a : p[i] = s[i]
    <3>1. SubSeq(s, 1, a) \in Seq(Conn) /\ Len(SubSeq(s, 1, a)) = (IF 1 <= a THEN a - 1 + 1 ELSE 0)
          /\ \A i \in 1..a - 1 + 1 : SubSeq(s, 1, a)[i] = s[1 + i - 1]
      <4>1. \A i \in 1..a : s[i] \in Conn BY <2>6, <2>7
      <4> QED BY <2>6, <4>1, SubSeqProperties
    <3> QED BY <2>6, <3>1
  <2>9. q \in Seq(Conn) /\ Len(q) = n - a - 1 /\ \A i \in 1..n - a - 1 : q[i] = s[i + a + 1]
    <3>1. SubSeq(s, b, n) \in Seq(Conn) /\ Len(SubSeq(s, b, n)) = (IF b <= n THEN n - b + 1 ELSE 0)
          /\ \A i \in 1..n - b + 1 : SubSeq(s, b, n)[i] = s[b + i - 1]
      <4>1. \A i \in b..n : s[i] \in Conn BY <2>6, <2>7
      <4> QED BY <2>6, <4>1, SubSeqProperties
    <3>2. n - b + 1 = n - a - 1 BY <2>6
    <3>3. \A i \in Int : b + i - 1 = i + a + 1 BY <2>6
    <3>4. (IF b <= n THEN n - b + 1 ELSE 0) = n - a - 1 BY <2>6
    <3>5. \A i \in 1..n - a - 1 : i \in Int BY <2>6
    <3> QED BY <2>6, <3>1, <3>2, <3>3, <3>4, <3>5, Zenon
  <2>10. /\ r \in Seq(Conn) /\ Len(r) = n - 1 /\ DOMAIN r = 1..n - 1
         /\ \A i \in 1..n - 1 : r[i] = IF i <= a THEN s[i] ELSE s[i + 1]
    <3>1. r \in Seq(Conn) /\ Len(r) = Len(p) + Len(q)
          /\ \A i \in 1..Len(p) + Len(q) : r[i] = IF i <= Len(p) THEN p[i] ELSE q[i - Len(p)]
      <4>1. p \in Seq(Conn) /\ q \in Seq(Conn) BY <2>8, <2>9
      <4> QED BY <4>1, ConcatProperties
    <3>2. Len(p) + Len(q) = n - 1 BY <2>6, <2>8, <2>9
    <3> HIDE DEF r
    <3>3. \A i \in 1..n - 1 : r[i] = IF i <= a THEN p[i] ELSE q[i - a] BY <2>8, <3>1, <3>2
    <3>4. ASSUME NEW i \in 1..n - 1 PROVE r[i] = IF i <= a THEN s[i] ELSE s[i + 1]
      <4>1. CASE i <= a
        <5>1. i \in 1..a BY <2>6, <4>1
        <5> QED BY <2>8, <3>3, <4>1, <5>1
      <4>2. CASE ~(i <= a)
        <5>1. i - a \in 1..n - a - 1 /\ i - a + a + 1 = i + 1 BY <2>6, <4>2
        <5>2. q[i - a] = s[i - a + a + 1] BY <2>9, <5>1
        <5> QED BY <3>3, <4>2, <5>1, <5>2
      <4> QED BY <4>1, <4>2
    <3>5. DOMAIN r = 1..Len(r) BY <3>1, LenProperties
    <3> QED BY <3>1, <3>2, <3>4, <3>5
  <2> HIDE DEF r
  <2>11. \A i \in 1..n - 1 : /\ i <= a => i \in 1..n /\ i # k /\ r[i] = s[i]
                             /\ ~(i <= a) => i + 1 \in 1..n /\ i + 1 # k /\ r[i] = s[i + 1]
    BY <2>6, <2>10
  <2>12. DOMAIN s = 1..n /\ k \in 1..n BY <1>1, <2>5 DEF n
  <2>13. ASSUME NEW x \in ToSet(r) PROVE x \in ToSet(s) \ {c}
    <3>1. PICK i \in 1..n - 1 : x = r[i] BY <2>10 DEF ToSet
    <3>2. PICK j \in 1..n : j # k /\ x = s[j] BY <2>11, <3>1
    <3> QED BY <2>5, <2>12, <3>2 DEF ToSet
  <2>14. ASSUME NEW x \in ToSet(s), x # c PROVE x \in ToSet(r)
    <3>1. PICK j \in 1..n : x = s[j] BY <2>12 DEF ToSet
    <3>2. j # k BY <2>5, <2>14, <3>1
    <3>3. CASE j < k
      <4>1. j \in 1..n - 1 /\ j <= a BY <2>6, <3>3
      <4> QED BY <2>10, <2>11, <3>1, <4>1 DEF ToSet
    <3>4. CASE j > k
      <4>1. j - 1 \in 1..n - 1 /\ ~(j - 1 <= a) /\ j - 1 + 1 = j BY <2>6, <3>4
      <4>2. r[j - 1] = s[j - 1 + 1] BY <2>11, <4>1
      <4>3. r[j - 1] = x BY <3>1, <4>1, <4>2
      <4> QED BY <2>10, <4>1, <4>3 DEF ToSet
    <3> QED BY <2>6, <3>2, <3>3, <3>4
  <2>15. ASSUME NEW i \in DOMAIN r, NEW j \in DOMAIN r, r[i] = r[j] PROVE i = j
    <3>1. i \in 1..n - 1 /\ j \in 1..n - 1 BY <2>10
    <3>2. CASE i <= a /\ j <= a
      <4>1. i \in 1..n /\ j \in 1..n /\ s[i] = s[j] BY <2>11, <2>15, <3>1, <3>2
      <4> QED BY <2>12, <4>1
    <3>3. CASE i <= a /\ ~(j <= a)
      <4>1. i \in 1..n /\ j + 1 \in 1..n /\ s[i] = s[j + 1] BY <2>11, <2>15, <3>1, <3>3
      <4>2. i = j + 1 BY <2>12, <4>1
      <4> QED BY <2>6, <3>1, <3>3, <4>2
    <3>4. CASE ~(i <= a) /\ j <= a
      <4>1. i + 1 \in 1..n /\ j \in 1..n /\ s[i + 1] = s[j] BY <2>11, <2>15, <3>1, <3>4
      <4>2. i + 1 = j BY <2>12, <4>1
      <4> QED BY <2>6, <3>1, <3>4, <4>2
    <3>5. CASE ~(i <= a) /\ ~(j <= a)
      <4>1. i + 1 \in 1..n /\ j + 1 \in 1..n /\ s[i + 1] = s[j + 1]
        BY <2>11, <2>15, <3>1, <3>5
      <4>2. i + 1 = j + 1 BY <2>12, <4>1
      <4> QED BY <2>6, <3>1, <4>2
    <3> QED BY <3>2, <3>3, <3>4, <3>5
  <2> QED BY <2>4, <2>10, <2>13, <2>14, <2>15
<1> QED BY <1>2, <1>3

-----------------------------------------------------------------------------
(* The watchers: reset, and erased. *)
LEMMA ResetIs ==
    ASSUME NEW ws \in Seq(WatcherRecords), NEW who, NEW fd \in 0..MaxFd
    PROVE  LET r == ResetFd(ws, who, fd)
           IN  /\ r \in Seq(WatcherRecords) /\ DOMAIN r = DOMAIN ws
               /\ \A i \in DOMAIN ws : /\ r[i].who = ws[i].who
                                       /\ ws[i].who = who => r[i].fd = fd
                                       /\ ws[i].who # who => r[i] = ws[i]
<1> DEFINE r == ResetFd(ws, who, fd)
<1>1. Len(ws) \in Nat /\ DOMAIN ws = 1..Len(ws) /\ \A i \in 1..Len(ws) : ws[i] \in WatcherRecords
  BY LenProperties, ElementOfSeq
<1>2. r = [i \in 1..Len(ws) |-> IF ws[i].who = who THEN [ws[i] EXCEPT !.fd = fd] ELSE ws[i]]
  BY <1>1 DEF ResetFd
<1>3. \A i \in 1..Len(ws) : [ws[i] EXCEPT !.fd = fd] \in WatcherRecords
                            /\ [ws[i] EXCEPT !.fd = fd].who = ws[i].who
                            /\ [ws[i] EXCEPT !.fd = fd].fd = fd
  BY <1>1, Zenon DEF WatcherRecords
<1>4. \A i \in 1..Len(ws) : /\ r[i] \in WatcherRecords /\ r[i].who = ws[i].who
                            /\ ws[i].who = who => r[i].fd = fd
                            /\ ws[i].who # who => r[i] = ws[i]
  BY <1>1, <1>2, <1>3
<1>5. r \in [1..Len(ws) -> WatcherRecords]
  BY <1>2, <1>4
<1>6. r \in Seq(WatcherRecords) /\ DOMAIN r = 1..Len(ws) BY <1>1, <1>2, <1>5, SeqDef
<1> QED BY <1>1, <1>4, <1>6

LEMMA ErasedIs ==
    ASSUME NEW ws \in Seq(WatcherRecords), NEW who,
           \A i, j \in DOMAIN ws : ws[i].who = ws[j].who => i = j
    PROVE  LET r == UnorderedErase(ws, who)
           IN  /\ r \in Seq(WatcherRecords)
               /\ \A i, j \in DOMAIN r : r[i].who = r[j].who => i = j
               /\ ToSet(r) = {w \in ToSet(ws) : w.who # who}
<1> DEFINE r == UnorderedErase(ws, who)
           n == Len(ws)
<1>1. n \in Nat /\ DOMAIN ws = 1..n /\ \A i \in 1..n : ws[i] \in WatcherRecords
  BY LenProperties, ElementOfSeq
<1>2. CASE ~\E i \in 1..n : ws[i].who = who
  <2>1. r = ws BY <1>2 DEF UnorderedErase
  <2>2. \A w \in ToSet(ws) : w.who # who BY <1>1, <1>2 DEF ToSet
  <2> QED BY <2>1, <2>2
<1>3. CASE \E i \in 1..n : ws[i].who = who
  <2>1. PICK k \in 1..n : ws[k].who = who BY <1>3
  <2>2. r = [i \in 1..n - 1 |-> IF ws[i].who = who THEN ws[n] ELSE ws[i]]
    BY <1>3 DEF UnorderedErase
  <2> HIDE DEF n, r
  <2>3. \A i \in 1..n : ws[i].who = who <=> i = k BY <1>1, <2>1
  <2>4. n - 1 \in Nat /\ n \in 1..n /\ 1..n - 1 \subseteq 1..n BY <1>1, <2>1
  <2>5. DOMAIN r = 1..n - 1 /\ \A i \in 1..n - 1 : r[i] = IF i = k THEN ws[n] ELSE ws[i]
    BY <2>2, <2>3, <2>4
  <2>6. r \in Seq(WatcherRecords)
    <3>1. \A i \in 1..n - 1 : r[i] \in WatcherRecords BY <1>1, <2>4, <2>5
    <3>2. r \in [1..n - 1 -> WatcherRecords] BY <2>2, <3>1
    <3> QED BY <2>4, <3>2, SeqDef
  <2>7. ASSUME NEW i \in DOMAIN r, NEW j \in DOMAIN r, r[i].who = r[j].who PROVE i = j
    <3>1. i \in 1..n - 1 /\ j \in 1..n - 1 /\ i \in 1..n /\ j \in 1..n /\ i # n /\ j # n
      BY <1>1, <2>4, <2>5
    <3>2. CASE i = k /\ j # k BY <1>1, <2>4, <2>5, <2>7, <3>1, <3>2
    <3>3. CASE j = k /\ i # k BY <1>1, <2>4, <2>5, <2>7, <3>1, <3>3
    <3>4. CASE j # k /\ i # k BY <1>1, <2>5, <2>7, <3>1, <3>4
    <3> QED BY <3>2, <3>3, <3>4
  <2>8. ASSUME NEW w \in ToSet(r) PROVE w \in ToSet(ws) /\ w.who # who
    <3>1. PICK i \in 1..n - 1 : w = r[i] BY <2>5 DEF ToSet
    <3>2. CASE i = k
      <4>1. w = ws[n] /\ n # k BY <1>1, <2>5, <3>1, <3>2
      <4> QED BY <1>1, <2>3, <2>4, <4>1 DEF ToSet
    <3>3. CASE i # k
      <4>1. w = ws[i] /\ i \in 1..n BY <2>4, <2>5, <3>1, <3>3
      <4> QED BY <1>1, <2>3, <3>3, <4>1 DEF ToSet
    <3> QED BY <3>2, <3>3
  <2>9. ASSUME NEW w \in ToSet(ws), w.who # who PROVE w \in ToSet(r)
    <3>1. PICK i \in 1..n : w = ws[i] BY <1>1 DEF ToSet
    <3>2. i # k BY <2>3, <2>9, <3>1
    <3>3. CASE i = n
      <4>1. k \in 1..n - 1 BY <1>1, <3>2, <3>3
      <4>2. r[k] = w BY <2>5, <3>1, <3>3, <4>1
      <4> QED BY <2>5, <4>1, <4>2 DEF ToSet
    <3>4. CASE i # n
      <4>1. i \in 1..n - 1 BY <1>1, <3>4
      <4>2. r[i] = w BY <2>5, <3>1, <3>2, <4>1
      <4> QED BY <2>5, <4>1, <4>2 DEF ToSet
    <3> QED BY <3>3, <3>4
  <2> QED BY <2>6, <2>7, <2>8, <2>9 DEF r
<1> QED BY <1>2, <1>3

(* The frame of a shell that is waited for. *)
LEMMA EvalIndexIs ==
    ASSUME Types, CallsFit(stack), NEW d \in Depths(stack)
    PROVE  /\ EvalIndex(d) \in Evals(stack) /\ FrameOf(d) \in EvalFrames /\ FrameOf(d).d = d
           /\ d \in Depth /\ FrameOf(d).at = "eval" /\ EvalIndex(d) \in DOMAIN stack
           /\ FrameOf(d) = stack[EvalIndex(d)]
<1>1. \E i \in EvalIndexes : stack[i].d = d BY DEF Depths, EvalIndexes, Evals
<1>2. EvalIndex(d) \in EvalIndexes /\ stack[EvalIndex(d)].d = d BY <1>1 DEF EvalIndex
<1>3. EvalIndex(d) \in DOMAIN stack /\ stack[EvalIndex(d)].at = "eval" BY <1>2 DEF EvalIndexes
<1>4. stack[EvalIndex(d)] \in EvalFrames BY <1>3, TopIs, FrameKinds
<1> QED BY <1>2, <1>3, <1>4 DEF EvalIndexes, Evals, FrameOf, EvalFrames

LEMMA ServedEvalIs ==
    ASSUME Types, CallsFit(stack), InEvents, NEW d \in Depths(stack), NEW f \in EvalFrames,
           Alike(FrameOf(d), f)
    PROVE  LET t == ServedEval(d, f)
           IN  /\ QuietStack(t) /\ DOMAIN t = DOMAIN stack /\ Len(t) = Len(stack)
               /\ Last(t) \in EventsFrames /\ Last(t).mode = Top.mode /\ Same(stack, t)
<1> DEFINE t == ServedEval(d, f)
           k == EvalIndex(d)
<1>1. /\ QuietStack(Served) /\ DOMAIN Served = DOMAIN stack /\ Len(Served) = Len(stack)
      /\ Last(Served) \in EventsFrames /\ Last(Served).mode = Top.mode
      /\ Same(stack, Served) /\ Served \in Seq(Frames) /\ Top \in EventsFrames
      /\ Served[Len(stack)] = Last(Served)
  BY ServedIs DEF QuietStack
<1>2. stack \in Seq(Frames) /\ Len(stack) \in Nat \ {0} /\ DOMAIN stack = 1..Len(stack)
      /\ Top = stack[Len(stack)]
  BY TopIs
<1>3. k \in 1..Len(stack) /\ stack[k] = FrameOf(d) /\ stack[k].at = "eval"
  BY <1>2, EvalIndexIs
<1>4. k # Len(stack)
  <2>1. Top.at = "events" BY DEF InEvents
  <2> QED BY <1>2, <1>3, <2>1
<1> HIDE DEF k
<1>5. f \in Frames BY FramesAre
<1>6. t = [Served EXCEPT ![k] = f] BY DEF ServedEval, k
<1>7. /\ t \in Seq(Frames) /\ Len(t) = Len(stack) /\ DOMAIN t = 1..Len(stack)
      /\ t[k] = f /\ \A i \in 1..Len(stack) : i # k => t[i] = Served[i]
  <2> HIDE DEF t
  <2>1. t \in Seq(Frames) /\ Len(t) = Len(Served) BY <1>1, <1>2, <1>3, <1>5, <1>6, ExceptSeq
  <2>2. DOMAIN t = 1..Len(stack) BY <1>1, <2>1, LenProperties
  <2>3. t[k] = f /\ \A i \in 1..Len(stack) : i # k => t[i] = Served[i]
    BY <1>1, <1>2, <1>3, <1>6
  <2> QED BY <1>1, <2>1, <2>2, <2>3
<1> HIDE DEF t
<1>8. ASSUME NEW i \in 1..Len(t) PROVE Alike(stack[i], t[i])
  <2>1. CASE i = k BY <1>3, <1>7, <2>1
  <2>2. CASE i # k
    <3>1. t[i] = Served[i] /\ i \in 1..Len(stack) BY <1>7, <2>2
    <3> QED BY <1>1, <1>2, <3>1 DEF Same
  <2> QED BY <2>1, <2>2
<1>9. CallsFit(t) /\ Keeps(stack, t) /\ Same(stack, t)
  <2>1. 1 <= Len(t) /\ Len(t) <= Len(stack) /\ Len(t) + 1..Len(stack) = {} BY <1>2, <1>7
  <2> QED BY <1>2, <1>7, <1>8, <2>1, PrefixKeeps
<1>10. Last(t) = Last(Served)
  <2>1. t[Len(stack)] = Served[Len(stack)] BY <1>2, <1>4, <1>7
  <2> QED BY <1>1, <1>7, <2>1 DEF Last
<1>11. DOMAIN t \ DOMAIN stack = {} BY <1>2, <1>7
<1> QED BY <1>1, <1>2, <1>7, <1>9, <1>10, <1>11 DEF QuietStack, t

(* What a watcher of each kind watches. *)
LEMMA FitsShell ==
    ASSUME NEW w, NEW table, NEW depths, NEW accs, NEW uis, NEW k \in {"fifo", "in", "out"},
           NEW d, w.who = <<k, d>>
    PROVE  FitsIn(w, table, depths, accs, uis) <=>
              d \in depths /\ (w.fd # None => table[w.fd] = <<k, d>>)
<1>1. w.who # Listener /\ w.who[1] = k /\ w.who[2] = d BY DEF Listener
<1> QED BY <1>1 DEF FitsIn

LEMMA FitsAcc ==
    ASSUME NEW w, NEW table, NEW depths, NEW accs, NEW uis, NEW c, w.who = Acc(c)
    PROVE  /\ FitsIn(w, table, depths, accs, uis) => accs[c] # Gone /\ w.fd # None
           /\ FitsIn(w, table, depths, accs, uis) /\ uis[c] = Gone => table[w.fd] = <<"conn", c>>
           /\ accs[c] # Gone /\ w.fd # None /\ uis[c] # Gone =>
                  FitsIn(w, table, depths, accs, uis)
           /\ accs[c] # Gone /\ w.fd # None /\ table[w.fd] = <<"conn", c>> =>
                  FitsIn(w, table, depths, accs, uis)
<1>1. w.who # Listener /\ w.who[1] = "accepter" /\ w.who[2] = c BY DEF Listener, Acc
<1>2. FitsIn(w, table, depths, accs, uis) =
          (accs[c] # Gone /\ w.fd # None /\ (uis[c] = Gone => table[w.fd] = <<"conn", c>>))
  BY <1>1, Zenon DEF FitsIn
<1> QED BY <1>2, Zenon

LEMMA FitsUi ==
    ASSUME NEW w, NEW table, NEW depths, NEW accs, NEW uis, NEW c, w.who = Ui(c)
    PROVE  FitsIn(w, table, depths, accs, uis) <=>
              uis[c] # Gone /\ (w.fd # None => table[w.fd] = <<"conn", c>>)
<1>1. w.who # Listener /\ w.who[1] = "ui" /\ w.who[2] = c BY DEF Listener, Ui
<1> QED BY <1>1 DEF FitsIn

LEMMA FitsListener ==
    ASSUME NEW w, NEW table, NEW depths, NEW accs, NEW uis, w.who = Listener
    PROVE  FitsIn(w, table, depths, accs, uis) <=> w.fd # None /\ table[w.fd] = Listener
<1>1. w.who[1] = "listener" BY DEF Listener
<1> QED BY <1>1 DEF FitsIn

LEMMA TheWatchers ==
    ASSUME NEW w \in WatcherRecords
    PROVE  /\ \/ w.who = Listener
              \/ \E c \in Conn : w.who = Acc(c)
              \/ \E c \in Conn : w.who = Ui(c)
              \/ \E k \in {"fifo", "in", "out"}, d \in Depth : w.who = <<k, d>>
           /\ w.fd \in 0..MaxFd
<1>1. w.who \in Whos /\ w.fd \in 0..MaxFd BY DEF WatcherRecords
<1>2. w.who \in {Listener} \/ w.who \in {"accepter", "ui"} \X Conn \/ w.who \in ShellEnds
  BY <1>1 DEF Whos
<1>3. CASE w.who \in {"accepter", "ui"} \X Conn BY <1>1, <1>3 DEF Acc, Ui
<1>4. CASE w.who \in ShellEnds BY <1>1, <1>4 DEF ShellEnds
<1> QED BY <1>1, <1>2, <1>3, <1>4

LEMMA WatchersType ==
    ASSUME Types
    PROVE  /\ \A w \in Watchers : w \in WatcherRecords
           /\ \A i \in DOMAIN m_fd_watchers : m_fd_watchers[i] \in Watchers
           /\ \A w \in Watchers : \E i \in DOMAIN m_fd_watchers : m_fd_watchers[i] = w
<1>1. \A i \in DOMAIN m_fd_watchers : m_fd_watchers[i] \in WatcherRecords
  BY ElementOfSeq, LenProperties DEF Types
<1> QED BY <1>1 DEF Watchers, ToSet

(* The callback that runs is that of a watcher of the descriptor. *)
LEMMA RunsFacts ==
    ASSUME Inv, NEW who, Runs(who)
    PROVE  /\ InEvents /\ Top \in EventsFrames /\ NextFd \in 1..MaxFd /\ NextFd # None
           /\ \E w \in Watchers : w.who = who /\ w.fd = NextFd /\ Fits(w)
<1>1. InEvents BY DEF Runs
<1>2. Types /\ CallsFit(stack) /\ WatchersFit BY DEF Inv
<1>3. Top \in EventsFrames BY <1>1, <1>2, ServedIs
<1>4. PICK i \in DOMAIN m_fd_watchers : /\ m_fd_watchers[i].who = who
                                        /\ m_fd_watchers[i].fd \in Top.ready
                                        /\ m_fd_watchers[i].fd = NextFd
  BY DEF Runs
<1>5. m_fd_watchers[i] \in Watchers BY <1>2, WatchersType
<1>6. NextFd \in 1..MaxFd BY <1>3, <1>4 DEF EventsFrames
<1>7. NextFd # None BY <1>6 DEF None
<1> QED BY <1>1, <1>2, <1>3, <1>4, <1>5, <1>6, <1>7 DEF WatchersFit

LEMMA RunsShell ==
    ASSUME Inv, NEW k \in {"fifo", "in", "out"}, NEW d, Runs(<<k, d>>)
    PROVE  d \in Depths(stack) /\ fds[NextFd] = <<k, d>> /\ d \in Depth
<1>1. PICK w \in Watchers : w.who = <<k, d>> /\ w.fd = NextFd /\ Fits(w) /\ NextFd # None
  BY RunsFacts
<1>2. FitsIn(w, fds, Depths(stack), accepter, ui) BY <1>1 DEF Fits
<1>3. d \in Depths(stack) /\ fds[NextFd] = <<k, d>> BY <1>1, <1>2, FitsShell
<1> QED BY <1>3, EvalIndexIs DEF Inv

LEMMA RunsUi ==
    ASSUME Inv, NEW c, Runs(Ui(c))
    PROVE  ui[c] # Gone /\ fds[NextFd] = <<"conn", c>>
<1>1. PICK w \in Watchers : w.who = Ui(c) /\ w.fd = NextFd /\ Fits(w) /\ NextFd # None
  BY RunsFacts
<1>2. FitsIn(w, fds, Depths(stack), accepter, ui) BY <1>1 DEF Fits
<1>3. ui[c] # Gone /\ (w.fd # None => fds[w.fd] = <<"conn", c>>) BY <1>1, <1>2, FitsUi, Zenon
<1> QED BY <1>1, <1>3

LEMMA RunsAcc ==
    ASSUME Inv, NEW c, Runs(Acc(c))
    PROVE  accepter[c] # Gone /\ (ui[c] = Gone => fds[NextFd] = <<"conn", c>>)
<1>1. PICK w \in Watchers : w.who = Acc(c) /\ w.fd = NextFd /\ Fits(w) /\ NextFd # None
  BY RunsFacts
<1>2. FitsIn(w, fds, Depths(stack), accepter, ui) BY <1>1 DEF Fits
<1>3. accepter[c] # Gone /\ (ui[c] = Gone => fds[w.fd] = <<"conn", c>>)
  <2>1. w.who = Acc(c) BY <1>1
  <2>2. accepter[c] # Gone BY <1>2, <2>1, FitsAcc
  <2>3. ASSUME ui[c] = Gone PROVE fds[w.fd] = <<"conn", c>>
    <3>1. w.who # Listener /\ w.who[1] = "accepter" /\ w.who[2] = c
      BY <2>1 DEF Listener, Acc
    <3>2. ui[w.who[2]] = Gone BY <2>3, <3>1
    <3>3. FitsIn(w, fds, Depths(stack), accepter, ui) =
             (accepter[w.who[2]] # Gone /\ w.fd # None
              /\ (ui[w.who[2]] = Gone => fds[w.fd] = <<"conn", w.who[2]>>))
      BY <3>1, Zenon DEF FitsIn
    <3>4. fds[w.fd] = <<"conn", w.who[2]>> BY <1>2, <3>2, <3>3, Zenon
    <3> QED BY <3>1, <3>4
  <2> QED BY <2>2, <2>3
<1> QED BY <1>1, <1>3

(* Two calls are made one after the other. *)
LEMMA NoMoreCalls ==
    ASSUME NEW s \in Seq(Frames)
    PROVE  s \o <<>> = s
BY ConcatEmptySeq

LEMMA TwoCalls ==
    ASSUME NEW s \in Seq(Frames), NEW f \in Frames, NEW g \in Frames
    PROVE  s \o <<f, g>> = (s \o <<f>>) \o <<g>>
<1>1. <<f>> \in Seq(Frames) /\ <<g>> \in Seq(Frames) BY SeqDef
<1>2. <<f>> \o <<g>> = <<f, g>>
  <2>1. Append(<<f>>, g) = <<f>> \o <<g>> BY <1>1, AppendIsConcat
  <2>2. /\ Append(<<f>>, g) \in Seq(Frames) /\ Len(Append(<<f>>, g)) = 2
        /\ Append(<<f>>, g)[1] = f /\ Append(<<f>>, g)[2] = g
    BY <1>1, AppendProperties
  <2>3. <<f, g>> \in Seq(Frames) /\ Len(<<f, g>>) = 2 /\ <<f, g>>[1] = f /\ <<f, g>>[2] = g
    OBVIOUS
  <2>4. \A i \in 1..2 : i = 1 \/ i = 2 OBVIOUS
  <2>5. Append(<<f>>, g) = <<f, g>> BY <2>2, <2>3, <2>4, SeqEqual, Zenon
  <2> QED BY <2>1, <2>5, Zenon
<1>3. (s \o <<f>>) \o <<g>> = s \o (<<f>> \o <<g>>) BY <1>1, ConcatAssociative
<1> QED BY <1>2, <1>3, Zenon

(* The callbacks of the watchers of a shell. *)
LEMMA FdsClosed ==
    ASSUME Types, NEW fd \in 1..MaxFd
    PROVE  /\ [fds EXCEPT ![fd] = Closed] \in [1..MaxFd -> Objects \cup {Closed}]
           /\ [fds EXCEPT ![fd] = Closed][fd] = Closed
           /\ \A o \in 1..MaxFd : o # fd => [fds EXCEPT ![fd] = Closed][o] = fds[o]
BY DEF Types

LEMMA RunQuitQuiet ==
    ASSUME Inv, RunQuit
    PROVE  QuietStack(stack') /\ OtherTypes'
<1>1. Types /\ CallsFit(stack) /\ OnTop("run") /\ Top.cmds # <<>> BY DEF Inv, RunQuit, RunsNext
<1>2. CASE Top.client = NoClient
  <2>1. /\ child \in [Depth -> Children] /\ Throw(stack, child, "runtime_error")
        /\ UNCHANGED <<m_clients, m_client_trash, fds, m_fd_watchers, sigchld>>
    BY <1>1, <1>2 DEF Types, RunQuit
  <2>2. QuietStack(stack') /\ child' \in [Depth -> Children]
    BY <1>1, <2>1, StackStays, ThrowQuiet
  <2> QED BY <1>1, <2>1, <2>2 DEF OtherTypes, Types
<1>3. CASE Top.client # NoClient
  <2>1. Top.client \in Conn BY <1>1, <1>3, RunTop DEF Clients
  <2>2. /\ stack' = Replaced(Rest) /\ m_clients' = RemovedClient(Top.client)
        /\ m_client_trash' = m_client_trash \cup {Top.client}
        /\ UNCHANGED <<child, fds, m_fd_watchers, sigchld>>
    BY <1>3 DEF RunQuit
  <2>3. QuietStack(stack') BY <1>1, <2>2, RunTop, StackReplaced
  <2>4. m_clients \in Seq(Conn) /\ \A i, j \in DOMAIN m_clients : m_clients[i] = m_clients[j] => i = j
    BY DEF Inv, Types, ConnsFit
  <2>5. m_clients' \in Seq(Conn) BY <2>2, <2>4, RemovedIs DEF RemovedClient
  <2> QED BY <1>1, <2>1, <2>2, <2>3, <2>5, Zenon DEF OtherTypes, Types
<1> QED BY <1>2, <1>3

LEMMA OutReaderQuiet ==
    ASSUME Inv, NEW d, OutReader(d)
    PROVE  QuietStack(stack') /\ OtherTypes' /\ d \in Depths(stack) /\ fds[NextFd] = <<"out", d>>
<1>1. Types /\ CallsFit(stack) BY DEF Inv
<1>2. Runs(<<"out", d>>) BY DEF OutReader
<1>3. d \in Depths(stack) /\ fds[NextFd] = <<"out", d>> /\ d \in Depth /\ InEvents
      /\ NextFd \in 1..MaxFd
  BY <1>2, RunsShell, RunsFacts
<1>4. child[d] \in Children /\ child \in [Depth -> Children] BY <1>1, <1>3 DEF Types
<1>5. FrameOf(d) \in EvalFrames BY <1>1, <1>3, EvalIndexIs
<1> DEFINE ends == ~child[d].open
           f == [FrameOf(d) EXCEPT !.got = @ + child[d].out, !.out = ~ends]
<1>6. ends \in BOOLEAN OBVIOUS
<1>7. stack' = ServedEval(d, f) /\ child' = [child EXCEPT ![d].out = 0] BY DEF OutReader
<1> HIDE DEF ends
<1>8. f \in EvalFrames /\ Alike(FrameOf(d), f)
  <2>1. FrameOf(d).got + child[d].out \in Nat BY <1>4, <1>5 DEF EvalFrames, Children
  <2>2. f \in EvalFrames BY <1>5, <1>6, <2>1, Zenon DEF EvalFrames
  <2> QED BY <1>5, <2>2 DEF EvalFrames, Alike
<1> HIDE DEF f
<1>9. QuietStack(stack') BY <1>1, <1>3, <1>7, <1>8, ServedEvalIs
<1>10. child' \in [Depth -> Children]
  <2>1. [child[d] EXCEPT !.out = 0] \in Children BY <1>4, Zenon DEF Children
  <2> QED BY <1>3, <1>4, <1>7, <2>1
<1>11. fds' \in [1..MaxFd -> Objects \cup {Closed}] /\ m_fd_watchers' \in Seq(WatcherRecords)
  <2>1. CASE fds' = fds /\ m_fd_watchers' = m_fd_watchers BY <1>1, <2>1 DEF Types
  <2>2. CASE /\ fds' = [fds EXCEPT ![NextFd] = Closed]
             /\ m_fd_watchers' = ResetFd(m_fd_watchers, <<"out", d>>, None)
    <3>1. None \in 0..MaxFd /\ m_fd_watchers \in Seq(WatcherRecords)
      BY <1>1, MaxFdAssumption DEF None, Types
    <3>2. m_fd_watchers' \in Seq(WatcherRecords) BY <2>2, <3>1, ResetIs
    <3> QED BY <1>1, <1>3, <2>2, <3>2, FdsClosed
  <2> QED BY <2>1, <2>2 DEF OutReader
<1>12. UNCHANGED <<sigchld, m_clients, m_client_trash>> BY DEF OutReader
<1> QED BY <1>1, <1>3, <1>9, <1>10, <1>11, <1>12 DEF OtherTypes, Types

LEMMA InWriterQuiet ==
    ASSUME Inv, NEW d, InWriter(d)
    PROVE  QuietStack(stack') /\ OtherTypes' /\ d \in Depths(stack) /\ fds[NextFd] = <<"in", d>>
<1>1. Types /\ CallsFit(stack) BY DEF Inv
<1>2. Runs(<<"in", d>>) BY DEF InWriter
<1>3. d \in Depths(stack) /\ fds[NextFd] = <<"in", d>> /\ d \in Depth /\ InEvents
      /\ NextFd \in 1..MaxFd
  BY <1>2, RunsShell, RunsFacts
<1>4. FrameOf(d) \in EvalFrames BY <1>1, <1>3, EvalIndexIs
<1> DEFINE f == [FrameOf(d) EXCEPT !.in = FALSE]
<1>5. /\ stack' = ServedEval(d, f) /\ fds' = [fds EXCEPT ![NextFd] = Closed]
      /\ m_fd_watchers' = ResetFd(m_fd_watchers, <<"in", d>>, None)
      /\ UNCHANGED <<child, sigchld, m_clients, m_client_trash>>
  BY DEF InWriter
<1>6. f \in EvalFrames BY <1>4, Zenon DEF EvalFrames
<1>7. Alike(FrameOf(d), f) BY <1>4, <1>6 DEF EvalFrames, Alike
<1> HIDE DEF f
<1>8. QuietStack(stack') BY <1>1, <1>3, <1>5, <1>6, <1>7, ServedEvalIs
<1>9. None \in 0..MaxFd /\ m_fd_watchers \in Seq(WatcherRecords)
  BY <1>1, MaxFdAssumption DEF None, Types
<1>10. m_fd_watchers' \in Seq(WatcherRecords) BY <1>5, <1>9, ResetIs
<1>11. fds' \in [1..MaxFd -> Objects \cup {Closed}] BY <1>1, <1>3, <1>5, FdsClosed
<1> QED BY <1>1, <1>3, <1>5, <1>8, <1>10, <1>11 DEF OtherTypes, Types

LEMMA RunIsCalled ==
    ASSUME NEW f, f.at \in {"keys", "fifo", "connect", "command"}, NEW cmds \in Seq(AnyCmd),
           NEW client \in Clients
    PROVE  /\ RunFrame(cmds, client) \in Frames /\ RunFrame(cmds, client).at = "run"
           /\ RunFrame(cmds, client).client = client
           /\ Calls(f, RunFrame(cmds, client))
<1>1. RunFrame(cmds, client) \in RunFrames BY DEF RunFrame, RunFrames
<1>2. RunFrame(cmds, client).at = "run" /\ RunFrame(cmds, client).client = client
  BY DEF RunFrame
<1>3. Calls(f, RunFrame(cmds, client)) = (f.at \in {"keys", "fifo", "connect", "command"})
  BY <1>2 DEF Calls
<1> QED BY <1>1, <1>2, <1>3, FramesAre, Zenon

LEMMA AnyCmds ==
    ASSUME NEW s
    PROVE  /\ s \in Seq(Cmd) => s \in Seq(AnyCmd)
           /\ s \in Seq(Key) => s \in Seq(AnyCmd)
BY SeqMonotonic DEF AnyCmd

LEMMA FifoReaderQuiet ==
    ASSUME Inv, NEW d, FifoReader(d)
    PROVE  QuietStack(stack') /\ OtherTypes' /\ d \in Depths(stack) /\ fds[NextFd] = <<"fifo", d>>
<1>1. Types /\ CallsFit(stack) /\ FramesFit BY DEF Inv
<1>2. Runs(<<"fifo", d>>) BY DEF FifoReader
<1>3. d \in Depths(stack) /\ fds[NextFd] = <<"fifo", d>> /\ d \in Depth /\ InEvents
      /\ NextFd \in 1..MaxFd
  BY <1>2, RunsShell, RunsFacts
<1>4. child[d] \in Children /\ child \in [Depth -> Children] BY <1>1, <1>3 DEF Types
<1>5. FrameOf(d) \in EvalFrames /\ FrameOf(d).at = "eval"
      /\ FrameOf(d) = stack[EvalIndex(d)] /\ EvalIndex(d) \in DOMAIN stack
  BY <1>1, <1>3, EvalIndexIs
<1> DEFINE command == FrameOf(d).command \o child[d].fifo
           f == [FrameOf(d) EXCEPT !.command = command]
           runs == ~child[d].writing /\ command # <<>>
           fifo == [at |-> "fifo", d |-> d, fd |-> NextFd]
           run == RunFrame(command, f.client)
<1>6. /\ child' = [child EXCEPT ![d].fifo = <<>>]
      /\ UNCHANGED <<fds, sigchld, m_clients, m_client_trash>>
  BY DEF FifoReader
<1>7. stack' = ServedEval(d, f) \o (IF runs THEN <<fifo, run>> ELSE <<>>)
  BY DEF FifoReader
<1>8. m_fd_watchers' = IF runs THEN ResetFd(m_fd_watchers, <<"fifo", d>>, None)
                       ELSE m_fd_watchers
  BY DEF FifoReader
<1>9. command \in Seq(Cmd)
  <2>1. FrameOf(d).command \in Seq(Cmd) /\ child[d].fifo \in Seq(Cmd)
    BY <1>4, <1>5 DEF EvalFrames, Children
  <2> QED BY <2>1, ConcatProperties
<1> HIDE DEF runs, command
<1>10. f \in EvalFrames /\ f.client = FrameOf(d).client /\ f.client \in Clients
  BY <1>5, <1>9 DEF EvalFrames
<1>11. Alike(FrameOf(d), f) BY <1>5, <1>10 DEF EvalFrames, Alike
<1>12. f.client = NoClient \/ ui[f.client] # Gone
  BY <1>1, <1>5, <1>10 DEF FramesFit, FrameFits
<1> HIDE DEF f
<1>13. /\ QuietStack(ServedEval(d, f)) /\ Len(ServedEval(d, f)) = Len(stack)
       /\ Last(ServedEval(d, f)) \in EventsFrames
  BY <1>1, <1>3, <1>10, <1>11, ServedEvalIs
<1>14. ASSUME ~runs PROVE QuietStack(stack')
  <2>1. stack' = ServedEval(d, f)
    <3>1. ServedEval(d, f) \in Seq(Frames) BY <1>13 DEF QuietStack
    <3>2. stack' = ServedEval(d, f) \o <<>> BY <1>7, <1>14
    <3> QED BY <3>1, <3>2, NoMoreCalls
  <2> QED BY <1>13, <2>1
<1>15. ASSUME runs PROVE QuietStack(stack')
  <2>1. fifo \in FifoFrames /\ fifo.at = "fifo" /\ fifo.d = d /\ fifo.fd = NextFd
    BY <1>3 DEF FifoFrames
  <2>2. Calls(Last(ServedEval(d, f)), fifo)
    <3>1. Last(ServedEval(d, f)).at = "events" BY <1>13 DEF EventsFrames
    <3>2. Calls(Last(ServedEval(d, f)), fifo) = (Last(ServedEval(d, f)).at = "events")
      BY <2>1 DEF Calls
    <3> QED BY <3>1, <3>2, Zenon
  <2>3. FrameFits(fifo, ui, fds) BY <1>3, <2>1 DEF FrameFits
  <2>4. fifo \in Frames BY <2>1, FramesAre
  <2>5. fifo.at \notin {"eval", "connect", "command", "keys"} BY <2>1
  <2>6. Len(stack) <= Len(ServedEval(d, f)) BY <1>1, <1>13, TopIs
  <2> HIDE DEF fifo
  <2>7. /\ QuietStack(ServedEval(d, f) \o <<fifo>>) /\ Last(ServedEval(d, f) \o <<fifo>>) = fifo
        /\ Len(stack) <= Len(ServedEval(d, f) \o <<fifo>>)
    BY <1>1, <1>3, <1>13, <2>1, <2>2, <2>3, <2>4, <2>5, <2>6, StackPushed
  <2>8. command \in Seq(AnyCmd) BY <1>9, AnyCmds
  <2>9. run \in Frames /\ run.at = "run" /\ run.client = f.client /\ Calls(fifo, run)
    BY <1>10, <2>1, <2>8, RunIsCalled
  <2>10. FrameFits(run, ui, fds) BY <1>12, <2>9 DEF FrameFits
  <2> HIDE DEF run
  <2>11. QuietStack((ServedEval(d, f) \o <<fifo>>) \o <<run>>)
    BY <1>1, <2>7, <2>9, <2>10, StackPushed, Zenon
  <2>12. stack' = (ServedEval(d, f) \o <<fifo>>) \o <<run>>
    <3>1. stack' = ServedEval(d, f) \o <<fifo, run>> BY <1>7, <1>15
    <3>2. ServedEval(d, f) \in Seq(Frames) BY <1>13 DEF QuietStack
    <3> QED BY <2>4, <2>9, <3>1, <3>2, TwoCalls, Zenon
  <2> QED BY <2>11, <2>12
<1>16. child' \in [Depth -> Children]
  <2>1. <<>> \in Seq(Cmd) BY EmptySeq
  <2>2. [child[d] EXCEPT !.fifo = <<>>] \in Children BY <1>4, <2>1, Zenon DEF Children
  <2> QED BY <1>3, <1>4, <1>6, <2>2
<1>17. m_fd_watchers' \in Seq(WatcherRecords)
  <2>1. None \in 0..MaxFd /\ m_fd_watchers \in Seq(WatcherRecords)
    BY <1>1, MaxFdAssumption DEF None, Types
  <2> QED BY <1>8, <2>1, ResetIs
<1> QED BY <1>1, <1>3, <1>6, <1>14, <1>15, <1>16, <1>17 DEF OtherTypes, Types

(* What called the call that ends goes on. *)
LEMMA TheCaller ==
    ASSUME Types, CallsFit(stack), Top.at \notin Catchers
    PROVE  /\ Last(Below) = stack[Len(stack) - 1] /\ Last(Below) \in Frames
           /\ Len(stack) - 1 \in 1..Len(stack) /\ Calls(Last(Below), Top)
           /\ Below \in Seq(Frames) /\ CallsFit(Below) /\ Len(Below) = Len(stack) - 1
           /\ \A i \in 1..Len(stack) - 1 : Below[i] = stack[i]
<1>1. QuietStack(Below) /\ Len(stack) > 1 BY StackPopped
<1>2. /\ stack # <<>> /\ stack \in Seq(Frames) /\ Len(stack) \in Nat \ {0}
      /\ Top = stack[Len(stack)]
  BY TopIs
<1>3. /\ Below \in Seq(Frames) /\ Len(Below) = Len(stack) - 1
      /\ \A i \in 1..Len(stack) - 1 : Below[i] = stack[i]
  BY <1>2, TheFront DEF Below
<1>4. Below # <<>> /\ CallsFit(Below) BY <1>1 DEF QuietStack, CallsFit
<1>5. Last(Below) = Below[Len(Below)] /\ Last(Below) \in Frames BY <1>3, <1>4, LastOne
<1>6. Len(stack) - 1 \in 1..Len(stack) - 1 BY <1>1, <1>2
<1>7. Last(Below) = stack[Len(stack) - 1] BY <1>3, <1>5, <1>6
<1>8. Len(stack) \in 2..Len(stack) BY <1>1, <1>2
<1>9. Calls(stack[Len(stack) - 1], stack[Len(stack)]) BY <1>8 DEF CallsFit
<1> QED BY <1>1, <1>2, <1>3, <1>4, <1>5, <1>7, <1>9

LEMMA StackReturned ==
    ASSUME Types, CallsFit(stack), Top.at \notin Catchers, NEW f \in Frames,
           Alike(Last(Below), f)
    PROVE  LET t == Front(Below) \o <<f>>
           IN  /\ QuietStack(t) /\ Same(stack, t) /\ Len(t) = Len(stack) - 1 /\ Last(t) = f
               /\ DOMAIN t = 1..Len(stack) - 1
<1> DEFINE t == Append(Front(Below), f)
<1>1. QuietStack(Below) /\ Same(stack, Below) BY StackPopped
<1>2. /\ Below \in Seq(Frames) /\ CallsFit(Below) /\ Len(Below) = Len(stack) - 1
      /\ \A i \in 1..Len(stack) - 1 : Below[i] = stack[i]
  BY TheCaller
<1>3. stack \in Seq(Frames) /\ Len(stack) \in Nat \ {0} /\ DOMAIN stack = 1..Len(stack)
      /\ Top = stack[Len(stack)]
  BY TopIs
<1>4. /\ t \in Seq(Frames) /\ CallsFit(t) /\ Same(Below, t)
      /\ Len(t) = Len(Below) /\ DOMAIN t = DOMAIN Below /\ Last(t) = f
  BY <1>2, ReplacedKeeps
<1>5. DOMAIN Below = 1..Len(stack) - 1 BY <1>2, LenProperties
<1>6. Front(Below) \o <<f>> = t
  <2>1. Below # <<>> BY <1>2 DEF CallsFit
  <2>2. Front(Below) \in Seq(Frames) BY <1>2, <2>1, TheFront
  <2> QED BY <2>2, Pushed
<1> HIDE DEF t
<1>7. \A i \in 1..Len(t) : Alike(stack[i], t[i])
  <2> SUFFICES ASSUME NEW i \in 1..Len(t) PROVE Alike(stack[i], t[i]) OBVIOUS
  <2>1. i \in 1..Len(stack) - 1 /\ i \in DOMAIN Below \cap DOMAIN t BY <1>2, <1>4, <1>5
  <2>2. Alike(Below[i], t[i]) BY <1>4, <2>1 DEF Same
  <2> QED BY <1>2, <2>1, <2>2
<1>8. 1 <= Len(t) /\ Len(t) <= Len(stack)
  <2>1. t # <<>> BY <1>4 DEF CallsFit
  <2>2. Len(t) \in Nat \ {0} BY <1>4, <2>1, LastOne
  <2> QED BY <1>2, <1>3, <1>4, <2>2
<1>9. \A i \in Len(t) + 1..Len(stack) : stack[i].at \notin Catchers
  <2>1. \A i \in Len(t) + 1..Len(stack) : i = Len(stack) BY <1>2, <1>3, <1>4
  <2> QED BY <1>3, <2>1, Zenon
<1>10. CallsFit(t) /\ Keeps(stack, t) /\ Same(stack, t)
  BY <1>3, <1>4, <1>7, <1>8, <1>9, PrefixKeeps, Zenon
<1>11. DOMAIN t \ DOMAIN stack = {} BY <1>3, <1>4, <1>5
<1> QED BY <1>2, <1>4, <1>5, <1>6, <1>10, <1>11, Zenon DEF QuietStack

LEMMA FifoDoneQuiet ==
    ASSUME Inv, FifoDone
    PROVE  QuietStack(stack') /\ OtherTypes' /\ Top.d \in Depths(stack)
           /\ fds[Top.fd] = <<"fifo", Top.d>> /\ Top \in FifoFrames
<1>1. Types /\ CallsFit(stack) /\ FramesFit BY DEF Inv
<1>2. Top \in FifoFrames /\ Top.at = "fifo" BY <1>1, TopIs, FrameKinds DEF FifoDone, OnTop
<1>3. Top.at \notin Catchers /\ Top.fd \in 1..MaxFd BY <1>2 DEF Catchers, FifoFrames
<1>4. stack \in Seq(Frames) /\ Len(stack) \in Nat \ {0} /\ DOMAIN stack = 1..Len(stack)
      /\ Top = stack[Len(stack)] /\ Len(stack) \in DOMAIN stack
  BY <1>1, TopIs
<1> DEFINE d == Top.d
           k == EvalIndex(d)
           f == [FrameOf(d) EXCEPT !.ran = @ + Len(FrameOf(d).command), !.command = <<>>]
<1>5. d \in Depths(stack)
  <2>1. \E i \in Evals(stack) : stack[i].d = Top.d BY <1>1, <1>2, <1>4 DEF CallsFit
  <2> QED BY <2>1 DEF Depths
<1>6. /\ k \in DOMAIN stack /\ stack[k] = FrameOf(d) /\ stack[k].at = "eval"
      /\ FrameOf(d) \in EvalFrames
  BY <1>1, <1>5, EvalIndexIs
<1>7. k \in 1..Len(stack) - 1
  <2>1. k # Len(stack) BY <1>2, <1>4, <1>6
  <2> QED BY <1>4, <1>6, <2>1
<1>8. QuietStack(Below) /\ Below \in Seq(Frames) /\ Len(Below) = Len(stack) - 1 /\ Len(stack) > 1
      /\ \A i \in 1..Len(stack) - 1 : Below[i] = stack[i]
  BY <1>1, <1>3, StackPopped, TheCaller
<1>9. f \in EvalFrames /\ f \in Frames /\ Alike(FrameOf(d), f)
  <2>1. FrameOf(d).ran + Len(FrameOf(d).command) \in Nat /\ <<>> \in Seq(Cmd)
    BY <1>6, LenProperties, EmptySeq DEF EvalFrames
  <2>2. f \in EvalFrames BY <1>6, <2>1, Zenon DEF EvalFrames
  <2>3. Alike(FrameOf(d), f) BY <1>6, <2>2 DEF EvalFrames, Alike
  <2> QED BY <2>2, <2>3, FramesAre
<1>10. stack' = [Below EXCEPT ![k] = f]
  BY DEF FifoDone
<1> HIDE DEF f, k
<1> DEFINE t == [Below EXCEPT ![k] = f]
<1>11. /\ t \in Seq(Frames) /\ Len(t) = Len(stack) - 1 /\ DOMAIN t = 1..Len(stack) - 1
       /\ t[k] = f /\ \A i \in 1..Len(stack) - 1 : i # k => t[i] = stack[i]
  <2> DEFINE n == Len(stack) - 1
  <2>0. n \in Nat BY <1>4
  <2>1. Below \in [1..n -> Frames] BY <1>8, LenProperties, ElementOfSeq
  <2> HIDE DEF n
  <2>2. t \in [1..n -> Frames] BY <1>9, <2>1, Zenon
  <2>3. t \in Seq(Frames) /\ DOMAIN t = 1..n BY <2>0, <2>2, SeqDef, Zenon
  <2>4. Len(t) = n BY <2>0, <2>3, LenProperties
  <2>5. t[k] = f /\ \A i \in 1..n : i # k => t[i] = Below[i] BY <1>7, <2>1 DEF n
  <2> QED BY <1>8, <2>3, <2>4, <2>5 DEF n
<1> HIDE DEF t
<1>12. \A i \in 1..Len(t) : Alike(stack[i], t[i])
  <2> SUFFICES ASSUME NEW i \in 1..Len(t) PROVE Alike(stack[i], t[i]) OBVIOUS
  <2>1. CASE i = k BY <1>6, <1>9, <1>11, <2>1
  <2>2. CASE i # k
    <3>1. t[i] = stack[i] BY <1>11, <2>2
    <3> QED BY <3>1 DEF Alike
  <2> QED BY <2>1, <2>2
<1>13. \A i \in Len(t) + 1..Len(stack) : stack[i].at \notin Catchers
  <2> DEFINE n == Len(stack)
  <2>1. n \in Nat /\ Len(t) + 1 = n BY <1>4, <1>11
  <2> HIDE DEF n
  <2>2. \A i \in n..n : i = n BY <2>1
  <2>3. \A i \in Len(t) + 1..n : i = n BY <2>1, <2>2
  <2> QED BY <1>3, <1>4, <2>3, Zenon DEF n
<1>14. 1 <= Len(t) /\ Len(t) <= Len(stack) BY <1>4, <1>8, <1>11
<1>15. CallsFit(t) /\ Keeps(stack, t) BY <1>1, <1>4, <1>11, <1>12, <1>13, <1>14, PrefixKeeps, Zenon
<1>16. DOMAIN t \ DOMAIN stack = {} BY <1>4, <1>11
<1>17. QuietStack(stack') BY <1>10, <1>11, <1>15, <1>16 DEF QuietStack, t
<1>18. /\ m_fd_watchers' = ResetFd(m_fd_watchers, <<"fifo", d>>, Top.fd)
       /\ UNCHANGED <<fds, child, sigchld, m_clients, m_client_trash>>
  BY DEF FifoDone, WatchesAgain
<1>19. m_fd_watchers' \in Seq(WatcherRecords)
  <2>1. Top.fd \in 0..MaxFd /\ m_fd_watchers \in Seq(WatcherRecords) BY <1>1, <1>3 DEF Types
  <2> QED BY <1>18, <2>1, ResetIs
<1>20. fds[Top.fd] = <<"fifo", Top.d>> BY <1>1, <1>2, <1>4, Zenon DEF FramesFit, FrameFits
<1> QED BY <1>1, <1>2, <1>5, <1>17, <1>18, <1>19, <1>20 DEF OtherTypes, Types

-----------------------------------------------------------------------------
(* The calls after a step of the main loop. *)
AllTypes == OtherTypes /\ ConnTypes

LEMMA NothingElse ==
    ASSUME Types, UNCHANGED <<fds, m_fd_watchers, child, sigchld, m_clients, m_client_trash, remoteVars>>
    PROVE  AllTypes'
BY DEF AllTypes, OtherTypes, ConnTypes, Types, remoteVars

LEMMA TopStays ==
    ASSUME Types, CallsFit(stack)
    PROVE  Alike(Top, Top)
BY DEF Alike

LEMMA MainWaitsQuiet ==
    ASSUME Types, CallsFit(stack), MainWaits \/ MainAgain
    PROVE  QuietStack(stack') /\ AllTypes'
<1>1. OnTop("main") BY Zenon DEF MainWaits, MainAgain, AtMain
<1>2. Top.at = "main" /\ Top \in Frames /\ Alike(Top, Top) BY <1>1, TopIs, TopStays DEF OnTop
<1>3. \E R \in SUBSET (1..MaxFd), some \in BOOLEAN :
        stack' = Replaced(Top) \o <<[at |-> "events", mode |-> Normal, ready |-> R, some |-> some]>>
  <2> DEFINE R == ReadyFds(Normal, Readable)
  <2>1. stack' = Replaced(Top) \o <<[at |-> "events", mode |-> Normal, ready |-> R, some |-> R # {}]>>
    BY DEF MainWaits, MainAgain, HandleNextEvents
  <2>2. R \in SUBSET (1..MaxFd) BY TheReady
  <2> HIDE DEF R
  <2> QED BY <2>1, <2>2, Zenon
<1>4. QuietStack(stack') BY <1>2, <1>3, EventsCall, Zenon
<1>5. AllTypes' BY NothingElse, Zenon DEF MainWaits, MainAgain
<1> QED BY <1>4, <1>5

LEMMA ProcessIsCalled ==
    ASSUME NEW f, f.at = "main"
    PROVE  /\ ProcessFrame \in Frames /\ ProcessFrame.at = "process" /\ Calls(f, ProcessFrame)
           /\ FrameFits(ProcessFrame, ui, fds)
<1>1. ProcessFrame \in ProcessFrames BY DEF ProcessFrame, ProcessFrames
<1>2. ProcessFrame.at = "process" BY DEF ProcessFrame
<1>3. Calls(f, ProcessFrame) = (f.at = "main") BY <1>2 DEF Calls
<1>4. FrameFits(ProcessFrame, ui, fds) BY <1>2 DEF FrameFits
<1> QED BY <1>1, <1>2, <1>3, <1>4, FramesAre, Zenon

LEMMA MainProcessesQuiet ==
    ASSUME Types, CallsFit(stack), MainProcesses
    PROVE  QuietStack(stack') /\ AllTypes'
<1>1. OnTop("main") /\ stack' = Append(stack, ProcessFrame)
  BY DEF MainProcesses, AtMain, Called
<1>2. Top.at = "main" /\ stack \in Seq(Frames) /\ Last(stack) = Top /\ Len(stack) <= Len(stack)
  BY <1>1, TopIs DEF OnTop, Top
<1>3. /\ ProcessFrame \in Frames /\ ProcessFrame.at = "process" /\ Calls(Last(stack), ProcessFrame)
      /\ FrameFits(ProcessFrame, ui, fds)
  BY <1>2, ProcessIsCalled
<1>4. stack' = stack \o <<ProcessFrame>> BY <1>1, <1>2, <1>3, Pushed
<1>5. QuietStack(stack) BY StackStays
<1>6. QuietStack(stack') BY <1>2, <1>3, <1>4, <1>5, StackPushed, Zenon
<1>7. AllTypes' BY NothingElse DEF MainProcesses
<1> QED BY <1>6, <1>7

(* The client that has something to do. *)
LEMMA TheBusy ==
    ASSUME Types, CallsFit(stack), Processing
    PROVE  /\ Top \in ProcessFrames /\ Top.at = "process"
           /\ Min(Busy) \in DOMAIN m_clients /\ Min(Busy) \in Nat \ {0}
           /\ m_clients[Min(Busy)] \in Conn
           /\ m_clients[Min(Busy)] \in ToSet(m_clients)
<1>1. Top \in ProcessFrames /\ Top.at = "process" BY TopIs, FrameKinds DEF Processing, OnTop
<1>2. m_clients \in Seq(Conn) /\ Len(m_clients) \in Nat /\ DOMAIN m_clients = 1..Len(m_clients)
  BY LenProperties DEF Types
<1>3. Top.i \in Nat \ {0} BY <1>1 DEF ProcessFrames
<1>4. Busy \in SUBSET (Top.i..Len(m_clients)) /\ Busy # {} BY DEF Busy, Processing
<1>5. Busy \in SUBSET Nat BY <1>2, <1>3, <1>4
<1>6. Min(Busy) \in Busy BY <1>4, <1>5, LeastOne
<1>7. Min(Busy) \in DOMAIN m_clients /\ Min(Busy) \in Nat \ {0}
  <2> DEFINE k == Min(Busy)
             n == Len(m_clients)
             i == Top.i
  <2>1. k \in i..n /\ i \in Nat \ {0} /\ n \in Nat BY <1>2, <1>3, <1>4, <1>6, Zenon
  <2> HIDE DEF k, n, i
  <2>2. k \in 1..n /\ k \in Nat \ {0} BY <2>1
  <2> QED BY <1>2, <2>2 DEF k, n
<1>8. m_clients[Min(Busy)] \in Conn BY <1>2, <1>7, ElementOfSeq
<1> QED BY <1>1, <1>7, <1>8 DEF ToSet

LEMMA ProcessRemovesQuiet ==
    ASSUME Inv, ProcessRemoves
    PROVE  QuietStack(stack') /\ AllTypes'
<1>1. Types /\ CallsFit(stack) /\ Processing BY DEF Inv, ProcessRemoves
<1> DEFINE k == Min(Busy)
           f == [Top EXCEPT !.i = k]
<1>2. /\ Top \in ProcessFrames /\ k \in Nat \ {0} /\ m_clients[k] \in Conn
  BY <1>1, TheBusy
<1>3. /\ stack' = Replaced(f) /\ m_client_trash' = m_client_trash \cup {m_clients[k]}
      /\ m_clients' = RemovedClient(m_clients[k])
      /\ UNCHANGED <<fds, m_fd_watchers, child, sigchld, remoteVars>>
  BY DEF ProcessRemoves
<1> HIDE DEF k
<1>4. f \in ProcessFrames BY <1>2 DEF ProcessFrames
<1>5. f \in Frames /\ Alike(Top, f) BY <1>2, <1>4, FramesAre DEF Alike, ProcessFrames
<1> HIDE DEF f
<1>6. QuietStack(stack') BY <1>1, <1>3, <1>5, StackReplaced
<1>7. m_clients \in Seq(Conn) /\ \A i, j \in DOMAIN m_clients : m_clients[i] = m_clients[j] => i = j
  BY DEF Inv, Types, ConnsFit
<1>8. m_clients' \in Seq(Conn) BY <1>3, <1>7, RemovedIs DEF RemovedClient
<1> QED
  BY <1>1, <1>2, <1>3, <1>6, <1>8, Zenon DEF AllTypes, OtherTypes, ConnTypes, Types, remoteVars

LEMMA KeysAreCalled ==
    ASSUME NEW f, f.at = "process", NEW c \in Conn, NEW keys \in Seq(Nat), ui[c] # Gone,
           Range(keys) \subseteq DOMAIN script[c]
    PROVE  LET g == [at |-> "keys", c |-> c, keys |-> keys]
           IN  g \in Frames /\ g.at = "keys" /\ Calls(f, g) /\ FrameFits(g, ui, fds)
<1> DEFINE g == [at |-> "keys", c |-> c, keys |-> keys]
<1>1. g \in KeysFrames /\ g.at = "keys" /\ g.c = c /\ g.keys = keys BY DEF KeysFrames
<1> HIDE DEF g
<1>2. Calls(f, g) = (f.at = "process") BY <1>1 DEF Calls
<1>3. FrameFits(g, ui, fds) BY <1>1 DEF FrameFits
<1> QED BY <1>1, <1>2, <1>3, FramesAre, Zenon DEF g

(* Main is what processes the clients' keys. *)
LEMMA ProcessTop ==
    ASSUME Types, CallsFit(stack), OnTop("process")
    PROVE  /\ Top \in ProcessFrames /\ Top.at \notin Catchers /\ Len(stack) = 2
           /\ Last(Below) \in MainFrames /\ Last(Below).at = "main"
<1>1. Top \in ProcessFrames /\ Top.at = "process" BY TopIs, FrameKinds DEF OnTop
<1>2. Top.at \notin Catchers BY <1>1 DEF Catchers
<1>3. Last(Below) \in Frames /\ Calls(Last(Below), Top) BY <1>2, TheCaller
<1>4. Last(Below).at = "main" BY <1>1, <1>3, Callers
<1>5. Last(Below) \in MainFrames BY <1>3, <1>4, FrameKinds
<1>6. Len(stack) = 2
  <2>1. stack[Len(stack)].at = "process" /\ Len(stack) \in DOMAIN stack /\ stack \in Seq(Frames)
    BY <1>1, TopIs
  <2> QED BY <2>1, Positions, Zenon
<1> QED BY <1>1, <1>2, <1>4, <1>5, <1>6

LEMMA ProcessEndsQuiet ==
    ASSUME Types, CallsFit(stack), ProcessEnds
    PROVE  QuietStack(stack') /\ AllTypes'
<1>1. /\ Top \in ProcessFrames /\ Top.at \notin Catchers
      /\ Last(Below) \in MainFrames /\ Last(Below).at = "main"
  BY ProcessTop DEF ProcessEnds
<1>2. CASE Top.had
  <2> DEFINE f == [Top EXCEPT !.i = 1, !.had = FALSE]
  <2>1. stack' = Replaced(f) BY <1>2 DEF ProcessEnds
  <2>2. f \in ProcessFrames
    <3> DEFINE no == FALSE
               one == 1
    <3>1. no \in BOOLEAN /\ one \in Nat \ {0} OBVIOUS
    <3>2. f = [Top EXCEPT !.i = one, !.had = no] OBVIOUS
    <3> HIDE DEF f, no, one
    <3> QED BY <1>1, <3>1, <3>2, Zenon DEF ProcessFrames
  <2>3. f \in Frames /\ Alike(Top, f) BY <1>1, <2>2, FramesAre, Zenon DEF Alike, ProcessFrames
  <2> HIDE DEF f
  <2>4. QuietStack(stack') BY <2>1, <2>3, StackReplaced
  <2> QED BY <2>4, NothingElse DEF ProcessEnds
<1>3. CASE ~Top.had
  <2> DEFINE f == AfterProcess(Last(Below), Top.some)
  <2>1. stack' = Front(Below) \o <<f>> BY <1>3 DEF ProcessEnds
  <2>2. f \in MainFrames
    <3>1. \E pc \in {"top", "trash", "outer", "again"} : f = [Last(Below) EXCEPT !.pc = pc]
      BY DEF AfterProcess
    <3> HIDE DEF f
    <3> QED BY <1>1, <3>1 DEF MainFrames
  <2> HIDE DEF f
  <2>3. f \in Frames /\ Alike(Last(Below), f) BY <1>1, <2>2, FramesAre DEF Alike, MainFrames
  <2>4. QuietStack(stack') BY <1>1, <2>1, <2>3, StackReturned
  <2> QED BY <2>4, NothingElse DEF ProcessEnds
<1> QED BY <1>2, <1>3

(* The script of a connection. *)
LEMMA TheScript ==
    ASSUME Types, NEW c \in Conn
    PROVE  /\ script[c] \in Seq(MessageRecords) /\ Len(script[c]) \in Nat
           /\ DOMAIN script[c] = 1..Len(script[c])
           /\ \A n \in DOMAIN script[c] :
                /\ script[c][n].key \in Key /\ script[c][n].cmds \in Seq(Cmd)
                /\ script[c][n].cut \in BOOLEAN /\ n \in Nat \ {0}
<1>1. script[c] \in Seq(MessageRecords) BY ConnAssumption DEF Types
<1>2. Len(script[c]) \in Nat /\ DOMAIN script[c] = 1..Len(script[c]) BY <1>1, LenProperties
<1>3. \A n \in DOMAIN script[c] : script[c][n] \in MessageRecords BY <1>1, <1>2, ElementOfSeq
<1> QED BY <1>1, <1>2, <1>3 DEF MessageRecords

LEMMA KeysTop ==
    ASSUME Inv, OnTop("keys")
    PROVE  /\ Top \in KeysFrames /\ Top.at = "keys" /\ Top.c \in Conn /\ Top.keys \in Seq(Nat)
           /\ ui[Top.c] # Gone /\ Range(Top.keys) \subseteq DOMAIN script[Top.c]
<1>1. Types /\ CallsFit(stack) /\ FramesFit BY DEF Inv
<1>2. Top \in KeysFrames /\ Top.at = "keys" BY <1>1, TopIs, FrameKinds DEF OnTop
<1>3. FrameFits(Top, ui, fds) BY <1>1, TopIs DEF FramesFit
<1> QED BY <1>2, <1>3 DEF FrameFits, KeysFrames

LEMMA KeysEndQuiet ==
    ASSUME Types, CallsFit(stack), OnTop("keys"), stack' = Front(stack)
    PROVE  stack' \in Seq(Frames) /\ CallsFit(stack') /\ Same(stack, stack')
           /\ Len(stack) = 3 /\ Len(stack') = 2 /\ Evals(stack') = Evals(stack)
           /\ \A i \in 1..2 : stack'[i] = stack[i]
<1>1. /\ stack # <<>> /\ stack \in Seq(Frames) /\ Len(stack) \in Nat \ {0}
      /\ DOMAIN stack = 1..Len(stack) /\ Len(stack) \in DOMAIN stack /\ Top = stack[Len(stack)]
  BY TopIs
<1>2. Len(stack) = 3 BY <1>1, Positions, Zenon DEF OnTop
<1> DEFINE t == Front(stack)
<1>3. t \in Seq(Frames) /\ Len(t) = 2 /\ \A i \in 1..2 : t[i] = stack[i]
  <2>1. /\ t \in Seq(Frames) /\ Len(t) = Len(stack) - 1
        /\ \A i \in 1..Len(stack) - 1 : t[i] = stack[i]
    BY <1>1, TheFront, Zenon
  <2>2. Len(stack) - 1 = 2 BY <1>2
  <2> QED BY <2>1, <2>2, Zenon
<1> HIDE DEF t
<1>4. \A i \in 1..Len(t) : Alike(stack[i], t[i])
  <2> SUFFICES ASSUME NEW i \in 1..Len(t) PROVE Alike(stack[i], t[i]) OBVIOUS
  <2>1. t[i] = stack[i] BY <1>3
  <2> QED BY <2>1 DEF Alike
<1>5. CallsFit(t) /\ Evals(t) = Evals(stack) \cap 1..Len(t)
  <2>1. 1 <= Len(t) /\ Len(t) <= Len(stack) BY <1>2, <1>3
  <2> QED BY <1>1, <1>3, <1>4, <2>1, PrefixFits, Zenon
<1>6. \A i \in DOMAIN stack : stack[i].at = "eval" => i \in 1..2
  BY <1>1, <1>2 DEF OnTop
<1>7. Evals(t) = Evals(stack) BY <1>3, <1>5, <1>6 DEF Evals
<1>8. DOMAIN t = 1..Len(t) BY <1>3, LenProperties
<1> QED BY <1>2, <1>3, <1>4, <1>5, <1>7, <1>8 DEF Same, t

(* The events are over: eval looks for its child, main to its clients.       *)
LEMMA EventsReturnQuiet ==
    ASSUME Types, CallsFit(stack), EventsReturn
    PROVE  QuietStack(stack') /\ AllTypes'
<1> DEFINE caller == Last(Below)
<1>1. Top \in EventsFrames /\ Top.at = "events" /\ Top.at \notin Catchers
  BY TopIs, FrameKinds DEF EventsReturn, EventsDone, InEvents, Catchers
<1>2. caller \in Frames /\ Calls(caller, Top) BY <1>1, TheCaller
<1>3. UNCHANGED <<fds, m_fd_watchers, sigchld, m_clients, m_client_trash, remoteVars>>
  BY DEF EventsReturn
<1> HIDE DEF caller
<1>4. CASE caller.at = "eval"
  <2>1. stack' = Front(Below) \o <<Polled(caller)>> /\ child' = ReapedBy(caller)
    BY <1>4 DEF EventsReturn, caller
  <2>2. caller \in EvalFrames BY <1>2, <1>4, FrameKinds
  <2>3. /\ child' \in [Depth -> Children] /\ Polled(caller) \in Frames
        /\ Alike(caller, Polled(caller))
    BY <2>1, <2>2, ReapedType
  <2>4. QuietStack(stack') BY <1>1, <2>1, <2>3, StackReturned DEF caller
  <2> QED BY <1>3, <2>3, <2>4 DEF AllTypes, OtherTypes, ConnTypes, Types, remoteVars
<1>5. CASE caller.at # "eval"
  <2>1. caller.at = "main" /\ Top.mode = Normal BY <1>1, <1>2, <1>5, Callers
  <2> DEFINE f == [caller EXCEPT !.pc = IF Top.some THEN "inner" ELSE "outer"]
             r == Front(Below) \o <<f>>
             t == r \o <<ProcessFrame>>
  <2>2. f \in MainFrames
    <3>1. \E pc \in {"inner", "outer"} : f = [caller EXCEPT !.pc = pc] OBVIOUS
    <3>2. caller \in MainFrames BY <1>2, <2>1, FrameKinds
    <3> HIDE DEF f
    <3> QED BY <3>1, <3>2 DEF MainFrames
  <2>3. stack' = Front(Below) \o <<f, ProcessFrame>> BY <1>5 DEF EventsReturn, caller
  <2> HIDE DEF f
  <2>4. f \in Frames /\ Alike(caller, f) /\ f.at = "main"
    <3>1. f.at = "main" BY <2>2 DEF MainFrames
    <3> QED BY <2>1, <2>2, <3>1, FramesAre DEF Alike
  <2>5. /\ QuietStack(r) /\ Same(stack, r) /\ Len(r) = Len(stack) - 1 /\ Last(r) = f
        /\ DOMAIN r = 1..Len(stack) - 1
    BY <1>1, <2>4, StackReturned DEF caller
  <2>6. /\ ProcessFrame \in Frames /\ Calls(f, ProcessFrame) /\ ProcessFrame.at = "process"
    BY <2>4, ProcessIsCalled
  <2>7. stack' = t
    <3>1. Below \in Seq(Frames) /\ Below # <<>>
      BY <1>1, TheCaller DEF CallsFit
    <3>2. Front(Below) \in Seq(Frames) BY <3>1, TheFront
    <3> QED BY <2>3, <2>4, <2>6, <3>2, TwoCalls, Zenon
  <2>8. /\ stack \in Seq(Frames) /\ Len(stack) = 2 /\ DOMAIN stack = 1..2
        /\ stack[2] = Top
    <3>1. stack \in Seq(Frames) /\ Len(stack) \in DOMAIN stack /\ stack[Len(stack)] = Top
          /\ DOMAIN stack = 1..Len(stack)
      BY TopIs
    <3>2. Len(stack) = 2 BY <1>1, <2>1, <3>1, Positions
    <3> QED BY <3>1, <3>2
  <2> HIDE DEF r
  <2>9. /\ t \in Seq(Frames) /\ CallsFit(t) /\ DOMAIN t = 1..2 /\ t[1] = r[1]
        /\ t[2] = ProcessFrame
    <3>1. r \in Seq(Frames) /\ CallsFit(r) BY <2>5 DEF QuietStack
    <3>2. /\ t \in Seq(Frames) /\ Len(t) = Len(r) + 1 /\ t = Append(r, ProcessFrame)
          /\ DOMAIN t = 1..Len(r) + 1 /\ \A i \in 1..Len(r) : t[i] = r[i]
          /\ t[Len(r) + 1] = ProcessFrame
      BY <2>6, <3>1, Pushed
    <3>3. Len(r) = 1 BY <2>5, <2>8
    <3>4. CallsFit(t) BY <2>5, <2>6, <3>1, <3>2, PushFits, Zenon
    <3> QED BY <3>2, <3>3, <3>4
  <2> HIDE DEF t
  <2>10. Goes(stack[1], t[1])
    <3>1. 1 \in DOMAIN stack \cap DOMAIN r BY <2>5, <2>8
    <3>2. Alike(stack[1], r[1]) BY <2>5, <3>1 DEF Same
    <3> QED BY <2>9, <3>2 DEF Goes
  <2>11. Goes(stack[2], t[2]) BY <1>1, <2>6, <2>8, <2>9 DEF Goes
  <2>12. \A i \in 1..2 : i = 1 \/ i = 2 OBVIOUS
  <2>13. Keeps(stack, t) BY <2>8, <2>9, <2>10, <2>11, <2>12 DEF Keeps
  <2>14. QuietStack(stack') BY <2>7, <2>8, <2>9, <2>13 DEF QuietStack
  <2>15. child' = child BY <1>5 DEF EventsReturn, caller
  <2> QED BY <1>3, <2>14, <2>15, NothingElse
<1> QED BY <1>4, <1>5

-----------------------------------------------------------------------------
(* What is read. *)
LEMMA MinOfTwo ==
    ASSUME NEW a \in Nat, NEW b \in Nat
    PROVE  Min({a, b}) \in {a, b} /\ Min({a, b}) <= a /\ Min({a, b}) <= b
           /\ Min({a, b}) \in Nat
<1>1. {a, b} \in SUBSET Nat /\ {a, b} # {} OBVIOUS
<1>2. Min({a, b}) \in {a, b} /\ \A y \in {a, b} : Min({a, b}) <= y BY <1>1, LeastOne
<1> QED BY <1>2

LEMMA Halves ==
    ASSUME NEW x \in Nat
    PROVE  /\ x \div MessageSize \in Nat /\ x % MessageSize \in 0..1
           /\ x = 2 * (x \div MessageSize) + (x % MessageSize)
BY DEF MessageSize

LEMMA UnitsOf ==
    ASSUME Inv, NEW c \in Conn
    PROVE  /\ read[c] \in Nat /\ sent[c] \in Nat /\ read[c] <= sent[c]
           /\ sent[c] - read[c] \in Nat
           /\ sent[c] <= 2 * Len(script[c]) /\ Len(script[c]) \in Nat
           /\ accepter[c] \in Gone..MessageSize /\ ui[c] \in Gone..MessageSize - 1
<1>1. read[c] \in Nat /\ sent[c] \in Nat /\ accepter[c] \in Gone..MessageSize
      /\ ui[c] \in Gone..MessageSize - 1
  BY DEF Inv, Types
<1>2. read[c] <= sent[c] /\ sent[c] <= 2 * Len(script[c])
  BY DEF Inv, UnitsFit, Units, MessageSize
<1>3. Len(script[c]) \in Nat BY TheScript DEF Inv
<1> QED BY <1>1, <1>2, <1>3

(* The Accepter reads what is missing of its message, at most. *)
LEMMA Taken ==
    ASSUME Inv, NEW c \in Conn, accepter[c] \in 0..1
    PROVE  LET taken == TakeMessage(c, accepter[c])
           IN  /\ taken \in Nat /\ accepter[c] + taken \in 0..2
               /\ read[c] + taken <= sent[c] /\ read[c] = accepter[c]
<1> DEFINE a == MessageSize - accepter[c]
           b == sent[c] - read[c]
           taken == TakeMessage(c, accepter[c])
<1>1. a \in Nat /\ a = 2 - accepter[c] BY DEF MessageSize
<1>2. b \in Nat /\ read[c] \in Nat /\ sent[c] \in Nat BY UnitsOf
<1>3. taken = Min({a, b}) BY DEF TakeMessage
<1> HIDE DEF taken, a
<1>4. taken \in Nat /\ taken <= a /\ taken <= b
  <2> HIDE DEF b
  <2> QED BY <1>1, <1>2, <1>3, MinOfTwo
<1>5. read[c] = accepter[c] BY DEF Inv, UnitsFit
<1>6. accepter[c] + taken \in 0..2 BY <1>1, <1>4
<1>7. read[c] + taken <= sent[c] BY <1>2, <1>4
<1> QED BY <1>4, <1>5, <1>6, <1>7 DEF taken

(* The keys the RemoteUI finds in what it reads. *)
LEMMA TheMessages ==
    ASSUME Inv, NEW c \in Conn, NEW units \in Nat, read[c] + units <= sent[c]
    PROVE  LET keys == NewMessages(c, units)
               done == read[c] \div MessageSize
               all == (read[c] + units) \div MessageSize
           IN  /\ keys \in Seq(Nat) /\ Len(keys) = all - done /\ DOMAIN keys = 1..all - done
               /\ done \in Nat /\ all \in Nat /\ done <= all
               /\ \A i \in 1..all - done : keys[i] = done + i
               /\ Range(keys) = done + 1..all
               /\ Range(keys) \subseteq DOMAIN script[c]
<1> DEFINE keys == NewMessages(c, units)
           done == read[c] \div MessageSize
           all == (read[c] + units) \div MessageSize
           n == all - done
<1>1. /\ read[c] \in Nat /\ sent[c] \in Nat /\ sent[c] <= 2 * Len(script[c])
      /\ Len(script[c]) \in Nat
  BY UnitsOf
<1>2. /\ done \in Nat /\ read[c] % MessageSize \in 0..1
      /\ read[c] = 2 * done + (read[c] % MessageSize)
  BY <1>1, Halves, Zenon
<1>3. /\ all \in Nat /\ (read[c] + units) % MessageSize \in 0..1
      /\ read[c] + units = 2 * all + ((read[c] + units) % MessageSize)
  <2>1. read[c] + units \in Nat BY <1>1
  <2> QED BY <2>1, Halves
<1>4. keys = [i \in 1..n |-> done + i] BY DEF NewMessages
<1> DEFINE r == read[c] % MessageSize
           s == (read[c] + units) % MessageSize
<1> HIDE DEF done, all, keys, r, s
<1>5. done <= all BY <1>1, <1>2, <1>3 DEF r, s
<1>6. all <= Len(script[c]) BY <1>1, <1>3 DEF s
<1>7. n \in Nat BY <1>2, <1>3, <1>5
<1>8. \A i \in 1..n : done + i \in Nat BY <1>2, <1>7
<1> HIDE DEF n
<1>9. keys \in [1..n -> Nat] BY <1>4, <1>8
<1>10. keys \in Seq(Nat) /\ DOMAIN keys = 1..n BY <1>7, <1>9, SeqDef
<1>11. Len(keys) = n BY <1>7, <1>10, LenProperties
<1>12. \A i \in 1..n : keys[i] = done + i BY <1>4
<1>13. Range(keys) = done + 1..all
  <2>1. ASSUME NEW x \in done + 1..all PROVE x \in Range(keys)
    <3>1. x - done \in 1..n /\ done + (x - done) = x BY <1>2, <1>3, <2>1 DEF n
    <3>2. keys[x - done] = x BY <1>12, <3>1
    <3> QED BY <1>10, <3>1, <3>2 DEF Range
  <2>2. ASSUME NEW x \in Range(keys) PROVE x \in done + 1..all
    <3>1. PICK i \in 1..n : x = keys[i] BY <1>10 DEF Range
    <3>2. x = done + i BY <1>12, <3>1
    <3> QED BY <1>2, <1>3, <3>1, <3>2 DEF n
  <2> QED BY <2>1, <2>2, Zenon
<1>14. Range(keys) \subseteq DOMAIN script[c]
  <2>1. DOMAIN script[c] = 1..Len(script[c]) BY TheScript DEF Inv
  <2> QED BY <1>1, <1>2, <1>3, <1>6, <1>13, <2>1
<1> QED BY <1>2, <1>3, <1>5, <1>10, <1>11, <1>12, <1>13, <1>14 DEF keys, done, all, n

LEMMA TheCancel ==
    ASSUME Inv, NEW c \in Conn, Cancels(c, sent[c] - read[c]) # {}
    PROVE  /\ FirstCancel(c) \in Nat /\ MessageSize * FirstCancel(c) <= sent[c]
           /\ read[c] < MessageSize * FirstCancel(c)
           /\ FirstCancel(c) \in DOMAIN script[c] /\ KeyOf(c, FirstCancel(c)) = "cancel"
<1> DEFINE units == sent[c] - read[c]
           S == Cancels(c, units)
           done == read[c] \div MessageSize
           all == sent[c] \div MessageSize
           n == FirstCancel(c)
<1>1. read[c] \in Nat /\ sent[c] \in Nat /\ units \in Nat /\ read[c] + units = sent[c] BY UnitsOf
<1>2. /\ Range(NewMessages(c, units)) = done + 1..all /\ done \in Nat /\ all \in Nat
      /\ Range(NewMessages(c, units)) \subseteq DOMAIN script[c]
  BY <1>1, TheMessages
<1>3. S \subseteq Range(NewMessages(c, units)) /\ S # {} /\ \A m \in S : KeyOf(c, m) = "cancel"
  BY DEF Cancels
<1>4. n = Min(S) BY DEF FirstCancel
<1>5. /\ read[c] = 2 * done + (read[c] % MessageSize) /\ read[c] % MessageSize \in 0..1
      /\ sent[c] = 2 * all + (sent[c] % MessageSize) /\ sent[c] % MessageSize \in 0..1
  BY <1>1, Halves
<1> DEFINE r == read[c] % MessageSize
           s == sent[c] % MessageSize
<1> HIDE DEF done, all, S, n, r, s
<1>6. S \in SUBSET Nat BY <1>2, <1>3
<1>7. n \in S BY <1>3, <1>4, <1>6, LeastOne
<1>8. n \in done + 1..all BY <1>2, <1>3, <1>7
<1>9. n \in Nat /\ 2 * n <= sent[c] /\ read[c] < 2 * n
  <2>1. read[c] = 2 * done + r /\ r \in 0..1 /\ sent[c] = 2 * all + s /\ s \in 0..1
    BY <1>5 DEF r, s, done, all
  <2> QED BY <1>1, <1>2, <1>8, <2>1
<1> QED BY <1>2, <1>3, <1>7, <1>9 DEF n, S, MessageSize

-----------------------------------------------------------------------------
(* The types, the calls and the units after a step of the connections. *)
LEMMA UnitsSame ==
    ASSUME UnitsFit, UNCHANGED remoteVars
    PROVE  UnitsFit'
BY DEF UnitsFit, remoteVars, Units

LEMMA UnitsBut ==
    ASSUME Inv, NEW c \in Conn, UNCHANGED <<script, sent, state>>,
           NEW r \in Nat, read' = [read EXCEPT ![c] = r], r <= sent[c],
           \A d \in Conn : d # c => /\ accepter'[d] = accepter[d] /\ ui'[d] = ui[d]
                                    /\ m_pending_keys'[d] = m_pending_keys[d],
           accepter'[c] \in 0..1 => r = accepter'[c],
           accepter'[c] = MessageSize \/ ui'[c] # Gone => r >= MessageSize,
           ui'[c] # Gone => r % MessageSize = ui'[c],
           state[c] \notin {"away", "backlog"},
           Range(m_pending_keys'[c]) \subseteq DOMAIN script[c]
    PROVE  UnitsFit'
<1>1. read \in [Conn -> Nat] BY DEF Inv, Types
<1>2. read'[c] = r /\ \A d \in Conn : d # c => read'[d] = read[d] BY <1>1
<1>3. UnitsFit BY DEF Inv
<1> DEFINE P(d) ==
        /\ read'[d] <= sent'[d] /\ sent'[d] <= Units(d)'
        /\ sent'[d] % MessageSize # 0 => script'[d][(sent'[d] \div MessageSize) + 1].cut
        /\ accepter'[d] \in 0..1 => read'[d] = accepter'[d]
        /\ accepter'[d] = MessageSize \/ ui'[d] # Gone => read'[d] >= MessageSize
        /\ ui'[d] # Gone => read'[d] % MessageSize = ui'[d]
        /\ state'[d] \in {"away", "backlog"} => read'[d] = 0
        /\ Range(m_pending_keys'[d]) \subseteq DOMAIN script'[d]
<1>4. ASSUME NEW d \in Conn, d # c PROVE P(d)
  <2>1. /\ accepter'[d] = accepter[d] /\ ui'[d] = ui[d] /\ read'[d] = read[d]
        /\ m_pending_keys'[d] = m_pending_keys[d]
        /\ script' = script /\ sent' = sent /\ state' = state /\ Units(d)' = Units(d)
    BY <1>2, <1>4 DEF Units
  <2>2. /\ read[d] <= sent[d] /\ sent[d] <= Units(d)
        /\ sent[d] % MessageSize # 0 => script[d][(sent[d] \div MessageSize) + 1].cut
        /\ accepter[d] \in 0..1 => read[d] = accepter[d]
        /\ accepter[d] = MessageSize \/ ui[d] # Gone => read[d] >= MessageSize
        /\ ui[d] # Gone => read[d] % MessageSize = ui[d]
        /\ state[d] \in {"away", "backlog"} => read[d] = 0
        /\ Range(m_pending_keys[d]) \subseteq DOMAIN script[d]
    BY <1>3 DEF UnitsFit
  <2> QED BY <2>1, <2>2
<1>5. P(c)
  <2>1. script' = script /\ sent' = sent /\ state' = state /\ Units(c)' = Units(c)
    BY DEF Units
  <2>2. /\ sent[c] <= Units(c)
        /\ sent[c] % MessageSize # 0 => script[c][(sent[c] \div MessageSize) + 1].cut
    BY <1>3 DEF UnitsFit
  <2> QED BY <1>2, <2>1, <2>2
<1>6. \A d \in Conn : P(d) BY <1>4, <1>5
<1> QED BY <1>6 DEF UnitsFit

(* A connection that has an Accepter or a RemoteUI was accepted. *)
LEMMA IsUp ==
    ASSUME Inv, NEW c \in Conn, accepter[c] # Gone \/ ui[c] # Gone
    PROVE  state[c] \notin {"away", "backlog"}
BY DEF Inv, ConnsFit

LEMMA NowGone ==
    ASSUME NEW c \in Conn, Types
    PROVE  /\ NoAccepter(c) \in [Conn -> Gone..MessageSize] /\ NoAccepter(c)[c] = Gone
           /\ \A d \in Conn : d # c => NoAccepter(c)[d] = accepter[d]
<1>1. Gone \in Gone..MessageSize BY DEF Gone, MessageSize
<1> QED BY <1>1 DEF NoAccepter, Types

LEMMA Erasing ==
    ASSUME Inv, NEW who
    PROVE  LET r == UnorderedErase(m_fd_watchers, who)
           IN  /\ r \in Seq(WatcherRecords)
               /\ \A i, j \in DOMAIN r : r[i].who = r[j].who => i = j
               /\ ToSet(r) = {w \in Watchers : w.who # who}
<1>1. /\ m_fd_watchers \in Seq(WatcherRecords)
      /\ \A i, j \in DOMAIN m_fd_watchers : m_fd_watchers[i].who = m_fd_watchers[j].who => i = j
  BY DEF Inv, Types, WatchersFit
<1> QED BY <1>1, ErasedIs DEF Watchers

LEMMA AccepterLeavesItQuiet ==
    ASSUME Inv, NEW c \in Conn, AccepterLeavesIt(c)
    PROVE  QuietStack(stack') /\ AllTypes' /\ UnitsFit'
<1>1. Types /\ CallsFit(stack) /\ UnitsFit /\ InEvents /\ stack' = Served
  BY RunsFacts DEF Inv, AccepterLeavesIt
<1>2. UNCHANGED <<fds, m_fd_watchers, child, sigchld, m_clients, m_client_trash, remoteVars>>
  BY DEF AccepterLeavesIt
<1> QED BY <1>1, <1>2, ServedIs, NothingElse, UnitsSame

LEMMA AccepterReadsQuiet ==
    ASSUME Inv, NEW c \in Conn, AccepterReads(c)
    PROVE  QuietStack(stack') /\ AllTypes' /\ UnitsFit' /\ accepter[c] \in 0..1 /\ ui[c] = Gone
<1>1. Types /\ CallsFit(stack) /\ ConnsFit /\ UnitsFit BY DEF Inv
<1>2. Runs(Acc(c)) /\ accepter[c] < MessageSize BY DEF AccepterReads
<1>3. InEvents /\ NextFd \in 1..MaxFd /\ accepter[c] # Gone BY <1>2, RunsFacts, RunsAcc
<1>4. accepter[c] \in 0..1 BY <1>2, <1>3, UnitsOf DEF Gone, MessageSize
<1>5. ui[c] = Gone BY <1>1, <1>4 DEF ConnsFit, Gone, MessageSize
<1> DEFINE taken == TakeMessage(c, accepter[c])
           has == accepter[c] + taken
           r == read[c] + taken
<1>6. /\ has < MessageSize /\ read' = [read EXCEPT ![c] = r] /\ stack' = Served
      /\ \/ /\ fds' = [fds EXCEPT ![NextFd] = Closed]
            /\ m_fd_watchers' = WithoutAccepter(c)
            /\ accepter' = NoAccepter(c)
         \/ /\ accepter' = [accepter EXCEPT ![c] = has]
            /\ UNCHANGED <<fds, m_fd_watchers>>
      /\ UNCHANGED <<child, sigchld, m_clients, m_client_trash, script, sent, state, ui,
                     m_pending_keys, handled>>
  <2>1. read' = [read EXCEPT ![c] = @ + taken] BY DEF AccepterReads
  <2> QED BY <2>1 DEF AccepterReads
<1>7. taken \in Nat /\ has \in 0..2 /\ r <= sent[c] /\ read[c] = accepter[c] BY <1>4, Taken
<1>8. r = has /\ has \in 0..1 /\ r \in Nat
  <2>1. has < 2 BY <1>6 DEF MessageSize
  <2> HIDE DEF taken
  <2> QED BY <1>4, <1>7, <2>1
<1> HIDE DEF taken, has, r
<1>9. QuietStack(stack') BY <1>1, <1>3, <1>6, ServedIs
<1>10. /\ accepter' \in [Conn -> Gone..MessageSize]
       /\ accepter'[c] = Gone \/ accepter'[c] = has
       /\ \A d \in Conn : d # c => accepter'[d] = accepter[d]
  <2>1. accepter \in [Conn -> Gone..MessageSize] BY <1>1 DEF Types
  <2>2. has \in Gone..MessageSize BY <1>8 DEF Gone, MessageSize
  <2>3. CASE accepter' = [accepter EXCEPT ![c] = has] BY <2>1, <2>2, <2>3
  <2>4. CASE accepter' = NoAccepter(c) BY <1>1, <2>4, NowGone
  <2> QED BY <1>6, <2>3, <2>4
<1>11. UnitsFit'
  <2>1. accepter'[c] \in 0..1 => r = accepter'[c] BY <1>8, <1>10 DEF Gone
  <2>2. accepter'[c] # MessageSize /\ ui'[c] = Gone
    BY <1>5, <1>6, <1>8, <1>10 DEF Gone, MessageSize
  <2>3. state[c] \notin {"away", "backlog"} BY <1>3, IsUp
  <2>4. Range(m_pending_keys'[c]) \subseteq DOMAIN script[c] BY <1>1, <1>6 DEF UnitsFit
  <2>5. \A d \in Conn : d # c => /\ accepter'[d] = accepter[d] /\ ui'[d] = ui[d]
                                 /\ m_pending_keys'[d] = m_pending_keys[d]
    BY <1>6, <1>10
  <2> QED BY <1>6, <1>7, <1>8, <2>1, <2>2, <2>3, <2>4, <2>5, UnitsBut, Zenon
<1>12. /\ fds' \in [1..MaxFd -> Objects \cup {Closed}]
       /\ m_fd_watchers' \in Seq(WatcherRecords)
  <2>1. WithoutAccepter(c) \in Seq(WatcherRecords) BY Erasing DEF WithoutAccepter
  <2>2. [fds EXCEPT ![NextFd] = Closed] \in [1..MaxFd -> Objects \cup {Closed}]
    BY <1>1, <1>3, FdsClosed
  <2> QED BY <1>1, <1>6, <2>1, <2>2, Zenon DEF Types
<1>13. read' \in [Conn -> Nat] BY <1>1, <1>6, <1>8 DEF Types
<1> QED BY <1>1, <1>4, <1>5, <1>6, <1>9, <1>10, <1>11, <1>12, <1>13, Zenon
        DEF AllTypes, OtherTypes, ConnTypes, Types

LEMMA UiReadsQuiet ==
    ASSUME Inv, NEW c \in Conn, UiReads(c)
    PROVE  QuietStack(stack') /\ AllTypes' /\ UnitsFit'
<1>1. Types /\ CallsFit(stack) /\ ConnsFit /\ UnitsFit BY DEF Inv
<1>2. Runs(Ui(c)) BY DEF UiReads
<1>3. InEvents /\ NextFd \in 1..MaxFd /\ ui[c] # Gone BY <1>2, RunsFacts, RunsUi
<1> DEFINE available == sent[c] - read[c]
           keys == NewMessages(c, available)
           u == (ui[c] + available) % MessageSize
           r == read[c] + available
<1>4. /\ read' = [read EXCEPT ![c] = r] /\ ui' = [ui EXCEPT ![c] = u]
      /\ m_pending_keys' = [m_pending_keys EXCEPT ![c] = m_pending_keys[c] \o keys]
      /\ stack' = Served
      /\ \/ /\ fds' = [fds EXCEPT ![NextFd] = Closed]
            /\ m_fd_watchers' = ResetFd(m_fd_watchers, Ui(c), None)
         \/ UNCHANGED <<fds, m_fd_watchers>>
      /\ UNCHANGED <<child, sigchld, m_clients, m_client_trash, script, sent, state,
                     accepter, handled>>
  BY DEF UiReads
<1>5. /\ available \in Nat /\ read[c] \in Nat /\ sent[c] \in Nat /\ r = sent[c]
      /\ ui[c] \in 0..1
  BY <1>3, UnitsOf DEF Gone, MessageSize
<1>6. read[c] >= 2 /\ read[c] % 2 = ui[c] BY <1>1, <1>3 DEF UnitsFit, MessageSize
<1>7. u \in 0..1 /\ r % 2 = u
  <2> HIDE DEF available
  <2>1. u = (ui[c] + available) % 2 BY DEF MessageSize
  <2> HIDE DEF u
  <2> QED BY <1>5, <1>6, <2>1
<1>8. keys \in Seq(Nat) /\ Range(keys) \subseteq DOMAIN script[c]
  <2>1. read[c] + available <= sent[c] BY <1>5
  <2> QED BY <1>5, <2>1, TheMessages
<1>9. m_pending_keys[c] \in Seq(Nat) /\ Range(m_pending_keys[c]) \subseteq DOMAIN script[c]
  BY <1>1 DEF Types, UnitsFit
<1> HIDE DEF keys, u, r, available
<1>10. /\ m_pending_keys[c] \o keys \in Seq(Nat)
       /\ Range(m_pending_keys[c] \o keys) \subseteq DOMAIN script[c]
  BY <1>8, <1>9, ConcatProperties, RangeConcatenation
<1>11. /\ m_pending_keys' \in [Conn -> Seq(Nat)]
       /\ m_pending_keys'[c] = m_pending_keys[c] \o keys
       /\ \A d \in Conn : d # c => m_pending_keys'[d] = m_pending_keys[d]
  BY <1>1, <1>4, <1>10, Zenon DEF Types
<1>12. /\ ui' \in [Conn -> Gone..MessageSize - 1] /\ ui'[c] = u
       /\ \A d \in Conn : d # c => ui'[d] = ui[d]
  <2>1. ui \in [Conn -> Gone..MessageSize - 1] BY <1>1 DEF Types
  <2>2. u \in Gone..MessageSize - 1 BY <1>7 DEF Gone, MessageSize
  <2> QED BY <1>4, <2>1, <2>2
<1>13. UnitsFit'
  <2>1. state[c] \notin {"away", "backlog"} BY <1>3, IsUp
  <2>2. accepter'[c] \in 0..1 => r = accepter'[c]
    BY <1>1, <1>3, <1>4 DEF ConnsFit, Gone, MessageSize
  <2>3. r >= MessageSize /\ r % MessageSize = ui'[c] /\ r <= sent[c] /\ r \in Nat
    BY <1>5, <1>6, <1>7, <1>12, UnitsOf DEF MessageSize
  <2> QED BY <1>4, <1>10, <1>11, <1>12, <2>1, <2>2, <2>3, UnitsBut, Zenon
<1>14. /\ fds' \in [1..MaxFd -> Objects \cup {Closed}]
       /\ m_fd_watchers' \in Seq(WatcherRecords)
  <2>1. None \in 0..MaxFd /\ m_fd_watchers \in Seq(WatcherRecords)
    BY <1>1, MaxFdAssumption DEF None, Types
  <2>2. ResetFd(m_fd_watchers, Ui(c), None) \in Seq(WatcherRecords) BY <2>1, ResetIs
  <2>3. [fds EXCEPT ![NextFd] = Closed] \in [1..MaxFd -> Objects \cup {Closed}]
    BY <1>1, <1>3, FdsClosed
  <2> QED BY <1>1, <1>4, <2>2, <2>3, Zenon DEF Types
<1>15. read' \in [Conn -> Nat] BY <1>1, <1>4, <1>5 DEF Types
<1>16. QuietStack(stack') BY <1>1, <1>3, <1>4, ServedIs
<1> QED BY <1>1, <1>4, <1>11, <1>12, <1>13, <1>14, <1>15, <1>16, Zenon
        DEF AllTypes, OtherTypes, ConnTypes, Types

LEMMA UiCancelsQuiet ==
    ASSUME Inv, NEW c \in Conn, UiCancels(c)
    PROVE  QuietStack(stack') /\ AllTypes' /\ UnitsFit'
           /\ ui'[c] # Gone /\ \A d \in Conn : d # c => ui'[d] = ui[d]
<1>1. Types /\ CallsFit(stack) /\ ConnsFit /\ UnitsFit BY DEF Inv
<1>2. Runs(Ui(c)) /\ Cancels(c, sent[c] - read[c]) # {} BY DEF UiCancels
<1>3. InEvents /\ ui[c] # Gone BY <1>2, RunsFacts, RunsUi
<1> DEFINE n == FirstCancel(c)
           r == read[c] + (MessageSize * n - read[c])
<1>4. /\ read' = [read EXCEPT ![c] = r] /\ ui' = [ui EXCEPT ![c] = 0]
      /\ m_pending_keys' = [m_pending_keys EXCEPT ![c] = <<>>]
      /\ Throw(Served, child, "cancel")
      /\ UNCHANGED <<fds, m_fd_watchers, sigchld, m_clients, m_client_trash, script, sent,
                     state, accepter, handled>>
  BY DEF UiCancels
<1>5. n \in Nat /\ 2 * n <= sent[c] /\ read[c] < 2 * n BY <1>2, TheCancel DEF MessageSize
<1>6. read[c] \in Nat /\ sent[c] \in Nat BY UnitsOf
<1>7. read[c] >= 2 BY <1>1, <1>3 DEF UnitsFit, MessageSize
<1>8. r = 2 * n /\ r \in Nat /\ r <= sent[c] /\ r >= 2
  <2>1. r = read[c] + (2 * n - read[c]) BY DEF MessageSize
  <2> HIDE DEF r, n
  <2> QED BY <1>5, <1>6, <1>7, <2>1
<1> HIDE DEF r, n
<1>9. r % 2 = 0 BY <1>5, <1>8
<1>10. /\ ui' \in [Conn -> Gone..MessageSize - 1] /\ ui'[c] = 0
       /\ \A d \in Conn : d # c => ui'[d] = ui[d]
  <2>1. ui \in [Conn -> Gone..MessageSize - 1] BY <1>1 DEF Types
  <2>2. 0 \in Gone..MessageSize - 1 BY DEF Gone, MessageSize
  <2> QED BY <1>4, <2>1, <2>2
<1>11. /\ m_pending_keys' \in [Conn -> Seq(Nat)] /\ m_pending_keys'[c] = <<>>
       /\ \A d \in Conn : d # c => m_pending_keys'[d] = m_pending_keys[d]
  <2>1. <<>> \in Seq(Nat) BY EmptySeq
  <2> QED BY <1>1, <1>4, <2>1 DEF Types
<1>12. UnitsFit'
  <2>1. state[c] \notin {"away", "backlog"} BY <1>3, IsUp
  <2>2. accepter'[c] \in 0..1 => r = accepter'[c]
    BY <1>1, <1>3, <1>4 DEF ConnsFit, Gone, MessageSize
  <2>3. r >= MessageSize /\ r % MessageSize = ui'[c]
    BY <1>8, <1>9, <1>10 DEF MessageSize
  <2>4. Range(m_pending_keys'[c]) \subseteq DOMAIN script[c]
    <3>1. DOMAIN m_pending_keys'[c] = {} BY <1>11, EmptySeq
    <3> QED BY <3>1 DEF Range
  <2> QED BY <1>4, <1>8, <1>10, <1>11, <2>1, <2>2, <2>3, <2>4, UnitsBut, Zenon
<1>13. child \in [Depth -> Children] BY <1>1 DEF Types
<1>14. QuietStack(stack') /\ child' \in [Depth -> Children]
  <2>1. QuietStack(Served) /\ DOMAIN Served = DOMAIN stack /\ Same(stack, Served)
    BY <1>1, <1>3, ServedIs
  <2> QED BY <1>1, <1>4, <1>13, <2>1, ThrowQuiet
<1>15. read' \in [Conn -> Nat] BY <1>1, <1>4, <1>8 DEF Types
<1>16. ui'[c] # Gone BY <1>10 DEF Gone
<1> QED BY <1>1, <1>4, <1>10, <1>11, <1>12, <1>14, <1>15, <1>16, Zenon
        DEF AllTypes, OtherTypes, ConnTypes, Types

(* Main alone is in progress when the trash is emptied.                      *)
LEMMA AloneAtMain ==
    ASSUME Types, CallsFit(stack), OnTop("main")
    PROVE  /\ Len(stack) = 1 /\ DOMAIN stack = {1} /\ stack[1] = Top /\ Top \in MainFrames
           /\ Depths(stack) = {} /\ \A c : ~IsHandled(c)
<1>1. /\ stack \in Seq(Frames) /\ Len(stack) \in DOMAIN stack /\ DOMAIN stack = 1..Len(stack)
      /\ Top = stack[Len(stack)] /\ Top \in Frames
  BY TopIs
<1>2. Top.at = "main" /\ Top \in MainFrames BY <1>1, FrameKinds DEF OnTop
<1>3. Len(stack) = 1 BY <1>1, <1>2, Positions, Zenon
<1>4. DOMAIN stack = {1} /\ stack[1].at = "main" BY <1>1, <1>2, <1>3
<1> QED BY <1>1, <1>2, <1>3, <1>4 DEF Depths, Evals, IsHandled

(* The watcher of a client. *)
LEMMA FdOfUi ==
    ASSUME Inv, NEW c \in Conn, ui[c] # Gone
    PROVE  /\ \E w \in Watchers : w.who = Ui(c) /\ w.fd = FdOf(Ui(c))
           /\ FdOf(Ui(c)) # None => fds[FdOf(Ui(c))] = <<"conn", c>>
           /\ FdOf(Ui(c)) \in 0..MaxFd
<1>1. \E w \in ToSet(m_fd_watchers) : w.who = Ui(c) BY DEF Inv, ConnsFit, Watchers
<1> DEFINE w == CHOOSE w \in ToSet(m_fd_watchers) : w.who = Ui(c)
<1>2. w \in Watchers /\ w.who = Ui(c) BY <1>1 DEF Watchers
<1>3. w.fd = FdOf(Ui(c)) BY DEF FdOf
<1> HIDE DEF w
<1>4. FitsIn(w, fds, Depths(stack), accepter, ui) BY <1>2 DEF Inv, WatchersFit, Fits
<1>5. w.fd # None => fds[w.fd] = <<"conn", c>> BY <1>2, <1>4, FitsUi
<1>6. w.fd \in 0..MaxFd BY <1>2, WatchersType, TheWatchers DEF Inv
<1> QED BY <1>2, <1>3, <1>5, <1>6

LEMMA EmptiesTrashQuiet ==
    ASSUME Inv, EmptiesTrash
    PROVE  QuietStack(stack') /\ AllTypes' /\ UnitsFit'
<1>1. Types /\ CallsFit(stack) /\ UnitsFit BY DEF Inv
<1>2. PICK c \in m_client_trash :
        /\ fds' = [fd \in DOMAIN fds |-> IF fd = FdOf(Ui(c)) THEN Closed ELSE fds[fd]]
        /\ m_fd_watchers' = UnorderedErase(m_fd_watchers, Ui(c))
        /\ m_client_trash' = m_client_trash \ {c}
        /\ ui' = [ui EXCEPT ![c] = Gone]
  BY Zenon DEF EmptiesTrash
<1>3. /\ UNCHANGED <<child, sigchld, m_clients, script, sent, read, state, accepter,
                     m_pending_keys, handled>>
      /\ OnTop("main")
  BY DEF EmptiesTrash, AtMain
<1> DEFINE f == [MainFrame EXCEPT !.pc = IF m_client_trash' = {} THEN "top" ELSE "trash"]
<1>4. stack' = Replaced(f) BY DEF EmptiesTrash
<1>5. f \in MainFrames /\ f.at = "main" BY DEF MainFrames, MainFrame
<1> HIDE DEF f
<1>6. Top.at = "main" BY <1>3 DEF OnTop
<1>7. f \in Frames /\ Alike(Top, f) BY <1>5, <1>6, FramesAre DEF Alike
<1>8. QuietStack(stack') BY <1>1, <1>4, <1>7, StackReplaced
<1>9. c \in Conn BY <1>1 DEF Types
<1>10. /\ ui' \in [Conn -> Gone..MessageSize - 1] /\ ui'[c] = Gone
       /\ \A d \in Conn : d # c => ui'[d] = ui[d]
  <2>1. ui \in [Conn -> Gone..MessageSize - 1] BY <1>1 DEF Types
  <2>2. Gone \in Gone..MessageSize - 1 BY DEF Gone, MessageSize
  <2> QED BY <1>2, <1>9, <2>1, <2>2
<1>11. m_fd_watchers' \in Seq(WatcherRecords) BY <1>2, Erasing
<1>12. fds' \in [1..MaxFd -> Objects \cup {Closed}] BY <1>1, <1>2 DEF Types
<1>13. UnitsFit'
  <2>1. \A d \in Conn : ui'[d] # Gone => ui'[d] = ui[d] BY <1>9, <1>10
  <2> QED BY <1>1, <1>3, <2>1 DEF UnitsFit, Units
<1> QED BY <1>1, <1>2, <1>3, <1>8, <1>10, <1>11, <1>12, <1>13, Zenon
        DEF AllTypes, OtherTypes, ConnTypes, Types

(* The clients: what is sent is of the script, in the pieces it is cut into. *)
LEMMA SendsFits ==
    ASSUME Inv, NEW c \in Conn, Sends(c)
    PROVE  sent' \in [Conn -> Nat] /\ UNCHANGED state
           /\ \A d \in Conn :
                /\ d # c => sent'[d] = sent[d]
                /\ sent[d] <= sent'[d] /\ sent'[d] <= Units(d)
                /\ sent'[d] % MessageSize # 0 => script[d][(sent'[d] \div MessageSize) + 1].cut
<1> DEFINE s == sent[c]
           h == s \div MessageSize
           cut == script[c][h + 1].cut
           r == s + (IF cut THEN 1 ELSE MessageSize)
           l == Len(script[c])
<1>1. sent \in [Conn -> Nat] /\ s \in Nat /\ l \in Nat BY UnitsOf, Zenon DEF Inv, Types
<1>2. s < 2 * l BY DEF Sends, Units, MessageSize
<1>3. sent' = [sent EXCEPT ![c] = r] /\ UNCHANGED state BY DEF Sends
<1>4. h \in Nat /\ s % MessageSize \in 0..1 /\ s = 2 * h + (s % MessageSize) BY <1>1, Halves
<1>5. s % MessageSize # 0 => cut BY DEF Inv, UnitsFit
<1>6. UnitsFit BY DEF Inv
<1> DEFINE b == s % MessageSize
<1> HIDE DEF s, h, cut, b, l
<1>7. b \in 0..1 /\ s = 2 * h + b /\ (b # 0 => cut) BY <1>4, <1>5 DEF b
<1>8. r \in Nat /\ r <= 2 * l /\ s <= r /\ (r % 2 # 0 => cut /\ r \div 2 = h)
  <2>1. CASE cut /\ b = 0
    <3>1. r = 2 * h + 1 BY <1>4, <1>7, <2>1
    <3>2. r \div 2 = h BY <1>4, <3>1
    <3> HIDE DEF r
    <3> QED BY <1>1, <1>2, <1>4, <1>7, <2>1, <3>1, <3>2
  <2>2. CASE cut /\ b = 1
    <3>1. r = 2 * (h + 1) BY <1>4, <1>7, <2>2
    <3>2. r % 2 = 0 BY <1>4, <3>1
    <3> HIDE DEF r
    <3> QED BY <1>1, <1>2, <1>4, <1>7, <2>2, <3>1, <3>2
  <2>3. CASE ~cut
    <3>1. b = 0 BY <1>7, <2>3
    <3>2. r = 2 * (h + 1) BY <1>4, <1>7, <2>3, <3>1 DEF MessageSize
    <3>3. r % 2 = 0 BY <1>4, <3>2
    <3> HIDE DEF r
    <3> QED BY <1>1, <1>2, <1>4, <1>7, <2>3, <3>1, <3>2, <3>3
  <2> QED BY <1>7, <2>1, <2>2, <2>3
<1> HIDE DEF r
<1>9. sent' \in [Conn -> Nat] /\ sent'[c] = r /\ \A d \in Conn : d # c => sent'[d] = sent[d]
  BY <1>1, <1>3, <1>8
<1>10. /\ sent[c] <= sent'[c] /\ sent'[c] <= Units(c)
       /\ sent'[c] % MessageSize # 0 => script[c][(sent'[c] \div MessageSize) + 1].cut
  BY <1>8, <1>9 DEF Units, MessageSize, l, cut, s
<1>11. ASSUME NEW d \in Conn, d # c
       PROVE  /\ sent[d] <= sent'[d] /\ sent'[d] <= Units(d)
              /\ sent'[d] % MessageSize # 0 => script[d][(sent'[d] \div MessageSize) + 1].cut
  <2>1. sent'[d] = sent[d] /\ sent[d] \in Nat BY <1>1, <1>9, <1>11
  <2> QED BY <1>6, <2>1 DEF UnitsFit
<1> QED BY <1>3, <1>9, <1>10, <1>11

LEMMA RemoteClientQuiet ==
    ASSUME Inv, RemoteClient
    PROVE  AllTypes' /\ UnitsFit' /\ stack' = stack
           /\ UNCHANGED <<fds, m_fd_watchers, accepter, ui, m_clients, m_client_trash, script>>
           /\ \A d \in Conn : /\ state[d] \in {"up", "down"} => state'[d] \in {"up", "down"}
                              /\ state'[d] \in {"away", "backlog"} =>
                                    state[d] \in {"away", "backlog"}
<1>1. Types /\ CallsFit(stack) /\ UnitsFit BY DEF Inv
<1>2. UNCHANGED <<fds, m_fd_watchers, stack, child, sigchld, m_clients, m_client_trash,
                  script, read, accepter, ui, m_pending_keys, handled>>
  BY DEF RemoteClient
<1>3. PICK c \in Conn : Connects(c) \/ Sends(c) \/ Disconnects(c) BY DEF RemoteClient
<1>4. /\ sent' \in [Conn -> Nat] /\ state' \in [Conn -> {"away", "backlog", "up", "down"}]
      /\ \A d \in Conn :
            /\ sent[d] <= sent'[d] /\ sent'[d] <= Units(d)
            /\ sent'[d] % MessageSize # 0 => script[d][(sent'[d] \div MessageSize) + 1].cut
            /\ state[d] \in {"up", "down"} => state'[d] \in {"up", "down"}
            /\ state'[d] \in {"away", "backlog"} => state[d] \in {"away", "backlog"}
  <2>1. state \in [Conn -> {"away", "backlog", "up", "down"}] /\ sent \in [Conn -> Nat]
    BY <1>1 DEF Types
  <2>2. \A d \in Conn :
            /\ sent[d] <= sent[d] /\ sent[d] <= Units(d)
            /\ sent[d] % MessageSize # 0 => script[d][(sent[d] \div MessageSize) + 1].cut
    BY <1>1, <2>1 DEF UnitsFit
  <2>3. CASE Connects(c)
    <3>1. sent' = sent /\ state' = [state EXCEPT ![c] = "backlog"] /\ state[c] = "away"
      BY <2>3 DEF Connects
    <3> QED BY <2>1, <2>2, <3>1
  <2>4. CASE Disconnects(c)
    <3>1. sent' = sent /\ state' = [state EXCEPT ![c] = "down"] /\ state[c] = "up"
      BY <2>4 DEF Disconnects
    <3> QED BY <2>1, <2>2, <3>1
  <2>5. CASE Sends(c) BY <2>1, <2>5, SendsFits
  <2> QED BY <1>3, <2>3, <2>4, <2>5
<1>5. UnitsFit'
  <2>1. \A d \in Conn : Units(d)' = Units(d) BY <1>2 DEF Units
  <2>2. \A d \in Conn : read[d] <= sent'[d]
    <3>1. \A d \in Conn : read[d] \in Nat /\ sent[d] \in Nat /\ sent'[d] \in Nat
      BY <1>1, <1>4 DEF Types
    <3> QED BY <1>1, <1>4, <3>1 DEF UnitsFit
  <2> QED BY <1>1, <1>2, <1>4, <2>1, <2>2 DEF UnitsFit
<1> QED BY <1>1, <1>2, <1>4, <1>5, Zenon DEF AllTypes, OtherTypes, ConnTypes, Types

-----------------------------------------------------------------------------
(* The kernel's lowest free numbers. *)
Free(t) == {fd \in 1..MaxFd : t[fd] = Closed}

LEMMA Ranks ==
    ASSUME NEW t
    PROVE  /\ IsFiniteSet(Free(t)) /\ Cardinality(Free(t)) \in Nat
           /\ \A fd \in Free(t) : Rank(t, fd) \in 1..Cardinality(Free(t))
           /\ \A a, b \in Free(t) : Rank(t, a) = Rank(t, b) => a = b
           /\ \A k \in 1..Cardinality(Free(t)) : \E fd \in Free(t) : Rank(t, fd) = k
<1> DEFINE F == Free(t)
           R(fd) == {other \in 1..fd : t[other] = Closed}
           n == Cardinality(F)
<1>1. IsFiniteSet(F) /\ n \in Nat
  <2>1. IsFiniteSet(1..MaxFd) BY MaxFdAssumption, FS_Interval
  <2>2. F \in SUBSET (1..MaxFd) BY DEF Free
  <2>3. IsFiniteSet(F) BY <2>1, <2>2, FS_Subset, Zenon
  <2> QED BY <2>3, FS_CardinalityType
<1>2. ASSUME NEW fd \in F
      PROVE  R(fd) \in SUBSET F /\ fd \in R(fd) /\ IsFiniteSet(R(fd)) /\ Rank(t, fd) \in 1..n
  <2>1. R(fd) \in SUBSET F /\ fd \in R(fd) BY MaxFdAssumption DEF Free
  <2>2. IsFiniteSet(R(fd)) /\ Cardinality(R(fd)) <= n BY <1>1, <2>1, FS_Subset
  <2>3. Cardinality(R(fd)) \in Nat /\ Cardinality(R(fd)) # 0
    <3>1. Cardinality(R(fd)) \in Nat BY <2>2, FS_CardinalityType
    <3>2. R(fd) # {} BY <2>1
    <3> HIDE DEF R
    <3> QED BY <2>2, <3>1, <3>2, FS_EmptySet
  <2>4. Rank(t, fd) = Cardinality(R(fd)) BY DEF Rank
  <2> HIDE DEF R, n
  <2> QED BY <1>1, <2>1, <2>2, <2>3, <2>4
<1>3. ASSUME NEW a \in F, NEW b \in F, a < b PROVE Rank(t, a) # Rank(t, b)
  <2>1. R(a) \in SUBSET R(b) /\ b \notin R(a) BY <1>3, MaxFdAssumption DEF Free
  <2>2. b \in R(b) /\ IsFiniteSet(R(b)) BY <1>2, Zenon
  <2>3. Rank(t, a) = Cardinality(R(a)) /\ Rank(t, b) = Cardinality(R(b)) BY DEF Rank
  <2>4. R(a) # R(b) BY <2>1, <2>2
  <2> HIDE DEF R
  <2> QED BY <2>1, <2>2, <2>3, <2>4, FS_Subset
<1>4. \A a, b \in F : Rank(t, a) = Rank(t, b) => a = b
  <2> SUFFICES ASSUME NEW a \in F, NEW b \in F, Rank(t, a) = Rank(t, b), a # b PROVE FALSE
    OBVIOUS
  <2>1. a < b \/ b < a BY MaxFdAssumption DEF Free
  <2> QED BY <1>3, <2>1
<1> DEFINE f == [fd \in F |-> Rank(t, fd)]
<1>5. f \in Injection(F, 1..n)
  <2>1. f \in [F -> 1..n] BY <1>2, Zenon
  <2>2. \A a, b \in DOMAIN f : f[a] = f[b] => a = b BY <1>4
  <2> HIDE DEF f
  <2> QED BY <2>1, <2>2 DEF Injection, IsInjective
<1>6. IsFiniteSet(1..n) /\ Cardinality(1..n) = n
  <2> HIDE DEF n
  <2> QED BY <1>1, FS_Interval
<1>7. f \in Surjection(F, 1..n)
  <2>1. Cardinality(F) = Cardinality(1..n) BY <1>6
  <2> HIDE DEF f, n
  <2> QED BY <1>5, <1>6, <2>1, FS_Injection
<1>8. \A k \in 1..n : \E fd \in F : Rank(t, fd) = k
  <2>1. \A k \in 1..n : \E fd \in F : f[fd] = k BY <1>7, Zenon DEF Surjection
  <2>2. \A fd \in F : f[fd] = Rank(t, fd) OBVIOUS
  <2> HIDE DEF f, n
  <2> QED BY <2>1, <2>2
<1> QED BY <1>1, <1>2, <1>4, <1>8, Zenon

(* What is opened has a number, each its own, and what was open stays.       *)
Opens(t, objects, r) ==
    /\ \A fd \in 1..MaxFd : t[fd] # Closed => r[fd] = t[fd]
    /\ \A fd \in 1..MaxFd : t[fd] = Closed =>
             r[fd] = Closed \/ \E i \in 1..Len(objects) : r[fd] = objects[i]
    /\ \A i \in 1..Len(objects) : \E fd \in 1..MaxFd : r[fd] = objects[i]
    /\ \A a, b \in 1..MaxFd : r[a] # Closed /\ r[a] = r[b] => a = b

LEMMA OpenedIs ==
    ASSUME NEW S, NEW t \in [1..MaxFd -> S], NEW objects \in Seq(S),
           Len(objects) <= Cardinality(Free(t)), Closed \in S,
           \A i, j \in 1..Len(objects) : objects[i] = objects[j] => i = j,
           \A i \in 1..Len(objects) :
                objects[i] # Closed /\ \A fd \in 1..MaxFd : t[fd] # objects[i],
           \A a, b \in 1..MaxFd : t[a] # Closed /\ t[a] = t[b] => a = b
    PROVE  Opened(t, objects) \in [1..MaxFd -> S] /\ Opens(t, objects, Opened(t, objects))
<1> DEFINE r == Opened(t, objects)
           n == Len(objects)
<1>1. n \in Nat /\ \A i \in 1..n : objects[i] \in S BY LenProperties, ElementOfSeq
<1>2. DOMAIN t = 1..MaxFd OBVIOUS
<1>3. \A fd \in 1..MaxFd :
        r[fd] = IF t[fd] = Closed /\ Rank(t, fd) <= n THEN objects[Rank(t, fd)] ELSE t[fd]
  BY <1>2 DEF Opened
<1>4. DOMAIN r = 1..MaxFd /\ r = [fd \in 1..MaxFd |-> r[fd]] BY <1>2 DEF Opened
<1>5. /\ Cardinality(Free(t)) \in Nat
      /\ \A fd \in Free(t) : Rank(t, fd) \in 1..Cardinality(Free(t))
      /\ \A a, b \in Free(t) : Rank(t, a) = Rank(t, b) => a = b
      /\ \A k \in 1..Cardinality(Free(t)) : \E fd \in Free(t) : Rank(t, fd) = k
  BY Ranks
<1> DEFINE m == Cardinality(Free(t))
<1> HIDE DEF r, n, m
<1>6. \A fd \in 1..MaxFd : t[fd] # Closed => r[fd] = t[fd] BY <1>3
<1>7. \A fd \in 1..MaxFd : t[fd] = Closed =>
            \/ r[fd] = Closed
            \/ Rank(t, fd) \in 1..n /\ r[fd] = objects[Rank(t, fd)]
  <2> SUFFICES ASSUME NEW fd \in 1..MaxFd, t[fd] = Closed, Rank(t, fd) <= n
               PROVE  Rank(t, fd) \in 1..n /\ r[fd] = objects[Rank(t, fd)]
    BY <1>3
  <2>1. fd \in Free(t) BY DEF Free
  <2>2. Rank(t, fd) \in 1..m BY <1>5, <2>1 DEF m
  <2>3. Rank(t, fd) \in 1..n BY <1>1, <1>5, <2>2 DEF m
  <2> QED BY <1>3, <2>3
<1>8. \A fd \in 1..MaxFd : r[fd] \in S
  <2> SUFFICES ASSUME NEW fd \in 1..MaxFd PROVE r[fd] \in S OBVIOUS
  <2>1. CASE t[fd] # Closed BY <1>6, <2>1
  <2>2. CASE t[fd] = Closed BY <1>1, <1>7, <2>2
  <2> QED BY <2>1, <2>2
<1>9. r \in [1..MaxFd -> S] BY <1>4, <1>8
<1>10. ASSUME NEW i \in 1..n PROVE \E fd \in 1..MaxFd : t[fd] = Closed /\ r[fd] = objects[i]
  <2>1. n <= m BY DEF n, m
  <2>2. i \in 1..m BY <1>1, <1>5, <2>1 DEF m
  <2>3. PICK fd \in Free(t) : Rank(t, fd) = i BY <1>5, <2>2 DEF m
  <2>4. fd \in 1..MaxFd /\ t[fd] = Closed BY DEF Free
  <2>5. i <= n BY <1>1
  <2> QED BY <1>3, <2>3, <2>4, <2>5
<1>11. ASSUME NEW a \in 1..MaxFd, NEW b \in 1..MaxFd, r[a] = r[b], r[a] # Closed, t[a] = Closed
       PROVE  a = b
  <2>1. Rank(t, a) \in 1..n /\ r[a] = objects[Rank(t, a)] BY <1>7, <1>11
  <2>2. t[b] = Closed
    <3>1. t[b] # objects[Rank(t, a)] BY <2>1 DEF n
    <3> QED BY <1>6, <1>11, <2>1, <3>1, Zenon
  <2>3. Rank(t, b) \in 1..n /\ r[b] = objects[Rank(t, b)] BY <1>7, <1>11, <2>2
  <2>4. Rank(t, a) = Rank(t, b) BY <1>11, <2>1, <2>3, Zenon DEF n
  <2>5. a \in Free(t) /\ b \in Free(t) BY <1>11, <2>2 DEF Free
  <2> QED BY <1>5, <2>4, <2>5
<1>12. \A fd \in 1..MaxFd : t[fd] = Closed =>
            r[fd] = Closed \/ \E i \in 1..n : r[fd] = objects[i]
  BY <1>7
<1>13. ASSUME NEW a \in 1..MaxFd, NEW b \in 1..MaxFd, r[a] # Closed, r[a] = r[b]
       PROVE  a = b
  <2>1. CASE t[a] = Closed BY <1>11, <1>13, <2>1
  <2>2. CASE t[b] = Closed BY <1>11, <1>13, <2>2
  <2>3. CASE t[a] # Closed /\ t[b] # Closed BY <1>6, <1>13, <2>3
  <2> QED BY <2>1, <2>2, <2>3
<1>14. \A i \in 1..n : \E fd \in 1..MaxFd : r[fd] = objects[i] BY <1>10
<1>15. Opens(t, objects, r) BY <1>6, <1>12, <1>13, <1>14 DEF n, Opens
<1> QED BY <1>9, <1>15 DEF r

(* HasFree counts the numbers that are left. *)
LEMMA FreeAreCounted ==
    ASSUME NEW t, NEW n \in Nat, HasFree(t, n)
    PROVE  n <= Cardinality(Free(t))
<1>1. Rank(t, MaxFd) = Cardinality(Free(t)) BY DEF Rank, Free
<1>2. Cardinality(Free(t)) \in Nat BY Ranks
<1> QED BY <1>1, <1>2 DEF HasFree

-----------------------------------------------------------------------------
(* What stays true of calls, connections, watchers and descriptors.          *)
LEMMA AccWatches ==
    ASSUME NEW w, NEW table, NEW depths, NEW accs, NEW uis, NEW c, w.who = Acc(c),
           FitsIn(w, table, depths, accs, uis)
    PROVE  accs[c] # Gone /\ w.fd # None /\ (uis[c] = Gone => table[w.fd] = <<"conn", c>>)
<1>1. w.who # Listener /\ w.who[1] = "accepter" /\ w.who[2] = c BY DEF Listener, Acc
<1> QED BY <1>1 DEF FitsIn

LEMMA UiWatches ==
    ASSUME NEW w, NEW table, NEW depths, NEW accs, NEW uis, NEW c, w.who = Ui(c),
           FitsIn(w, table, depths, accs, uis)
    PROVE  uis[c] # Gone /\ (w.fd # None => table[w.fd] = <<"conn", c>>)
<1>1. w.who # Listener /\ w.who[1] = "ui" /\ w.who[2] = c BY DEF Listener, Ui
<1> QED BY <1>1 DEF FitsIn

LEMMA ShellWatches ==
    ASSUME NEW w, NEW table, NEW depths, NEW accs, NEW uis, NEW k \in {"fifo", "in", "out"},
           NEW d, w.who = <<k, d>>, FitsIn(w, table, depths, accs, uis)
    PROVE  d \in depths /\ (w.fd # None => table[w.fd] = <<k, d>>)
<1>1. w.who # Listener /\ w.who[1] = k /\ w.who[2] = d BY DEF Listener
<1> QED BY <1>1 DEF FitsIn

LEMMA FitsStill ==
    ASSUME NEW w \in WatcherRecords, NEW x \in WatcherRecords, x.who = w.who,
           NEW t, NEW t2, NEW depths, NEW depths2, NEW accs, NEW accs2, NEW uis, NEW uis2,
           FitsIn(w, t, depths, accs, uis),
           w.who = Listener => x.fd = w.fd /\ t2[x.fd] = t[w.fd],
           \A c \in Conn : w.who = Acc(c) =>
                /\ accs2[c] # Gone /\ x.fd = w.fd
                /\ uis2[c] = Gone => uis[c] = Gone /\ t2[x.fd] = t[w.fd],
           \A c \in Conn : w.who = Ui(c) =>
                uis2[c] # Gone /\ (x.fd # None => x.fd = w.fd /\ t2[x.fd] = t[w.fd]),
           \A d \in Depth : \A k \in {"fifo", "in", "out"} : w.who = <<k, d>> =>
                /\ d \in depths2
                /\ x.fd # None => (x.fd = w.fd /\ t2[x.fd] = t[w.fd]) \/ t2[x.fd] = <<k, d>>
    PROVE  FitsIn(x, t2, depths2, accs2, uis2)
<1>1. CASE w.who = Listener
  <2>1. w.fd # None /\ t[w.fd] = Listener BY <1>1, FitsListener
  <2>2. x.fd # None /\ t2[x.fd] = Listener /\ x.who = Listener BY <1>1, <2>1
  <2> QED BY <2>2, FitsListener
<1>2. ASSUME NEW c \in Conn, w.who = Acc(c) PROVE FitsIn(x, t2, depths2, accs2, uis2)
  <2>1. accs[c] # Gone /\ w.fd # None /\ (uis[c] = Gone => t[w.fd] = <<"conn", c>>)
    <3>1. w.who # Listener /\ w.who[1] = "accepter" /\ w.who[2] = c BY <1>2 DEF Listener, Acc
    <3> QED BY <3>1 DEF FitsIn
  <2>2. /\ accs2[c] # Gone /\ x.fd # None /\ x.who = Acc(c)
        /\ uis2[c] = Gone => t2[x.fd] = <<"conn", c>>
    BY <1>2, <2>1
  <2>3. CASE uis2[c] = Gone BY <2>2, <2>3, FitsAcc
  <2>4. CASE uis2[c] # Gone BY <2>2, <2>4, FitsAcc
  <2> QED BY <2>3, <2>4
<1>3. ASSUME NEW c \in Conn, w.who = Ui(c) PROVE FitsIn(x, t2, depths2, accs2, uis2)
  <2>1. w.fd # None => t[w.fd] = <<"conn", c>>
    <3>1. w.who # Listener /\ w.who[1] = "ui" /\ w.who[2] = c BY <1>3 DEF Listener, Ui
    <3> QED BY <3>1 DEF FitsIn
  <2>2. uis2[c] # Gone /\ x.who = Ui(c) /\ (x.fd # None => t2[x.fd] = <<"conn", c>>)
    BY <1>3, <2>1
  <2> QED BY <2>2, FitsUi
<1>4. ASSUME NEW k \in {"fifo", "in", "out"}, NEW d \in Depth, w.who = <<k, d>>
      PROVE  FitsIn(x, t2, depths2, accs2, uis2)
  <2>1. w.fd # None => t[w.fd] = <<k, d>> BY <1>4, ShellWatches
  <2>2. x.who = <<k, d>> /\ d \in depths2 /\ (x.fd # None => t2[x.fd] = <<k, d>>)
    BY <1>4, <2>1
  <2> QED BY <2>2, FitsShell
<1> QED BY <1>1, <1>2, <1>3, <1>4, TheWatchers

LEMMA FramesFitNow ==
    ASSUME Inv, QuietStack(stack')
    PROVE  \A i \in DOMAIN stack' : FrameFits(stack'[i], ui, fds) /\ stack'[i] \in Frames
<1>1. stack \in Seq(Frames) /\ \A i \in DOMAIN stack : FrameFits(stack[i], ui, fds)
  BY DEF Inv, Types, FramesFit
<1>2. /\ stack' \in Seq(Frames) /\ Keeps(stack, stack')
      /\ \A i \in DOMAIN stack' \ DOMAIN stack :
            /\ stack'[i].at \notin {"eval", "connect", "command", "keys"}
            /\ FrameFits(stack'[i], ui, fds)
  BY DEF QuietStack
<1>3. \A i \in DOMAIN stack' : stack'[i] \in Frames BY <1>2, LenProperties, ElementOfSeq
<1> QED BY <1>1, <1>2, <1>3, FramesKept

LEMMA ClientOf ==
    ASSUME NEW f \in Frames
    PROVE  /\ f.at \in {"run", "eval"} => f.client = NoClient \/ f.client \in Conn
           /\ f.at \in {"keys", "connect", "command"} => f.c \in Conn
           /\ f.at \in {"command", "fifo"} => f.fd \in 1..MaxFd
<1>1. f.at = "run" => f.client \in Clients BY FrameKinds DEF RunFrames
<1>2. f.at = "eval" => f.client \in Clients BY FrameKinds DEF EvalFrames
<1>3. f.at = "keys" => f.c \in Conn BY FrameKinds DEF KeysFrames
<1>4. f.at = "connect" => f.c \in Conn BY FrameKinds DEF ConnectFrames
<1>5. f.at = "command" => f.c \in Conn /\ f.fd \in 1..MaxFd BY FrameKinds DEF CommandFrames
<1>6. f.at = "fifo" => f.fd \in 1..MaxFd BY FrameKinds DEF FifoFrames
<1> QED BY <1>1, <1>2, <1>3, <1>4, <1>5, <1>6 DEF Clients

LEMMA FrameStays ==
    ASSUME NEW f \in Frames, NEW u, NEW u2, NEW t, NEW t2, FrameFits(f, u, t),
           \A c \in Conn : u2[c] = Gone <=> u[c] = Gone,
           f.at \in {"command", "fifo"} => t2[f.fd] = t[f.fd]
    PROVE  FrameFits(f, u2, t2)
BY ClientOf DEF FrameFits

LEMMA FramesAfter ==
    ASSUME Inv, QuietStack(stack'), script' = script,
           \A c \in Conn : ui'[c] = Gone <=> ui[c] = Gone,
           \A i \in DOMAIN stack' :
                stack'[i].at \in {"command", "fifo"} => fds'[stack'[i].fd] = fds[stack'[i].fd]
    PROVE  FramesFit'
<1>1. \A i \in DOMAIN stack' : FrameFits(stack'[i], ui, fds) /\ stack'[i] \in Frames
  BY FramesFitNow
<1>2. \A i \in DOMAIN stack' : FrameFits(stack'[i], ui', fds') BY <1>1, FrameStays
<1>3. \A i \in DOMAIN stack' : FrameFits(stack[i], ui, fds)' BY <1>2 DEF FrameFits
<1> QED BY <1>3 DEF FramesFit

LEMMA QuietKeeps ==
    ASSUME Inv, QuietStack(stack')
    PROVE  Depths(stack') = Depths(stack) /\ HandledIn(stack') = HandledIn(stack)
           /\ \A c : IsHandled(c)' <=> IsHandled(c)
<1>1. stack \in Seq(Frames) BY DEF Inv, Types
<1>2. Depths(stack') = Depths(stack) /\ HandledIn(stack') = HandledIn(stack)
  BY <1>1, KeepsFacts DEF QuietStack
<1>3. \A c : (IsHandled(c) <=> c \in HandledIn(stack)) /\ (IsHandled(c)' <=> c \in HandledIn(stack'))
  BY HandledOnes DEF IsHandled, HandledIn
<1> QED BY <1>2, <1>3

(* The connections, when none is made, accepted or given up.                 *)
SameConns == \A c \in Conn :
    /\ ui'[c] = Gone <=> ui[c] = Gone
    /\ accepter'[c] = Gone <=> accepter[c] = Gone
    /\ accepter'[c] = MessageSize <=> accepter[c] = MessageSize
SameClients ==
    /\ \A c \in ToSet(m_clients') \cup m_client_trash' : c \in Conn /\ ui[c] # Gone
    /\ ToSet(m_clients') \cap m_client_trash' = {}
    /\ \A i, j \in DOMAIN m_clients' : m_clients'[i] = m_clients'[j] => i = j

LEMMA ConnsLeft ==
    ASSUME Inv, \A c : IsHandled(c)' <=> IsHandled(c), SameConns, SameClients, AllTypes',
           \A c \in Conn : state'[c] \in {"away", "backlog"} => state[c] \in {"away", "backlog"},
           \A c \in Conn, w \in Watchers : w.who = Ui(c) => \E x \in Watchers' : x.who = Ui(c)
    PROVE  ConnsFit'
<1>1. ConnsFit BY DEF Inv
<1>2. ASSUME NEW c \in Conn
      PROVE  /\ accepter'[c] = MessageSize <=> IsHandled(c)'
             /\ ui'[c] # Gone => accepter'[c] \in {Gone, MessageSize}
             /\ state'[c] \in {"away", "backlog"} => accepter'[c] = Gone /\ ui'[c] = Gone
             /\ ui'[c] # Gone => \E w \in Watchers' : w.who = Ui(c)
  <2>1. accepter'[c] = MessageSize <=> IsHandled(c)' BY <1>1 DEF ConnsFit, SameConns
  <2>2. ui'[c] # Gone => accepter'[c] \in {Gone, MessageSize} BY <1>1 DEF ConnsFit, SameConns
  <2>3. state'[c] \in {"away", "backlog"} => accepter'[c] = Gone /\ ui'[c] = Gone
    BY <1>1 DEF ConnsFit, SameConns
  <2>4. ui'[c] # Gone => \E w \in Watchers' : w.who = Ui(c) BY <1>1 DEF ConnsFit, SameConns
  <2> QED BY <2>1, <2>2, <2>3, <2>4
<1>3. \A c \in ToSet(m_clients') \cup m_client_trash' : ui'[c] # Gone
  BY DEF SameConns, SameClients
<1>4. \A c : Ui(c)' = Ui(c) BY DEF Ui
<1> QED BY <1>2, <1>3, <1>4 DEF ConnsFit, SameClients

LEMMA ConnsAfter ==
    ASSUME Inv, \A c : IsHandled(c)' <=> IsHandled(c), SameConns, SameClients, AllTypes',
           \A c \in Conn : state'[c] \in {"away", "backlog"} => state[c] \in {"away", "backlog"},
           \A w \in Watchers : \E x \in Watchers' : x.who = w.who
    PROVE  ConnsFit'
<1>1. \A c \in Conn, w \in Watchers : w.who = Ui(c) => \E x \in Watchers' : x.who = Ui(c)
  OBVIOUS
<1> QED BY <1>1, ConnsLeft

LEMMA TheClients ==
    ASSUME Inv
    PROVE  \A c \in ToSet(m_clients) \cup m_client_trash : c \in Conn /\ ui[c] # Gone
<1>1. m_clients \in Seq(Conn) /\ m_client_trash \subseteq Conn BY DEF Inv, Types
<1>2. \A i \in DOMAIN m_clients : m_clients[i] \in Conn BY <1>1, LenProperties, ElementOfSeq
<1> QED BY <1>1, <1>2 DEF ToSet, Inv, ConnsFit

LEMMA ClientsStay ==
    ASSUME Inv, UNCHANGED <<m_clients, m_client_trash>>
    PROVE  SameClients
BY TheClients DEF Inv, ConnsFit, SameClients

(* The watchers, one by one. *)
LEMMA WatchersAfter ==
    ASSUME Inv, SameConns, Depths(stack') = Depths(stack), m_fd_watchers' \in Seq(WatcherRecords),
           DOMAIN m_fd_watchers' = DOMAIN m_fd_watchers,
           \A i \in DOMAIN m_fd_watchers :
                LET w == m_fd_watchers[i] x == m_fd_watchers'[i]
                IN  /\ x.who = w.who
                    /\ \/ x.fd = w.fd /\ (w.fd # None => fds'[w.fd] = fds[w.fd])
                       \/ x.fd = w.fd /\ \E c \in Conn : w.who = Acc(c) /\ ui[c] # Gone
                       \/ x.fd = None /\ \E c \in Conn : w.who = Ui(c)
                       \/ w.who \in ShellEnds /\ (x.fd = None \/ fds'[x.fd] = w.who)
    PROVE  WatchersFit' /\ \A w \in Watchers : \E x \in Watchers' : x.who = w.who
<1>1. /\ WatchersFit /\ m_fd_watchers \in Seq(WatcherRecords)
      /\ \A i \in DOMAIN m_fd_watchers : m_fd_watchers[i] \in WatcherRecords
      /\ \A i \in DOMAIN m_fd_watchers' : m_fd_watchers'[i] \in WatcherRecords
  BY LenProperties, ElementOfSeq DEF Inv, Types
<1>2. ASSUME NEW i \in DOMAIN m_fd_watchers
      PROVE  FitsIn(m_fd_watchers'[i], fds', Depths(stack'), accepter', ui')
  <2> DEFINE w == m_fd_watchers[i]
             x == m_fd_watchers'[i]
  <2>1. /\ w \in WatcherRecords /\ x \in WatcherRecords /\ x.who = w.who
        /\ FitsIn(w, fds, Depths(stack), accepter, ui)
    BY <1>1 DEF WatchersFit, Watchers, ToSet, Fits
  <2>2. \/ x.fd = w.fd /\ (w.fd # None => fds'[w.fd] = fds[w.fd])
        \/ x.fd = w.fd /\ \E c \in Conn : w.who = Acc(c) /\ ui[c] # Gone
        \/ x.fd = None /\ \E c \in Conn : w.who = Ui(c)
        \/ w.who \in ShellEnds /\ (x.fd = None \/ fds'[x.fd] = w.who)
    OBVIOUS
  <2> HIDE DEF w, x
  <2>3. w.who = Listener => x.fd = w.fd /\ fds'[x.fd] = fds[w.fd]
    <3> SUFFICES ASSUME w.who = Listener PROVE x.fd = w.fd /\ fds'[x.fd] = fds[w.fd] OBVIOUS
    <3>1. w.fd # None BY <2>1, FitsListener
    <3>2. w.who \notin ShellEnds /\ \A c : w.who # Acc(c) /\ w.who # Ui(c)
      BY DEF Listener, ShellEnds, Acc, Ui
    <3> QED BY <2>2, <3>1, <3>2
  <2>4. \A c \in Conn : w.who = Acc(c) =>
                /\ accepter'[c] # Gone /\ x.fd = w.fd
                /\ ui'[c] = Gone => ui[c] = Gone /\ fds'[x.fd] = fds[w.fd]
    <3> SUFFICES ASSUME NEW c \in Conn, w.who = Acc(c)
                 PROVE  /\ accepter'[c] # Gone /\ x.fd = w.fd
                        /\ ui'[c] = Gone => ui[c] = Gone /\ fds'[x.fd] = fds[w.fd]
      OBVIOUS
    <3>1. accepter[c] # Gone /\ w.fd # None
      <4>1. w.who # Listener /\ w.who[1] = "accepter" /\ w.who[2] = c BY DEF Listener, Acc
      <4> QED BY <2>1, <4>1 DEF FitsIn
    <3>2. w.who \notin ShellEnds /\ (\A e : w.who # Ui(e)) /\ \A e : w.who = Acc(e) => e = c
      BY DEF ShellEnds, Acc, Ui
    <3> QED BY <2>2, <3>1, <3>2 DEF SameConns
  <2>5. \A c \in Conn : w.who = Ui(c) =>
                ui'[c] # Gone /\ (x.fd # None => x.fd = w.fd /\ fds'[x.fd] = fds[w.fd])
    <3> SUFFICES ASSUME NEW c \in Conn, w.who = Ui(c)
                 PROVE  ui'[c] # Gone /\ (x.fd # None => x.fd = w.fd /\ fds'[x.fd] = fds[w.fd])
      OBVIOUS
    <3>1. ui[c] # Gone BY <2>1, UiWatches
    <3>2. w.who \notin ShellEnds /\ (\A e : w.who # Acc(e))
      BY DEF ShellEnds, Acc, Ui
    <3> QED BY <2>2, <3>1, <3>2 DEF SameConns
  <2>6. \A d \in Depth : \A k \in {"fifo", "in", "out"} : w.who = <<k, d>> =>
                /\ d \in Depths(stack')
                /\ x.fd # None => (x.fd = w.fd /\ fds'[x.fd] = fds[w.fd]) \/ fds'[x.fd] = <<k, d>>
    <3> SUFFICES ASSUME NEW d \in Depth, NEW k \in {"fifo", "in", "out"}, w.who = <<k, d>>
                 PROVE  /\ d \in Depths(stack')
                        /\ x.fd # None =>
                              (x.fd = w.fd /\ fds'[x.fd] = fds[w.fd]) \/ fds'[x.fd] = <<k, d>>
      OBVIOUS
    <3>1. d \in Depths(stack) BY <2>1, ShellWatches
    <3>2. \A e : w.who # Acc(e) /\ w.who # Ui(e) BY DEF Acc, Ui
    <3> QED BY <2>2, <3>1, <3>2
  <2>7. FitsIn(x, fds', Depths(stack'), accepter', ui')
    BY <2>1, <2>3, <2>4, <2>5, <2>6, FitsStill
  <2> QED BY <2>7 DEF x
<1>3. \A w \in Watchers' : FitsIn(w, fds', Depths(stack'), accepter', ui')
  BY <1>2 DEF Watchers, ToSet
<1>4. \A w \in Watchers' : Fits(w)' BY <1>3, Zenon DEF Fits, FitsIn
<1>5. \A i, j \in DOMAIN m_fd_watchers' :
        m_fd_watchers'[i].who = m_fd_watchers'[j].who => i = j
  BY <1>1 DEF WatchersFit
<1>6. WatchersFit' BY <1>4, <1>5 DEF WatchersFit
<1>7. \A w \in Watchers : \E x \in Watchers' : x.who = w.who BY DEF Watchers, ToSet
<1> QED BY <1>6, <1>7

LEMMA FdsAfter ==
    ASSUME Inv, AllTypes', Depths(stack') = Depths(stack),
           \A fd \in 1..MaxFd : fds'[fd] = fds[fd] \/ fds'[fd] = Closed,
           \A c \in Conn : state[c] \in {"up", "down"} => state'[c] \in {"up", "down"}
    PROVE  FdsFit'
<1>1. FdsFit BY DEF Inv
<1>2. Closed \notin ShellEnds /\ Closed \notin Conns /\ Closed \notin Leaks
  BY LeaksAre DEF Closed, ShellEnds, Conns
<1>3. \A a, b \in 1..MaxFd : fds'[a] # Closed /\ fds'[a] = fds'[b] => a = b
  BY <1>1 DEF FdsFit
<1>4. ASSUME NEW fd \in 1..MaxFd
      PROVE  /\ fds'[fd] \in ShellEnds => fds'[fd][2] \in Depths(stack')
             /\ fds'[fd] \in Conns => state'[fds'[fd][2]] \in {"up", "down"}
             /\ fds'[fd] \in Leaks => fds'[fd] = Leaked(fd)
  <2>1. CASE fds'[fd] = Closed BY <1>2, <2>1
  <2>2. CASE fds'[fd] = fds[fd]
    <3>1. fds'[fd] \in Conns => fds'[fd][2] \in Conn BY DEF Conns
    <3> QED BY <1>1, <2>2, <3>1 DEF FdsFit
  <2> QED BY <2>1, <2>2
<1> QED BY <1>3, <1>4 DEF FdsFit

LEMMA TheWatched ==
    ASSUME Inv, NEW w \in Watchers
    PROVE  \/ w.who = Listener /\ w.fd # None /\ fds[w.fd] = Listener
           \/ \E c \in Conn : /\ w.who = Acc(c) /\ accepter[c] # Gone /\ w.fd # None
                              /\ ui[c] = Gone => fds[w.fd] = <<"conn", c>>
           \/ \E c \in Conn : /\ w.who = Ui(c) /\ ui[c] # Gone
                              /\ w.fd # None => fds[w.fd] = <<"conn", c>>
           \/ /\ w.who \in ShellEnds /\ w.who[2] \in Depths(stack)
              /\ w.fd # None => fds[w.fd] = w.who
<1>1. w \in WatcherRecords /\ FitsIn(w, fds, Depths(stack), accepter, ui)
  BY WatchersType DEF Inv, WatchersFit, Fits
<1>2. CASE w.who = Listener
  <2>1. w.fd # None /\ fds[w.fd] = Listener BY <1>1, <1>2, FitsListener
  <2> QED BY <1>2, <2>1
<1>3. ASSUME NEW c \in Conn, w.who = Acc(c)
      PROVE  /\ accepter[c] # Gone /\ w.fd # None
             /\ ui[c] = Gone => fds[w.fd] = <<"conn", c>>
  <2>1. w.who # Listener /\ w.who[1] = "accepter" /\ w.who[2] = c BY <1>3 DEF Listener, Acc
  <2> QED BY <1>1, <2>1 DEF FitsIn
<1>4. ASSUME NEW c \in Conn, w.who = Ui(c)
      PROVE  ui[c] # Gone /\ (w.fd # None => fds[w.fd] = <<"conn", c>>)
  <2>1. w.who # Listener /\ w.who[1] = "ui" /\ w.who[2] = c BY <1>4 DEF Listener, Ui
  <2> QED BY <1>1, <2>1 DEF FitsIn
<1>5. ASSUME NEW k \in {"fifo", "in", "out"}, NEW d \in Depth, w.who = <<k, d>>
      PROVE  /\ w.who \in ShellEnds /\ w.who[2] \in Depths(stack)
             /\ w.fd # None => fds[w.fd] = w.who
  <2>1. w.who # Listener /\ w.who[1] = k /\ w.who[2] = d BY <1>5 DEF Listener
  <2>2. d \in Depths(stack) /\ (w.fd # None => fds[w.fd] = w.who) BY <1>1, <2>1 DEF FitsIn
  <2> QED BY <1>5, <2>1, <2>2 DEF ShellEnds
<1>6. CASE \E c \in Conn : w.who = Acc(c) BY <1>3, <1>6
<1>7. CASE \E c \in Conn : w.who = Ui(c) BY <1>4, <1>7
<1>8. CASE \E k \in {"fifo", "in", "out"}, d \in Depth : w.who = <<k, d>> BY <1>5, <1>8
<1> QED BY <1>1, <1>2, <1>6, <1>7, <1>8, TheWatchers

LEMMA WatchersErased ==
    ASSUME Inv, NEW who, m_fd_watchers' = UnorderedErase(m_fd_watchers, who),
           \A w \in Watchers : w.who # who =>
                FitsIn(w, fds', Depths(stack'), accepter', ui')
    PROVE  WatchersFit' /\ \A w \in Watchers : w.who # who => w \in Watchers'
<1>1. /\ \A i, j \in DOMAIN m_fd_watchers' :
            m_fd_watchers'[i].who = m_fd_watchers'[j].who => i = j
      /\ Watchers' = {w \in Watchers : w.who # who}
  BY Erasing DEF Watchers
<1>2. \A w \in Watchers' : Fits(w)' BY <1>1 DEF Fits, FitsIn
<1> QED BY <1>1, <1>2 DEF WatchersFit

(* A step that opens nothing, makes no client and ends none. *)
WatcherStays(w, x) ==
    /\ x.who = w.who
    /\ \/ x.fd = w.fd /\ (w.fd # None => fds'[w.fd] = fds[w.fd])
       \/ x.fd = w.fd /\ \E c \in Conn : w.who = Acc(c) /\ ui[c] # Gone
       \/ x.fd = None /\ \E c \in Conn : w.who = Ui(c)
       \/ w.who \in ShellEnds /\ (x.fd = None \/ fds'[x.fd] = w.who)

LEMMA QuietInv ==
    ASSUME Inv, QuietStack(stack'), AllTypes', UnitsFit', script' = script, SameConns, SameClients,
           \A c \in Conn : state[c] \in {"up", "down"} => state'[c] \in {"up", "down"},
           \A fd \in 1..MaxFd : fds'[fd] = fds[fd] \/ fds'[fd] = Closed,
           \A i \in DOMAIN stack' :
                stack'[i].at \in {"command", "fifo"} => fds'[stack'[i].fd] = fds[stack'[i].fd],
           DOMAIN m_fd_watchers' = DOMAIN m_fd_watchers,
           \A i \in DOMAIN m_fd_watchers : WatcherStays(m_fd_watchers[i], m_fd_watchers'[i])
    PROVE  Inv'
<1>1. /\ Depths(stack') = Depths(stack) /\ \A c : IsHandled(c)' <=> IsHandled(c) BY QuietKeeps
<1>2. m_fd_watchers' \in Seq(WatcherRecords)
  BY DEF AllTypes, OtherTypes
<1>3. WatchersFit' /\ \A w \in Watchers : \E x \in Watchers' : x.who = w.who
  BY <1>1, <1>2, WatchersAfter DEF WatcherStays
<1>4. \A c \in Conn : state'[c] \in {"away", "backlog"} => state[c] \in {"away", "backlog"}
  BY Zenon DEF Inv, Types, AllTypes, ConnTypes
<1>5. ConnsFit' BY <1>1, <1>3, <1>4, ConnsAfter
<1>6. FdsFit' BY <1>1, FdsAfter
<1>7. FramesFit'
  <2>1. \A c \in Conn : ui'[c] = Gone <=> ui[c] = Gone BY DEF SameConns
  <2> QED BY <2>1, FramesAfter
<1>8. Types' /\ CallsFit(stack')
  BY DEF Types, AllTypes, OtherTypes, ConnTypes, QuietStack
<1>9. CallsFit(stack)' BY <1>8 DEF CallsFit, Calls, Depths, Evals
<1> QED BY <1>3, <1>5, <1>6, <1>7, <1>8, <1>9 DEF Inv

-----------------------------------------------------------------------------
(* The steps, one by one: first those that change calls only.                *)
LEMMA RemoteStays ==
    ASSUME Inv, OtherTypes', UNCHANGED remoteVars
    PROVE  /\ AllTypes' /\ UnitsFit' /\ SameConns /\ script' = script /\ state' = state
           /\ \A c \in Conn : state[c] \in {"up", "down"} => state'[c] \in {"up", "down"}
<1>1. /\ script' = script /\ state' = state /\ ui' = ui /\ accepter' = accepter
      /\ sent' = sent /\ read' = read /\ m_pending_keys' = m_pending_keys /\ handled' = handled
  BY DEF remoteVars
<1>2. ConnTypes' BY <1>1 DEF Inv, Types, ConnTypes
<1>3. UnitsFit' BY UnitsSame DEF Inv
<1>4. SameConns BY <1>1 DEF SameConns
<1> QED BY <1>1, <1>2, <1>3, <1>4 DEF AllTypes

LEMMA FdsStay ==
    ASSUME Inv, UNCHANGED <<fds, m_fd_watchers>>
    PROVE  /\ \A fd \in 1..MaxFd : fds'[fd] = fds[fd] \/ fds'[fd] = Closed
           /\ \A i \in DOMAIN stack' :
                stack'[i].at \in {"command", "fifo"} => fds'[stack'[i].fd] = fds[stack'[i].fd]
           /\ DOMAIN m_fd_watchers' = DOMAIN m_fd_watchers
           /\ \A i \in DOMAIN m_fd_watchers : WatcherStays(m_fd_watchers[i], m_fd_watchers'[i])
BY DEF WatcherStays

LEMMA CallsInv ==
    ASSUME Inv, QuietStack(stack'), OtherTypes',
           UNCHANGED <<fds, m_fd_watchers, m_clients, m_client_trash, remoteVars>>
    PROVE  Inv'
<1>1. SameClients BY ClientsStay
<1>2. UNCHANGED remoteVars /\ UNCHANGED <<fds, m_fd_watchers>> OBVIOUS
<1> QED BY <1>1, <1>2, RemoteStays, FdsStay, QuietInv

LEMMA EvalWaitsInv ==
    ASSUME Inv, EvalWaits(Readable), UNCHANGED remoteVars
    PROVE  Inv'
<1>1. QuietStack(stack') /\ OtherTypes' BY EvalWaitsQuiet DEF Inv
<1>2. UNCHANGED <<fds, m_fd_watchers, m_clients, m_client_trash>> BY DEF EvalWaits
<1> QED BY <1>1, <1>2, CallsInv

LEMMA EvalPollsInv ==
    ASSUME Inv, EvalPolls, UNCHANGED remoteVars
    PROVE  Inv'
<1>1. QuietStack(stack') /\ OtherTypes' BY EvalPollsQuiet DEF Inv
<1>2. UNCHANGED <<fds, m_fd_watchers, m_clients, m_client_trash>> BY DEF EvalPolls
<1> QED BY <1>1, <1>2, CallsInv

LEMMA RunPlainInv ==
    ASSUME Inv, RunPlain, UNCHANGED remoteVars
    PROVE  Inv'
<1>1. QuietStack(stack') /\ OtherTypes' BY RunPlainQuiet DEF Inv
<1>2. UNCHANGED <<fds, m_fd_watchers, m_clients, m_client_trash>> BY DEF RunPlain
<1> QED BY <1>1, <1>2, CallsInv

LEMMA RunDoneInv ==
    ASSUME Inv, RunDone, UNCHANGED remoteVars
    PROVE  Inv'
<1>1. QuietStack(stack') /\ OtherTypes' BY RunDoneQuiet DEF Inv
<1>2. UNCHANGED <<fds, m_fd_watchers, m_clients, m_client_trash>> BY DEF RunDone
<1> QED BY <1>1, <1>2, CallsInv

LEMMA RunFailInv ==
    ASSUME Inv, RunFail, UNCHANGED remoteVars
    PROVE  Inv'
<1>1. QuietStack(stack') /\ OtherTypes' BY RunFailQuiet DEF Inv
<1>2. UNCHANGED <<fds, m_fd_watchers, m_clients, m_client_trash>> BY DEF RunFail
<1> QED BY <1>1, <1>2, CallsInv

LEMMA MainInv ==
    ASSUME Inv, MainWaits \/ MainAgain \/ MainProcesses \/ ProcessEnds \/ EventsReturn
    PROVE  Inv'
<1>1. QuietStack(stack') /\ AllTypes'
  BY MainWaitsQuiet, MainProcessesQuiet, ProcessEndsQuiet, EventsReturnQuiet DEF Inv
<1>2. UNCHANGED <<fds, m_fd_watchers, m_clients, m_client_trash, remoteVars>>
  BY Zenon DEF MainWaits, MainAgain, MainProcesses, ProcessEnds, EventsReturn
<1> QED BY <1>1, <1>2, CallsInv DEF AllTypes

(* Clients that leave, and keys. *)
LEMMA OneLeaves ==
    ASSUME Inv, NEW c \in Conn, ui[c] # Gone,
           m_clients' = RemovedClient(c), m_client_trash' = m_client_trash \cup {c}
    PROVE  SameClients
<1>1. /\ m_clients \in Seq(Conn) /\ \A i, j \in DOMAIN m_clients : m_clients[i] = m_clients[j] => i = j
      /\ ToSet(m_clients) \cap m_client_trash = {}
  BY DEF Inv, Types, ConnsFit
<1>2. /\ ToSet(m_clients') = ToSet(m_clients) \ {c}
      /\ \A i, j \in DOMAIN m_clients' : m_clients'[i] = m_clients'[j] => i = j
  BY <1>1, RemovedIs DEF RemovedClient
<1> QED BY <1>1, <1>2, TheClients DEF SameClients

LEMMA ProcessRemovesInv ==
    ASSUME Inv, ProcessRemoves
    PROVE  Inv'
<1>1. QuietStack(stack') /\ AllTypes' BY ProcessRemovesQuiet
<1>2. /\ UNCHANGED <<fds, m_fd_watchers>> /\ UNCHANGED remoteVars
      /\ m_client_trash' = m_client_trash \cup {m_clients[Min(Busy)]}
      /\ m_clients' = RemovedClient(m_clients[Min(Busy)]) /\ Processing
  BY DEF ProcessRemoves
<1>3. m_clients[Min(Busy)] \in Conn /\ ui[m_clients[Min(Busy)]] # Gone
  BY <1>2, TheBusy, TheClients DEF Inv
<1>4. SameClients BY <1>2, <1>3, OneLeaves
<1> QED BY <1>1, <1>2, <1>4, RemoteStays, FdsStay, QuietInv DEF AllTypes

LEMMA RunQuitInv ==
    ASSUME Inv, RunQuit, UNCHANGED remoteVars
    PROVE  Inv'
<1>1. QuietStack(stack') /\ OtherTypes' BY RunQuitQuiet
<1>2. UNCHANGED <<fds, m_fd_watchers>> BY DEF RunQuit
<1>3. SameClients
  <2>1. CASE UNCHANGED <<m_clients, m_client_trash>> BY <2>1, ClientsStay
  <2>2. CASE /\ Top.client # NoClient /\ m_clients' = RemovedClient(Top.client)
             /\ m_client_trash' = m_client_trash \cup {Top.client}
    <3>1. OnTop("run") BY DEF RunQuit, RunsNext
    <3>2. Top.client \in Conn /\ Top.at = "run" BY <2>2, <3>1, RunTop DEF Inv, Clients
    <3>3. FrameFits(Top, ui, fds) BY TopIs DEF Inv, FramesFit
    <3>4. ui[Top.client] # Gone BY <2>2, <3>2, <3>3 DEF FrameFits
    <3> QED BY <2>2, <3>2, <3>4, OneLeaves
  <2>3. \/ UNCHANGED <<m_clients, m_client_trash>>
        \/ /\ Top.client # NoClient /\ m_clients' = RemovedClient(Top.client)
           /\ m_client_trash' = m_client_trash \cup {Top.client}
    BY DEF RunQuit
  <2> QED BY <2>1, <2>2, <2>3
<1> QED BY <1>1, <1>2, <1>3, RemoteStays, FdsStay, QuietInv

(* The callbacks of the shells: the descriptor they close, or the watcher    *)
(* they reset, is their own.                                                 *)
LEMMA ResetHere ==
    ASSUME Inv, NEW who, NEW fd \in 0..MaxFd,
           m_fd_watchers' = ResetFd(m_fd_watchers, who, fd)
    PROVE  /\ DOMAIN m_fd_watchers' = DOMAIN m_fd_watchers
           /\ \A i \in DOMAIN m_fd_watchers :
                /\ m_fd_watchers'[i].who = m_fd_watchers[i].who
                /\ m_fd_watchers[i].who = who => m_fd_watchers'[i].fd = fd
                /\ m_fd_watchers[i].who # who => m_fd_watchers'[i] = m_fd_watchers[i]
<1>1. m_fd_watchers \in Seq(WatcherRecords) BY DEF Inv, Types
<1> DEFINE r == ResetFd(m_fd_watchers, who, fd)
<1>2. /\ DOMAIN r = DOMAIN m_fd_watchers
      /\ \A i \in DOMAIN m_fd_watchers :
            /\ r[i].who = m_fd_watchers[i].who
            /\ m_fd_watchers[i].who = who => r[i].fd = fd
            /\ m_fd_watchers[i].who # who => r[i] = m_fd_watchers[i]
  BY <1>1, ResetIs
<1> HIDE DEF r
<1>3. m_fd_watchers' = r BY DEF r
<1> QED BY <1>2, <1>3

LEMMA ShellClosedInv ==
    ASSUME Inv, QuietStack(stack'), OtherTypes',
           UNCHANGED <<m_clients, m_client_trash>>, UNCHANGED remoteVars,
           NEW k \in {"in", "out"}, NEW d \in Depths(stack), NEW fd \in 1..MaxFd,
           d \in Depth, fds[fd] = <<k, d>>, fds' = [fds EXCEPT ![fd] = Closed],
           m_fd_watchers' = ResetFd(m_fd_watchers, <<k, d>>, None)
    PROVE  Inv'
<1>1. /\ fds'[fd] = Closed /\ \A o \in 1..MaxFd : o # fd => fds'[o] = fds[o]
  BY FdsClosed DEF Inv
<1>2. /\ DOMAIN m_fd_watchers' = DOMAIN m_fd_watchers
      /\ \A i \in DOMAIN m_fd_watchers :
            /\ m_fd_watchers'[i].who = m_fd_watchers[i].who
            /\ m_fd_watchers[i].who = <<k, d>> => m_fd_watchers'[i].fd = None
            /\ m_fd_watchers[i].who # <<k, d>> => m_fd_watchers'[i] = m_fd_watchers[i]
  <2>1. None \in 0..MaxFd BY MaxFdAssumption DEF None
  <2> QED BY <2>1, ResetHere
<1>3. \A i \in DOMAIN m_fd_watchers : WatcherStays(m_fd_watchers[i], m_fd_watchers'[i])
  <2> SUFFICES ASSUME NEW i \in DOMAIN m_fd_watchers
               PROVE  WatcherStays(m_fd_watchers[i], m_fd_watchers'[i])
    OBVIOUS
  <2> DEFINE w == m_fd_watchers[i]
             x == m_fd_watchers'[i]
  <2>1. w \in Watchers /\ w \in WatcherRecords /\ w.fd \in 0..MaxFd
    BY WatchersType, TheWatchers DEF Inv
  <2>2. /\ x.who = w.who /\ w.who = <<k, d>> => x.fd = None
        /\ w.who # <<k, d>> => x = w
    BY <1>2
  <2> SUFFICES WatcherStays(w, x) OBVIOUS
  <2> HIDE DEF w, x
  <2>3. CASE w.who = <<k, d>>
    <3>1. w.who \in ShellEnds BY <2>3 DEF ShellEnds
    <3>2. x.who = w.who /\ x.fd = None BY <1>2, <2>3 DEF w, x
    <3> QED BY <3>1, <3>2 DEF WatcherStays
  <2>4. CASE w.who # <<k, d>>
    <3>1. <<k, d>> # Listener /\ \A c : <<k, d>> # <<"conn", c>> BY DEF Listener
    <3>2. \/ \E c \in Conn : w.who = Acc(c) /\ ui[c] # Gone
          \/ w.fd # None => fds[w.fd] # <<k, d>>
      BY <2>1, <2>4, <3>1, TheWatched
    <3>3. w.fd # None => w.fd \in 1..MaxFd BY <2>1, MaxFdAssumption DEF None
    <3> QED BY <1>1, <2>2, <2>4, <3>2, <3>3 DEF WatcherStays
  <2> QED BY <2>3, <2>4
<1>4. \A i \in DOMAIN stack' :
        stack'[i].at \in {"command", "fifo"} => fds'[stack'[i].fd] = fds[stack'[i].fd]
  <2>1. ASSUME NEW i \in DOMAIN stack', stack'[i].at \in {"command", "fifo"}
        PROVE  fds'[stack'[i].fd] = fds[stack'[i].fd]
    <3>1. FrameFits(stack'[i], ui, fds) /\ stack'[i] \in Frames BY FramesFitNow
    <3>2. stack'[i].fd \in 1..MaxFd BY <2>1, <3>1, ClientOf
    <3>3. fds[stack'[i].fd] # <<k, d>> BY <2>1, <3>1 DEF FrameFits
    <3> QED BY <1>1, <3>2, <3>3
  <2> QED BY <2>1
<1>5. \A o \in 1..MaxFd : fds'[o] = fds[o] \/ fds'[o] = Closed BY <1>1
<1>6. SameClients BY ClientsStay
<1> QED BY <1>2, <1>3, <1>4, <1>5, <1>6, RemoteStays, QuietInv

LEMMA ShellResetInv ==
    ASSUME Inv, QuietStack(stack'), OtherTypes',
           UNCHANGED <<m_clients, m_client_trash>>, UNCHANGED remoteVars,
           NEW k \in {"fifo", "in", "out"}, NEW d \in Depth, NEW fd \in 0..MaxFd,
           fd = None \/ fds[fd] = <<k, d>>, fds' = fds,
           m_fd_watchers' = ResetFd(m_fd_watchers, <<k, d>>, fd)
    PROVE  Inv'
<1>1. /\ DOMAIN m_fd_watchers' = DOMAIN m_fd_watchers
      /\ \A i \in DOMAIN m_fd_watchers :
            /\ m_fd_watchers'[i].who = m_fd_watchers[i].who
            /\ m_fd_watchers[i].who = <<k, d>> => m_fd_watchers'[i].fd = fd
            /\ m_fd_watchers[i].who # <<k, d>> => m_fd_watchers'[i] = m_fd_watchers[i]
  BY ResetHere
<1>2. \A i \in DOMAIN m_fd_watchers : WatcherStays(m_fd_watchers[i], m_fd_watchers'[i])
  <2> SUFFICES ASSUME NEW i \in DOMAIN m_fd_watchers
               PROVE  WatcherStays(m_fd_watchers[i], m_fd_watchers'[i])
    OBVIOUS
  <2>1. CASE m_fd_watchers[i].who = <<k, d>>
    <3>1. m_fd_watchers[i].who \in ShellEnds BY <2>1 DEF ShellEnds
    <3> QED BY <1>1, <2>1, <3>1 DEF WatcherStays
  <2>2. CASE m_fd_watchers[i].who # <<k, d>> BY <1>1, <2>2 DEF WatcherStays
  <2> QED BY <2>1, <2>2
<1>3. SameClients BY ClientsStay
<1>4. /\ \A o \in 1..MaxFd : fds'[o] = fds[o] \/ fds'[o] = Closed
      /\ \A i \in DOMAIN stack' :
            stack'[i].at \in {"command", "fifo"} => fds'[stack'[i].fd] = fds[stack'[i].fd]
  OBVIOUS
<1> QED BY <1>1, <1>2, <1>3, <1>4, RemoteStays, QuietInv

LEMMA OutReaderInv ==
    ASSUME Inv, NEW d, OutReader(d), UNCHANGED remoteVars
    PROVE  Inv'
<1>1. QuietStack(stack') /\ OtherTypes' /\ d \in Depths(stack) /\ fds[NextFd] = <<"out", d>>
  BY OutReaderQuiet
<1>2. Runs(<<"out", d>>) /\ UNCHANGED <<m_clients, m_client_trash>> BY DEF OutReader
<1>3. NextFd \in 1..MaxFd /\ d \in Depth BY <1>2, RunsFacts, RunsShell
<1>4. CASE /\ fds' = [fds EXCEPT ![NextFd] = Closed]
           /\ m_fd_watchers' = ResetFd(m_fd_watchers, <<"out", d>>, None)
  BY <1>1, <1>2, <1>3, <1>4, ShellClosedInv, Zenon
<1>5. CASE UNCHANGED <<fds, m_fd_watchers>> BY <1>1, <1>2, <1>5, CallsInv
<1> QED BY <1>4, <1>5 DEF OutReader

LEMMA InWriterInv ==
    ASSUME Inv, NEW d, InWriter(d), UNCHANGED remoteVars
    PROVE  Inv'
<1>1. QuietStack(stack') /\ OtherTypes' /\ d \in Depths(stack) /\ fds[NextFd] = <<"in", d>>
  BY InWriterQuiet
<1>2. /\ Runs(<<"in", d>>) /\ UNCHANGED <<m_clients, m_client_trash>>
      /\ fds' = [fds EXCEPT ![NextFd] = Closed]
      /\ m_fd_watchers' = ResetFd(m_fd_watchers, <<"in", d>>, None)
  BY DEF InWriter
<1>3. NextFd \in 1..MaxFd /\ d \in Depth BY <1>2, RunsFacts, RunsShell
<1> QED BY <1>1, <1>2, <1>3, ShellClosedInv, Zenon

LEMMA FifoReaderInv ==
    ASSUME Inv, NEW d, FifoReader(d), UNCHANGED remoteVars
    PROVE  Inv'
<1>1. QuietStack(stack') /\ OtherTypes' /\ d \in Depths(stack) /\ fds[NextFd] = <<"fifo", d>>
  BY FifoReaderQuiet
<1>2. Runs(<<"fifo", d>>) /\ UNCHANGED <<m_clients, m_client_trash>> /\ fds' = fds
  BY DEF FifoReader
<1>3. d \in Depth BY <1>2, RunsShell
<1>4. None \in 0..MaxFd BY MaxFdAssumption DEF None
<1>5. CASE m_fd_watchers' = ResetFd(m_fd_watchers, <<"fifo", d>>, None)
  BY <1>1, <1>2, <1>3, <1>4, <1>5, ShellResetInv
<1>6. CASE m_fd_watchers' = m_fd_watchers BY <1>1, <1>2, <1>6, CallsInv
<1> QED BY <1>5, <1>6 DEF FifoReader

LEMMA FifoDoneInv ==
    ASSUME Inv, FifoDone, UNCHANGED remoteVars
    PROVE  Inv'
<1>1. QuietStack(stack') /\ OtherTypes' /\ Top.d \in Depths(stack)
      /\ fds[Top.fd] = <<"fifo", Top.d>> /\ Top \in FifoFrames
  BY FifoDoneQuiet
<1>2. /\ UNCHANGED <<m_clients, m_client_trash>> /\ fds' = fds
      /\ m_fd_watchers' = ResetFd(m_fd_watchers, <<"fifo", Top.d>>, Top.fd)
  BY DEF FifoDone, WatchesAgain
<1>3. Top.d \in Depth /\ Top.fd \in 0..MaxFd BY <1>1 DEF FifoFrames
<1> QED BY <1>1, <1>2, <1>3, ShellResetInv

(* What the connections do, when none is made and none given up.            *)
LEMMA AccepterLeavesItInv ==
    ASSUME Inv, NEW c \in Conn, AccepterLeavesIt(c)
    PROVE  Inv'
<1>1. QuietStack(stack') /\ AllTypes' /\ UnitsFit' BY AccepterLeavesItQuiet
<1>2. UNCHANGED <<fds, m_fd_watchers, m_clients, m_client_trash, remoteVars>>
  BY DEF AccepterLeavesIt
<1> QED BY <1>1, <1>2, CallsInv DEF AllTypes

LEMMA AccepterReadsInv ==
    ASSUME Inv, NEW c \in Conn, AccepterReads(c), state[c] # "down"
    PROVE  Inv'
<1>1. QuietStack(stack') /\ AllTypes' /\ UnitsFit' /\ accepter[c] \in 0..1
  BY AccepterReadsQuiet
<1>2. /\ accepter' = [accepter EXCEPT ![c] = accepter[c] + TakeMessage(c, accepter[c])]
      /\ accepter[c] + TakeMessage(c, accepter[c]) < MessageSize
      /\ UNCHANGED <<fds, m_fd_watchers>> /\ UNCHANGED <<m_clients, m_client_trash>>
      /\ script' = script /\ state' = state /\ ui' = ui
  BY DEF AccepterReads
<1>3. accepter[c] + TakeMessage(c, accepter[c]) \in 0..2 BY <1>1, Taken
<1>4. SameConns
  <2>1. accepter \in [Conn -> Gone..MessageSize] BY DEF Inv, Types
  <2> QED BY <1>1, <1>2, <1>3, <2>1 DEF SameConns, Gone, MessageSize
<1>5. SameClients BY <1>2, ClientsStay
<1>6. \A d \in Conn : state[d] \in {"up", "down"} => state'[d] \in {"up", "down"} BY <1>2
<1>7. script' = script BY <1>2
<1> QED BY <1>1, <1>2, <1>4, <1>5, <1>6, <1>7, FdsStay, QuietInv

LEMMA UiStays ==
    ASSUME Inv, NEW c \in Conn, ui[c] # Gone, NEW units \in Nat,
           ui' = [ui EXCEPT ![c] = units % MessageSize], UNCHANGED <<accepter>>
    PROVE  SameConns
<1>1. ui \in [Conn -> Gone..MessageSize - 1] BY DEF Inv, Types
<1>2. units % MessageSize \in 0..1 BY Halves
<1>3. units % MessageSize # Gone BY <1>2 DEF Gone
<1> QED BY <1>1, <1>3 DEF SameConns

LEMMA UiCancelsInv ==
    ASSUME Inv, NEW c \in Conn, UiCancels(c)
    PROVE  Inv'
<1>1. /\ QuietStack(stack') /\ AllTypes' /\ UnitsFit'
      /\ ui'[c] # Gone /\ \A d \in Conn : d # c => ui'[d] = ui[d]
  BY UiCancelsQuiet
<1>2. /\ UNCHANGED <<fds, m_fd_watchers>> /\ UNCHANGED <<m_clients, m_client_trash>>
      /\ script' = script /\ state' = state /\ accepter' = accepter /\ Runs(Ui(c))
  BY DEF UiCancels
<1>3. ui[c] # Gone BY <1>2, RunsUi
<1>4. SameConns BY <1>1, <1>2, <1>3 DEF SameConns
<1>5. SameClients BY <1>2, ClientsStay
<1>6. \A d \in Conn : state[d] \in {"up", "down"} => state'[d] \in {"up", "down"} BY <1>2
<1>7. script' = script BY <1>2
<1> QED BY <1>1, <1>2, <1>4, <1>5, <1>6, <1>7, FdsStay, QuietInv

LEMMA UiReadsInv ==
    ASSUME Inv, NEW c \in Conn, UiReads(c)
    PROVE  Inv'
<1>1. QuietStack(stack') /\ AllTypes' /\ UnitsFit' BY UiReadsQuiet
<1>2. /\ UNCHANGED <<m_clients, m_client_trash>> /\ Runs(Ui(c)) /\ fds[NextFd] = <<"conn", c>>
      /\ script' = script /\ state' = state /\ accepter' = accepter
      /\ ui' = [ui EXCEPT ![c] = (ui[c] + (sent[c] - read[c])) % MessageSize]
  BY DEF UiReads
<1>3. ui[c] # Gone /\ NextFd \in 1..MaxFd BY <1>2, RunsUi, RunsFacts
<1>4. SameConns
  <2>1. ui[c] + (sent[c] - read[c]) \in Nat
    <3>1. ui[c] \in Gone..MessageSize - 1 /\ sent[c] - read[c] \in Nat BY UnitsOf
    <3> QED BY <1>3, <3>1 DEF Gone, MessageSize
  <2>2. UNCHANGED <<accepter>> BY <1>2
  <2> QED BY <1>2, <1>3, <2>1, <2>2, UiStays, Zenon
<1>5. SameClients BY <1>2, ClientsStay
<1>6. \A d \in Conn : state[d] \in {"up", "down"} => state'[d] \in {"up", "down"} BY <1>2
<1>7. script' = script BY <1>2
<1>8. CASE UNCHANGED <<fds, m_fd_watchers>>
  BY <1>1, <1>4, <1>5, <1>6, <1>7, <1>8, FdsStay, QuietInv
<1>9. CASE /\ fds' = [fds EXCEPT ![NextFd] = Closed]
           /\ m_fd_watchers' = ResetFd(m_fd_watchers, Ui(c), None)
  <2> DEFINE fd == NextFd
  <2>1. fd \in 1..MaxFd /\ fds[fd] = <<"conn", c>> BY <1>2, <1>3
  <2>2. /\ fds'[fd] = Closed /\ \A o \in 1..MaxFd : o # fd => fds'[o] = fds[o]
    BY <1>9, <2>1, FdsClosed DEF Inv
  <2> HIDE DEF fd
  <2>3. None \in 0..MaxFd BY MaxFdAssumption DEF None
  <2>4. /\ DOMAIN m_fd_watchers' = DOMAIN m_fd_watchers
        /\ \A i \in DOMAIN m_fd_watchers :
              /\ m_fd_watchers'[i].who = m_fd_watchers[i].who
              /\ m_fd_watchers[i].who = Ui(c) => m_fd_watchers'[i].fd = None
              /\ m_fd_watchers[i].who # Ui(c) => m_fd_watchers'[i] = m_fd_watchers[i]
    BY <1>9, <2>3, ResetHere
  <2>5. ASSUME NEW i \in DOMAIN m_fd_watchers
        PROVE  WatcherStays(m_fd_watchers[i], m_fd_watchers'[i])
    <3> DEFINE w == m_fd_watchers[i]
               x == m_fd_watchers'[i]
    <3>1. w \in Watchers /\ w \in WatcherRecords /\ w.fd \in 0..MaxFd
      BY WatchersType, TheWatchers DEF Inv
    <3>2. /\ x.who = w.who /\ w.who = Ui(c) => x.fd = None
          /\ w.who # Ui(c) => x = w
          /\ x.who = w.who
      BY <2>4
    <3> SUFFICES WatcherStays(w, x) OBVIOUS
    <3> HIDE DEF w, x
    <3>3. CASE w.who = Ui(c) BY <3>2, <3>3 DEF WatcherStays
    <3>4. CASE w.who # Ui(c)
      <4>1. w.fd # None => w.fd \in 1..MaxFd BY <3>1, MaxFdAssumption DEF None
      <4>2. \/ \E e \in Conn : w.who = Acc(e) /\ ui[e] # Gone
            \/ w.fd # None => fds[w.fd] # <<"conn", c>>
        <5>1. CASE w.who = Listener /\ w.fd # None /\ fds[w.fd] = Listener
          BY <5>1 DEF Listener
        <5>2. ASSUME NEW e \in Conn, w.who = Acc(e), ui[e] = Gone => fds[w.fd] = <<"conn", e>>
              PROVE  \/ ui[e] # Gone
                     \/ fds[w.fd] # <<"conn", c>>
          BY <1>3, <5>2
        <5>3. ASSUME NEW e \in Conn, w.who = Ui(e), w.fd # None => fds[w.fd] = <<"conn", e>>
              PROVE  w.fd # None => fds[w.fd] # <<"conn", c>>
          <6>1. e # c BY <3>4, <5>3
          <6> QED BY <5>3, <6>1
        <5>4. CASE w.who \in ShellEnds /\ (w.fd # None => fds[w.fd] = w.who)
          BY <5>4 DEF ShellEnds
        <5> QED BY <3>1, <5>1, <5>2, <5>3, <5>4, TheWatched
      <4> QED BY <2>1, <2>2, <3>2, <3>4, <4>1, <4>2 DEF WatcherStays
    <3> QED BY <3>3, <3>4
  <2>6. \A i \in DOMAIN stack' :
        stack'[i].at \in {"command", "fifo"} => fds'[stack'[i].fd] = fds[stack'[i].fd]
    <3>1. ASSUME NEW i \in DOMAIN stack', stack'[i].at \in {"command", "fifo"}
          PROVE  fds'[stack'[i].fd] = fds[stack'[i].fd]
      <4>1. FrameFits(stack'[i], ui, fds) /\ stack'[i] \in Frames BY <1>1, FramesFitNow
      <4>2. stack'[i].fd \in 1..MaxFd BY <3>1, <4>1, ClientOf
      <4>3. fds[stack'[i].fd] # <<"conn", c>>
        <5>1. CASE stack'[i].at = "fifo" BY <4>1, <5>1 DEF FrameFits
        <5>2. CASE stack'[i].at = "command"
          <6>1. ui[stack'[i].c] = Gone /\ fds[stack'[i].fd] = <<"conn", stack'[i].c>>
            BY <4>1, <5>2 DEF FrameFits
          <6> QED BY <1>3, <6>1
        <5> QED BY <3>1, <5>1, <5>2
      <4> QED BY <2>1, <2>2, <4>2, <4>3
    <3> QED BY <3>1
  <2>7. \A o \in 1..MaxFd : fds'[o] = fds[o] \/ fds'[o] = Closed BY <2>2
  <2> QED BY <1>1, <1>4, <1>5, <1>6, <1>7, <2>4, <2>5, <2>6, <2>7, QuietInv
<1> QED BY <1>8, <1>9 DEF UiReads

(* A watcher that goes with the connection, or the client, it is of.         *)
LEMMA Assembled ==
    ASSUME AllTypes', stack' \in Seq(Frames), CallsFit(stack'), FramesFit', ConnsFit',
           WatchersFit', FdsFit', UnitsFit'
    PROVE  Inv'
<1>1. Types' BY DEF Types, AllTypes, OtherTypes, ConnTypes
<1>2. CallsFit(stack)' BY DEF CallsFit, Calls, Depths, Evals
<1> QED BY <1>1, <1>2 DEF Inv

LEMMA OneWatcherGoes ==
    ASSUME Inv, NEW c \in Conn, NEW who \in {Acc(c), Ui(c)},
           m_fd_watchers' = UnorderedErase(m_fd_watchers, who),
           \A fd \in 1..MaxFd : fds'[fd] = fds[fd] \/ (fds[fd] = <<"conn", c>> /\ fds'[fd] = Closed),
           \A e \in Conn : e # c => accepter'[e] = accepter[e] /\ ui'[e] = ui[e],
           who = Acc(c) => ui' = ui /\ (ui[c] # Gone => fds' = fds),
           who = Ui(c) => accepter[c] = Gone,
           Depths(stack') = Depths(stack)
    PROVE  WatchersFit' /\ \A w \in Watchers : w.who # who => w \in Watchers'
<1>1. ASSUME NEW w \in Watchers, w.who # who
      PROVE  FitsIn(w, fds', Depths(stack'), accepter', ui')
  <2>1. w \in WatcherRecords /\ FitsIn(w, fds, Depths(stack), accepter, ui) /\ w.fd \in 0..MaxFd
    BY WatchersType, TheWatchers DEF Inv, WatchersFit, Fits
  <2>2. w.fd # None => w.fd \in 1..MaxFd BY <2>1, MaxFdAssumption DEF None
  <2>3. w.who = Listener => fds'[w.fd] = fds[w.fd]
    <3> SUFFICES ASSUME w.who = Listener PROVE fds'[w.fd] = fds[w.fd] OBVIOUS
    <3>1. w.fd # None /\ fds[w.fd] = Listener BY <2>1, FitsListener
    <3>2. Listener # <<"conn", c>> BY DEF Listener
    <3> QED BY <2>2, <3>1, <3>2
  <2>4. \A e \in Conn : w.who = Acc(e) =>
                /\ accepter'[e] # Gone
                /\ ui'[e] = Gone => ui[e] = Gone /\ fds'[w.fd] = fds[w.fd]
    <3> SUFFICES ASSUME NEW e \in Conn, w.who = Acc(e)
                 PROVE  /\ accepter'[e] # Gone
                        /\ ui'[e] = Gone => ui[e] = Gone /\ fds'[w.fd] = fds[w.fd]
      OBVIOUS
    <3>1. accepter[e] # Gone /\ w.fd # None /\ (ui[e] = Gone => fds[w.fd] = <<"conn", e>>)
      BY <2>1, AccWatches
    <3>2. e # c
      <4>1. CASE who = Acc(c) BY <1>1, <4>1
      <4>2. CASE who = Ui(c) BY <3>1, <4>2
      <4> QED BY <4>1, <4>2
    <3>3. <<"conn", e>> # <<"conn", c>> BY <3>2
    <3> QED BY <2>2, <3>1, <3>2, <3>3
  <2>5. \A e \in Conn : w.who = Ui(e) =>
                ui'[e] # Gone /\ (w.fd # None => fds'[w.fd] = fds[w.fd])
    <3> SUFFICES ASSUME NEW e \in Conn, w.who = Ui(e)
                 PROVE  ui'[e] # Gone /\ (w.fd # None => fds'[w.fd] = fds[w.fd])
      OBVIOUS
    <3>1. ui[e] # Gone /\ (w.fd # None => fds[w.fd] = <<"conn", e>>)
      <4>1. w.who # Listener /\ w.who[1] = "ui" /\ w.who[2] = e BY DEF Listener, Ui
      <4> QED BY <2>1, <4>1 DEF FitsIn
    <3>2. CASE e = c
      <4>1. who = Acc(c) BY <1>1, <3>2
      <4> QED BY <3>1, <3>2, <4>1
    <3>3. CASE e # c
      <4>1. <<"conn", e>> # <<"conn", c>> BY <3>3
      <4> QED BY <2>2, <3>1, <3>3, <4>1
    <3> QED BY <3>2, <3>3
  <2>6. \A d \in Depth : \A k \in {"fifo", "in", "out"} : w.who = <<k, d>> =>
                /\ d \in Depths(stack')
                /\ w.fd # None => fds'[w.fd] = fds[w.fd]
    <3> SUFFICES ASSUME NEW d \in Depth, NEW k \in {"fifo", "in", "out"}, w.who = <<k, d>>
                 PROVE  /\ d \in Depths(stack')
                        /\ w.fd # None => fds'[w.fd] = fds[w.fd]
      OBVIOUS
    <3>1. d \in Depths(stack) /\ (w.fd # None => fds[w.fd] = <<k, d>>) BY <2>1, ShellWatches
    <3>2. <<k, d>> # <<"conn", c>> OBVIOUS
    <3> QED BY <2>2, <3>1, <3>2
  <2> QED BY <2>1, <2>3, <2>4, <2>5, <2>6, FitsStill
<1> QED BY <1>1, WatchersErased

LEMMA OneWatcherFds ==
    ASSUME Inv, NEW c \in Conn, AllTypes', state' = state, Depths(stack') = Depths(stack),
           \A fd \in 1..MaxFd : fds'[fd] = fds[fd] \/ (fds[fd] = <<"conn", c>> /\ fds'[fd] = Closed)
    PROVE  FdsFit'
<1>1. \A fd \in 1..MaxFd : fds'[fd] = fds[fd] \/ fds'[fd] = Closed OBVIOUS
<1>2. \A e \in Conn : state[e] \in {"up", "down"} => state'[e] \in {"up", "down"} OBVIOUS
<1> QED BY <1>1, <1>2, FdsAfter

(* The Accepter goes: its callback returns, or finds the end. *)
LEMMA ConnDone ==
    ASSUME Inv, Top.at \in {"connect", "command"}
    PROVE  /\ Below \in Seq(Frames) /\ CallsFit(Below) /\ Top.c \in Conn
           /\ \A i \in DOMAIN Below : Below[i].at \in {"main", "events"}
           /\ Depths(Below) = Depths(stack)
           /\ HandledIn(Below) = {} /\ HandledIn(stack) = {Top.c}
<1>1. /\ stack # <<>> /\ stack \in Seq(Frames) /\ Len(stack) \in DOMAIN stack
      /\ Top = stack[Len(stack)] /\ Top \in Frames /\ DOMAIN stack = 1..Len(stack)
      /\ Types /\ CallsFit(stack)
  BY TopIs DEF Inv
<1>2. Len(stack) = 3 /\ stack[2].at = "events" /\ stack[1].at = "main"
  BY <1>1, Positions, Zenon DEF CallsFit
<1>3. /\ Below \in Seq(Frames) /\ Len(Below) = 2 /\ DOMAIN Below = 1..2
      /\ \A i \in 1..2 : Below[i] = stack[i]
  <2>1. /\ Below \in Seq(Frames) /\ Len(Below) = Len(stack) - 1
        /\ DOMAIN Below = 1..Len(stack) - 1
        /\ \A i \in 1..Len(stack) - 1 : Below[i] = stack[i]
    BY <1>1, TheFront, Zenon DEF Below
  <2> QED BY <1>2, <2>1
<1>4. \A i \in DOMAIN Below : Below[i].at \in {"main", "events"} BY <1>2, <1>3
<1>5. CallsFit(Below)
  <2>1. \A i \in 1..Len(Below) : Alike(stack[i], Below[i]) BY <1>3 DEF Alike
  <2>2. 1 <= Len(Below) /\ Len(Below) <= Len(stack) BY <1>2, <1>3
  <2> QED BY <1>1, <1>3, <2>1, <2>2, PrefixFits, Zenon
<1>6. Evals(stack) = {} /\ Evals(Below) = {}
  BY <1>1, <1>2, <1>3, <1>4 DEF Evals
<1>7. HandledIn(Below) = {} BY <1>4 DEF HandledIn
<1>8. HandledIn(stack) = {Top.c}
  <2>1. {j \in DOMAIN stack : stack[j].at \in {"connect", "command"}} = {3}
    BY <1>1, <1>2
  <2> QED BY <1>1, <1>2, <2>1 DEF HandledIn
<1>9. Top.c \in Conn BY <1>1, ClientOf
<1> QED BY <1>3, <1>4, <1>5, <1>6, <1>7, <1>8, <1>9 DEF Depths

LEMMA ConnDoneFits ==
    ASSUME Inv, AllTypes', UnitsFit', NEW c \in Conn, script' = script, state' = state, ui' = ui,
           UNCHANGED <<m_clients, m_client_trash>>, accepter' = NoAccepter(c),
           m_fd_watchers' = WithoutAccepter(c),
           ui[c] # Gone => fds' = fds,
           \A fd \in 1..MaxFd : fds'[fd] = fds[fd] \/ (fds[fd] = <<"conn", c>> /\ fds'[fd] = Closed),
           stack' \in Seq(Frames), CallsFit(stack'), Depths(stack') = Depths(stack),
           HandledIn(stack') = HandledIn(stack) \ {c}, FramesFit'
    PROVE  Inv'
<1>1. accepter'[c] = Gone /\ \A e \in Conn : e # c => accepter'[e] = accepter[e]
  BY NowGone DEF Inv
<1>2. WatchersFit' /\ \A w \in Watchers : w.who # Acc(c) => w \in Watchers'
  <2>1. m_fd_watchers' = UnorderedErase(m_fd_watchers, Acc(c)) BY DEF WithoutAccepter
  <2>2. Acc(c) # Ui(c) BY DEF Acc, Ui
  <2>3. \A e \in Conn : e # c => accepter'[e] = accepter[e] /\ ui'[e] = ui[e] BY <1>1
  <2>4. Acc(c) = Acc(c) => ui' = ui /\ (ui[c] # Gone => fds' = fds) OBVIOUS
  <2>5. Acc(c) = Ui(c) => accepter[c] = Gone BY <2>2
  <2>6. Acc(c) \in {Acc(c), Ui(c)} OBVIOUS
  <2> QED BY <2>1, <2>3, <2>4, <2>5, <2>6, OneWatcherGoes
<1>3. FdsFit' BY OneWatcherFds
<1>4. ConnsFit'
  <2>1. \A e \in Conn : IsHandled(e)' <=> (IsHandled(e) /\ e # c)
    <3>1. \A e : (IsHandled(e) <=> e \in HandledIn(stack)) /\ (IsHandled(e)' <=> e \in HandledIn(stack'))
      BY HandledOnes DEF IsHandled, HandledIn
    <3> QED BY <3>1
  <2>2. ConnsFit /\ Gone # MessageSize BY DEF Inv, Gone, MessageSize
  <2>3. ASSUME NEW e \in Conn
        PROVE  /\ accepter'[e] = MessageSize <=> IsHandled(e)'
               /\ ui'[e] # Gone => accepter'[e] \in {Gone, MessageSize}
               /\ state'[e] \in {"away", "backlog"} => accepter'[e] = Gone /\ ui'[e] = Gone
               /\ ui'[e] # Gone => \E w \in Watchers' : w.who = Ui(e)
    <3>1. accepter'[e] = MessageSize <=> IsHandled(e)' BY <1>1, <2>1, <2>2 DEF ConnsFit
    <3>2. ui'[e] # Gone => accepter'[e] \in {Gone, MessageSize} BY <1>1, <2>2 DEF ConnsFit
    <3>3. state'[e] \in {"away", "backlog"} => accepter'[e] = Gone /\ ui'[e] = Gone
      BY <1>1, <2>2 DEF ConnsFit
    <3>4. ui'[e] # Gone => \E w \in Watchers' : w.who = Ui(e)
      <4>1. Ui(e) # Acc(c) BY DEF Acc, Ui
      <4> QED BY <1>2, <2>2, <4>1 DEF ConnsFit
    <3> QED BY <3>1, <3>2, <3>3, <3>4
  <2>4. \A e : Ui(e)' = Ui(e) BY DEF Ui
  <2>5. /\ \A e \in ToSet(m_clients') \cup m_client_trash' : ui'[e] # Gone
        /\ ToSet(m_clients') \cap m_client_trash' = {}
        /\ \A i, j \in DOMAIN m_clients' : m_clients'[i] = m_clients'[j] => i = j
    BY <2>2 DEF ConnsFit
  <2> QED BY <2>3, <2>4, <2>5 DEF ConnsFit
<1> QED BY <1>2, <1>3, <1>4, Assembled

LEMMA UnitsWithout ==
    ASSUME Inv, NEW c \in Conn, accepter' = NoAccepter(c),
           UNCHANGED <<script, sent, read, state, ui, m_pending_keys>>
    PROVE  UnitsFit'
<1>1. accepter'[c] = Gone /\ \A e \in Conn : e # c => accepter'[e] = accepter[e]
  BY NowGone DEF Inv
<1>2. Gone \notin 0..1 /\ Gone # MessageSize BY DEF Gone, MessageSize
<1>3. \A e \in Conn : /\ accepter'[e] \in 0..1 => accepter[e] = accepter'[e]
                      /\ accepter'[e] = MessageSize => accepter[e] = MessageSize
  BY <1>1, <1>2
<1> QED BY <1>3 DEF Inv, UnitsFit, Units

LEMMA NotInFrames ==
    ASSUME NEW f, f.at \in {"main", "events", "process"}, NEW u, NEW t
    PROVE  FrameFits(f, u, t)
BY DEF FrameFits

LEMMA CallsType ==
    ASSUME Inv, UNCHANGED <<child, sigchld, m_clients, m_client_trash, script, sent, read, state,
                            ui, m_pending_keys, handled>>,
           NEW c \in Conn, accepter' = NoAccepter(c),
           fds' \in [1..MaxFd -> Objects \cup {Closed}], m_fd_watchers' = WithoutAccepter(c)
    PROVE  AllTypes'
<1>1. m_fd_watchers' \in Seq(WatcherRecords) BY Erasing DEF WithoutAccepter
<1>2. accepter' \in [Conn -> Gone..MessageSize] BY NowGone DEF Inv
<1>3. OtherTypes' BY <1>1, Zenon DEF Inv, Types, OtherTypes
<1>4. ConnTypes' BY <1>2, Zenon DEF Inv, Types, ConnTypes
<1> QED BY <1>3, <1>4 DEF AllTypes

LEMMA ConnectDoneInv ==
    ASSUME Inv, ConnectDone
    PROVE  Inv'
<1> DEFINE c == Top.c
<1>1. /\ OnTop("connect") /\ m_fd_watchers' = WithoutAccepter(c) /\ accepter' = NoAccepter(c)
      /\ stack' = Below
      /\ fds' = fds /\ UNCHANGED <<child, sigchld, m_clients, m_client_trash, script, sent, read,
                                   state, ui, m_pending_keys, handled>>
  BY DEF ConnectDone
<1>2. Top.at = "connect" BY <1>1 DEF OnTop
<1>3. /\ Below \in Seq(Frames) /\ CallsFit(Below) /\ c \in Conn
      /\ \A i \in DOMAIN Below : Below[i].at \in {"main", "events"}
      /\ Depths(Below) = Depths(stack)
      /\ HandledIn(Below) = {} /\ HandledIn(stack) = {c}
  BY <1>2, ConnDone
<1> HIDE DEF c
<1>4. AllTypes'
  <2>1. fds' \in [1..MaxFd -> Objects \cup {Closed}] BY <1>1 DEF Inv, Types
  <2> QED BY <1>1, <1>3, <2>1, CallsType
<1>5. UnitsFit' BY <1>1, <1>3, UnitsWithout
<1>6. FramesFit'
  <2>1. \A i \in DOMAIN stack' : stack'[i].at \in {"main", "events"} BY <1>1, <1>3
  <2> QED BY <2>1 DEF FramesFit, FrameFits
<1>7. UNCHANGED <<m_clients, m_client_trash>> /\ script' = script /\ state' = state /\ ui' = ui
      /\ \A fd \in 1..MaxFd : fds'[fd] = fds[fd] \/ (fds[fd] = <<"conn", c>> /\ fds'[fd] = Closed)
  BY <1>1
<1>8. /\ stack' \in Seq(Frames) /\ CallsFit(stack') /\ Depths(stack') = Depths(stack)
      /\ HandledIn(stack') = HandledIn(stack) \ {c}
  BY <1>1, <1>3
<1> QED BY <1>1, <1>3, <1>4, <1>5, <1>6, <1>7, <1>8, ConnDoneFits

LEMMA CommandDoneInv ==
    ASSUME Inv, CommandDone
    PROVE  Inv'
<1> DEFINE c == Top.c
           fd == Top.fd
<1>1. /\ OnTop("command") /\ m_fd_watchers' = WithoutAccepter(c) /\ accepter' = NoAccepter(c)
      /\ stack' = Below
      /\ fds' = [fds EXCEPT ![fd] = Closed]
      /\ UNCHANGED <<child, sigchld, m_clients, m_client_trash, script, sent, read,
                     state, ui, m_pending_keys, handled>>
  BY DEF CommandDone
<1>2. Top.at = "command" BY <1>1 DEF OnTop
<1>3. /\ Below \in Seq(Frames) /\ CallsFit(Below) /\ c \in Conn
      /\ \A i \in DOMAIN Below : Below[i].at \in {"main", "events"}
      /\ Depths(Below) = Depths(stack)
      /\ HandledIn(Below) = {} /\ HandledIn(stack) = {c}
  BY <1>2, ConnDone
<1>4. /\ fd \in 1..MaxFd /\ ui[c] = Gone /\ fds[fd] = <<"conn", c>>
  <2>1. Top \in Frames /\ FrameFits(Top, ui, fds) BY TopIs DEF Inv, FramesFit
  <2> QED BY <1>2, <2>1, ClientOf DEF FrameFits
<1> HIDE DEF c, fd
<1>5. /\ fds' \in [1..MaxFd -> Objects \cup {Closed}]
      /\ \A o \in 1..MaxFd : fds'[o] = fds[o] \/ (fds[o] = <<"conn", c>> /\ fds'[o] = Closed)
  BY <1>1, <1>4, FdsClosed DEF Inv
<1>6. AllTypes' BY <1>1, <1>3, <1>5, CallsType
<1>7. UnitsFit' BY <1>1, <1>3, UnitsWithout
<1>8. FramesFit'
  <2>1. \A i \in DOMAIN stack' : stack'[i].at \in {"main", "events"} BY <1>1, <1>3
  <2> QED BY <2>1 DEF FramesFit, FrameFits
<1>9. UNCHANGED <<m_clients, m_client_trash>> /\ script' = script /\ state' = state /\ ui' = ui
  BY <1>1
<1>10. /\ stack' \in Seq(Frames) /\ CallsFit(stack') /\ Depths(stack') = Depths(stack)
       /\ HandledIn(stack') = HandledIn(stack) \ {c}
  BY <1>1, <1>3
<1> QED BY <1>1, <1>3, <1>4, <1>5, <1>6, <1>7, <1>8, <1>9, <1>10, ConnDoneFits

LEMMA AccepterEndsInv ==
    ASSUME Inv, NEW c \in Conn, AccepterReads(c), state[c] = "down"
    PROVE  Inv'
<1>1. QuietStack(stack') /\ AllTypes' /\ UnitsFit' /\ accepter[c] \in 0..1 /\ ui[c] = Gone
  BY AccepterReadsQuiet
<1>2. /\ fds' = [fds EXCEPT ![NextFd] = Closed] /\ fds[NextFd] = <<"conn", c>> /\ Runs(Acc(c))
      /\ m_fd_watchers' = WithoutAccepter(c) /\ accepter' = NoAccepter(c)
      /\ script' = script /\ state' = state /\ ui' = ui
      /\ UNCHANGED <<m_clients, m_client_trash>>
  BY DEF AccepterReads
<1>3. NextFd \in 1..MaxFd BY <1>2, RunsFacts
<1>4. \A o \in 1..MaxFd : fds'[o] = fds[o] \/ (fds[o] = <<"conn", c>> /\ fds'[o] = Closed)
  BY <1>2, <1>3, FdsClosed DEF Inv
<1>5. ~IsHandled(c) /\ c \notin HandledIn(stack)
  <2>1. accepter[c] # MessageSize BY <1>1 DEF MessageSize
  <2> QED BY <2>1, HandledOnes DEF Inv, ConnsFit
<1>6. /\ stack' \in Seq(Frames) /\ CallsFit(stack') /\ Depths(stack') = Depths(stack)
      /\ HandledIn(stack') = HandledIn(stack) \ {c} /\ HandledIn(stack') = HandledIn(stack)
  BY <1>1, <1>5, QuietKeeps DEF QuietStack
<1>7. FramesFit'
  <2>1. ASSUME NEW i \in DOMAIN stack', stack'[i].at \in {"command", "fifo"}
        PROVE  fds'[stack'[i].fd] = fds[stack'[i].fd]
    <3>1. FrameFits(stack'[i], ui, fds) /\ stack'[i] \in Frames BY <1>1, FramesFitNow
    <3>2. stack'[i].fd \in 1..MaxFd BY <2>1, <3>1, ClientOf
    <3>3. CASE stack'[i].at = "fifo"
      <4>1. fds[stack'[i].fd] # <<"conn", c>> BY <3>1, <3>3 DEF FrameFits
      <4> QED BY <1>4, <3>2, <4>1
    <3>4. CASE stack'[i].at = "command"
      <4>1. stack'[i].c \in HandledIn(stack') BY <3>4 DEF HandledIn
      <4>2. fds[stack'[i].fd] = <<"conn", stack'[i].c>> BY <3>1, <3>4 DEF FrameFits
      <4>3. fds[stack'[i].fd] # <<"conn", c>> BY <1>5, <1>6, <4>1, <4>2
      <4> QED BY <1>4, <3>2, <4>3
    <3> QED BY <2>1, <3>3, <3>4
  <2>2. \A e \in Conn : ui'[e] = Gone <=> ui[e] = Gone BY <1>2
  <2> QED BY <1>1, <1>2, <2>1, <2>2, FramesAfter
<1>8. ui[c] # Gone => fds' = fds BY <1>1
<1> QED BY <1>1, <1>2, <1>4, <1>6, <1>7, <1>8, ConnDoneFits

(* What the clients do; and the end of the keys. *)
LEMMA RemoteClientInv ==
    ASSUME Inv, RemoteClient
    PROVE  Inv'
<1>1. /\ AllTypes' /\ UnitsFit' /\ stack' = stack
      /\ UNCHANGED <<fds, m_fd_watchers>> /\ UNCHANGED <<m_clients, m_client_trash>>
      /\ accepter' = accepter /\ ui' = ui /\ script' = script
      /\ \A d \in Conn : state[d] \in {"up", "down"} => state'[d] \in {"up", "down"}
  BY RemoteClientQuiet
<1>2. QuietStack(stack') BY <1>1, StackStays DEF Inv
<1>3. SameConns BY <1>1 DEF SameConns
<1>4. SameClients BY <1>1, ClientsStay
<1> QED BY <1>1, <1>2, <1>3, <1>4, FdsStay, QuietInv

LEMMA OnlyCalls ==
    ASSUME Inv, AllTypes', UnitsFit', stack' \in Seq(Frames), CallsFit(stack'),
           Depths(stack') = Depths(stack), HandledIn(stack') = HandledIn(stack),
           \A i \in DOMAIN stack' : FrameFits(stack'[i], ui, fds),
           UNCHANGED <<fds, m_fd_watchers, m_clients, m_client_trash>>,
           UNCHANGED <<script, state, accepter, ui>>
    PROVE  Inv'
<1>1. FramesFit' BY Zenon DEF FramesFit, FrameFits
<1>2. \A c : IsHandled(c)' <=> IsHandled(c)
  <2>1. \A c : (IsHandled(c) <=> c \in HandledIn(stack)) /\ (IsHandled(c)' <=> c \in HandledIn(stack'))
    BY HandledOnes DEF IsHandled, HandledIn
  <2> QED BY <2>1
<1>3. Watchers' = Watchers BY DEF Watchers
<1>4. ConnsFit'
  <2>1. SameClients BY ClientsStay
  <2>2. SameConns BY DEF SameConns
  <2> QED BY <1>2, <1>3, <2>1, <2>2, ConnsAfter
<1>5. WatchersFit' BY <1>3 DEF Inv, WatchersFit, Fits, FitsIn
<1>6. FdsFit' BY DEF Inv, FdsFit
<1> QED BY <1>1, <1>4, <1>5, <1>6, Assembled

LEMMA SameCalls ==
    ASSUME Inv, stack' \in Seq(Frames), CallsFit(stack'), Depths(stack') = Depths(stack),
           HandledIn(stack') = HandledIn(stack),
           \A i \in DOMAIN stack' : FrameFits(stack'[i], ui, fds),
           UNCHANGED <<fds, m_fd_watchers, m_clients, m_client_trash, child, sigchld>>,
           UNCHANGED remoteVars
    PROVE  Inv'
<1>1. OtherTypes' BY DEF Inv, Types, OtherTypes
<1>2. AllTypes' /\ UnitsFit' BY <1>1, RemoteStays
<1>3. UNCHANGED <<script, state, accepter, ui>> BY DEF remoteVars
<1> QED BY <1>2, <1>3, OnlyCalls

LEMMA KeysEndInv ==
    ASSUME Inv, KeysEnd
    PROVE  Inv'
<1>1. /\ OnTop("keys") /\ stack' = Front(stack)
      /\ UNCHANGED <<fds, m_fd_watchers, m_clients, m_client_trash, child, sigchld>>
      /\ UNCHANGED remoteVars
  BY DEF KeysEnd, Below
<1>2. /\ stack' \in Seq(Frames) /\ CallsFit(stack') /\ Len(stack) = 3 /\ Len(stack') = 2
      /\ Evals(stack') = Evals(stack) /\ \A i \in 1..2 : stack'[i] = stack[i]
  BY <1>1, KeysEndQuiet DEF Inv
<1>3. /\ DOMAIN stack = 1..3 /\ DOMAIN stack' = 1..2 /\ stack[3].at = "keys"
  BY <1>1, <1>2, TopIs, LenProperties DEF Inv, OnTop
<1>4. Depths(stack') = Depths(stack)
  <2>1. \A i \in Evals(stack') : stack'[i] = stack[i] BY <1>2, <1>3 DEF Evals
  <2> QED BY <1>2, <2>1 DEF Depths
<1>5. HandledIn(stack') = HandledIn(stack)
  <2>1. {j \in DOMAIN stack : stack[j].at \in {"connect", "command"}}
            = {j \in DOMAIN stack' : stack'[j].at \in {"connect", "command"}}
    BY <1>2, <1>3
  <2>2. \A j \in DOMAIN stack' : stack'[j] = stack[j] BY <1>2, <1>3
  <2> QED BY <2>1, <2>2 DEF HandledIn
<1>6. \A i \in DOMAIN stack' : FrameFits(stack'[i], ui, fds)
  BY <1>2, <1>3 DEF Inv, FramesFit
<1> QED BY <1>1, <1>2, <1>4, <1>5, <1>6, SameCalls

(* The keys of a client are taken, and one of them is handled. *)
NoShells(s) == Evals(s) = {} /\ Depths(s) = {}

OneCall(s, f, t) ==
    /\ t \in Seq(Frames) /\ CallsFit(t) /\ NoShells(t) /\ HandledIn(t) = HandledIn(s)
    /\ \A i \in DOMAIN t : (i \in DOMAIN s /\ t[i] = s[i]) \/ (i = Len(s) + 1 /\ t[i] = f)

LEMMA KeysPushed ==
    ASSUME NEW s \in Seq(Frames), CallsFit(s), NoShells(s), NEW f \in Frames, Calls(Last(s), f),
           f.at \in {"keys", "run"}, NEW t, t = s \o <<f>>
    PROVE  OneCall(s, f, t)
<1> DEFINE u == s \o <<f>>
<1>1. /\ u \in Seq(Frames) /\ Len(u) = Len(s) + 1 /\ u = Append(s, f)
      /\ DOMAIN u = 1..Len(s) + 1 /\ DOMAIN s = 1..Len(s) /\ Len(s) \in Nat
      /\ (\A i \in 1..Len(s) : u[i] = s[i]) /\ u[Len(s) + 1] = f
  BY Pushed, LenProperties
<1>2. CallsFit(u) /\ Evals(u) = {}
  <2>1. CallsFit(Append(s, f)) /\ Evals(Append(s, f)) = Evals(s) \cup {} BY PushFits, Zenon
  <2> QED BY <1>1, <2>1, Zenon DEF NoShells
<1>3. t = u OBVIOUS
<1> HIDE DEF u
<1>4. NoShells(u) BY <1>2 DEF NoShells, Depths
<1>5. \A i \in DOMAIN u : (i \in DOMAIN s /\ u[i] = s[i]) \/ (i = Len(s) + 1 /\ u[i] = f)
  BY <1>1
<1>6. HandledIn(u) = HandledIn(s)
  <2>1. \A i \in DOMAIN s : i \in DOMAIN u /\ u[i] = s[i] BY <1>1
  <2>2. {i \in DOMAIN u : u[i].at \in {"connect", "command"}}
            = {i \in DOMAIN s : s[i].at \in {"connect", "command"}}
    BY <1>5, <2>1
  <2> QED BY <2>1, <2>2 DEF HandledIn
<1> QED BY <1>1, <1>2, <1>3, <1>4, <1>5, <1>6, Zenon DEF OneCall

LEMMA ProcessClientInv ==
    ASSUME Inv, ProcessClient
    PROVE  Inv'
<1>1. Types /\ CallsFit(stack) /\ Processing /\ ConnsFit /\ UnitsFit BY DEF Inv, ProcessClient
<1> DEFINE k == Min(Busy)
           c == m_clients[k]
           f == [Top EXCEPT !.i = k + 1, !.had = TRUE, !.some = TRUE]
           g == [at |-> "keys", c |-> c, keys |-> m_pending_keys[c]]
           r == Replaced(f)
<1>2. Top \in ProcessFrames /\ k \in Nat \ {0} /\ c \in Conn /\ c \in ToSet(m_clients)
  BY <1>1, TheBusy
<1>3. /\ stack' = r \o <<g>>
      /\ m_pending_keys' = [m_pending_keys EXCEPT ![c] = <<>>]
      /\ UNCHANGED <<fds, m_fd_watchers, m_clients, m_client_trash>>
      /\ UNCHANGED <<script, state, accepter, ui>>
      /\ UNCHANGED <<child, sigchld, sent, read, handled>>
  BY DEF ProcessClient
<1> HIDE DEF k
<1>4. f \in ProcessFrames
  <2> DEFINE yes == TRUE
             j == k + 1
  <2>1. yes \in BOOLEAN /\ j \in Nat \ {0} BY <1>2
  <2>2. f = [Top EXCEPT !.i = j, !.had = yes, !.some = yes] OBVIOUS
  <2> HIDE DEF f, yes, j
  <2> QED BY <1>2, <2>1, <2>2, Zenon DEF ProcessFrames
<1>5. f \in Frames /\ Alike(Top, f) /\ f.at = "process"
  BY <1>2, <1>4, FramesAre, Zenon DEF Alike, ProcessFrames
<1> HIDE DEF f, c
<1>6. QuietStack(r) /\ Last(r) = f /\ DOMAIN r = DOMAIN stack /\ Evals(r) = Evals(stack)
  BY <1>1, <1>5, StackReplaced
<1> HIDE DEF r
<1>7. r \in Seq(Frames) /\ CallsFit(r) /\ Keeps(stack, r) /\ stack \in Seq(Frames)
  BY <1>1, <1>6, TopIs DEF QuietStack
<1>8. Depths(r) = Depths(stack) /\ HandledIn(r) = HandledIn(stack)
      /\ \A i \in DOMAIN r : FrameFits(r[i], ui, fds)
  <2>1. \A i \in DOMAIN stack : FrameFits(stack[i], ui, fds) BY DEF Inv, FramesFit
  <2>2. \A i \in DOMAIN r \ DOMAIN stack : FALSE BY <1>6
  <2>3. Depths(r) = Depths(stack) /\ HandledIn(r) = HandledIn(stack)
    BY <1>7, <2>2, KeepsFacts
  <2>4. \A i \in DOMAIN r : FrameFits(r[i], ui, fds) BY <1>7, <2>1, <2>2, FramesKept
  <2> QED BY <2>3, <2>4
<1>9. NoShells(stack)
  <2>1. Len(stack) \in DOMAIN stack /\ Top = stack[Len(stack)] /\ DOMAIN stack = 1..Len(stack)
    BY <1>1, TopIs
  <2>2. Len(stack) = 2 BY <1>1, <1>2, <1>7, <2>1, Positions DEF ProcessFrames
  <2>3. \A i \in Evals(stack) : i \in DOMAIN stack /\ i > 2
    BY <1>1, <1>7, Positions DEF Evals
  <2>4. Evals(stack) = {} BY <2>1, <2>2, <2>3
  <2> QED BY <2>4 DEF NoShells, Depths
<1>10. m_pending_keys \in [Conn -> Seq(Nat)] BY <1>1 DEF Types
<1>11. ui[c] # Gone /\ Range(m_pending_keys[c]) \subseteq DOMAIN script[c]
  BY <1>1, <1>2 DEF ConnsFit, UnitsFit
<1>12. m_pending_keys[c] \in Seq(Nat) BY <1>2, <1>10
<1>13. g \in Frames /\ g.at = "keys" /\ Calls(f, g) /\ FrameFits(g, ui, fds)
  BY <1>2, <1>5, <1>11, <1>12, KeysAreCalled
<1> HIDE DEF g
<1>14. NoShells(r) BY <1>6, <1>8, <1>9 DEF NoShells
<1>15. /\ stack' \in Seq(Frames) /\ CallsFit(stack') /\ NoShells(stack')
       /\ HandledIn(stack') = HandledIn(r)
       /\ \A i \in DOMAIN stack' : (i \in DOMAIN r /\ stack'[i] = r[i]) \/ stack'[i] = g
  <2>1. Calls(Last(r), g) BY <1>6, <1>13
  <2>2. OneCall(r, g, stack') BY <1>3, <1>7, <1>13, <1>14, <2>1, KeysPushed, Zenon
  <2> QED BY <2>2 DEF OneCall
<1>16. \A i \in DOMAIN stack' : FrameFits(stack'[i], ui, fds) BY <1>8, <1>13, <1>15
<1>17. m_pending_keys' \in [Conn -> Seq(Nat)]
  <2>1. <<>> \in Seq(Nat) BY EmptySeq
  <2> QED BY <1>3, <1>10, <2>1, Zenon
<1>18. AllTypes'
  BY <1>1, <1>3, <1>17, Zenon DEF AllTypes, OtherTypes, ConnTypes, Types
<1>19. UnitsFit'
  <2>1. \A d \in Conn : Range(m_pending_keys'[d]) \subseteq DOMAIN script[d]
    <3>1. Range(<<>>) = {} BY DEF Range
    <3> QED BY <1>1, <1>2, <1>3, <1>10, <3>1 DEF UnitsFit
  <2> QED BY <1>1, <1>3, <2>1 DEF UnitsFit, Units
<1>20. Depths(stack') = Depths(stack) BY <1>9, <1>15 DEF NoShells
<1> QED BY <1>3, <1>8, <1>15, <1>16, <1>18, <1>19, <1>20, OnlyCalls

LEMMA HandlesKey ==
    ASSUME Inv, HandleKey
    PROVE  LET c == Top.c
               f == [Top EXCEPT !.keys = Tail(Top.keys)]
           IN  /\ f \in KeysFrames /\ f.at = "keys" /\ f.c = c
               /\ Head(Top.keys) \in Nat /\ Head(Top.keys) \in DOMAIN script[c]
               /\ Range(f.keys) \subseteq DOMAIN script[c]
               /\ KeyOf(c, Head(Top.keys)) \in AnyCmd
<1>1. Types /\ CallsFit(stack) BY DEF Inv
<1>2. /\ Top \in KeysFrames /\ Top.at = "keys" /\ Top.c \in Conn /\ Top.keys \in Seq(Nat)
      /\ ui[Top.c] # Gone /\ Range(Top.keys) \subseteq DOMAIN script[Top.c] /\ Top.keys # <<>>
  BY KeysTop DEF HandleKey
<1> DEFINE c == Top.c
           key == Head(Top.keys)
           rest == Tail(Top.keys)
           f == [Top EXCEPT !.keys = rest]
<1>3. /\ key \in Nat /\ key \in Range(Top.keys) /\ rest \in Seq(Nat)
      /\ Range(rest) \subseteq Range(Top.keys)
  <2> DEFINE s == Top.keys
             n == Len(s)
  <2>1. s \in Seq(Nat) /\ s # <<>> BY <1>2
  <2>2. n \in Nat \ {0} /\ DOMAIN s = 1..n BY <2>1, LastOne
  <2>3. /\ Head(s) \in Nat /\ Tail(s) \in Seq(Nat) /\ Len(Tail(s)) = n - 1
        /\ \A i \in 1..Len(Tail(s)) : Tail(s)[i] = s[i + 1]
    BY <2>1, HeadTailProperties
  <2>4. Head(s) = s[1] /\ DOMAIN Tail(s) = 1..n - 1 BY <2>1, <2>3, LenProperties
  <2> HIDE DEF s, n
  <2>5. Head(s) \in Range(s) BY <2>2, <2>4 DEF Range
  <2>6. ASSUME NEW i \in 1..n - 1 PROVE Tail(s)[i] \in Range(s)
    <3>1. i + 1 \in 1..n /\ Tail(s)[i] = s[i + 1] BY <2>2, <2>3
    <3> QED BY <2>2, <3>1 DEF Range
  <2>7. Range(Tail(s)) \subseteq Range(s) BY <2>4, <2>6 DEF Range
  <2> QED BY <2>3, <2>5, <2>7 DEF s
<1>4. key \in DOMAIN script[c] BY <1>2, <1>3
<1>5. KeyOf(c, key) \in AnyCmd BY <1>1, <1>2, <1>4, TheScript DEF KeyOf, AnyCmd
<1> HIDE DEF key, rest
<1>6. f \in KeysFrames /\ f.at = "keys" /\ f.c = c /\ f.keys = rest
  BY <1>2, <1>3 DEF KeysFrames
<1>7. Range(f.keys) \subseteq DOMAIN script[c] BY <1>2, <1>3, <1>6
<1> QED BY <1>3, <1>4, <1>5, <1>6, <1>7 DEF key, rest

LEMMA HandleKeyInv ==
    ASSUME Inv, HandleKey
    PROVE  Inv'
<1>1. Types /\ CallsFit(stack) /\ stack \in Seq(Frames) /\ stack # <<>> BY TopIs DEF Inv
<1> DEFINE c == Top.c
           key == Head(Top.keys)
           f == [Top EXCEPT !.keys = Tail(Top.keys)]
           cmds == <<KeyOf(c, key)>>
           run == RunFrame(cmds, c)
           r == Append(Below, f)
<1>2. /\ Top.at = "keys" /\ c \in Conn /\ ui[c] # Gone BY KeysTop DEF HandleKey
<1>3. /\ f \in KeysFrames /\ f.at = "keys" /\ f.c = c /\ key \in Nat
      /\ Range(f.keys) \subseteq DOMAIN script[c] /\ KeyOf(c, key) \in AnyCmd
  BY HandlesKey
<1>4. /\ stack' = r \o <<run>>
      /\ handled' = [handled EXCEPT ![c] = Append(@, key)]
      /\ UNCHANGED <<fds, m_fd_watchers, m_clients, m_client_trash>>
      /\ UNCHANGED <<script, state, accepter, ui>>
      /\ UNCHANGED <<child, sigchld, sent, read, m_pending_keys>>
  BY DEF HandleKey, Replaced
<1>5. cmds \in Seq(AnyCmd) BY <1>3
<1> HIDE DEF key, cmds, f
<1>6. f \in Frames BY <1>3, FramesAre
<1>7. /\ Len(stack) = 3 /\ DOMAIN stack = 1..3 /\ stack[1].at = "main" /\ stack[2].at = "process"
      /\ stack[3] = Top
  <2>1. Len(stack) \in DOMAIN stack /\ Top = stack[Len(stack)] /\ DOMAIN stack = 1..Len(stack)
    BY <1>1, TopIs
  <2>2. Len(stack) = 3 /\ stack[2].at = "process" BY <1>1, <1>2, <2>1, Positions
  <2>3. stack[1].at = "main" BY <1>1 DEF CallsFit
  <2> QED BY <2>1, <2>2, <2>3
<1>8. /\ r \in Seq(Frames) /\ Len(r) = 3 /\ DOMAIN r = 1..3 /\ r # <<>>
      /\ r[1] = stack[1] /\ r[2] = stack[2] /\ r[3] = f /\ Last(r) = f
  <2>1. /\ r \in Seq(Frames) /\ Len(r) = Len(stack) /\ DOMAIN r = 1..Len(stack) /\ r # <<>>
        /\ \A i \in 1..Len(stack) - 1 : r[i] = stack[i]
        /\ r[Len(stack)] = f /\ Last(r) = f
    BY <1>1, <1>6, WithLast DEF Below
  <2> HIDE DEF r
  <2> QED BY <1>7, <2>1
<1> HIDE DEF r
<1>9. \A i \in DOMAIN r : i \in {1, 2, 3} /\ r[i].at \in {"main", "process", "keys"}
  BY <1>3, <1>7, <1>8
<1>10. NoShells(r)
  <2>1. Evals(r) = {} BY <1>9 DEF Evals
  <2> QED BY <2>1 DEF NoShells, Depths
<1>11. CallsFit(r)
  <2>1. \A i \in 2..Len(r) : Calls(r[i - 1], r[i])
    <3>1. Calls(stack[1], stack[2]) BY <1>1, <1>7 DEF CallsFit
    <3>2. Calls(stack[2], f) BY <1>3, <1>7 DEF Calls
    <3>3. \A i \in 2..Len(r) : (i = 2 /\ i - 1 = 1) \/ (i = 3 /\ i - 1 = 2) BY <1>8
    <3> QED BY <1>8, <3>1, <3>2, <3>3
  <2>2. 0 \in 0..MaxDepth /\ Depths(r) = 1..0 BY <1>10, ShellAssumption DEF NoShells
  <2> QED BY <1>7, <1>8, <1>9, <1>10, <2>1, <2>2 DEF CallsFit, NoShells
<1>12. c \in Clients BY <1>2 DEF Clients
<1>13. run \in Frames /\ run.at = "run" /\ run.client = c /\ Calls(f, run)
  BY <1>3, <1>5, <1>12, RunIsCalled
<1>14. FrameFits(run, ui, fds) BY <1>2, <1>13 DEF FrameFits
<1>15. FrameFits(f, ui, fds) BY <1>2, <1>3 DEF FrameFits
<1> HIDE DEF run, c
<1>16. /\ stack' \in Seq(Frames) /\ CallsFit(stack') /\ NoShells(stack')
       /\ HandledIn(stack') = HandledIn(r)
       /\ \A i \in DOMAIN stack' : (i \in DOMAIN r /\ stack'[i] = r[i]) \/ stack'[i] = run
  <2>1. Calls(Last(r), run) BY <1>8, <1>13
  <2>2. OneCall(r, run, stack') BY <1>4, <1>8, <1>10, <1>11, <1>13, <2>1, KeysPushed, Zenon
  <2> QED BY <2>2 DEF OneCall
<1>17. \A i \in DOMAIN r : FrameFits(r[i], ui, fds)
  <2>1. \A i \in DOMAIN stack : FrameFits(stack[i], ui, fds) BY DEF Inv, FramesFit
  <2> QED BY <1>7, <1>8, <1>15, <2>1
<1>18. \A i \in DOMAIN stack' : FrameFits(stack'[i], ui, fds) BY <1>14, <1>16, <1>17
<1>19. HandledIn(stack) = {} /\ HandledIn(r) = {} /\ Depths(stack) = {}
  <2>1. \A i \in DOMAIN stack : stack[i].at \in {"main", "process", "keys"} BY <1>2, <1>7
  <2> QED BY <1>9, <2>1 DEF HandledIn, Depths, Evals
<1>20. handled' \in [Conn -> Seq(Nat)]
  <2>1. handled \in [Conn -> Seq(Nat)] BY <1>1 DEF Types
  <2>2. handled[c] \in Seq(Nat) BY <1>2, <2>1 DEF c
  <2>3. Append(handled[c], key) \in Seq(Nat) BY <1>3, <2>2, AppendProperties
  <2> QED BY <1>4, <2>1, <2>3, Zenon
<1>21. AllTypes' BY <1>1, <1>4, <1>20, Zenon DEF AllTypes, OtherTypes, ConnTypes, Types
<1>22. UnitsFit' BY <1>4 DEF Inv, UnitsFit, Units
<1> QED BY <1>4, <1>16, <1>18, <1>19, <1>21, <1>22, OnlyCalls DEF NoShells

LEMMA EmptiesTrashInv ==
    ASSUME Inv, EmptiesTrash
    PROVE  Inv'
<1>1. QuietStack(stack') /\ AllTypes' /\ UnitsFit' BY EmptiesTrashQuiet
<1>2. PICK c \in m_client_trash :
        /\ fds' = [fd \in DOMAIN fds |-> IF fd = FdOf(Ui(c)) THEN Closed ELSE fds[fd]]
        /\ m_fd_watchers' = UnorderedErase(m_fd_watchers, Ui(c))
        /\ m_client_trash' = m_client_trash \ {c}
        /\ ui' = [ui EXCEPT ![c] = Gone]
  BY Zenon DEF EmptiesTrash
<1>3. /\ AtMain("trash") /\ m_clients' = m_clients /\ script' = script /\ state' = state
      /\ accepter' = accepter
      /\ stack' = Replaced([MainFrame EXCEPT !.pc = IF m_client_trash' = {} THEN "top" ELSE "trash"])
  BY DEF EmptiesTrash
<1>4. c \in Conn /\ ui[c] # Gone BY TheClients
<1>5. /\ Len(stack) = 1 /\ DOMAIN stack = {1} /\ Depths(stack) = {} /\ (\A e : ~IsHandled(e))
      /\ Types /\ CallsFit(stack)
  BY <1>3, AloneAtMain DEF AtMain, Inv
<1>6. /\ ui'[c] = Gone /\ \A e \in Conn : e # c => ui'[e] = ui[e]
  BY <1>2, <1>4, <1>5 DEF Types
<1>7. accepter[c] = Gone
  BY <1>4, <1>5 DEF Inv, ConnsFit
<1>8. \A fd \in 1..MaxFd : fds'[fd] = fds[fd] \/ (fds[fd] = <<"conn", c>> /\ fds'[fd] = Closed)
  <2>1. FdOf(Ui(c)) # None => fds[FdOf(Ui(c))] = <<"conn", c>> BY <1>4, FdOfUi
  <2>2. DOMAIN fds = 1..MaxFd /\ \A fd \in 1..MaxFd : fd # None
    BY <1>5, MaxFdAssumption DEF Types, None
  <2> QED BY <1>2, <2>1, <2>2
<1>9. Depths(stack') = Depths(stack) /\ \A e : IsHandled(e)' <=> IsHandled(e)
  BY <1>1, QuietKeeps
<1>10. WatchersFit' /\ \A w \in Watchers : w.who # Ui(c) => w \in Watchers'
  <2>1. Ui(c) # Acc(c) BY DEF Acc, Ui
  <2>2. \A e \in Conn : e # c => accepter'[e] = accepter[e] /\ ui'[e] = ui[e] BY <1>3, <1>6
  <2>3. Ui(c) = Acc(c) => ui' = ui /\ (ui[c] # Gone => fds' = fds) BY <2>1
  <2>4. Ui(c) = Ui(c) => accepter[c] = Gone BY <1>7
  <2>5. Ui(c) \in {Acc(c), Ui(c)} OBVIOUS
  <2> QED BY <1>2, <1>4, <1>8, <1>9, <2>2, <2>3, <2>4, <2>5, OneWatcherGoes
<1>11. FdsFit' BY <1>1, <1>3, <1>4, <1>8, <1>9, OneWatcherFds
<1>12. FramesFit'
  <2>1. stack' \in Seq(Frames) /\ stack'[1].at = "main" BY <1>1 DEF QuietStack, CallsFit
  <2>2. DOMAIN stack' = 1..1
    <3> DEFINE f == [MainFrame EXCEPT !.pc = IF m_client_trash' = {} THEN "top" ELSE "trash"]
    <3>1. Len(Below) = 0 /\ Below \in Seq(Frames) BY <1>5, TopIs, TheFront DEF Below
    <3>2. stack' = Append(Below, f) BY <1>3 DEF Replaced
    <3>3. f \in Frames
      <4>1. f \in MainFrames BY DEF MainFrame, MainFrames
      <4> QED BY <4>1, FramesAre
    <3>4. Len(Append(Below, f)) = Len(Below) + 1 BY <3>1, <3>3, AppendProperties
    <3> HIDE DEF f
    <3>5. Len(stack') = 1 BY <3>1, <3>2, <3>4
    <3> QED BY <2>1, <3>5, LenProperties
  <2>3. \A i \in DOMAIN stack' : stack'[i].at = "main" BY <2>1, <2>2
  <2> QED BY <2>3 DEF FramesFit, FrameFits
<1>13. ConnsFit'
  <2>1. ConnsFit BY DEF Inv
  <2>2. ASSUME NEW e \in Conn
        PROVE  /\ accepter'[e] = MessageSize <=> IsHandled(e)'
               /\ ui'[e] # Gone => accepter'[e] \in {Gone, MessageSize}
               /\ state'[e] \in {"away", "backlog"} => accepter'[e] = Gone /\ ui'[e] = Gone
               /\ ui'[e] # Gone => \E w \in Watchers' : w.who = Ui(e)
    <3>1. accepter'[e] = MessageSize <=> IsHandled(e)' BY <1>3, <1>9, <2>1 DEF ConnsFit
    <3>2. ui'[e] # Gone => accepter'[e] \in {Gone, MessageSize} BY <1>3, <1>6, <2>1 DEF ConnsFit
    <3>3. state'[e] \in {"away", "backlog"} => accepter'[e] = Gone /\ ui'[e] = Gone
      BY <1>3, <1>6, <2>1 DEF ConnsFit
    <3>4. ui'[e] # Gone => \E w \in Watchers' : w.who = Ui(e)
      <4>1. e # c => Ui(e) # Ui(c) BY DEF Ui
      <4> QED BY <1>6, <1>10, <2>1, <4>1 DEF ConnsFit
    <3> QED BY <3>1, <3>2, <3>3, <3>4
  <2>3. \A e : Ui(e)' = Ui(e) BY DEF Ui
  <2>4. /\ \A e \in ToSet(m_clients') \cup m_client_trash' : ui'[e] # Gone
        /\ ToSet(m_clients') \cap m_client_trash' = {}
        /\ \A i, j \in DOMAIN m_clients' : m_clients'[i] = m_clients'[j] => i = j
    <3>1. \A e \in ToSet(m_clients) \cup m_client_trash : e \in Conn /\ ui[e] # Gone
      BY TheClients
    <3>2. c \notin ToSet(m_clients) BY <2>1 DEF ConnsFit
    <3>3. \A e \in ToSet(m_clients') \cup m_client_trash' :
            e # c /\ e \in ToSet(m_clients) \cup m_client_trash
      BY <1>2, <1>3, <3>2
    <3>4. \A e \in ToSet(m_clients') \cup m_client_trash' : ui'[e] # Gone BY <1>6, <3>1, <3>3
    <3> QED BY <1>2, <1>3, <2>1, <3>4 DEF ConnsFit
  <2> QED BY <2>2, <2>3, <2>4 DEF ConnsFit
<1> QED BY <1>1, <1>10, <1>11, <1>12, <1>13, Assembled DEF QuietStack

-----------------------------------------------------------------------------
(* What a step opens, and its watchers. *)
LEMMA OldWatchersFit ==
    ASSUME Inv, \A fd \in 1..MaxFd : fds[fd] # Closed => fds'[fd] = fds[fd],
           Depths(stack) \subseteq Depths(stack'),
           \A c \in Conn : /\ accepter[c] # Gone => accepter'[c] # Gone
                           /\ ui[c] # Gone => ui'[c] # Gone
    PROVE  \A w \in Watchers : FitsIn(w, fds', Depths(stack'), accepter', ui')
<1> SUFFICES ASSUME NEW w \in Watchers
             PROVE  FitsIn(w, fds', Depths(stack'), accepter', ui')
  OBVIOUS
<1>1. w \in WatcherRecords /\ FitsIn(w, fds, Depths(stack), accepter, ui) /\ w.fd \in 0..MaxFd
  BY WatchersType, TheWatchers DEF Inv, WatchersFit, Fits
<1>2. w.fd # None => w.fd \in 1..MaxFd BY <1>1, MaxFdAssumption DEF None
<1>3. w.who = Listener => fds'[w.fd] = fds[w.fd]
  <2> SUFFICES ASSUME w.who = Listener PROVE fds'[w.fd] = fds[w.fd] OBVIOUS
  <2>1. w.fd # None /\ fds[w.fd] = Listener BY <1>1, FitsListener
  <2>2. Listener # Closed BY DEF Listener, Closed
  <2> QED BY <1>2, <2>1, <2>2
<1>4. \A c \in Conn : w.who = Acc(c) =>
              /\ accepter'[c] # Gone
              /\ ui'[c] = Gone => ui[c] = Gone /\ fds'[w.fd] = fds[w.fd]
  <2> SUFFICES ASSUME NEW c \in Conn, w.who = Acc(c)
               PROVE  /\ accepter'[c] # Gone
                      /\ ui'[c] = Gone => ui[c] = Gone /\ fds'[w.fd] = fds[w.fd]
    OBVIOUS
  <2>1. accepter[c] # Gone /\ w.fd # None /\ (ui[c] = Gone => fds[w.fd] = <<"conn", c>>)
    <3>1. w.who # Listener /\ w.who[1] = "accepter" /\ w.who[2] = c BY DEF Listener, Acc
    <3> QED BY <1>1, <3>1 DEF FitsIn
  <2>2. <<"conn", c>> # Closed BY DEF Closed
  <2> QED BY <1>2, <2>1, <2>2
<1>5. \A c \in Conn : w.who = Ui(c) =>
              ui'[c] # Gone /\ (w.fd # None => fds'[w.fd] = fds[w.fd])
  <2> SUFFICES ASSUME NEW c \in Conn, w.who = Ui(c)
               PROVE  ui'[c] # Gone /\ (w.fd # None => fds'[w.fd] = fds[w.fd])
    OBVIOUS
  <2>1. ui[c] # Gone /\ (w.fd # None => fds[w.fd] = <<"conn", c>>)
    <3>1. w.who # Listener /\ w.who[1] = "ui" /\ w.who[2] = c BY DEF Listener, Ui
    <3> QED BY <1>1, <3>1 DEF FitsIn
  <2>2. <<"conn", c>> # Closed BY DEF Closed
  <2> QED BY <1>2, <2>1, <2>2, Zenon
<1>6. \A d \in Depth : \A k \in {"fifo", "in", "out"} : w.who = <<k, d>> =>
              /\ d \in Depths(stack')
              /\ w.fd # None => fds'[w.fd] = fds[w.fd]
  <2> SUFFICES ASSUME NEW d \in Depth, NEW k \in {"fifo", "in", "out"}, w.who = <<k, d>>
               PROVE  /\ d \in Depths(stack')
                      /\ w.fd # None => fds'[w.fd] = fds[w.fd]
    OBVIOUS
  <2>1. d \in Depths(stack) /\ (w.fd # None => fds[w.fd] = <<k, d>>) BY <1>1, ShellWatches
  <2>2. <<k, d>> # Closed BY DEF Closed
  <2> QED BY <1>2, <2>1, <2>2
<1> QED BY <1>1, <1>3, <1>4, <1>5, <1>6, FitsStill

LEMMA MoreWatchers ==
    ASSUME Inv, NEW extra \in Seq(WatcherRecords), m_fd_watchers' = m_fd_watchers \o extra,
           \A w \in Watchers : FitsIn(w, fds', Depths(stack'), accepter', ui'),
           \A i \in 1..Len(extra) : FitsIn(extra[i], fds', Depths(stack'), accepter', ui'),
           \A i, j \in 1..Len(extra) : extra[i].who = extra[j].who => i = j,
           \A i \in 1..Len(extra), w \in Watchers : w.who # extra[i].who
    PROVE  /\ WatchersFit' /\ m_fd_watchers' \in Seq(WatcherRecords)
           /\ Watchers \subseteq Watchers'
           /\ \A i \in 1..Len(extra) : extra[i] \in Watchers'
<1> DEFINE n == Len(m_fd_watchers)
           m == Len(extra)
<1>1. m_fd_watchers \in Seq(WatcherRecords) BY DEF Inv, Types
<1>2. /\ n \in Nat /\ m \in Nat /\ DOMAIN m_fd_watchers = 1..n
      /\ m_fd_watchers' \in Seq(WatcherRecords)
      /\ Len(m_fd_watchers') = n + m
      /\ \A i \in 1..n + m : m_fd_watchers'[i] = IF i <= n THEN m_fd_watchers[i] ELSE extra[i - n]
  BY <1>1, LenProperties, ConcatProperties
<1>3. DOMAIN m_fd_watchers' = 1..n + m BY <1>2, LenProperties
<1>4. \A i \in 1..n : m_fd_watchers[i] \in Watchers BY <1>2, Zenon DEF Watchers, ToSet
<1> HIDE DEF n, m
<1>5. \A i \in 1..n : m_fd_watchers'[i] = m_fd_watchers[i] BY <1>2
<1>6. \A i \in n + 1..n + m : i - n \in 1..m /\ m_fd_watchers'[i] = extra[i - n] BY <1>2
<1>7. \A i \in 1..n + m : i \in 1..n \/ i \in n + 1..n + m BY <1>2
<1>8. \A i \in DOMAIN m_fd_watchers' : FitsIn(m_fd_watchers'[i], fds', Depths(stack'), accepter', ui')
  BY <1>3, <1>4, <1>5, <1>6, <1>7, Zenon DEF m
<1>9. ASSUME NEW i \in DOMAIN m_fd_watchers', NEW j \in DOMAIN m_fd_watchers',
             m_fd_watchers'[i].who = m_fd_watchers'[j].who
      PROVE  i = j
  <2>1. CASE i \in 1..n /\ j \in 1..n
    BY <1>2, <1>5, <1>9, <2>1 DEF Inv, WatchersFit
  <2>2. ASSUME NEW a \in 1..n, NEW b \in n + 1..n + m
        PROVE  m_fd_watchers'[a].who # m_fd_watchers'[b].who
    <3>1. m_fd_watchers'[a] \in Watchers BY <1>4, <1>5, Zenon
    <3>2. b - n \in 1..Len(extra) /\ m_fd_watchers'[b] = extra[b - n] BY <1>6, Zenon DEF m
    <3> QED BY <3>1, <3>2, Zenon
  <2>3. ~(i \in 1..n /\ j \in n + 1..n + m) /\ ~(j \in 1..n /\ i \in n + 1..n + m)
    BY <1>9, <2>2, Zenon
  <2>4. CASE i \in n + 1..n + m /\ j \in n + 1..n + m
    <3>1. i - n = j - n BY <1>6, <1>9, <2>4, Zenon DEF m
    <3> QED BY <1>2, <2>4, <3>1
  <2> QED BY <1>3, <1>7, <2>1, <2>2, <2>3, <2>4
<1>10. WatchersFit'
  <2>1. \A w \in Watchers' : FitsIn(w, fds', Depths(stack'), accepter', ui')
    BY <1>8 DEF Watchers, ToSet
  <2>2. \A w \in Watchers' : Fits(w)' BY <2>1 DEF Fits, FitsIn
  <2> QED BY <1>9, <2>2 DEF WatchersFit
<1>11. Watchers \subseteq Watchers'
  <2>1. ASSUME NEW i \in 1..n PROVE m_fd_watchers[i] \in Watchers'
    <3>1. i \in DOMAIN m_fd_watchers' /\ m_fd_watchers'[i] = m_fd_watchers[i]
      BY <1>2, <1>3, <1>5
    <3> QED BY <3>1 DEF Watchers, ToSet
  <2> QED BY <1>2, <2>1 DEF Watchers, ToSet
<1>12. ASSUME NEW i \in 1..m PROVE extra[i] \in Watchers'
  <2>1. n + i \in DOMAIN m_fd_watchers' /\ n + i \in n + 1..n + m /\ (n + i) - n = i BY <1>2, <1>3
  <2>2. m_fd_watchers'[n + i] = extra[i] BY <1>6, <2>1
  <2> QED BY <2>1, <2>2 DEF Watchers, ToSet
<1> QED BY <1>2, <1>10, <1>11, <1>12 DEF m

LEMMA OneWatcher ==
    ASSUME NEW x \in WatcherRecords
    PROVE  /\ <<x>> \in Seq(WatcherRecords) /\ Len(<<x>>) = 1 /\ <<x>>[1] = x
           /\ \A i, j \in 1..Len(<<x>>) : i = j /\ <<x>>[i] = x
OBVIOUS

LEMMA OneMoreWatcher ==
    ASSUME Inv, NEW x \in WatcherRecords, m_fd_watchers' = Append(m_fd_watchers, x),
           \A w \in Watchers : FitsIn(w, fds', Depths(stack'), accepter', ui'),
           FitsIn(x, fds', Depths(stack'), accepter', ui'),
           \A w \in Watchers : w.who # x.who
    PROVE  /\ WatchersFit' /\ m_fd_watchers' \in Seq(WatcherRecords)
           /\ Watchers \subseteq Watchers' /\ x \in Watchers'
<1> DEFINE e == <<x>>
<1>1. m_fd_watchers' = m_fd_watchers \o e
  <2>1. m_fd_watchers \in Seq(WatcherRecords) BY DEF Inv, Types
  <2> QED BY <2>1, Pushed
<1>2. e \in Seq(WatcherRecords) /\ Len(e) = 1 /\ \A i, j \in 1..Len(e) : i = j /\ e[i] = x
  BY OneWatcher
<1> HIDE DEF e
<1>3. /\ \A i \in 1..Len(e) : FitsIn(e[i], fds', Depths(stack'), accepter', ui')
      /\ \A i, j \in 1..Len(e) : e[i].who = e[j].who => i = j
      /\ \A i \in 1..Len(e), w \in Watchers : w.who # e[i].who
  BY <1>2
<1>4. 1 \in 1..Len(e) /\ e[1] = x BY <1>2
<1> QED BY <1>1, <1>2, <1>3, <1>4, MoreWatchers, Zenon

LEMMA FdInIs ==
    ASSUME NEW t, NEW object, \E fd \in 1..MaxFd : t[fd] = object, DOMAIN t = 1..MaxFd
    PROVE  FdIn(t, object) \in 1..MaxFd /\ t[FdIn(t, object)] = object
BY DEF FdIn

LEMMA AcceptInv ==
    ASSUME Inv, Accept
    PROVE  Inv'
<1>1. PICK c \in Backlog :
        /\ state' = [state EXCEPT ![c] = "up"]
        /\ fds' = Opened(fds, << <<"conn", c>> >>)
        /\ m_fd_watchers' =
                Append(m_fd_watchers, Watcher(Acc(c), FdIn(fds', <<"conn", c>>), Normal))
        /\ accepter' = [accepter EXCEPT ![c] = 0]
  BY Zenon DEF Accept
<1>2. /\ Runs(Listener) /\ HasFree(fds, 1) /\ stack' = Served
      /\ UNCHANGED <<child, sigchld>> /\ UNCHANGED <<m_clients, m_client_trash>>
      /\ script' = script /\ sent' = sent /\ read' = read /\ ui' = ui
      /\ m_pending_keys' = m_pending_keys /\ handled' = handled
  BY DEF Accept
<1>3. c \in Conn /\ state[c] = "backlog" /\ accepter[c] = Gone /\ ui[c] = Gone
  BY DEF Backlog, Inv, ConnsFit
<1>4. QuietStack(stack') BY <1>2, ServedIs DEF Inv, Runs
<1>5. Depths(stack') = Depths(stack) /\ \A e : IsHandled(e)' <=> IsHandled(e)
  BY <1>4, QuietKeeps
<1>6. /\ accepter'[c] = 0 /\ \A e \in Conn : e # c => accepter'[e] = accepter[e]
      /\ state'[c] = "up" /\ \A e \in Conn : e # c => state'[e] = state[e]
      /\ accepter' \in [Conn -> Gone..MessageSize]
      /\ state' \in [Conn -> {"away", "backlog", "up", "down"}]
  <2>1. /\ accepter \in [Conn -> Gone..MessageSize]
        /\ state \in [Conn -> {"away", "backlog", "up", "down"}]
    BY DEF Inv, Types
  <2>2. 0 \in Gone..MessageSize BY DEF Gone, MessageSize
  <2> QED BY <1>1, <1>3, <2>1, <2>2
<1> DEFINE x == Watcher(Acc(c), FdIn(fds', <<"conn", c>>), Normal)
           o == <<"conn", c>>
<1>7. /\ fds' \in [1..MaxFd -> Objects \cup {Closed}]
      /\ \A fd \in 1..MaxFd : fds[fd] # Closed => fds'[fd] = fds[fd]
      /\ \A fd \in 1..MaxFd : fds[fd] = Closed => fds'[fd] = Closed \/ fds'[fd] = <<"conn", c>>
      /\ \E fd \in 1..MaxFd : fds'[fd] = <<"conn", c>>
      /\ \A a, b \in 1..MaxFd : fds'[a] # Closed /\ fds'[a] = fds'[b] => a = b
  <2>1. o \in Conns /\ o \in Objects /\ o # Closed BY <1>3 DEF Conns, Objects, Closed
  <2>2. \A fd \in 1..MaxFd : fds[fd] # o
    <3> SUFFICES ASSUME NEW fd \in 1..MaxFd, fds[fd] = o PROVE FALSE OBVIOUS
    <3>1. state[c] \in {"up", "down"} BY <1>3, <2>1 DEF Inv, FdsFit
    <3> QED BY <1>3, <3>1
  <2> HIDE DEF o
  <2> DEFINE objects == <<o>>
             S == Objects \cup {Closed}
  <2>3. /\ objects \in Seq(S) /\ Len(objects) = 1 /\ \A i, j \in 1..Len(objects) : i = j
        /\ \A i \in 1..Len(objects) : objects[i] = o
        /\ 1 \in 1..Len(objects)
    BY <2>1
  <2>4. fds' = Opened(fds, objects) BY <1>1 DEF o
  <2>5. Len(objects) <= Cardinality(Free(fds)) BY <1>2, <2>3, FreeAreCounted
  <2> HIDE DEF objects
  <2> DEFINE r == Opened(fds, objects)
  <2>6. r \in [1..MaxFd -> S] /\ Opens(fds, objects, r)
    <3>1. /\ \A i, j \in 1..Len(objects) : objects[i] = objects[j] => i = j
          /\ \A i \in 1..Len(objects) :
                objects[i] # Closed /\ \A fd \in 1..MaxFd : fds[fd] # objects[i]
      BY <2>1, <2>2, <2>3
    <3>2. fds \in [1..MaxFd -> S] /\ Closed \in S BY DEF Inv, Types
    <3>3. \A a, b \in 1..MaxFd : fds[a] # Closed /\ fds[a] = fds[b] => a = b
      BY DEF Inv, FdsFit
    <3>4. objects \in Seq(S) BY <2>3
    <3> HIDE DEF S
    <3> QED BY <2>5, <3>1, <3>2, <3>3, <3>4, OpenedIs, Zenon
  <2> HIDE DEF r
  <2>7. fds' = r BY <2>4 DEF r
  <2>8. /\ \A fd \in 1..MaxFd : fds[fd] = Closed => r[fd] = Closed \/ r[fd] = o
        /\ \E fd \in 1..MaxFd : r[fd] = o
    BY <2>3, <2>6 DEF Opens
  <2>9. r \in [1..MaxFd -> Objects \cup {Closed}]
    BY <2>6
  <2> QED BY <2>6, <2>7, <2>8, <2>9, Zenon DEF o, Opens
<1> HIDE DEF x, o
<1>8. x \in WatcherRecords /\ x.who = Acc(c) /\ x.fd \in 1..MaxFd /\ fds'[x.fd] = <<"conn", c>>
  <2>1. DOMAIN fds' = 1..MaxFd BY <1>7
  <2>2. FdIn(fds', <<"conn", c>>) \in 1..MaxFd /\ fds'[FdIn(fds', <<"conn", c>>)] = <<"conn", c>>
    BY <1>7, <2>1, FdInIs, Zenon
  <2>3. Acc(c) \in Whos BY <1>3 DEF Acc, Whos
  <2>4. FdIn(fds', <<"conn", c>>) \in 0..MaxFd BY <2>2, MaxFdAssumption
  <2> QED BY <2>2, <2>3, <2>4 DEF x, Watcher, WatcherRecords
<1>9. WatchersFit' /\ m_fd_watchers' \in Seq(WatcherRecords) /\ Watchers \subseteq Watchers'
  <2>1. \A w \in Watchers : w.who # Acc(c)
    <3> SUFFICES ASSUME NEW w \in Watchers, w.who = Acc(c) PROVE FALSE OBVIOUS
    <3>1. FitsIn(w, fds, Depths(stack), accepter, ui) BY DEF Inv, WatchersFit, Fits
    <3>2. w.who # Listener /\ w.who[1] = "accepter" /\ w.who[2] = c BY DEF Listener, Acc
    <3> QED BY <1>3, <3>1, <3>2 DEF FitsIn
  <2>2. \A e \in Conn : /\ accepter[e] # Gone => accepter'[e] # Gone
                        /\ ui[e] # Gone => ui'[e] # Gone
    BY <1>2, <1>3, <1>6
  <2>3. \A w \in Watchers : FitsIn(w, fds', Depths(stack'), accepter', ui')
    BY <1>5, <1>7, <2>2, OldWatchersFit
  <2>4. FitsIn(x, fds', Depths(stack'), accepter', ui')
    <3>1. accepter'[c] # Gone /\ x.fd # None
      BY <1>6, <1>8, MaxFdAssumption DEF Gone, None
    <3> QED BY <1>8, <3>1, FitsAcc
  <2>5. m_fd_watchers' = Append(m_fd_watchers, x) BY <1>1 DEF x
  <2> QED BY <1>8, <2>1, <2>3, <2>4, <2>5, OneMoreWatcher
<1>10. AllTypes'
  <2>1. OtherTypes' BY <1>2, <1>7, <1>9 DEF Inv, Types, OtherTypes
  <2>2. ConnTypes' BY <1>2, <1>6, Zenon DEF Inv, Types, ConnTypes
  <2> QED BY <2>1, <2>2 DEF AllTypes
<1>11. UnitsFit'
  <2>1. UnitsFit BY DEF Inv
  <2>2. read[c] = 0 BY <1>3, <2>1 DEF UnitsFit
  <2>3. \A e \in Conn : /\ accepter'[e] \in 0..1 => read[e] = accepter'[e]
                        /\ accepter'[e] = MessageSize \/ ui[e] # Gone => read[e] >= MessageSize
                        /\ state'[e] \in {"away", "backlog"} => read[e] = 0
    BY <1>3, <1>6, <2>1, <2>2 DEF UnitsFit, MessageSize
  <2> QED BY <1>2, <2>1, <2>3 DEF UnitsFit, Units
<1>12. FramesFit'
  <2>1. ASSUME NEW i \in DOMAIN stack', stack'[i].at \in {"command", "fifo"}
        PROVE  fds'[stack'[i].fd] = fds[stack'[i].fd]
    <3>1. FrameFits(stack'[i], ui, fds) /\ stack'[i] \in Frames BY <1>4, FramesFitNow
    <3>2. stack'[i].fd \in 1..MaxFd BY <2>1, <3>1, ClientOf
    <3>3. fds[stack'[i].fd] # Closed BY <2>1, <3>1 DEF FrameFits, Closed
    <3> QED BY <1>7, <3>2, <3>3
  <2>2. \A e \in Conn : ui'[e] = Gone <=> ui[e] = Gone BY <1>2
  <2> QED BY <1>2, <1>4, <2>1, <2>2, FramesAfter
<1>13. FdsFit'
  <2>1. FdsFit BY DEF Inv
  <2>2. ASSUME NEW fd \in 1..MaxFd
        PROVE  /\ fds'[fd] \in ShellEnds => fds'[fd][2] \in Depths(stack')
               /\ fds'[fd] \in Conns => state'[fds'[fd][2]] \in {"up", "down"}
               /\ fds'[fd] \in Leaks => fds'[fd] = Leaked(fd)
    <3>1. CASE fds'[fd] = fds[fd]
      <4>1. fds[fd] \in Conns => fds[fd][2] \in Conn BY DEF Conns
      <4> QED BY <1>5, <1>6, <2>1, <3>1, <4>1 DEF FdsFit
    <3>2. CASE fds'[fd] = <<"conn", c>>
      <4>1. fds'[fd] \notin ShellEnds BY <3>2 DEF ShellEnds
      <4>2. fds'[fd][2] = c BY <3>2
      <4>3. fds'[fd] \in Conns BY <1>3, <3>2 DEF Conns
      <4>4. fds'[fd] \notin Leaks BY <4>3, LeaksAre
      <4> QED BY <1>6, <4>1, <4>2, <4>4
    <3> QED BY <1>7, <3>1, <3>2
  <2> QED BY <1>7, <2>2 DEF FdsFit
<1>14. ConnsFit'
  <2>1. ConnsFit /\ 0 # MessageSize /\ Gone # MessageSize BY DEF Inv, Gone, MessageSize
  <2>2. ASSUME NEW e \in Conn
        PROVE  /\ accepter'[e] = MessageSize <=> IsHandled(e)'
               /\ ui'[e] # Gone => accepter'[e] \in {Gone, MessageSize}
               /\ state'[e] \in {"away", "backlog"} => accepter'[e] = Gone /\ ui'[e] = Gone
               /\ ui'[e] # Gone => \E w \in Watchers' : w.who = Ui(e)
    <3>1. accepter'[e] = MessageSize <=> IsHandled(e)' BY <1>3, <1>5, <1>6, <2>1 DEF ConnsFit
    <3>2. ui'[e] # Gone => accepter'[e] \in {Gone, MessageSize}
      BY <1>2, <1>3, <1>6, <2>1 DEF ConnsFit
    <3>3. state'[e] \in {"away", "backlog"} => accepter'[e] = Gone /\ ui'[e] = Gone
      BY <1>2, <1>6, <2>1 DEF ConnsFit
    <3>4. ui'[e] # Gone => \E w \in Watchers' : w.who = Ui(e) BY <1>2, <1>9, <2>1 DEF ConnsFit
    <3> QED BY <3>1, <3>2, <3>3, <3>4
  <2>3. \A e : Ui(e)' = Ui(e) BY DEF Ui
  <2>4. /\ \A e \in ToSet(m_clients') \cup m_client_trash' : ui'[e] # Gone
        /\ ToSet(m_clients') \cap m_client_trash' = {}
        /\ \A i, j \in DOMAIN m_clients' : m_clients'[i] = m_clients'[j] => i = j
    BY <1>2, <2>1 DEF ConnsFit
  <2> QED BY <2>2, <2>3, <2>4 DEF ConnsFit
<1> QED BY <1>4, <1>9, <1>10, <1>11, <1>12, <1>13, <1>14, Assembled DEF QuietStack

(* The message is complete: a client, or a command.                          *)
LEMMA AtEvents ==
    ASSUME Types, CallsFit(stack), InEvents, Top.mode = Normal
    PROVE  /\ Len(stack) = 2 /\ HandledIn(stack) = {} /\ Evals(stack) = {} /\ Depths(stack) = {}
           /\ \A i \in DOMAIN stack : stack[i].at \in {"main", "events"}
<1>1. /\ Len(stack) \in DOMAIN stack /\ DOMAIN stack = 1..Len(stack) /\ Top = stack[Len(stack)]
  BY TopIs
<1>2. Top.at = "events" BY DEF InEvents
<1>3. stack \in Seq(Frames) /\ stack[1].at = "main" BY DEF Types, CallsFit
<1>4. Len(stack) = 2 BY <1>1, <1>2, <1>3, Positions, Zenon
<1>5. \A i \in DOMAIN stack : stack[i].at \in {"main", "events"} BY <1>1, <1>2, <1>3, <1>4
<1> QED BY <1>4, <1>5 DEF HandledIn, Evals, Depths

TwoMore(s, f, g, t) ==
    /\ t \in Seq(Frames) /\ CallsFit(t) /\ Evals(t) = Evals(s)
    /\ Len(t) = Len(s) + 2 /\ DOMAIN t = 1..Len(s) + 2
    /\ \A i \in 1..Len(s) : t[i] = s[i]
    /\ t[Len(s) + 1] = f /\ t[Len(s) + 2] = g

LEMMA TwoPushed ==
    ASSUME NEW s \in Seq(Frames), CallsFit(s), NEW f \in Frames, NEW g \in Frames,
           Calls(Last(s), f), f.at \notin {"eval", "fifo"},
           Calls(f, g), g.at \notin {"eval", "fifo"}, NEW u, u = s \o <<f, g>>
    PROVE  TwoMore(s, f, g, u)
<1> DEFINE r == s \o <<f>>
           t == r \o <<g>>
<1>1. u = t BY TwoCalls, Zenon
<1>2. /\ r \in Seq(Frames) /\ Len(r) = Len(s) + 1 /\ r = Append(s, f) /\ DOMAIN r = 1..Len(s) + 1
      /\ (\A i \in 1..Len(s) : r[i] = s[i]) /\ r[Len(s) + 1] = f /\ Last(r) = f
      /\ Len(s) \in Nat
  BY Pushed, LenProperties
<1>3. CallsFit(r) /\ Evals(r) = Evals(s)
  <2>1. CallsFit(Append(s, f)) /\ Evals(Append(s, f)) = Evals(s) \cup {} BY PushFits, Zenon
  <2> QED BY <1>2, <2>1, Zenon
<1> HIDE DEF r
<1>4. /\ t \in Seq(Frames) /\ Len(t) = Len(r) + 1 /\ t = Append(r, g) /\ DOMAIN t = 1..Len(r) + 1
      /\ (\A i \in 1..Len(r) : t[i] = r[i]) /\ t[Len(r) + 1] = g
  BY <1>2, Pushed
<1>5. CallsFit(t) /\ Evals(t) = Evals(r)
  <2>1. CallsFit(Append(r, g)) /\ Evals(Append(r, g)) = Evals(r) \cup {}
    BY <1>2, <1>3, PushFits, Zenon
  <2> QED BY <1>4, <2>1, Zenon
<1> HIDE DEF t
<1>6. /\ Len(t) = Len(s) + 2 /\ DOMAIN t = 1..Len(s) + 2 /\ t[Len(s) + 2] = g
      /\ (\A i \in 1..Len(s) : t[i] = s[i]) /\ t[Len(s) + 1] = f
  BY <1>2, <1>4
<1> QED BY <1>1, <1>3, <1>4, <1>5, <1>6, Zenon DEF TwoMore

LEMMA Handling1 ==
    ASSUME Inv, NEW c \in Conn, AccepterHandles(c)
    PROVE  /\ ~IsHandled(c) /\ accepter[c] \in 0..1 /\ ui[c] = Gone /\ NextFd \in 1..MaxFd
           /\ fds[NextFd] = <<"conn", c>> /\ InEvents /\ Top.mode = Normal
           /\ accepter[c] + TakeMessage(c, accepter[c]) = MessageSize
           /\ read' = [read EXCEPT ![c] = MessageSize] /\ MessageSize <= sent[c]
           /\ script[c][1] \in MessageRecords
<1>1. /\ Runs(Acc(c)) /\ Top.mode = Normal
      /\ accepter[c] + TakeMessage(c, accepter[c]) >= MessageSize
      /\ read' = [read EXCEPT ![c] = read[c] + TakeMessage(c, accepter[c])]
  BY DEF AccepterHandles, InMode
<1>2. /\ accepter[c] # Gone /\ (ui[c] = Gone => fds[NextFd] = <<"conn", c>>)
      /\ InEvents /\ NextFd \in 1..MaxFd
  BY <1>1, RunsAcc, RunsFacts
<1>3. ~IsHandled(c)
  <2>1. HandledIn(stack) = {} BY <1>1, <1>2, AtEvents DEF Inv
  <2> QED BY <2>1, HandledOnes
<1>4. accepter[c] # MessageSize BY <1>3 DEF Inv, ConnsFit
<1>5. accepter[c] \in 0..1 /\ ui[c] = Gone
  <2>1. accepter[c] \in Gone..MessageSize BY DEF Inv, Types
  <2>2. accepter[c] \in 0..1 BY <1>2, <1>4, <2>1 DEF Gone, MessageSize
  <2>3. ui[c] # Gone => accepter[c] \in {Gone, MessageSize} BY DEF Inv, ConnsFit
  <2> QED BY <1>2, <1>4, <2>2, <2>3
<1>6. /\ TakeMessage(c, accepter[c]) \in Nat
      /\ accepter[c] + TakeMessage(c, accepter[c]) \in 0..2
      /\ read[c] + TakeMessage(c, accepter[c]) <= sent[c] /\ read[c] = accepter[c]
  BY <1>5, Taken
<1>7. /\ accepter[c] + TakeMessage(c, accepter[c]) = MessageSize
      /\ read[c] + TakeMessage(c, accepter[c]) = MessageSize
  BY <1>1, <1>6 DEF MessageSize
<1>8. MessageSize <= sent[c] BY <1>6, <1>7
<1>9. script[c][1] \in MessageRecords
  <2>1. sent[c] <= 2 * Len(script[c]) /\ Len(script[c]) \in Nat /\ sent[c] \in Nat BY UnitsOf
  <2>2. 1 \in 1..Len(script[c]) BY <1>8, <2>1 DEF MessageSize
  <2>3. script[c] \in Seq(MessageRecords) BY TheScript DEF Inv
  <2> QED BY <2>2, <2>3, ElementOfSeq
<1> QED BY <1>1, <1>2, <1>3, <1>5, <1>7, <1>8, <1>9, Zenon

LEMMA AccepterHandlesInv ==
    ASSUME Inv, NEW c \in Conn, AccepterHandles(c)
    PROVE  Inv'
<1> DEFINE isClient == Introduction(c).type = "Connect"
           cmds == Introduction(c).cmds
           f == IF isClient THEN [at |-> "connect", c |-> c]
                ELSE [at |-> "command", c |-> c, fd |-> NextFd]
           g == RunFrame(cmds, IF isClient THEN c ELSE NoClient)
<1>1. /\ ~IsHandled(c) /\ accepter[c] \in 0..1 /\ ui[c] = Gone /\ NextFd \in 1..MaxFd
      /\ fds[NextFd] = <<"conn", c>> /\ InEvents /\ Top.mode = Normal
      /\ read' = [read EXCEPT ![c] = MessageSize] /\ MessageSize <= sent[c]
      /\ script[c][1] \in MessageRecords
  BY Handling1
<1>2. /\ accepter' = [accepter EXCEPT ![c] = MessageSize] /\ fds' = fds
      /\ UNCHANGED <<child, sigchld>> /\ m_client_trash' = m_client_trash
      /\ script' = script /\ sent' = sent /\ state' = state
      /\ m_pending_keys' = m_pending_keys /\ handled' = handled
      /\ Introduced(c)
  BY <1>1 DEF AccepterHandles
<1>3. stack' = Served \o <<f, g>>
  BY <1>2, Zenon DEF Introduced
<1>4. isClient => /\ ui' = [ui EXCEPT ![c] = 0]
                  /\ m_fd_watchers' = Append(m_fd_watchers, Watcher(Ui(c), NextFd, Urgent))
                  /\ m_clients' = Append(m_clients, c)
  BY <1>2 DEF Introduced
<1>5. ~isClient => ui' = ui /\ m_fd_watchers' = m_fd_watchers /\ m_clients' = m_clients
  BY <1>2 DEF Introduced
<1>6. cmds \in Seq(Cmd) /\ cmds \in Seq(AnyCmd)
  <2>1. cmds \in Seq(Cmd) BY <1>1 DEF Introduction, MessageRecords
  <2> QED BY <2>1, AnyCmds
<1>7. f \in Frames /\ f.at \in {"connect", "command"} /\ f.c = c
  <2>1. CASE isClient
    <3>1. f = [at |-> "connect", c |-> c] BY <2>1
    <3>2. f \in ConnectFrames BY <3>1 DEF ConnectFrames
    <3> QED BY <3>1, <3>2, FramesAre
  <2>2. CASE ~isClient
    <3>1. f = [at |-> "command", c |-> c, fd |-> NextFd] BY <2>2
    <3>2. f \in CommandFrames BY <1>1, <3>1 DEF CommandFrames
    <3> QED BY <3>1, <3>2, FramesAre
  <2> QED BY <2>1, <2>2
<1>8. f.at = "connect" <=> isClient OBVIOUS
<1>9. f.at = "command" => f.fd = NextFd OBVIOUS
<1> HIDE DEF f
<1>10. g \in Frames /\ g.at = "run" /\ Calls(f, g)
       /\ g.client = (IF isClient THEN c ELSE NoClient)
  <2>1. (IF isClient THEN c ELSE NoClient) \in Clients BY DEF Clients
  <2> QED BY <1>6, <1>7, <2>1, RunIsCalled
<1> HIDE DEF g, cmds, isClient
<1>11. /\ Len(stack) = 2 /\ HandledIn(stack) = {} /\ Evals(stack) = {} /\ Depths(stack) = {}
       /\ \A i \in DOMAIN stack : stack[i].at \in {"main", "events"}
  BY <1>1, AtEvents DEF Inv
<1>12. /\ Served \in Seq(Frames) /\ CallsFit(Served) /\ Len(Served) = 2
       /\ Last(Served).at = "events" /\ Last(Served).mode = Normal /\ Evals(Served) = {}
       /\ Served[1].at \in {"main", "events"} /\ Served[2].at = "events"
  <2>1. /\ QuietStack(Served) /\ DOMAIN Served = DOMAIN stack /\ Len(Served) = Len(stack)
        /\ Last(Served) \in EventsFrames /\ Last(Served).mode = Top.mode
        /\ Served[Len(stack)] = Last(Served)
        /\ \A i \in 1..Len(stack) - 1 : Served[i] = stack[i]
        /\ Evals(Served) = Evals(stack)
    BY <1>1, ServedIs DEF Inv
  <2>2. Last(Served).at = "events" BY <2>1 DEF EventsFrames
  <2>3. 1 \in 1..Len(stack) - 1 /\ 1 \in DOMAIN stack BY <1>11, TopIs DEF Inv
  <2>4. Served \in Seq(Frames) /\ CallsFit(Served) BY <2>1 DEF QuietStack
  <2> QED BY <1>1, <1>11, <2>1, <2>2, <2>3, <2>4
<1>13. Calls(Last(Served), f) BY <1>7, <1>12 DEF Calls
<1>14. /\ stack' \in Seq(Frames) /\ CallsFit(stack') /\ Evals(stack') = {}
       /\ DOMAIN stack' = 1..4 /\ stack'[1] = Served[1] /\ stack'[2] = Served[2]
       /\ stack'[3] = f /\ stack'[4] = g
  <2>1. f.at \notin {"eval", "fifo"} /\ g.at \notin {"eval", "fifo"} BY <1>7, <1>10
  <2>2. /\ stack' \in Seq(Frames) /\ CallsFit(stack') /\ Evals(stack') = Evals(Served)
        /\ Len(stack') = Len(Served) + 2 /\ DOMAIN stack' = 1..Len(Served) + 2
        /\ \A i \in 1..Len(Served) : stack'[i] = Served[i]
        /\ stack'[Len(Served) + 1] = f /\ stack'[Len(Served) + 2] = g
    <3>1. Served \in Seq(Frames) /\ CallsFit(Served) /\ f \in Frames /\ g \in Frames
      BY <1>7, <1>10, <1>12
    <3> DEFINE r == Served
               u == r \o <<f, g>>
    <3>2. Calls(Last(r), f) /\ Calls(f, g) /\ r \in Seq(Frames) /\ CallsFit(r) BY <1>10, <1>13, <3>1
    <3>3. stack' = r \o <<f, g>> BY <1>3
    <3> HIDE DEF r
    <3> HIDE DEF u
    <3>4. u = r \o <<f, g>> BY DEF u
    <3>5. TwoMore(r, f, g, u) BY <2>1, <3>1, <3>2, <3>4, TwoPushed, Zenon
    <3>6. TwoMore(Served, f, g, stack') BY <3>3, <3>4, <3>5, Zenon DEF r
    <3> QED BY <3>6 DEF TwoMore
  <2> QED BY <1>12, <2>2
<1>15. HandledIn(stack') = {c} /\ Depths(stack') = {}
  <2>1. {j \in DOMAIN stack' : stack'[j].at \in {"connect", "command"}} = {3}
    BY <1>7, <1>10, <1>12, <1>14
  <2>2. stack'[3].c = c BY <1>7, <1>14
  <2> QED BY <1>14, <2>1, <2>2 DEF HandledIn, Depths
<1>16. /\ accepter'[c] = MessageSize /\ \A e \in Conn : e # c => accepter'[e] = accepter[e]
       /\ accepter' \in [Conn -> Gone..MessageSize] /\ read' \in [Conn -> Nat]
       /\ ui' \in [Conn -> Gone..MessageSize - 1]
       /\ \A e \in Conn : e # c => ui'[e] = ui[e]
       /\ isClient => ui'[c] = 0
       /\ ~isClient => ui'[c] = Gone
  <2>1. accepter \in [Conn -> Gone..MessageSize] /\ read \in [Conn -> Nat]
        /\ ui \in [Conn -> Gone..MessageSize - 1]
    BY DEF Inv, Types
  <2>2. MessageSize \in Gone..MessageSize /\ MessageSize \in Nat /\ 0 \in Gone..MessageSize - 1
    BY DEF Gone, MessageSize
  <2>3. CASE isClient BY <1>1, <1>2, <1>4, <2>1, <2>2, <2>3, Zenon
  <2>4. CASE ~isClient BY <1>1, <1>2, <1>5, <2>1, <2>2, <2>4
  <2> QED BY <2>3, <2>4
<1>17. 0 # Gone /\ Gone # MessageSize /\ 0 # MessageSize BY DEF Gone, MessageSize
<1>18. /\ WatchersFit' /\ m_fd_watchers' \in Seq(WatcherRecords) /\ Watchers \subseteq Watchers'
       /\ isClient => \E w \in Watchers' : w.who = Ui(c)
  <2>1. \A e \in Conn : /\ accepter[e] # Gone => accepter'[e] # Gone
                        /\ ui[e] # Gone => ui'[e] # Gone
    BY <1>1, <1>16, <1>17
  <2>2. \A w \in Watchers : FitsIn(w, fds', Depths(stack'), accepter', ui')
    BY <1>2, <1>11, <1>15, <2>1, OldWatchersFit, Zenon
  <2>3. CASE isClient
    <3> DEFINE x == Watcher(Ui(c), NextFd, Urgent)
    <3>1. x \in WatcherRecords /\ x.who = Ui(c) /\ x.fd = NextFd
      <4>1. Ui(c) \in Whos BY DEF Ui, Whos
      <4>2. NextFd \in 0..MaxFd BY <1>1, MaxFdAssumption
      <4> HIDE DEF x
      <4> QED BY <4>1, <4>2 DEF x, Watcher, WatcherRecords
    <3> HIDE DEF x
    <3>2. \A w \in Watchers : w.who # x.who
      <4> SUFFICES ASSUME NEW w \in Watchers, w.who = Ui(c) PROVE FALSE BY <3>1
      <4>1. FitsIn(w, fds, Depths(stack), accepter, ui) BY DEF Inv, WatchersFit, Fits
      <4>2. w.who # Listener /\ w.who[1] = "ui" /\ w.who[2] = c BY DEF Listener, Ui
      <4> QED BY <1>1, <4>1, <4>2 DEF FitsIn
    <3>3. FitsIn(x, fds', Depths(stack'), accepter', ui')
      <4>1. ui'[c] # Gone /\ fds'[x.fd] = <<"conn", c>> BY <1>1, <1>2, <1>16, <1>17, <2>3, <3>1
      <4> QED BY <3>1, <4>1, FitsUi
    <3>4. m_fd_watchers' = Append(m_fd_watchers, x) BY <1>4, <2>3 DEF x
    <3>5. /\ WatchersFit' /\ m_fd_watchers' \in Seq(WatcherRecords)
          /\ Watchers \subseteq Watchers' /\ x \in Watchers'
      BY <2>2, <3>1, <3>2, <3>3, <3>4, OneMoreWatcher
    <3> QED BY <3>1, <3>5
  <2>4. CASE ~isClient
    <3>1. m_fd_watchers' = m_fd_watchers BY <1>5, <2>4
    <3>2. Watchers' = Watchers BY <3>1 DEF Watchers
    <3>3. \A w \in Watchers' : Fits(w)' BY <2>2, <3>2 DEF Fits, FitsIn
    <3>4. WatchersFit' BY <3>1, <3>3 DEF Inv, WatchersFit
    <3> QED BY <2>4, <3>1, <3>2, <3>4 DEF Inv, Types
  <2> QED BY <2>3, <2>4
<1>19. /\ m_clients' \in Seq(Conn)
       /\ \A e \in ToSet(m_clients') \cup m_client_trash' : ui'[e] # Gone
       /\ ToSet(m_clients') \cap m_client_trash' = {}
       /\ \A i, j \in DOMAIN m_clients' : m_clients'[i] = m_clients'[j] => i = j
  <2>1. /\ m_clients \in Seq(Conn) /\ ToSet(m_clients) \cap m_client_trash = {}
        /\ \A i, j \in DOMAIN m_clients : m_clients[i] = m_clients[j] => i = j
    BY DEF Inv, Types, ConnsFit
  <2>2. \A e \in ToSet(m_clients) \cup m_client_trash : e \in Conn /\ ui[e] # Gone
    BY TheClients
  <2>3. c \notin ToSet(m_clients) /\ c \notin m_client_trash BY <1>1, <2>2
  <2>4. \A e \in ToSet(m_clients) \cup m_client_trash : ui'[e] # Gone BY <1>16, <2>2, <2>3
  <2>5. CASE isClient
    <3> DEFINE n == Len(m_clients)
    <3>1. /\ m_clients' \in Seq(Conn) /\ n \in Nat /\ DOMAIN m_clients = 1..n
          /\ DOMAIN m_clients' = 1..n + 1
          /\ \A i \in 1..n : m_clients'[i] = m_clients[i]
          /\ m_clients'[n + 1] = c
      <4>1. m_clients \o <<c>> = Append(m_clients, c) BY <2>1, Pushed
      <4>2. m_clients' = m_clients \o <<c>> BY <1>4, <2>5, <4>1, Zenon
      <4> QED BY <2>1, <4>2, Pushed
    <3> HIDE DEF n
    <3>2. \A i \in 1..n : m_clients[i] # c BY <2>3, <3>1 DEF ToSet
    <3>3. \A i \in 1..n + 1 : i \in 1..n \/ i = n + 1 BY <3>1
    <3>4. \A i, j \in DOMAIN m_clients' : m_clients'[i] = m_clients'[j] => i = j
      BY <2>1, <3>1, <3>2, <3>3
    <3>5. \A e \in ToSet(m_clients') : e \in ToSet(m_clients) \/ e = c
      BY <3>1, <3>3 DEF ToSet
    <3>6. ToSet(m_clients') \cap m_client_trash' = {} BY <1>2, <2>1, <2>3, <3>5
    <3>7. \A e \in ToSet(m_clients') \cup m_client_trash' : ui'[e] # Gone
      BY <1>2, <1>16, <1>17, <2>4, <2>5, <3>5
    <3> QED BY <3>1, <3>4, <3>6, <3>7
  <2>6. CASE ~isClient
    <3>1. m_clients' = m_clients /\ m_client_trash' = m_client_trash BY <1>2, <1>5, <2>6
    <3> QED BY <2>1, <2>4, <3>1
  <2> QED BY <2>5, <2>6
<1>20. AllTypes'
  <2>1. OtherTypes' BY <1>2, <1>18, <1>19, Zenon DEF Inv, Types, OtherTypes
  <2>2. ConnTypes' BY <1>2, <1>16, Zenon DEF Inv, Types, ConnTypes
  <2> QED BY <2>1, <2>2 DEF AllTypes
<1>21. UnitsFit'
  <2>1. MessageSize \in Nat /\ MessageSize \notin 0..1 /\ MessageSize >= MessageSize
        /\ MessageSize % MessageSize = 0
    BY DEF MessageSize
  <2>2. \A d \in Conn : d # c => /\ accepter'[d] = accepter[d] /\ ui'[d] = ui[d]
                                 /\ m_pending_keys'[d] = m_pending_keys[d]
    BY <1>2, <1>16
  <2>3. /\ accepter'[c] \in 0..1 => MessageSize = accepter'[c]
        /\ accepter'[c] = MessageSize \/ ui'[c] # Gone => MessageSize >= MessageSize
        /\ ui'[c] # Gone => MessageSize % MessageSize = ui'[c]
    BY <1>16, <2>1
  <2>4. state[c] \notin {"away", "backlog"}
    <3>1. accepter[c] # Gone BY <1>1 DEF Gone
    <3> QED BY <3>1, IsUp
  <2>5. Range(m_pending_keys'[c]) \subseteq DOMAIN script[c] BY <1>2 DEF Inv, UnitsFit
  <2>6. UNCHANGED <<script, sent, state>> BY <1>2
  <2> QED BY <1>1, <2>1, <2>2, <2>3, <2>4, <2>5, <2>6, UnitsBut, Zenon
<1>22. FramesFit'
  <2>1. ASSUME NEW i \in DOMAIN stack' PROVE FrameFits(stack'[i], ui', fds')
    <3>1. CASE i \in 1..2
      <4>1. stack'[i].at \in {"main", "events"} BY <1>12, <1>14, <3>1
      <4> QED BY <4>1, NotInFrames
    <3>2. CASE i = 3
      <4>1. stack'[i] = f BY <1>14, <3>2
      <4>2. FrameFits(f, ui', fds')
        <5>1. f.at = "connect" => ui'[f.c] # Gone BY <1>7, <1>8, <1>16, <1>17
        <5>2. f.at = "command" => ui'[f.c] = Gone /\ fds'[f.fd] = <<"conn", f.c>>
          BY <1>1, <1>2, <1>7, <1>8, <1>9, <1>16
        <5> QED BY <1>7, <5>1, <5>2 DEF FrameFits
      <4> QED BY <4>1, <4>2
    <3>3. CASE i = 4
      <4>1. stack'[i] = g BY <1>14, <3>3
      <4>2. g.client = NoClient \/ ui'[g.client] # Gone BY <1>10, <1>16, <1>17
      <4> QED BY <1>10, <4>1, <4>2 DEF FrameFits
    <3> QED BY <1>14, <3>1, <3>2, <3>3
  <2>2. \A i \in DOMAIN stack' : FrameFits(stack[i], ui, fds)'
    BY <1>2, <2>1 DEF FrameFits
  <2> QED BY <2>2 DEF FramesFit
<1>23. FdsFit' BY <1>2, <1>11, <1>15 DEF Inv, FdsFit
<1>24. ConnsFit'
  <2>1. ConnsFit BY DEF Inv
  <2>2. \A e : (IsHandled(e)' <=> e = c) /\ ~IsHandled(e)
    <3>1. \A e : (IsHandled(e) <=> e \in HandledIn(stack)) /\ (IsHandled(e)' <=> e \in HandledIn(stack'))
      BY HandledOnes DEF IsHandled, HandledIn
    <3> QED BY <1>11, <1>15, <3>1
  <2>3. ASSUME NEW e \in Conn
        PROVE  /\ accepter'[e] = MessageSize <=> IsHandled(e)'
               /\ ui'[e] # Gone => accepter'[e] \in {Gone, MessageSize}
               /\ state'[e] \in {"away", "backlog"} => accepter'[e] = Gone /\ ui'[e] = Gone
               /\ ui'[e] # Gone => \E w \in Watchers' : w.who = Ui(e)
    <3>1. accepter'[e] = MessageSize <=> IsHandled(e)' BY <1>16, <2>1, <2>2 DEF ConnsFit
    <3>2. ui'[e] # Gone => accepter'[e] \in {Gone, MessageSize} BY <1>16, <2>1 DEF ConnsFit
    <3>3. state'[e] \in {"away", "backlog"} => accepter'[e] = Gone /\ ui'[e] = Gone
      <4>1. state[c] \notin {"away", "backlog"}
        <5>1. accepter[c] # Gone BY <1>1 DEF Gone
        <5> QED BY <5>1, IsUp
      <4> QED BY <1>2, <1>16, <2>1, <4>1 DEF ConnsFit
    <3>4. ui'[e] # Gone => \E w \in Watchers' : w.who = Ui(e)
      BY <1>16, <1>18, <2>1, Zenon DEF ConnsFit
    <3> QED BY <3>1, <3>2, <3>3, <3>4
  <2>4. \A e : Ui(e)' = Ui(e) BY DEF Ui
  <2> QED BY <1>19, <2>3, <2>4 DEF ConnsFit
<1> QED BY <1>14, <1>18, <1>20, <1>21, <1>22, <1>23, <1>24, Assembled

-----------------------------------------------------------------------------
(* A shell starts: what it opens is its own, and new.                        *)
LEMMA FourOf ==
    ASSUME NEW S, NEW a \in S, NEW b \in S, NEW c \in S, NEW d \in S
    PROVE  LET s == <<a, b, c, d>>
           IN  /\ s \in Seq(S) /\ Len(s) = 4
               /\ s[1] = a /\ s[2] = b /\ s[3] = c /\ s[4] = d
OBVIOUS

LEMMA TwoOf ==
    ASSUME NEW S, NEW a \in S, NEW b \in S
    PROVE  LET s == <<a, b>>
           IN  s \in Seq(S) /\ Len(s) = 2 /\ s[1] = a /\ s[2] = b
OBVIOUS

LEMMA OneOf ==
    ASSUME NEW S, NEW a \in S
    PROVE  LET s == <<a>> IN s \in Seq(S) /\ Len(s) = 1 /\ s[1] = a
OBVIOUS

LEMMA NoneOf ==
    ASSUME NEW S
    PROVE  <<>> \in Seq(S) /\ Len(<<>>) = 0
OBVIOUS

LEMMA Joined ==
    ASSUME NEW S, NEW s \in Seq(S), NEW t \in Seq(S)
    PROVE  /\ s \o t \in Seq(S) /\ Len(s \o t) = Len(s) + Len(t)
           /\ Len(s) \in Nat /\ Len(t) \in Nat
           /\ \A i \in 1..Len(s) : (s \o t)[i] = s[i]
           /\ \A i \in 1..Len(t) : (s \o t)[Len(s) + i] = t[i]
<1>1. /\ s \o t \in Seq(S) /\ Len(s \o t) = Len(s) + Len(t)
      /\ \A i \in 1..Len(s) + Len(t) : (s \o t)[i] = IF i <= Len(s) THEN s[i] ELSE t[i - Len(s)]
  BY ConcatProperties
<1>2. Len(s) \in Nat /\ Len(t) \in Nat BY LenProperties
<1>3. ASSUME NEW i \in 1..Len(t) PROVE (s \o t)[Len(s) + i] = t[i]
  <2>1. Len(s) + i \in 1..Len(s) + Len(t) /\ ~(Len(s) + i <= Len(s)) /\ (Len(s) + i) - Len(s) = i
    BY <1>2
  <2> QED BY <1>1, <2>1
<1> QED BY <1>1, <1>2, <1>3

(* A sequence without repetitions of the members of a set. *)
Lists(s, S) ==
    /\ \A i \in 1..Len(s) : s[i] \in S
    /\ \A x \in S : \E i \in 1..Len(s) : s[i] = x
    /\ \A i, j \in 1..Len(s) : s[i] = s[j] => i = j

LEMMA ListsJoined ==
    ASSUME NEW A, NEW s \in Seq(A), NEW t \in Seq(A), NEW S, NEW T, Lists(s, S), Lists(t, T),
           S \cap T = {}
    PROVE  Lists(s \o t, S \cup T)
<1> DEFINE u == s \o t
           n == Len(s)
           m == Len(t)
<1>1. /\ u \in Seq(A) /\ Len(u) = n + m /\ n \in Nat /\ m \in Nat
      /\ \A i \in 1..n : u[i] = s[i]
      /\ \A i \in 1..m : u[n + i] = t[i]
  BY Joined
<1>2. /\ \A i \in 1..n : s[i] \in S
      /\ \A x \in S : \E i \in 1..n : s[i] = x
      /\ \A i, j \in 1..n : s[i] = s[j] => i = j
  BY DEF Lists
<1>3. /\ \A i \in 1..m : t[i] \in T
      /\ \A x \in T : \E i \in 1..m : t[i] = x
      /\ \A i, j \in 1..m : t[i] = t[j] => i = j
  BY DEF Lists
<1> HIDE DEF u, n, m
<1>4. \A i \in 1..n + m : i \in 1..n \/ \E k \in 1..m : i = n + k
  <2> SUFFICES ASSUME NEW i \in 1..n + m, i \notin 1..n PROVE \E k \in 1..m : i = n + k OBVIOUS
  <2> DEFINE k == i - n
  <2>1. k \in 1..m /\ i = n + k BY <1>1
  <2> HIDE DEF k
  <2> QED BY <2>1
<1>5. ASSUME NEW i \in 1..n + m PROVE u[i] \in S \cup T
  <2>1. CASE i \in 1..n
    <3>1. u[i] = s[i] /\ s[i] \in S BY <1>1, <1>2, <2>1
    <3> QED BY <3>1
  <2>2. ASSUME NEW k \in 1..m, i = n + k PROVE u[i] \in S \cup T
    <3>1. u[n + k] = t[k] /\ t[k] \in T BY <1>1, <1>3, Zenon
    <3> QED BY <2>2, <3>1
  <2> QED BY <1>4, <2>1, <2>2
<1>6. ASSUME NEW x \in S \cup T PROVE \E i \in 1..n + m : u[i] = x
  <2>1. CASE x \in S
    <3>1. PICK i \in 1..n : s[i] = x BY <1>2, <2>1
    <3>2. i \in 1..n + m BY <1>1
    <3> QED BY <1>1, <3>1, <3>2
  <2>2. CASE x \in T
    <3>1. PICK i \in 1..m : t[i] = x BY <1>3, <2>2
    <3>2. n + i \in 1..n + m BY <1>1
    <3> QED BY <1>1, <3>1, <3>2
  <2> QED BY <2>1, <2>2
<1>7. ASSUME NEW i \in 1..n + m, NEW j \in 1..n + m, u[i] = u[j] PROVE i = j
  <2>1. CASE i \in 1..n /\ j \in 1..n
    <3>1. s[i] = s[j] BY <1>1, <1>7, <2>1
    <3> QED BY <1>2, <2>1, <3>1
  <2>2. ASSUME NEW a \in 1..n, NEW b \in 1..m PROVE u[a] # u[n + b]
    <3>1. u[a] \in S /\ u[n + b] \in T BY <1>1, <1>2, <1>3, Zenon
    <3> QED BY <3>1
  <2>3. ASSUME NEW a \in 1..m, NEW b \in 1..m, i = n + a, j = n + b PROVE i = j
    <3>1. t[a] = t[b] BY <1>1, <1>7, <2>3
    <3> QED BY <1>3, <2>3, <3>1
  <2> QED BY <1>4, <1>7, <2>1, <2>2, <2>3
<1>8. Lists(u, S \cup T) BY <1>1, <1>5, <1>6, <1>7 DEF Lists
<1> QED BY <1>8 DEF u

KindsOf(ops) == {"in", "out"} \cup (IF UsesFifo(ops) THEN {"fifo"} ELSE {})
Temporary == {"stdin", "stdout"} \X Depth
NewObjects(d, ops) == {<<k, d>> : k \in KindsOf(ops) \cup {"stdin", "stdout"}}

LEMMA WhatIsOpened ==
    ASSUME NEW d \in Depth, NEW ops
    PROVE  /\ ShellDescriptors(d, ops) \in Seq(Objects \cup {Closed} \cup Temporary)
           /\ Len(ShellDescriptors(d, ops)) <= 5 /\ Lists(ShellDescriptors(d, ops), NewObjects(d, ops))
<1> DEFINE S == Objects \cup {Closed} \cup Temporary
           f == <<"fifo", d>>
           a == <<"stdin", d>>
           b == <<"in", d>>
           c == <<"out", d>>
           e == <<"stdout", d>>
           s == IF UsesFifo(ops) THEN <<f>> ELSE <<>>
           t == <<a, b, c, e>>
           A == IF UsesFifo(ops) THEN {f} ELSE {}
           B == {a, b, c, e}
<1>1. f \in S /\ a \in S /\ b \in S /\ c \in S /\ e \in S
  BY DEF Objects, ShellEnds, Temporary
<1>2. a # b /\ a # c /\ a # e /\ b # c /\ b # e /\ c # e /\ A \cap B = {} OBVIOUS
<1>3. NewObjects(d, ops) = A \cup B
  BY DEF NewObjects, KindsOf
<1>4. ShellDescriptors(d, ops) = s \o t BY DEF ShellDescriptors
<1> HIDE DEF S, f, a, b, c, e
<1>5. t \in Seq(S) /\ Len(t) = 4 /\ Lists(t, B)
  <2>1. t \in Seq(S) /\ Len(t) = 4 /\ t[1] = a /\ t[2] = b /\ t[3] = c /\ t[4] = e
    BY <1>1, FourOf
  <2>2. 1..4 = {1, 2, 3, 4} OBVIOUS
  <2> HIDE DEF t
  <2>3. \A i \in 1..Len(t) : i \in {1, 2, 3, 4} /\ t[i] \in B BY <2>1, <2>2
  <2>4. \A x \in B : \E i \in 1..Len(t) : t[i] = x BY <2>1, <2>2
  <2>5. \A i, j \in 1..Len(t) : t[i] = t[j] => i = j BY <1>2, <2>1, <2>2
  <2> QED BY <2>1, <2>3, <2>4, <2>5 DEF Lists
<1>6. s \in Seq(S) /\ Len(s) \in 0..1 /\ Lists(s, A)
  <2>1. CASE UsesFifo(ops)
    <3>1. s = <<f>> /\ A = {f} BY <2>1
    <3>2. <<f>> \in Seq(S) /\ Len(<<f>>) = 1 /\ <<f>>[1] = f BY <1>1, OneOf
    <3> HIDE DEF s, A
    <3>3. s \in Seq(S) /\ Len(s) = 1 /\ s[1] = f BY <3>1, <3>2
    <3>4. Lists(s, A) BY <3>1, <3>3 DEF Lists
    <3> QED BY <3>3, <3>4
  <2>2. CASE ~UsesFifo(ops)
    <3>1. s = <<>> /\ A = {} BY <2>2
    <3>2. <<>> \in Seq(S) /\ Len(<<>>) = 0 BY NoneOf
    <3> HIDE DEF s, A
    <3>3. s \in Seq(S) /\ Len(s) = 0 BY <3>1, <3>2
    <3>4. Lists(s, A) BY <3>1, <3>3 DEF Lists
    <3> QED BY <3>3, <3>4
  <2> QED BY <2>1, <2>2
<1> HIDE DEF s, t, A, B
<1>7. Lists(s \o t, A \cup B)
  <2>1. s \in Seq(S) /\ t \in Seq(S) /\ Lists(s, A) /\ Lists(t, B) /\ A \cap B = {}
    BY <1>2, <1>5, <1>6
  <2> QED BY <2>1, ListsJoined
<1>8. s \o t \in Seq(S) /\ Len(s \o t) = Len(s) + Len(t) BY <1>5, <1>6, Joined, Zenon
<1>9. Len(s \o t) <= 5
  <2> DEFINE x == Len(s \o t)
             y == Len(s)
             z == Len(t)
  <2>1. x = y + z /\ z = 4 /\ y \in 0..1 BY <1>5, <1>6, <1>8
  <2> HIDE DEF x, y, z
  <2>2. x <= 5 BY <2>1
  <2> QED BY <2>2 DEF x
<1> QED BY <1>3, <1>4, <1>7, <1>8, <1>9 DEF S

LEMMA WhatIsWatched ==
    ASSUME NEW d \in Depth, NEW ops, NEW t, DOMAIN t = 1..MaxFd,
           \A k \in KindsOf(ops) : \E fd \in 1..MaxFd : t[fd] = <<k, d>>
    PROVE  LET ws == ShellWatchers(t, d, ops)
           IN  /\ ws \in Seq(WatcherRecords)
               /\ \A i \in 1..Len(ws) :
                    /\ \E k \in KindsOf(ops) : ws[i].who = <<k, d>>
                    /\ ws[i].fd \in 1..MaxFd /\ t[ws[i].fd] = ws[i].who
               /\ \A i, j \in 1..Len(ws) : ws[i].who = ws[j].who => i = j
<1> DEFINE W(k) == WatcherOf(<<k, d>>, t)
           A == IF UsesFifo(ops) THEN {W("fifo")} ELSE {}
           s == IF UsesFifo(ops) THEN <<W("fifo")>> ELSE <<>>
           u == <<W("out"), W("in")>>
           B == {W("out"), W("in")}
           ws == ShellWatchers(t, d, ops)
<1>1. ASSUME NEW k \in KindsOf(ops)
      PROVE  /\ W(k) \in WatcherRecords /\ W(k).who = <<k, d>> /\ W(k).fd \in 1..MaxFd
             /\ t[W(k).fd] = <<k, d>>
  <2>1. FdIn(t, <<k, d>>) \in 1..MaxFd /\ t[FdIn(t, <<k, d>>)] = <<k, d>> BY FdInIs, Zenon
  <2>2. <<k, d>> \in Whos BY DEF KindsOf, Whos, ShellEnds
  <2>3. FdIn(t, <<k, d>>) \in 0..MaxFd BY <2>1, MaxFdAssumption
  <2> QED BY <2>1, <2>2, <2>3 DEF WatcherOf, Watcher, WatcherRecords
<1>2. "in" \in KindsOf(ops) /\ "out" \in KindsOf(ops) /\ (UsesFifo(ops) => "fifo" \in KindsOf(ops))
  BY DEF KindsOf
<1>3. ws = s \o u BY DEF ShellWatchers
<1>4. \A k, l \in KindsOf(ops) : W(k).who = W(l).who => k = l BY <1>1
<1> HIDE DEF W, ws
<1>5. W("out") # W("in") /\ A \cap B = {} BY <1>2, <1>4
<1>6. u \in Seq(WatcherRecords) /\ Lists(u, B)
  <2>1. u \in Seq(WatcherRecords) /\ Len(u) = 2 /\ u[1] = W("out") /\ u[2] = W("in")
    BY <1>1, <1>2, TwoOf
  <2>2. 1..2 = {1, 2} OBVIOUS
  <2> HIDE DEF u
  <2> QED BY <1>5, <2>1, <2>2 DEF Lists
<1>7. s \in Seq(WatcherRecords) /\ Lists(s, A)
  <2>1. CASE UsesFifo(ops)
    <3>1. s = <<W("fifo")>> /\ A = {W("fifo")} /\ W("fifo") \in WatcherRecords BY <1>1, <1>2, <2>1
    <3>2. <<W("fifo")>> \in Seq(WatcherRecords) /\ Len(<<W("fifo")>>) = 1
          /\ <<W("fifo")>>[1] = W("fifo")
      BY <3>1, OneOf
    <3> HIDE DEF s, A
    <3>3. s \in Seq(WatcherRecords) /\ Len(s) = 1 /\ s[1] = W("fifo") BY <3>1, <3>2
    <3>4. Lists(s, A) BY <3>1, <3>3 DEF Lists
    <3> QED BY <3>3, <3>4
  <2>2. CASE ~UsesFifo(ops)
    <3>1. s = <<>> /\ A = {} BY <2>2
    <3>2. <<>> \in Seq(WatcherRecords) /\ Len(<<>>) = 0 BY NoneOf
    <3> HIDE DEF s, A
    <3>3. s \in Seq(WatcherRecords) /\ Len(s) = 0 BY <3>1, <3>2
    <3>4. Lists(s, A) BY <3>1, <3>3 DEF Lists
    <3> QED BY <3>3, <3>4
  <2> QED BY <2>1, <2>2
<1>8. A \cup B \subseteq {W(k) : k \in KindsOf(ops)} BY <1>2
<1> HIDE DEF s, u, A, B
<1>9. Lists(ws, A \cup B) /\ ws \in Seq(WatcherRecords)
  BY <1>3, <1>5, <1>6, <1>7, ListsJoined, Joined, Zenon
<1>10. ASSUME NEW i \in 1..Len(ws)
       PROVE  \E k \in KindsOf(ops) : ws[i] = W(k)
  BY <1>8, <1>9 DEF Lists
<1>11. \A i \in 1..Len(ws) :
            /\ \E k \in KindsOf(ops) : ws[i].who = <<k, d>>
            /\ ws[i].fd \in 1..MaxFd /\ t[ws[i].fd] = ws[i].who
  <2> SUFFICES ASSUME NEW i \in 1..Len(ws)
      PROVE  /\ \E k \in KindsOf(ops) : ws[i].who = <<k, d>>
             /\ ws[i].fd \in 1..MaxFd /\ t[ws[i].fd] = ws[i].who
    OBVIOUS
  <2>1. PICK k \in KindsOf(ops) : ws[i] = W(k) BY <1>10
  <2>2. W(k).who = <<k, d>> /\ W(k).fd \in 1..MaxFd /\ t[W(k).fd] = <<k, d>> BY <1>1
  <2>3. ws[i].who = <<k, d>> BY <2>1, <2>2
  <2>4. ws[i].fd \in 1..MaxFd /\ t[ws[i].fd] = ws[i].who BY <2>1, <2>2, <2>3
  <2> QED BY <2>3, <2>4
<1>12. ASSUME NEW i \in 1..Len(ws), NEW j \in 1..Len(ws), ws[i].who = ws[j].who PROVE i = j
  <2>1. PICK k \in KindsOf(ops) : ws[i] = W(k) BY <1>10
  <2>2. PICK l \in KindsOf(ops) : ws[j] = W(l) BY <1>10
  <2>3. k = l BY <1>4, <1>12, <2>1, <2>2
  <2> QED BY <1>9, <2>1, <2>2, <2>3 DEF Lists
<1> QED BY <1>9, <1>11, <1>12 DEF ws

(* The descriptors once the ends of the child are closed.                    *)
ShellOpens(t, d, ops) ==
    /\ t \in [1..MaxFd -> Objects \cup {Closed}]
    /\ \A fd \in 1..MaxFd : fds[fd] # Closed => t[fd] = fds[fd]
    /\ \A fd \in 1..MaxFd : fds[fd] = Closed =>
            t[fd] = Closed \/ \E k \in KindsOf(ops) : t[fd] = <<k, d>>
    /\ \A k \in KindsOf(ops) : \E fd \in 1..MaxFd : t[fd] = <<k, d>>
    /\ \A a, b \in 1..MaxFd : t[a] # Closed /\ t[a] = t[b] => a = b

LEMMA ShellOpened ==
    ASSUME Inv, NEW n \in 0..MaxDepth, Depths(stack) = 1..n, NEW d \in Depth, d = n + 1, NEW ops,
           HasFree(fds, Len(ShellDescriptors(d, ops)))
    PROVE  ShellOpens(ChildEndsClosed(OpenedShell(d, ops)), d, ops)
<1> DEFINE S == Objects \cup {Closed} \cup Temporary
           objects == ShellDescriptors(d, ops)
           r == Opened(fds, objects)
           t == ChildEndsClosed(r)
           K == KindsOf(ops)
<1>1. OpenedShell(d, ops) = r BY DEF OpenedShell, ShellDescriptors
<1>2. /\ objects \in Seq(S) /\ Len(objects) <= 5
      /\ \A i \in 1..Len(objects) : \E k \in K \cup {"stdin", "stdout"} : objects[i] = <<k, d>>
      /\ \A k \in K \cup {"stdin", "stdout"} : \E i \in 1..Len(objects) : objects[i] = <<k, d>>
      /\ \A i, j \in 1..Len(objects) : objects[i] = objects[j] => i = j
  <2>1. objects \in Seq(S) /\ Len(objects) <= 5 /\ Lists(objects, NewObjects(d, ops))
    BY WhatIsOpened
  <2> HIDE DEF objects
  <2> QED BY <2>1, Zenon DEF Lists, NewObjects
<1>3. K \subseteq {"fifo", "in", "out"} BY DEF KindsOf
<1>4. fds \in [1..MaxFd -> Objects \cup {Closed}] /\ fds \in [1..MaxFd -> S]
  BY DEF Inv, Types
<1>5. \A o \in Objects : o # Closed /\ o[1] \notin {"stdin", "stdout"}
  <2>1. \A o \in Leaks : o # Closed /\ o[1] = "leaked" BY LeaksAre DEF Leaks, Leaked
  <2>2. \A o \in {Listener} \cup Conns \cup ShellEnds :
            o # Closed /\ o[1] \notin {"stdin", "stdout"}
    BY DEF Conns, ShellEnds, Listener, Closed
  <2> QED BY <2>1, <2>2 DEF Objects
<1>6. \A k \in K : <<k, d>> \in ShellEnds /\ <<k, d>> \in Objects
  BY <1>3 DEF ShellEnds, Objects
<1>7. ASSUME NEW k \in K \cup {"stdin", "stdout"}, NEW fd \in 1..MaxFd PROVE fds[fd] # <<k, d>>
  <2> SUFFICES ASSUME fds[fd] = <<k, d>> PROVE FALSE OBVIOUS
  <2>0. fds[fd][1] = k /\ fds[fd][2] = d OBVIOUS
  <2>1. CASE k \in K
    <3>1. d \notin Depths(stack) BY DEF Depth
    <3>2. fds[fd] \in ShellEnds => fds[fd][2] \in Depths(stack) BY DEF Inv, FdsFit
    <3> QED BY <1>6, <2>0, <2>1, <3>1, <3>2
  <2>2. CASE k \in {"stdin", "stdout"}
    <3>1. fds[fd] \in Objects \/ fds[fd] = Closed BY <1>4
    <3>2. <<k, d>> # Closed BY <2>2 DEF Closed
    <3> QED BY <1>5, <2>0, <2>2, <3>1, <3>2
  <2> QED BY <2>1, <2>2
<1>8. Len(objects) <= Cardinality(Free(fds))
  <2>1. Len(objects) \in Nat BY <1>2, LenProperties
  <2> QED BY <2>1, FreeAreCounted
<1>9. \A i \in 1..Len(objects) :
        objects[i] # Closed /\ \A fd \in 1..MaxFd : fds[fd] # objects[i]
  <2>1. \A k \in K \cup {"stdin", "stdout"} : <<k, d>> # Closed BY <1>3 DEF Closed
  <2> HIDE DEF objects
  <2> SUFFICES ASSUME NEW i \in 1..Len(objects)
               PROVE  objects[i] # Closed /\ \A fd \in 1..MaxFd : fds[fd] # objects[i]
    OBVIOUS
  <2>2. PICK k \in K \cup {"stdin", "stdout"} : objects[i] = <<k, d>> BY <1>2
  <2>3. \A fd \in 1..MaxFd : fds[fd] # <<k, d>> BY <1>7
  <2>4. <<k, d>> # Closed BY <2>1
  <2> HIDE DEF K
  <2> QED BY <2>2, <2>3, <2>4
<1> HIDE DEF objects
<1>10. r \in [1..MaxFd -> S] /\ Opens(fds, objects, r)
  <2>1. \A a, b \in 1..MaxFd : fds[a] # Closed /\ fds[a] = fds[b] => a = b
    BY DEF Inv, FdsFit
  <2>2. /\ objects \in Seq(S) /\ Closed \in S
        /\ \A i, j \in 1..Len(objects) : objects[i] = objects[j] => i = j
    BY <1>2
  <2> HIDE DEF S
  <2> QED BY <1>4, <1>8, <1>9, <2>1, <2>2, OpenedIs, Zenon
<1> HIDE DEF r
<1>11. DOMAIN r = 1..MaxFd BY <1>10
<1>12. /\ \A fd \in 1..MaxFd : fds[fd] # Closed => r[fd] = fds[fd]
       /\ \A fd \in 1..MaxFd : fds[fd] = Closed =>
            r[fd] = Closed \/ \E k \in K \cup {"stdin", "stdout"} : r[fd] = <<k, d>>
       /\ \A k \in K : \E fd \in 1..MaxFd : r[fd] = <<k, d>>
       /\ \A a, b \in 1..MaxFd : r[a] # Closed /\ r[a] = r[b] => a = b
  <2>1. /\ \A fd \in 1..MaxFd : fds[fd] # Closed => r[fd] = fds[fd]
        /\ \A fd \in 1..MaxFd : fds[fd] = Closed =>
             r[fd] = Closed \/ \E i \in 1..Len(objects) : r[fd] = objects[i]
        /\ \A i \in 1..Len(objects) : \E fd \in 1..MaxFd : r[fd] = objects[i]
        /\ \A a, b \in 1..MaxFd : r[a] # Closed /\ r[a] = r[b] => a = b
    BY <1>10 DEF Opens
  <2>2. \A fd \in 1..MaxFd : fds[fd] = Closed =>
            r[fd] = Closed \/ \E k \in K \cup {"stdin", "stdout"} : r[fd] = <<k, d>>
    BY <1>2, <2>1
  <2>3. ASSUME NEW k \in K PROVE \E fd \in 1..MaxFd : r[fd] = <<k, d>>
    <3>1. PICK i \in 1..Len(objects) : objects[i] = <<k, d>> BY <1>2
    <3>2. PICK fd \in 1..MaxFd : r[fd] = objects[i] BY <2>1
    <3> QED BY <3>1, <3>2
  <2> QED BY <2>1, <2>2, <2>3, Zenon
<1>13. /\ DOMAIN t = 1..MaxFd
       /\ \A fd \in 1..MaxFd :
            t[fd] = IF r[fd][1] \in {"stdin", "stdout"} THEN Closed ELSE r[fd]
  BY <1>11 DEF ChildEndsClosed
<1>14. ASSUME NEW T, \A fd \in 1..MaxFd : t[fd] \in T PROVE t \in [1..MaxFd -> T]
  BY <1>11, <1>14 DEF ChildEndsClosed
<1> HIDE DEF t, S
<1>15. Closed[1] \notin {"stdin", "stdout"} BY DEF Closed
<1>16. ASSUME NEW fd \in 1..MaxFd
       PROVE  /\ fds[fd] # Closed => t[fd] = fds[fd]
              /\ fds[fd] = Closed => t[fd] = Closed \/ \E k \in K : t[fd] = <<k, d>>
              /\ t[fd] \in Objects \cup {Closed}
              /\ t[fd] # Closed => t[fd] = r[fd]
  <2>1. CASE fds[fd] # Closed
    <3>1. fds[fd] \in Objects /\ r[fd] = fds[fd] BY <1>4, <1>12, <2>1
    <3>2. t[fd] = fds[fd] BY <1>5, <1>13, <3>1
    <3> QED BY <2>1, <3>1, <3>2
  <2>2. CASE fds[fd] = Closed /\ r[fd] = Closed
    <3>1. t[fd] = Closed BY <1>13, <1>15, <2>2
    <3> QED BY <2>2, <3>1
  <2>3. CASE fds[fd] = Closed /\ \E k \in K \cup {"stdin", "stdout"} : r[fd] = <<k, d>>
    <3>1. PICK k \in K \cup {"stdin", "stdout"} : r[fd] = <<k, d>> BY <2>3
    <3>2. CASE k \in {"stdin", "stdout"}
      <4>1. t[fd] = Closed BY <1>13, <3>1, <3>2
      <4> QED BY <2>3, <4>1
    <3>3. CASE k \in K
      <4>1. k \notin {"stdin", "stdout"} BY <1>3, <3>3
      <4>2. t[fd] = <<k, d>> BY <1>13, <3>1, <4>1
      <4> QED BY <1>6, <2>3, <3>1, <3>3, <4>2
    <3> QED BY <3>2, <3>3
  <2> QED BY <1>12, <2>1, <2>2, <2>3
<1>17. ASSUME NEW k \in K PROVE \E fd \in 1..MaxFd : t[fd] = <<k, d>>
  <2>1. PICK fd \in 1..MaxFd : r[fd] = <<k, d>> BY <1>12, Zenon
  <2>2. k \notin {"stdin", "stdout"} BY <1>3
  <2>3. t[fd] = <<k, d>> BY <1>13, <2>1, <2>2
  <2> QED BY <2>3
<1>18. t \in [1..MaxFd -> Objects \cup {Closed}] 
  <2>1. \A fd \in 1..MaxFd : t[fd] \in Objects \cup {Closed} BY <1>16
  <2> DEFINE T == Objects \cup {Closed}
  <2>2. \A fd \in 1..MaxFd : t[fd] \in T BY <2>1
  <2> HIDE DEF T
  <2>3. t \in [1..MaxFd -> T] BY <1>14, <2>2
  <2> QED BY <2>3 DEF T
<1>19. \A a, b \in 1..MaxFd : t[a] # Closed /\ t[a] = t[b] => a = b
  <2> SUFFICES ASSUME NEW a \in 1..MaxFd, NEW b \in 1..MaxFd, t[a] # Closed, t[a] = t[b]
               PROVE  a = b
    OBVIOUS
  <2>1. t[a] = r[a] /\ t[b] = r[b] BY <1>16
  <2>2. r[a] # Closed /\ r[a] = r[b] BY <2>1, Zenon
  <2> QED BY <1>12, <2>2
<1>20. /\ \A fd \in 1..MaxFd : fds[fd] # Closed => t[fd] = fds[fd]
       /\ \A fd \in 1..MaxFd : fds[fd] = Closed =>
              t[fd] = Closed \/ \E k \in K : t[fd] = <<k, d>>
  BY <1>16
<1>21. \A k \in K : \E fd \in 1..MaxFd : t[fd] = <<k, d>> BY <1>17, Zenon
<1>22. ShellOpens(t, d, ops) BY <1>18, <1>19, <1>20, <1>21, Zenon DEF ShellOpens
<1> QED BY <1>1, <1>22 DEF t

(* ... and its eval is the deepest. *)
OneDeeper(g, t) ==
    /\ t \in Seq(Frames) /\ CallsFit(t)
    /\ Depths(t) = Depths(stack) \cup {g.d} /\ HandledIn(t) = HandledIn(stack)
    /\ \A i \in DOMAIN t : t[i] = g \/ FrameFits(t[i], ui, fds)

LEMMA EvalPushed ==
    ASSUME Inv, NEW f \in Frames, Alike(Top, f), f.at = "run", NEW g \in Frames, g.at = "eval",
           g.d = Cardinality(Evals(stack)) + 1, NEW t, t = Replaced(f) \o <<g>>
    PROVE  OneDeeper(g, t)
<1> DEFINE r == Replaced(f)
           u == r \o <<g>>
<1>1. Types /\ CallsFit(stack) /\ stack \in Seq(Frames) /\ DOMAIN stack = 1..Len(stack)
  BY TopIs DEF Inv
<1>2. QuietStack(r) /\ DOMAIN r = DOMAIN stack /\ Len(r) = Len(stack) /\ Last(r) = f
      /\ Evals(r) = Evals(stack)
  BY <1>1, StackReplaced
<1> HIDE DEF r
<1>3. r \in Seq(Frames) /\ CallsFit(r) /\ Keeps(stack, r) BY <1>2 DEF QuietStack
<1>4. Depths(r) = Depths(stack) /\ HandledIn(r) = HandledIn(stack)
  BY <1>1, <1>2, <1>3, KeepsFacts, Zenon
<1>5. \A i \in DOMAIN r : FrameFits(r[i], ui, fds)
  <2>1. \A i \in DOMAIN stack : FrameFits(stack[i], ui, fds) BY DEF Inv, FramesFit
  <2> QED BY <1>1, <1>2, <1>3, <2>1, FramesKept, Zenon
<1>6. Calls(Last(r), g) BY <1>2 DEF Calls
<1>7. /\ u \in Seq(Frames) /\ Len(u) = Len(r) + 1 /\ u = Append(r, g) /\ DOMAIN u = 1..Len(r) + 1
      /\ (\A i \in 1..Len(r) : u[i] = r[i]) /\ u[Len(r) + 1] = g /\ Len(r) \in Nat
      /\ DOMAIN r = 1..Len(r)
  BY <1>3, Pushed, LenProperties
<1>8. CallsFit(u) /\ Evals(u) = Evals(r) \cup {Len(r) + 1}
  <2>1. /\ CallsFit(Append(r, g))
        /\ Evals(Append(r, g)) = Evals(r) \cup (IF g.at = "eval" THEN {Len(r) + 1} ELSE {})
    BY <1>2, <1>3, <1>6, PushFits
  <2> QED BY <1>7, <2>1, Zenon
<1> HIDE DEF u
<1>9. Depths(u) = Depths(r) \cup {g.d}
  <2>1. \A i \in Evals(r) : i \in 1..Len(r) /\ u[i] = r[i] BY <1>7 DEF Evals
  <2> QED BY <1>7, <1>8, <2>1 DEF Depths
<1>10. HandledIn(u) = HandledIn(r)
  <2>1. {j \in DOMAIN u : u[j].at \in {"connect", "command"}}
            = {j \in DOMAIN r : r[j].at \in {"connect", "command"}}
    <3>1. DOMAIN u = DOMAIN r \cup {Len(r) + 1} /\ DOMAIN r = 1..Len(r) BY <1>7
    <3>2. u[Len(r) + 1].at \notin {"connect", "command"} BY <1>7
    <3>3. \A j \in DOMAIN r : u[j] = r[j] BY <1>7, <3>1
    <3> QED BY <3>1, <3>2, <3>3
  <2>2. \A j \in DOMAIN r : u[j] = r[j] BY <1>7
  <2> QED BY <2>1, <2>2 DEF HandledIn
<1>11. ASSUME NEW i \in DOMAIN u PROVE u[i] = g \/ FrameFits(u[i], ui, fds)
  <2>1. i = Len(r) + 1 \/ i \in DOMAIN r BY <1>7
  <2> QED BY <1>5, <1>7, <2>1
<1>12. OneDeeper(g, u) BY <1>4, <1>7, <1>8, <1>9, <1>10, <1>11 DEF OneDeeper
<1>13. t = u BY DEF u, r
<1> QED BY <1>12, <1>13, Zenon

LEMMA EvalIsCalled ==
    ASSUME NEW d \in Depth, NEW client \in Clients, NEW wait \in BOOLEAN
    PROVE  LET g == EvalFrame(d, client, wait)
           IN  g \in Frames /\ g.at = "eval" /\ g.d = d /\ g.client = client
<1> DEFINE yes == TRUE
           no == FALSE
           zero == 0
           none == <<>>
<1>1. yes \in BOOLEAN /\ no \in BOOLEAN /\ zero \in Nat /\ none \in Seq(Cmd) OBVIOUS
<1>2. EvalFrame(d, client, wait) =
        [at |-> "eval", d |-> d, client |-> client, wait |-> wait, events |-> no,
         terminated |-> no, in |-> yes, out |-> yes, got |-> zero, command |-> none,
         ran |-> zero, sound |-> yes, cancelling |-> no]
  BY DEF EvalFrame
<1> HIDE DEF yes, no, zero, none
<1>3. EvalFrame(d, client, wait) \in EvalFrames BY <1>1, <1>2 DEF EvalFrames
<1>4. EvalFrame(d, client, wait).at = "eval" /\ EvalFrame(d, client, wait).d = d
      /\ EvalFrame(d, client, wait).client = client
  BY DEF EvalFrame
<1> QED BY <1>3, <1>4, FramesAre

LEMMA NewChild ==
    ASSUME NEW ops \in Seq(ChildOp)
    PROVE  [NoChild EXCEPT !.state = "running", !.ops = ops, !.open = TRUE] \in Children
<1> DEFINE yes == TRUE
           no == FALSE
           zero == 0
           none == <<>>
<1>1. yes \in BOOLEAN /\ no \in BOOLEAN /\ zero \in Nat /\ none \in Seq(Cmd) OBVIOUS
<1>2. /\ NoChild = [state |-> "none", ops |-> none, out |-> zero, open |-> no, fifo |-> none,
                    writing |-> no, seen |-> no, told |-> zero, wrote |-> zero]
      /\ none \in Seq(ChildOp)
  BY DEF NoChild
<1>3. [NoChild EXCEPT !.state = "running", !.ops = ops, !.open = TRUE]
        = [NoChild EXCEPT !.state = "running", !.ops = ops, !.open = yes]
  OBVIOUS
<1> HIDE DEF yes, no, zero, none
<1>4. NoChild \in Children BY <1>1, <1>2 DEF Children
<1>5. [NoChild EXCEPT !.state = "running", !.ops = ops, !.open = yes] \in Children
  BY <1>1, <1>4, Zenon DEF Children
<1> QED BY <1>3, <1>5

LEMMA EvalInv ==
    ASSUME Inv, OnTop("run"), Top.cmds # <<>>, NEW wait \in BOOLEAN,
           Eval(Rest, Top.client, wait), UNCHANGED remoteVars
    PROVE  Inv'
<1>1. Types /\ CallsFit(stack) /\ stack \in Seq(Frames) BY TopIs DEF Inv
<1>2. PICK n \in 0..MaxDepth : Depths(stack) = 1..n BY <1>1 DEF CallsFit
<1> DEFINE d == NextDepth
<1>3. Cardinality(Evals(stack)) = n BY <1>1, <1>2, EvalsCount
<1>4. d = Cardinality(Evals(stack)) + 1 BY DEF NextDepth, EvalIndexes, Evals
<1>5. PICK ops \in IF IsNested(d) THEN Nested ELSE Scripts :
        /\ d \in Depth /\ HasFree(fds, Len(ShellDescriptors(d, ops)))
        /\ fds' = ChildEndsClosed(OpenedShell(d, ops))
        /\ m_fd_watchers' = m_fd_watchers \o ShellWatchers(fds', d, ops)
        /\ child' = [child EXCEPT ![d] =
                [NoChild EXCEPT !.state = "running", !.ops = ops, !.open = TRUE]]
        /\ stack' = Replaced(Rest) \o <<EvalFrame(d, Top.client, wait)>>
        /\ UNCHANGED <<sigchld, m_clients, m_client_trash>>
  BY Zenon DEF Eval
<1> HIDE DEF d
<1>6. d = n + 1 /\ d \in Depth /\ d \notin Depths(stack) BY <1>2, <1>3, <1>4, <1>5
<1>7. ops \in Seq(ChildOp) BY <1>5, ShellAssumption
<1>8. ShellOpens(fds', d, ops) BY <1>2, <1>5, <1>6, ShellOpened
<1>9. /\ fds' \in [1..MaxFd -> Objects \cup {Closed}]
      /\ \A fd \in 1..MaxFd : fds[fd] # Closed => fds'[fd] = fds[fd]
      /\ \A fd \in 1..MaxFd : fds[fd] = Closed =>
            fds'[fd] = Closed \/ \E k \in KindsOf(ops) : fds'[fd] = <<k, d>>
      /\ \A k \in KindsOf(ops) : \E fd \in 1..MaxFd : fds'[fd] = <<k, d>>
      /\ \A a, b \in 1..MaxFd : fds'[a] # Closed /\ fds'[a] = fds'[b] => a = b
  BY <1>8, Zenon DEF ShellOpens
<1> DEFINE g == EvalFrame(d, Top.client, wait)
<1>10. /\ Top \in RunFrames /\ Top.at = "run" /\ Top.client \in Clients
       /\ Rest \in Frames /\ Alike(Top, Rest) /\ Rest.at = "run"
  BY <1>1, RunTop
<1>11. g \in Frames /\ g.at = "eval" /\ g.d = d /\ g.client = Top.client
  BY <1>6, <1>10, EvalIsCalled
<1>12. Top.client = NoClient \/ ui[Top.client] # Gone
  <2>1. FrameFits(stack[Len(stack)], ui, fds) /\ Top = stack[Len(stack)]
    BY <1>1, TopIs DEF Inv, FramesFit
  <2> QED BY <1>10, <2>1 DEF FrameFits
<1>13. FrameFits(g, ui, fds) BY <1>11, <1>12 DEF FrameFits
<1>14. stack' = Replaced(Rest) \o <<g>> BY <1>5
<1> HIDE DEF g
<1>15. OneDeeper(g, stack') BY <1>4, <1>10, <1>11, <1>14, EvalPushed, Zenon
<1>16. /\ stack' \in Seq(Frames) /\ CallsFit(stack')
       /\ Depths(stack') = Depths(stack) \cup {d} /\ HandledIn(stack') = HandledIn(stack)
       /\ \A i \in DOMAIN stack' : FrameFits(stack'[i], ui, fds)
  BY <1>11, <1>13, <1>15 DEF OneDeeper
<1>17. ui' = ui /\ accepter' = accepter /\ script' = script /\ state' = state
  BY DEF remoteVars
<1> DEFINE extra == ShellWatchers(fds', d, ops)
<1>18. /\ extra \in Seq(WatcherRecords)
       /\ \A i \in 1..Len(extra) :
            /\ \E k \in KindsOf(ops) : extra[i].who = <<k, d>>
            /\ extra[i].fd \in 1..MaxFd /\ fds'[extra[i].fd] = extra[i].who
       /\ \A i, j \in 1..Len(extra) : extra[i].who = extra[j].who => i = j
  <2>1. DOMAIN fds' = 1..MaxFd BY <1>9
  <2> QED BY <1>6, <1>9, <2>1, WhatIsWatched, Zenon
<1>19. m_fd_watchers' = m_fd_watchers \o extra BY <1>5
<1> HIDE DEF extra
<1>20. KindsOf(ops) \subseteq {"fifo", "in", "out"} BY DEF KindsOf
<1>21. \A w \in Watchers : FitsIn(w, fds', Depths(stack'), accepter', ui')
  <2>1. Depths(stack) \subseteq Depths(stack') BY <1>16
  <2> QED BY <1>9, <1>17, <2>1, OldWatchersFit
<1>22. ASSUME NEW i \in 1..Len(extra)
       PROVE  FitsIn(extra[i], fds', Depths(stack'), accepter', ui')
  <2>1. PICK k \in KindsOf(ops) : extra[i].who = <<k, d>> BY <1>18
  <2>2. k \in {"fifo", "in", "out"} BY <1>20
  <2>3. d \in Depths(stack') /\ fds'[extra[i].fd] = <<k, d>> BY <1>16, <1>18, <2>1
  <2> QED BY <2>1, <2>2, <2>3, FitsShell
<1>23. ASSUME NEW i \in 1..Len(extra), NEW w \in Watchers PROVE w.who # extra[i].who
  <2> SUFFICES ASSUME w.who = extra[i].who PROVE FALSE OBVIOUS
  <2>1. PICK k \in KindsOf(ops) : extra[i].who = <<k, d>> BY <1>18
  <2>2. k \in {"fifo", "in", "out"} /\ w.who = <<k, d>> BY <1>20, <2>1
  <2>3. Fits(w) BY DEF Inv, WatchersFit
  <2>4. d \in Depths(stack) BY <2>2, <2>3, FitsShell DEF Fits
  <2> QED BY <1>6, <2>4
<1>24. /\ WatchersFit' /\ m_fd_watchers' \in Seq(WatcherRecords)
       /\ Watchers \subseteq Watchers'
  <2>1. \A i \in 1..Len(extra) : FitsIn(extra[i], fds', Depths(stack'), accepter', ui')
    BY <1>22
  <2>2. \A i \in 1..Len(extra), w \in Watchers : w.who # extra[i].who BY <1>23
  <2> QED BY <1>18, <1>19, <1>21, <2>1, <2>2, MoreWatchers, Zenon
<1>25. OtherTypes'
  <2>1. [NoChild EXCEPT !.state = "running", !.ops = ops, !.open = TRUE] \in Children
    BY <1>7, NewChild, Zenon
  <2>2. child' \in [Depth -> Children]
    <3>1. child \in [Depth -> Children] BY <1>1 DEF Types
    <3> QED BY <1>5, <2>1, <3>1
  <2> QED BY <1>1, <1>5, <1>9, <1>24, <2>2 DEF Types, OtherTypes
<1>26. AllTypes' /\ UnitsFit' /\ SameConns BY <1>25, RemoteStays
<1>27. FramesFit'
  <2>1. ASSUME NEW i \in DOMAIN stack'
        PROVE  FrameFits(stack'[i], ui', fds')
    <3>1. FrameFits(stack'[i], ui, fds) /\ stack'[i] \in Frames BY <1>16
    <3>2. stack'[i].at \in {"command", "fifo"} => fds'[stack'[i].fd] = fds[stack'[i].fd]
      <4>1. ASSUME stack'[i].at \in {"command", "fifo"}
            PROVE  fds'[stack'[i].fd] = fds[stack'[i].fd]
        <5>1. stack'[i].fd \in 1..MaxFd BY <3>1, <4>1, ClientOf
        <5>2. fds[stack'[i].fd] # Closed BY <3>1, <4>1 DEF FrameFits, Closed
        <5> QED BY <1>9, <5>1, <5>2
      <4> QED BY <4>1
    <3> QED BY <1>17, <3>1, <3>2, FrameStays
  <2> QED BY <1>17, <2>1, Zenon DEF FramesFit, FrameFits
<1>28. FdsFit'
  <2>1. FdsFit BY DEF Inv
  <2>2. ASSUME NEW fd \in 1..MaxFd
        PROVE  /\ fds'[fd] \in ShellEnds => fds'[fd][2] \in Depths(stack')
               /\ fds'[fd] \in Conns => state'[fds'[fd][2]] \in {"up", "down"}
               /\ fds'[fd] \in Leaks => fds'[fd] = Leaked(fd)
    <3>1. CASE fds'[fd] = fds[fd]
      BY <1>16, <1>17, <2>1, <3>1 DEF FdsFit
    <3>2. CASE \E k \in KindsOf(ops) : fds'[fd] = <<k, d>>
      <4>1. PICK k \in KindsOf(ops) : fds'[fd] = <<k, d>> BY <3>2
      <4>2. k # "conn" BY <1>20
      <4>3. fds'[fd] \notin Conns /\ fds'[fd][2] = d BY <4>1, <4>2 DEF Conns
      <4>4. fds'[fd] \in ShellEnds BY <1>6, <1>20, <4>1 DEF ShellEnds
      <4>5. fds'[fd] \notin Leaks BY <4>4, LeaksAre
      <4> QED BY <1>16, <4>3, <4>5
    <3> QED BY <1>9, <3>1, <3>2
  <2> QED BY <1>9, <2>2 DEF FdsFit
<1>29. ConnsFit'
  <2>1. \A c : IsHandled(c)' <=> IsHandled(c)
    <3>1. \A c : (IsHandled(c) <=> c \in HandledIn(stack)) /\ (IsHandled(c)' <=> c \in HandledIn(stack'))
      BY HandledOnes DEF IsHandled, HandledIn
    <3> QED BY <1>16, <3>1
  <2>2. SameClients BY <1>5, ClientsStay
  <2>3. /\ \A c \in Conn : state'[c] \in {"away", "backlog"} => state[c] \in {"away", "backlog"}
        /\ \A w \in Watchers : \E x \in Watchers' : x.who = w.who
    BY <1>17, <1>24
  <2> QED BY <1>26, <2>1, <2>2, <2>3, ConnsAfter
<1> QED BY <1>16, <1>24, <1>26, <1>27, <1>28, <1>29, Assembled

LEMMA RunShellInv ==
    ASSUME Inv, RunShell, UNCHANGED remoteVars
    PROVE  Inv'
<1> DEFINE yes == TRUE
           no == FALSE
<1>1. /\ OnTop("run") /\ Top.cmds # <<>>
      /\ Eval(Rest, Top.client, yes) \/ Eval(Rest, Top.client, no)
  BY Zenon DEF RunShell, RunsNext
<1>2. yes \in BOOLEAN /\ no \in BOOLEAN OBVIOUS
<1> HIDE DEF yes, no
<1> QED BY <1>1, <1>2, EvalInv

-----------------------------------------------------------------------------
(* A shell returns: what it opened is closed, and nobody waits for it.       *)
Cleared(ws, who, r) ==
    /\ r \in Seq(WatcherRecords)
    /\ \A i, j \in DOMAIN r : r[i].who = r[j].who => i = j
    /\ ToSet(r) = {w \in ToSet(ws) : w.who # who}

LEMMA ErasedFrom ==
    ASSUME NEW ws \in Seq(WatcherRecords), NEW kind, NEW d,
           \A i, j \in DOMAIN ws : ws[i].who = ws[j].who => i = j
    PROVE  Cleared(ws, <<kind, d>>, Erased(ws, kind, d))
BY ErasedIs, Zenon DEF Cleared, Erased

LEMMA ThreeErased ==
    ASSUME Inv, NEW d, NEW r,
           r = Erased(Erased(Erased(m_fd_watchers, "in", d), "out", d), "fifo", d)
    PROVE  /\ r \in Seq(WatcherRecords)
           /\ \A i, j \in DOMAIN r : r[i].who = r[j].who => i = j
           /\ ToSet(r) = {w \in Watchers : \A k \in {"fifo", "in", "out"} : w.who # <<k, d>>}
<1> DEFINE a == Erased(m_fd_watchers, "in", d)
           b == Erased(a, "out", d)
           c == Erased(b, "fifo", d)
<1>1. Cleared(m_fd_watchers, <<"in", d>>, a)
  BY ErasedFrom DEF Inv, Types, WatchersFit
<1> HIDE DEF a
<1>2. Cleared(a, <<"out", d>>, b)
  <2>1. a \in Seq(WatcherRecords) /\ \A i, j \in DOMAIN a : a[i].who = a[j].who => i = j
    BY <1>1 DEF Cleared
  <2> QED BY <2>1, ErasedFrom
<1> HIDE DEF b
<1>3. Cleared(b, <<"fifo", d>>, c)
  <2>1. b \in Seq(WatcherRecords) /\ \A i, j \in DOMAIN b : b[i].who = b[j].who => i = j
    BY <1>2 DEF Cleared
  <2> QED BY <2>1, ErasedFrom
<1>4. r = c BY DEF a, b
<1> HIDE DEF c
<1>5. /\ ToSet(a) = {w \in Watchers : w.who # <<"in", d>>}
      /\ ToSet(b) = {w \in ToSet(a) : w.who # <<"out", d>>}
      /\ ToSet(c) = {w \in ToSet(b) : w.who # <<"fifo", d>>}
      /\ c \in Seq(WatcherRecords) /\ \A i, j \in DOMAIN c : c[i].who = c[j].who => i = j
  BY <1>1, <1>2, <1>3 DEF Cleared, Watchers
<1>6. ToSet(c) = {w \in Watchers : \A k \in {"fifo", "in", "out"} : w.who # <<k, d>>}
  <2>1. ASSUME NEW w
        PROVE  w \in ToSet(c) <=>
               w \in Watchers /\ \A k \in {"fifo", "in", "out"} : w.who # <<k, d>>
    <3>1. w \in ToSet(c) <=> /\ w \in Watchers /\ w.who # <<"in", d>> /\ w.who # <<"out", d>>
                             /\ w.who # <<"fifo", d>>
      BY <1>5
    <3> QED BY <3>1
  <2> QED BY <2>1
<1> QED BY <1>4, <1>5, <1>6

LEMMA DepthIsLast ==
    ASSUME Inv, OnTop("eval"), NEW n \in 0..MaxDepth, Depths(stack) = 1..n
    PROVE  /\ Top.d = n /\ Below \in Seq(Frames) /\ CallsFit(Below) /\ n \in Nat \ {0}
           /\ Depths(Below) = 1..n - 1 /\ HandledIn(Below) = HandledIn(stack)
           /\ \A i \in DOMAIN Below : FrameFits(Below[i], ui, fds)
<1>1. /\ stack \in Seq(Frames) /\ CallsFit(stack) /\ Len(stack) \in Nat \ {0} /\ Types
      /\ stack # <<>> /\ DOMAIN stack = 1..Len(stack) /\ Top = stack[Len(stack)]
      /\ Top.at = "eval" /\ Top.d \in Depths(stack)
  BY TopIs, EvalTop DEF Inv, OnTop
<1> DEFINE l == Len(stack)
<1>2. /\ Below \in Seq(Frames) /\ Len(Below) = l - 1 /\ DOMAIN Below = 1..l - 1
      /\ \A i \in 1..l - 1 : Below[i] = stack[i]
  BY <1>1, TheFront, Zenon DEF Below
<1>3. l > 1
  <2>1. stack[1].at = "main" BY <1>1 DEF CallsFit
  <2> QED BY <1>1, <2>1
<1>4. CallsFit(Below) /\ Evals(Below) = Evals(stack) \cap 1..Len(Below)
  <2>1. 1 <= Len(Below) /\ Len(Below) <= Len(stack) BY <1>1, <1>2, <1>3
  <2>2. \A i \in 1..Len(Below) : Alike(stack[i], Below[i])
    BY <1>2 DEF Alike
  <2> QED BY <1>1, <1>2, <2>1, <2>2, PrefixFits, Zenon
<1>5. Evals(stack) = {i \in 1..l : stack[i].at = "eval"} /\ \A i \in Evals(stack) : stack[i].d \in Depth
  BY <1>1, EvalsOf
<1>6. l \in Evals(stack) BY <1>1, <1>5
<1>7. \A i \in Evals(stack) : i # l => stack[i].d < Top.d
  <2>1. \A i, j \in Evals(stack) : i < j => stack[i].d < stack[j].d BY <1>1 DEF CallsFit
  <2>2. \A i \in Evals(stack) : i # l => i < l BY <1>1, <1>5
  <2> QED BY <1>1, <1>6, <2>1, <2>2
<1> HIDE DEF l
<1>8. Evals(stack) = Evals(Below) \cup {l} /\ l \notin Evals(Below)
  BY <1>1, <1>2, <1>3, <1>4, <1>5, <1>6
<1>9. \A i \in Evals(Below) : Below[i].d < Top.d /\ Below[i].d = stack[i].d /\ i \in Evals(stack)
  <2>1. \A i \in Evals(Below) : i \in 1..l - 1 BY <1>2, <1>4
  <2> QED BY <1>2, <1>7, <1>8, <2>1
<1>10. Depths(stack) = Depths(Below) \cup {Top.d} /\ Top.d \notin Depths(Below)
  <2>1. Depths(stack) = {stack[i].d : i \in Evals(Below)} \cup {Top.d}
    BY <1>1, <1>8 DEF Depths, l
  <2>2. Depths(Below) = {stack[i].d : i \in Evals(Below)} BY <1>9 DEF Depths
  <2>3. Top.d \in Nat /\ \A x \in Depths(Below) : x < Top.d
    <3>1. Top.d \in Nat BY <1>1
    <3>2. \A x \in Depths(Below) : \E i \in Evals(Below) : x = Below[i].d BY DEF Depths
    <3> QED BY <1>9, <3>1, <3>2
  <2>4. \A x \in Depths(Below) : x # Top.d BY <2>3
  <2> QED BY <2>1, <2>2, <2>4
<1>11. \A x \in Depths(stack) : x <= Top.d
  <2>1. \A x \in Depths(Below) : x < Top.d /\ x \in 1..n 
    <3>1. \A x \in Depths(Below) : \E i \in Evals(Below) : x = Below[i].d BY DEF Depths
    <3>2. Depths(Below) \subseteq 1..n BY <1>10
    <3> QED BY <1>9, <3>1, <3>2
  <2> QED BY <1>1, <1>10, <2>1
<1>12. Top.d = n /\ n \in Nat \ {0}
  <2>1. Top.d \in 1..n /\ n \in Nat /\ n \in 1..n BY <1>1
  <2>2. n <= Top.d BY <1>11, <2>1
  <2> QED BY <2>1, <2>2
<1>13. Depths(Below) = 1..n - 1
  <2>1. \A x : x \in Depths(Below) <=> x \in 1..n /\ x # n BY <1>10, <1>12
  <2>2. \A x : x \in 1..n /\ x # n <=> x \in 1..n - 1 BY <1>12
  <2> QED BY <2>1, <2>2, Zenon
<1>14. HandledIn(Below) = HandledIn(stack)
  <2>1. {j \in DOMAIN stack : stack[j].at \in {"connect", "command"}}
            = {j \in DOMAIN Below : Below[j].at \in {"connect", "command"}}
    <3>1. stack[l].at \notin {"connect", "command"} BY <1>1 DEF l
    <3>2. DOMAIN stack = 1..l /\ l \in Nat BY <1>1 DEF l
    <3>3. \A j : j \in 1..l <=> j \in 1..l - 1 \/ j = l BY <1>3, <3>2 DEF l
    <3> QED BY <1>2, <3>1, <3>2, <3>3
  <2>2. \A j \in DOMAIN Below : Below[j] = stack[j] BY <1>2
  <2> QED BY <2>1, <2>2 DEF HandledIn
<1>15. \A i \in DOMAIN Below : FrameFits(Below[i], ui, fds)
  <2>1. \A i \in DOMAIN Below : i \in DOMAIN stack /\ Below[i] = stack[i] BY <1>1, <1>2 DEF l
  <2> QED BY <2>1 DEF Inv, FramesFit
<1> QED BY <1>2, <1>4, <1>12, <1>13, <1>14, <1>15

(* What is left of the calls when a shell returns, or is unwound.            *)
LEMMA BelowKept ==
    ASSUME Inv, OnTop("eval"), NEW n \in 0..MaxDepth, Depths(stack) = 1..n,
           NEW t, NEW children \in [Depth -> Children],
           \/ t = Below
           \/ t = SubSeq(Below, 1, CatchIndex(Below) - 1)
                  \o <<Caught(Below[CatchIndex(Below)], "cancel")>>
    PROVE  /\ t \in Seq(Frames) /\ CallsFit(t) /\ Depths(t) = 1..n - 1
           /\ HandledIn(t) = HandledIn(stack) /\ \A i \in DOMAIN t : FrameFits(t[i], ui, fds)
<1>1. /\ Below \in Seq(Frames) /\ CallsFit(Below) /\ Depths(Below) = 1..n - 1
      /\ HandledIn(Below) = HandledIn(stack) /\ \A i \in DOMAIN Below : FrameFits(Below[i], ui, fds)
  BY DepthIsLast
<1>2. CASE t = Below BY <1>1, <1>2
<1>3. CASE t # Below
  <2> DEFINE u == SubSeq(Below, 1, CatchIndex(Below) - 1)
                      \o <<Caught(Below[CatchIndex(Below)], "cancel")>>
  <2>1. t = u BY <1>3, Zenon
  <2>2. u \in Seq(Frames) /\ CallsFit(u) /\ Keeps(Below, u) /\ DOMAIN u \subseteq DOMAIN Below
    BY <1>1, ThrowKeeps, Zenon
  <2> HIDE DEF u
  <2>3. \A i \in DOMAIN u \ DOMAIN Below : FALSE BY <2>2
  <2>4. Depths(u) = Depths(Below) /\ HandledIn(u) = HandledIn(Below)
    BY <1>1, <2>2, <2>3, KeepsFacts, Zenon
  <2>5. \A i \in DOMAIN u : FrameFits(u[i], ui, fds) BY <1>1, <2>2, <2>3, FramesKept
  <2> QED BY <1>1, <2>1, <2>2, <2>4, <2>5
<1> QED BY <1>2, <1>3

LEMMA EvalReturnsInv ==
    ASSUME Inv, EvalReturns, UNCHANGED remoteVars
    PROVE  Inv'
<1> DEFINE d == Top.d
           reaped == [child EXCEPT ![d] = NoChild]
<1>1. /\ OnTop("eval")
      /\ m_fd_watchers' = Erased(Erased(Erased(m_fd_watchers, "in", d), "out", d), "fifo", d)
      /\ fds' = AfterShell(d)
      /\ IF Top.cancelling THEN Throw(Below, reaped, "cancel")
           ELSE stack' = Below /\ child' = reaped
      /\ sigchld' = sigchld /\ UNCHANGED <<m_clients, m_client_trash>>
  BY DEF EvalReturns
<1>2. Types /\ CallsFit(stack) /\ stack \in Seq(Frames) BY TopIs DEF Inv
<1>3. PICK n \in 0..MaxDepth : Depths(stack) = 1..n BY <1>2 DEF CallsFit
<1>4. /\ d = n /\ n \in Nat \ {0} /\ Below \in Seq(Frames) /\ CallsFit(Below) /\ d \in Depth
  BY <1>1, <1>2, <1>3, DepthIsLast, EvalTop
<1>5. reaped \in [Depth -> Children]
  <2> DEFINE no == FALSE
             zero == 0
             none == <<>>
  <2>1. no \in BOOLEAN /\ zero \in Nat /\ none \in Seq(Cmd) /\ none \in Seq(ChildOp) OBVIOUS
  <2>2. NoChild = [state |-> "none", ops |-> none, out |-> zero, open |-> no, fifo |-> none,
                   writing |-> no, seen |-> no, told |-> zero, wrote |-> zero]
    BY DEF NoChild
  <2> HIDE DEF no, zero, none
  <2>3. NoChild \in Children BY <2>1, <2>2 DEF Children
  <2>4. child \in [Depth -> Children] BY <1>2 DEF Types
  <2> QED BY <1>4, <2>3, <2>4
<1> HIDE DEF reaped
<1>6. /\ child' \in [Depth -> Children]
      /\ \/ stack' = Below
         \/ stack' = SubSeq(Below, 1, CatchIndex(Below) - 1)
                       \o <<Caught(Below[CatchIndex(Below)], "cancel")>>
  <2>1. CASE Top.cancelling
    <3>1. Throw(Below, reaped, "cancel") BY <1>1, <2>1
    <3>2. Below[CatchIndex(Below)] \in Frames BY <1>4, TheCatch
    <3>3. Killed(Below[CatchIndex(Below)], reaped) \in [Depth -> Children]
      BY <1>5, <3>2, KilledType
    <3>4. child' = Killed(Below[CatchIndex(Below)], reaped)
      BY <3>1 DEF Throw
    <3>5. stack' = SubSeq(Below, 1, CatchIndex(Below) - 1)
                       \o <<Caught(Below[CatchIndex(Below)], "cancel")>>
      BY <3>1 DEF Throw
    <3> QED BY <3>3, <3>4, <3>5
  <2>2. CASE ~Top.cancelling
    <3>1. stack' = Below /\ child' = reaped BY <1>1, <2>2
    <3> QED BY <1>5, <3>1
  <2> QED BY <2>1, <2>2, Zenon
<1>7. /\ stack' \in Seq(Frames) /\ CallsFit(stack') /\ Depths(stack') = 1..n - 1
      /\ HandledIn(stack') = HandledIn(stack)
      /\ \A i \in DOMAIN stack' : FrameFits(stack'[i], ui, fds)
  BY <1>1, <1>3, <1>5, <1>6, BelowKept, Zenon
<1> HIDE DEF d
<1>8. /\ \A fd \in 1..MaxFd : \/ fds'[fd] = fds[fd] \/ fds'[fd] = Closed
                              \/ fds'[fd] = Leaked(fd)
      /\ \A fd \in 1..MaxFd : ~(fds[fd] \in ShellObjects /\ fds[fd][2] = d) => fds'[fd] = fds[fd]
      /\ \A fd \in 1..MaxFd : fds[fd] \in ShellObjects /\ fds[fd][2] = d =>
                                  fds'[fd] = Closed \/ fds'[fd] = Leaked(fd)
      /\ fds' \in [1..MaxFd -> Objects \cup {Closed}]
  <2>1. fds \in [1..MaxFd -> Objects \cup {Closed}] /\ d \in Depth BY <1>2, <1>4 DEF Types, d
  <2> HIDE DEF d
  <2>2. /\ DOMAIN fds' = 1..MaxFd
        /\ \A fd \in 1..MaxFd :
             fds'[fd] = IF fds[fd] = <<"fifo", d>> THEN AfterFifo(d, fd)
                        ELSE IF fds[fd] \in ShellObjects /\ fds[fd][2] = d THEN Closed ELSE fds[fd]
        /\ fds' = [fd \in 1..MaxFd |-> fds'[fd]]
    BY <1>1, <2>1 DEF AfterShell, d
  <2>3. \A fd : AfterFifo(d, fd) = Closed \/ AfterFifo(d, fd) = Leaked(fd) BY DEF AfterFifo
  <2>4. <<"fifo", d>> \in ShellObjects /\ <<"fifo", d>>[2] = d BY <2>1 DEF ShellObjects
  <2>5. ASSUME NEW fd \in 1..MaxFd
        PROVE  /\ \/ fds'[fd] = fds[fd] \/ fds'[fd] = Closed \/ fds'[fd] = Leaked(fd)
               /\ ~(fds[fd] \in ShellObjects /\ fds[fd][2] = d) => fds'[fd] = fds[fd]
               /\ fds[fd] \in ShellObjects /\ fds[fd][2] = d =>
                                  fds'[fd] = Closed \/ fds'[fd] = Leaked(fd)
    <3>1. CASE fds[fd] = <<"fifo", d>>
      <4>1. fds'[fd] = AfterFifo(d, fd) BY <2>2, <3>1
      <4> QED BY <2>3, <2>4, <3>1, <4>1
    <3>2. CASE fds[fd] # <<"fifo", d>> /\ fds[fd] \in ShellObjects /\ fds[fd][2] = d
      <4>1. fds'[fd] = Closed BY <2>2, <3>2
      <4> QED BY <3>2, <4>1
    <3>3. CASE fds[fd] # <<"fifo", d>> /\ ~(fds[fd] \in ShellObjects /\ fds[fd][2] = d)
      <4>1. fds'[fd] = fds[fd] BY <2>2, <3>3
      <4> QED BY <3>3, <4>1
    <3> QED BY <3>1, <3>2, <3>3
  <2>6. \A fd \in 1..MaxFd : fds'[fd] \in Objects \cup {Closed} BY <2>1, <2>5, LeaksAre
  <2> DEFINE T == Objects \cup {Closed}
  <2>7. \A fd \in 1..MaxFd : fds'[fd] \in T BY <2>6
  <2> HIDE DEF T
  <2>8. fds' \in [1..MaxFd -> T] BY <2>2, <2>7
  <2> QED BY <2>5, <2>8 DEF T
<1>9. \A x : x \in Depths(stack) /\ x # d <=> x \in Depths(stack')
  BY <1>3, <1>4, <1>7
<1>10. \A fd \in 1..MaxFd :
            /\ fds[fd] = Listener \/ fds[fd] \in Conns => fds'[fd] = fds[fd]
            /\ \A k, e : fds[fd] = <<k, e>> /\ e # d => fds'[fd] = fds[fd]
  <2> SUFFICES ASSUME NEW fd \in 1..MaxFd
               PROVE  /\ fds[fd] = Listener \/ fds[fd] \in Conns => fds'[fd] = fds[fd]
                      /\ \A k, e : fds[fd] = <<k, e>> /\ e # d => fds'[fd] = fds[fd]
    OBVIOUS
  <2>1. \A x \in ShellObjects : x # Listener /\ x \notin Conns
    BY DEF ShellObjects, Listener, Conns
  <2>2. \A k, e : fds[fd] = <<k, e>> => fds[fd][2] = e OBVIOUS
  <2> QED BY <1>8, <2>1, <2>2
<1>11. ui' = ui /\ accepter' = accepter /\ script' = script /\ state' = state
  BY DEF remoteVars
<1>12. /\ m_fd_watchers' \in Seq(WatcherRecords)
       /\ \A i, j \in DOMAIN m_fd_watchers' :
            m_fd_watchers'[i].who = m_fd_watchers'[j].who => i = j
       /\ Watchers' = {w \in Watchers : \A k \in {"fifo", "in", "out"} : w.who # <<k, d>>}
  BY <1>1, ThreeErased DEF Watchers, d
<1>13. ASSUME NEW w \in Watchers, \A k \in {"fifo", "in", "out"} : w.who # <<k, d>>
       PROVE  FitsIn(w, fds', Depths(stack'), accepter', ui')
  <2>1. w \in WatcherRecords /\ w.fd \in 0..MaxFd BY <1>2, WatchersType, TheWatchers
  <2>2. FitsIn(w, fds, Depths(stack), accepter, ui) BY DEF Inv, WatchersFit, Fits
  <2>3. w.fd # None => w.fd \in 1..MaxFd BY <2>1, MaxFdAssumption DEF None
  <2>4. ASSUME w.who = Listener PROVE fds'[w.fd] = fds[w.fd]
    <3>1. w.fd # None /\ fds[w.fd] = Listener BY <2>2, <2>4, FitsListener
    <3> QED BY <1>10, <2>3, <3>1
  <2>5. ASSUME NEW c \in Conn, w.who = Acc(c)
        PROVE  /\ accepter'[c] # Gone
               /\ ui'[c] = Gone => ui[c] = Gone /\ fds'[w.fd] = fds[w.fd]
    <3>1. accepter[c] # Gone /\ w.fd # None /\ (ui[c] = Gone => fds[w.fd] = <<"conn", c>>)
      <4>1. w.who # Listener /\ w.who[1] = "accepter" /\ w.who[2] = c
        BY <2>5 DEF Listener, Acc
      <4> QED BY <2>2, <4>1 DEF FitsIn
    <3>2. <<"conn", c>> \in Conns BY DEF Conns
    <3> QED BY <1>10, <1>11, <2>3, <3>1, <3>2
  <2>6. ASSUME NEW c \in Conn, w.who = Ui(c)
        PROVE  ui'[c] # Gone /\ (w.fd # None => fds'[w.fd] = fds[w.fd])
    <3>1. ui[c] # Gone /\ (w.fd # None => fds[w.fd] = <<"conn", c>>) BY <2>2, <2>6, UiWatches, Zenon
    <3>2. <<"conn", c>> \in Conns BY DEF Conns
    <3> QED BY <1>10, <1>11, <2>3, <3>1, <3>2
  <2>7. ASSUME NEW e \in Depth, NEW k \in {"fifo", "in", "out"}, w.who = <<k, e>>
        PROVE  e \in Depths(stack') /\ (w.fd # None => fds'[w.fd] = fds[w.fd])
    <3>1. e \in Depths(stack) /\ (w.fd # None => fds[w.fd] = <<k, e>>)
      BY <2>2, <2>7, ShellWatches
    <3>2. e # d BY <1>13, <2>7
    <3> QED BY <1>9, <1>10, <2>3, <3>1, <3>2
  <2>8. w.who = Listener => w.fd = w.fd /\ fds'[w.fd] = fds[w.fd] BY <2>4
  <2>9. \A c \in Conn : w.who = Acc(c) =>
            /\ accepter'[c] # Gone /\ w.fd = w.fd
            /\ ui'[c] = Gone => ui[c] = Gone /\ fds'[w.fd] = fds[w.fd]
    BY <2>5
  <2>10. \A c \in Conn : w.who = Ui(c) =>
            ui'[c] # Gone /\ (w.fd # None => w.fd = w.fd /\ fds'[w.fd] = fds[w.fd])
    BY <2>6
  <2>11. \A e \in Depth : \A k \in {"fifo", "in", "out"} : w.who = <<k, e>> =>
            /\ e \in Depths(stack')
            /\ w.fd # None => (w.fd = w.fd /\ fds'[w.fd] = fds[w.fd]) \/ fds'[w.fd] = <<k, e>>
    BY <2>7
  <2> QED BY <2>1, <2>2, <2>8, <2>9, <2>10, <2>11, FitsStill
<1>14. WatchersFit'
  <2>1. \A w \in Watchers' : Fits(w)'
    <3> SUFFICES ASSUME NEW w \in Watchers' PROVE FitsIn(w, fds', Depths(stack'), accepter', ui')
      BY DEF Fits, FitsIn
    <3> QED BY <1>12, <1>13
  <2> QED BY <1>12, <2>1 DEF WatchersFit
<1>15. OtherTypes' BY <1>1, <1>2, <1>6, <1>8, <1>12 DEF Types, OtherTypes
<1>16. AllTypes' /\ UnitsFit' /\ SameConns BY <1>15, RemoteStays
<1>17. FramesFit'
  <2>1. ASSUME NEW i \in DOMAIN stack'
        PROVE  FrameFits(stack'[i], ui', fds')
    <3>1. FrameFits(stack'[i], ui, fds) /\ stack'[i] \in Frames BY <1>7
    <3>2. ASSUME stack'[i].at = "command"
          PROVE  fds'[stack'[i].fd] = fds[stack'[i].fd]
      <4>1. stack'[i].fd \in 1..MaxFd /\ stack'[i].c \in Conn BY <3>1, <3>2, ClientOf
      <4>2. fds[stack'[i].fd] \in Conns BY <3>1, <3>2, <4>1 DEF FrameFits, Conns
      <4> QED BY <1>10, <4>1, <4>2
    <3>3. ASSUME stack'[i].at = "fifo"
          PROVE  fds'[stack'[i].fd] = fds[stack'[i].fd]
      <4>1. stack'[i].fd \in 1..MaxFd BY <3>1, <3>3, ClientOf
      <4>2. fds[stack'[i].fd] = <<"fifo", stack'[i].d>> BY <3>1, <3>3 DEF FrameFits
      <4>3. stack'[i].d \in Depths(stack') BY <1>7, <3>3 DEF CallsFit, Depths
      <4> QED BY <1>9, <1>10, <4>1, <4>2, <4>3
    <3>4. stack'[i].at \in {"command", "fifo"} => fds'[stack'[i].fd] = fds[stack'[i].fd]
      BY <3>2, <3>3
    <3> QED BY <1>11, <3>1, <3>4, FrameStays
  <2> QED BY <1>11, <2>1 DEF FramesFit, FrameFits
<1>18. FdsFit'
  <2>1. FdsFit BY DEF Inv
  <2>2. ASSUME NEW a \in 1..MaxFd, NEW b \in 1..MaxFd, fds'[a] # Closed, fds'[a] = fds'[b]
        PROVE  a = b
    <3>1. ASSUME NEW x \in 1..MaxFd, fds'[x] = fds[x], fds'[x] \in Leaks
          PROVE  fds'[x] = Leaked(x)
      BY <2>1, <3>1 DEF FdsFit
    <3>2. CASE fds'[a] \in Leaks
      <4>1. \A x \in {a, b} : fds'[x] = fds[x] \/ fds'[x] = Leaked(x) BY <1>8, <2>2
      <4>2. fds'[a] = Leaked(a) /\ fds'[b] = Leaked(b) BY <2>2, <3>1, <3>2, <4>1
      <4> QED BY <2>2, <4>2, LeaksAre
    <3>3. CASE fds'[a] \notin Leaks
      <4>1. fds'[a] = fds[a] /\ fds'[b] = fds[b] BY <1>8, <2>2, <3>3, LeaksAre
      <4>2. fds[a] # Closed /\ fds[a] = fds[b] BY <2>2, <4>1
      <4> QED BY <2>1, <4>2 DEF FdsFit
    <3> QED BY <3>2, <3>3
  <2>3. ASSUME NEW fd \in 1..MaxFd
        PROVE  /\ fds'[fd] \in ShellEnds => fds'[fd][2] \in Depths(stack')
               /\ fds'[fd] \in Conns => state'[fds'[fd][2]] \in {"up", "down"}
               /\ fds'[fd] \in Leaks => fds'[fd] = Leaked(fd)
    <3>1. CASE fds'[fd] = Closed
      <4>1. Closed \notin ShellEnds /\ Closed \notin Conns BY DEF Closed, ShellEnds, Conns
      <4> QED BY <3>1, <4>1, LeaksAre
    <3>2. CASE fds'[fd] = fds[fd] /\ fds[fd] # Closed
      <4>1. ShellEnds \subseteq ShellObjects BY DEF ShellEnds, ShellObjects
      <4>2. ASSUME fds'[fd] \in ShellEnds PROVE fds'[fd][2] \in Depths(stack')
        <5>1. fds[fd][2] \in Depths(stack) BY <2>1, <3>2, <4>2 DEF FdsFit
        <5>2. fds[fd][2] # d
          <6>1. fds'[fd] # Leaked(fd) BY <4>2, LeaksAre
          <6> QED BY <1>8, <3>2, <4>1, <4>2, <6>1
        <5> QED BY <1>9, <3>2, <5>1, <5>2
      <4>3. fds'[fd] \in Conns => state'[fds'[fd][2]] \in {"up", "down"}
        BY <1>11, <2>1, <3>2 DEF FdsFit
      <4>4. fds'[fd] \in Leaks => fds'[fd] = Leaked(fd) BY <2>1, <3>2 DEF FdsFit
      <4> QED BY <4>2, <4>3, <4>4
    <3>3. CASE fds'[fd] = Leaked(fd) BY <3>3, LeaksAre
    <3> QED BY <1>8, <3>1, <3>2, <3>3
  <2> QED BY <2>2, <2>3 DEF FdsFit
<1>19. ConnsFit'
  <2>1. \A c : IsHandled(c)' <=> IsHandled(c)
    <3>1. \A c : (IsHandled(c) <=> c \in HandledIn(stack)) /\ (IsHandled(c)' <=> c \in HandledIn(stack'))
      BY HandledOnes DEF IsHandled, HandledIn
    <3> QED BY <1>7, <3>1
  <2>2. SameClients BY <1>1, ClientsStay
  <2>3. \A c \in Conn : state'[c] \in {"away", "backlog"} => state[c] \in {"away", "backlog"}
    BY <1>11
  <2>4. ASSUME NEW c \in Conn, NEW w \in Watchers, w.who = Ui(c)
        PROVE  \E x \in Watchers' : x.who = Ui(c)
    <3>1. \A k \in {"fifo", "in", "out"} : Ui(c) # <<k, d>> BY DEF Ui
    <3>2. w \in Watchers' BY <1>12, <2>4, <3>1, Zenon
    <3> QED BY <2>4, <3>2
  <2> QED BY <1>16, <2>1, <2>2, <2>3, <2>4, ConnsLeft
<1> QED BY <1>7, <1>14, <1>16, <1>17, <1>18, <1>19, Assembled

-----------------------------------------------------------------------------
(* The children, beside the server. *)
LEMMA DoesType ==
    ASSUME NEW c \in Children, NEW op \in ChildOp
    PROVE  Does(c, op) \in Children
<1> DEFINE yes == TRUE
           no == FALSE
<1>1. yes \in BOOLEAN /\ no \in BOOLEAN OBVIOUS
<1>2. /\ op = "out" => Does(c, op) = [c EXCEPT !.out = c.out + 1, !.wrote = c.wrote + 1]
      /\ op = "shut" => Does(c, op) = [c EXCEPT !.open = no]
      /\ op = "close" => Does(c, op) = [c EXCEPT !.writing = no]
      /\ op = "wait" => Does(c, op) = c
      /\ op \notin {"out", "shut", "close", "wait"} =>
            Does(c, op) = [c EXCEPT !.fifo = Append(c.fifo, op), !.told = c.told + 1,
                                    !.writing = yes, !.seen = yes]
  BY DEF Does
<1> HIDE DEF yes, no
<1>3. c.out + 1 \in Nat /\ c.wrote + 1 \in Nat /\ c.told + 1 \in Nat BY DEF Children
<1>4. op \notin {"out", "shut", "close", "wait"} => Append(c.fifo, op) \in Seq(Cmd)
  <2>1. c.fifo \in Seq(Cmd) BY DEF Children
  <2>2. op \notin {"out", "shut", "close", "wait"} => op \in Cmd BY DEF ChildOp
  <2> QED BY <2>1, <2>2
<1>5. CASE op = "out"
  <2>1. [c EXCEPT !.out = c.out + 1, !.wrote = c.wrote + 1] \in Children BY <1>3, Zenon DEF Children
  <2> QED BY <1>2, <1>5, <2>1
<1>6. CASE op = "shut"
  <2>1. [c EXCEPT !.open = no] \in Children BY <1>1, Zenon DEF Children
  <2> QED BY <1>2, <1>6, <2>1
<1>7. CASE op = "close"
  <2>1. [c EXCEPT !.writing = no] \in Children BY <1>1, Zenon DEF Children
  <2> QED BY <1>2, <1>7, <2>1
<1>8. CASE op = "wait" BY <1>2, <1>8
<1>9. CASE op \notin {"out", "shut", "close", "wait"}
  <2>1. [c EXCEPT !.fifo = Append(c.fifo, op), !.told = c.told + 1, !.writing = yes, !.seen = yes]
            \in Children
    BY <1>1, <1>3, <1>4, <1>9, Zenon DEF Children
  <2> QED BY <1>2, <1>9, <2>1
<1> QED BY <1>5, <1>6, <1>7, <1>8, <1>9

LEMMA ChildStepInv ==
    ASSUME Inv, ChildStep
    PROVE  Inv'
<1>1. /\ \E d \in Depth : ChildGoesOn(d) \/ ChildExits(d)
      /\ UNCHANGED <<fds, m_fd_watchers, m_clients, m_client_trash, remoteVars>> /\ stack' = stack
  BY DEF ChildStep, Child
<1>2. Types /\ CallsFit(stack) BY DEF Inv
<1>3. child \in [Depth -> Children] /\ sigchld \in BOOLEAN BY <1>2 DEF Types
<1>4. ASSUME NEW d \in Depth, ChildGoesOn(d)
      PROVE  child' \in [Depth -> Children] /\ sigchld' \in BOOLEAN
  <2> DEFINE c == child[d]
             b == [c EXCEPT !.ops = Tail(c.ops)]
             e == Does(b, Head(c.ops))
  <2>1. /\ c.ops # <<>> /\ UNCHANGED sigchld
        /\ child' = [child EXCEPT ![d] = e]
    BY <1>4 DEF ChildGoesOn
  <2>2. c \in Children BY <1>3
  <2> HIDE DEF c
  <2>3. c.ops \in Seq(ChildOp) BY <2>2 DEF Children
  <2>4. Head(c.ops) \in ChildOp /\ Tail(c.ops) \in Seq(ChildOp) BY <2>1, <2>3
  <2>5. b \in Children BY <2>2, <2>4, Zenon DEF Children
  <2> HIDE DEF b
  <2>6. e \in Children BY <2>4, <2>5, DoesType
  <2> HIDE DEF e
  <2> QED BY <1>3, <2>1, <2>6
<1>5. ASSUME NEW d \in Depth, ChildExits(d)
      PROVE  child' \in [Depth -> Children] /\ sigchld' \in BOOLEAN
  <2> DEFINE c == child[d]
             no == FALSE
             yes == TRUE
             e == [c EXCEPT !.state = "zombie", !.open = no, !.writing = no]
  <2>1. sigchld' = yes /\ child' = [child EXCEPT ![d] = e] BY <1>5 DEF ChildExits
  <2>2. c \in Children BY <1>3
  <2>3. no \in BOOLEAN /\ yes \in BOOLEAN OBVIOUS
  <2> HIDE DEF c, no, yes
  <2>4. e \in Children BY <2>2, <2>3, Zenon DEF Children
  <2> HIDE DEF e
  <2> QED BY <1>3, <2>1, <2>3, <2>4
<1>6. child' \in [Depth -> Children] /\ sigchld' \in BOOLEAN BY <1>1, <1>4, <1>5
<1>7. OtherTypes' BY <1>1, <1>2, <1>6 DEF Types, OtherTypes
<1>8. QuietStack(stack') BY <1>1, <1>2, StackStays
<1> QED BY <1>1, <1>7, <1>8, CallsInv

LEMMA StutterInv ==
    ASSUME Inv, UNCHANGED vars
    PROVE  Inv'
<1>1. /\ UNCHANGED <<fds, m_fd_watchers, m_clients, m_client_trash, remoteVars>>
      /\ stack' = stack /\ child' = child /\ sigchld' = sigchld
  BY DEF vars, serverVars
<1>2. Types /\ CallsFit(stack) BY DEF Inv
<1>3. OtherTypes' BY <1>1, <1>2 DEF Types, OtherTypes
<1>4. QuietStack(stack') BY <1>1, <1>2, StackStays
<1> QED BY <1>1, <1>3, <1>4, CallsInv

LEMMA ShellStepInv ==
    ASSUME Inv, ShellStep(Readable), UNCHANGED remoteVars
    PROVE  Inv'
<1>1. CASE EvalWaits(Readable) BY <1>1, EvalWaitsInv
<1>2. CASE EvalPolls BY <1>2, EvalPollsInv
<1>3. CASE EvalReturns BY <1>3, EvalReturnsInv
<1>4. ASSUME NEW d \in Depth, OutReader(d) PROVE Inv' BY <1>4, OutReaderInv
<1>5. ASSUME NEW d \in Depth, InWriter(d) PROVE Inv' BY <1>5, InWriterInv
<1>6. ASSUME NEW d \in Depth, FifoReader(d) PROVE Inv' BY <1>6, FifoReaderInv
<1>7. CASE FifoDone BY <1>7, FifoDoneInv
<1>8. CASE RunPlain BY <1>8, RunPlainInv
<1>9. CASE RunShell BY <1>9, RunShellInv
<1>10. CASE RunFail BY <1>10, RunFailInv
<1>11. CASE RunQuit BY <1>11, RunQuitInv
<1>12. CASE RunDone BY <1>12, RunDoneInv
<1> QED
  BY <1>1, <1>2, <1>3, <1>4, <1>5, <1>6, <1>7, <1>8, <1>9, <1>10, <1>11, <1>12 DEF ShellStep

LEMMA RemoteStepInv ==
    ASSUME Inv, RemoteStep
    PROVE  Inv'
<1>1. CASE Accept BY <1>1, AcceptInv
<1>2. CASE ConnectDone BY <1>2, ConnectDoneInv
<1>3. CASE CommandDone BY <1>3, CommandDoneInv
<1>4. ASSUME NEW c \in Conn, AccepterReads(c) PROVE Inv'
  <2>1. CASE state[c] = "down" BY <1>4, <2>1, AccepterEndsInv
  <2>2. CASE state[c] # "down" BY <1>4, <2>2, AccepterReadsInv
  <2> QED BY <2>1, <2>2
<1>5. ASSUME NEW c \in Conn, AccepterLeavesIt(c) PROVE Inv' BY <1>5, AccepterLeavesItInv
<1>6. ASSUME NEW c \in Conn, AccepterHandles(c) PROVE Inv' BY <1>6, AccepterHandlesInv
<1>7. ASSUME NEW c \in Conn, UiReads(c) PROVE Inv' BY <1>7, UiReadsInv
<1>8. ASSUME NEW c \in Conn, UiCancels(c) PROVE Inv' BY <1>8, UiCancelsInv
<1> QED BY <1>1, <1>2, <1>3, <1>4, <1>5, <1>6, <1>7, <1>8 DEF RemoteStep

LEMMA MainStepInv ==
    ASSUME Inv, MainStep
    PROVE  Inv'
<1>1. CASE MainWaits \/ MainAgain \/ MainProcesses \/ ProcessEnds \/ EventsReturn
  BY <1>1, MainInv
<1>2. CASE EmptiesTrash BY <1>2, EmptiesTrashInv
<1>3. CASE ProcessRemoves BY <1>3, ProcessRemovesInv
<1>4. CASE ProcessClient BY <1>4, ProcessClientInv
<1>5. CASE HandleKey BY <1>5, HandleKeyInv
<1>6. CASE KeysEnd BY <1>6, KeysEndInv
<1> QED BY <1>1, <1>2, <1>3, <1>4, <1>5, <1>6 DEF MainStep

LEMMA StepInv ==
    ASSUME Inv, [Next]_vars
    PROVE  Inv'
<1>1. CASE MainStep BY <1>1, MainStepInv
<1>2. CASE RemoteStep BY <1>2, RemoteStepInv
<1>3. CASE ShellStep(Readable) /\ UNCHANGED remoteVars BY <1>3, ShellStepInv
<1>4. CASE RemoteClient BY <1>4, RemoteClientInv
<1>5. CASE ChildStep BY <1>5, ChildStepInv
<1>6. CASE UNCHANGED vars BY <1>6, StutterInv
<1> QED BY <1>1, <1>2, <1>3, <1>4, <1>5, <1>6 DEF Next, ServerStep

LEMMA InitInv ==
    ASSUME Init
    PROVE  Inv
<1> DEFINE w == Watcher(Listener, 1, Urgent)
           no == FALSE
           zero == 0
           none == <<>>
<1>1. /\ fds = [fd \in 1..MaxFd |-> IF fd = 1 THEN Listener ELSE Closed]
      /\ m_fd_watchers = <<w>> /\ stack = <<MainFrame>>
      /\ child = [d \in Depth |-> NoChild] /\ sigchld = no
      /\ m_clients = none /\ m_client_trash = {} /\ script \in Connections
      /\ sent = [c \in Conn |-> zero] /\ read = [c \in Conn |-> zero]
      /\ state = [c \in Conn |-> "away"]
      /\ accepter = [c \in Conn |-> Gone] /\ ui = [c \in Conn |-> Gone]
      /\ m_pending_keys = [c \in Conn |-> none] /\ handled = [c \in Conn |-> none]
  BY DEF Init
<1>2. 1 \in 1..MaxFd BY MaxFdAssumption
<1>3. w \in WatcherRecords /\ w.who = Listener /\ w.fd = 1
  <2>1. 1 \in 0..MaxFd BY MaxFdAssumption
  <2> QED BY <2>1 DEF Watcher, WatcherRecords, Whos
<1> HIDE DEF w
<1>4. /\ m_fd_watchers \in Seq(WatcherRecords) /\ DOMAIN m_fd_watchers = {1}
      /\ m_fd_watchers[1] = w /\ Watchers = {w}
  <2>1. <<w>> \in Seq(WatcherRecords) /\ Len(<<w>>) = 1 /\ <<w>>[1] = w BY <1>3, OneOf
  <2>2. DOMAIN <<w>> = 1..1 BY <2>1
  <2>3. DOMAIN <<w>> = {1} BY <2>2
  <2> DEFINE s == <<w>>
  <2> HIDE DEF s
  <2>4. DOMAIN s = {1} /\ s[1] = w /\ s \in Seq(WatcherRecords) BY <2>1, <2>3 DEF s
  <2>5. ToSet(s) = {w} BY <2>4 DEF ToSet
  <2> QED BY <1>1, <2>4, <2>5 DEF Watchers, s
<1>5. MainFrame \in Frames /\ MainFrame.at = "main"
  <2>1. MainFrame \in MainFrames BY DEF MainFrame, MainFrames
  <2> QED BY <2>1, FramesAre DEF MainFrame
<1>6. /\ stack \in Seq(Frames) /\ DOMAIN stack = {1} /\ Len(stack) = 1 /\ stack[1] = MainFrame
      /\ stack # <<>>
  <2> DEFINE s == <<MainFrame>>
  <2>1. s \in Seq(Frames) /\ Len(s) = 1 /\ s[1] = MainFrame BY <1>5, OneOf
  <2>2. DOMAIN s = 1..1 BY <2>1
  <2> HIDE DEF s
  <2>3. DOMAIN s = {1} /\ s # <<>> BY <2>1, <2>2
  <2> QED BY <1>1, <2>1, <2>3 DEF s
<1>7. Evals(stack) = {} /\ Depths(stack) = {} /\ (\A c : ~IsHandled(c))
  BY <1>5, <1>6 DEF Evals, Depths, IsHandled
<1>8. CallsFit(stack)
  <2>1. 0 \in 0..MaxDepth /\ Depths(stack) = 1..0 BY <1>7, ShellAssumption
  <2>2. \A i \in 2..Len(stack) : FALSE BY <1>6
  <2>3. \A j \in DOMAIN stack : stack[j].at # "fifo" BY <1>5, <1>6
  <2> QED BY <1>5, <1>6, <1>7, <2>1, <2>2, <2>3 DEF CallsFit
<1>9. FramesFit BY <1>5, <1>6 DEF FramesFit, FrameFits
<1>10. /\ no \in BOOLEAN /\ zero \in Nat /\ none \in Seq(Cmd) /\ none \in Seq(ChildOp)
       /\ none \in Seq(Nat) /\ none \in Seq(Conn) /\ ToSet(none) = {} /\ Range(none) = {}
       /\ DOMAIN none = {}
  BY DEF ToSet, Range
<1>11. NoChild \in Children
  <2>1. NoChild = [state |-> "none", ops |-> none, out |-> zero, open |-> no, fifo |-> none,
                   writing |-> no, seen |-> no, told |-> zero, wrote |-> zero]
    BY DEF NoChild
  <2> HIDE DEF no, zero, none
  <2> QED BY <1>10, <2>1 DEF Children
<1>12. Types
  <2>1. fds \in [1..MaxFd -> Objects \cup {Closed}] BY <1>1 DEF Objects
  <2>2. Gone \in Gone..MessageSize /\ Gone \in Gone..MessageSize - 1 BY DEF Gone, MessageSize
  <2> HIDE DEF no, zero, none
  <2>3. /\ child \in [Depth -> Children] /\ sigchld \in BOOLEAN
        /\ m_clients \in Seq(Conn) /\ m_client_trash \in SUBSET Conn
    BY <1>1, <1>10, <1>11
  <2>4. /\ sent \in [Conn -> Nat] /\ read \in [Conn -> Nat]
        /\ state \in [Conn -> {"away", "backlog", "up", "down"}]
        /\ m_pending_keys \in [Conn -> Seq(Nat)] /\ handled \in [Conn -> Seq(Nat)]
    BY <1>1, <1>10
  <2>5. accepter \in [Conn -> Gone..MessageSize] /\ ui \in [Conn -> Gone..MessageSize - 1]
    BY <1>1, <2>2
  <2> QED BY <1>1, <1>4, <1>6, <2>1, <2>3, <2>4, <2>5 DEF Types
<1>13. ConnsFit
  <2>1. Gone # MessageSize BY DEF Gone, MessageSize
  <2> HIDE DEF none
  <2> QED BY <1>1, <1>7, <1>10, <2>1 DEF ConnsFit
<1>14. WatchersFit
  <2>1. Fits(w)
    <3>1. w.fd # None /\ fds[w.fd] = Listener BY <1>1, <1>2, <1>3 DEF None
    <3> QED BY <1>3, <3>1, FitsListener DEF Fits
  <2> QED BY <1>4, <2>1 DEF WatchersFit
<1>15. FdsFit
  <2>1. Listener \notin ShellEnds /\ Listener \notin Conns /\ Listener \notin Leaks
    BY LeaksAre DEF Listener, ShellEnds, Conns
  <2>2. Closed \notin ShellEnds /\ Closed \notin Conns /\ Closed \notin Leaks
    BY LeaksAre DEF Closed, ShellEnds, Conns
  <2> QED BY <1>1, <2>1, <2>2 DEF FdsFit
<1>16. UnitsFit
  <2>1. ASSUME NEW c \in Conn PROVE read[c] = 0 /\ sent[c] = 0 /\ accepter[c] = Gone /\ ui[c] = Gone
                                    /\ m_pending_keys[c] = <<>>
    BY <1>1
  <2>2. Gone \notin 0..1 /\ Gone # MessageSize /\ 0 % MessageSize = 0 BY DEF Gone, MessageSize
  <2>3. \A c \in Conn : 0 <= Units(c)
    <3>1. ASSUME NEW c \in Conn PROVE 0 <= Units(c)
      <4>1. Len(script[c]) \in Nat BY <1>12, TheScript
      <4> QED BY <4>1 DEF Units, MessageSize
    <3> QED BY <3>1
  <2>4. \A c \in Conn : Range(m_pending_keys[c]) = {} BY <1>10, <2>1
  <2> QED BY <2>1, <2>2, <2>3, <2>4 DEF UnitsFit
<1> QED BY <1>8, <1>9, <1>12, <1>13, <1>14, <1>15, <1>16 DEF Inv

(* The calls in progress are such as the code can have made them, and every  *)
(* frame, watcher, descriptor and count of what was read fits the others.    *)
THEOREM ServerIsSound == Spec => []Inv
<1>1. Init => Inv BY InitInv
<1>2. Inv /\ [Next]_vars => Inv' BY StepInv
<1> QED BY <1>1, <1>2, PTL DEF Spec

-----------------------------------------------------------------------------
(* No callback reads or closes what belongs to another: a watcher watches    *)
(* nothing, or what it was made for, for as long as it is there.             *)
LEMMA SoundIsOwned ==
    ASSUME Inv
    PROVE  WatchersAreOwners
<1>1. Types /\ CallsFit(stack) /\ stack # <<>> BY TopIs DEF Inv
<1>2. TypeOK
  <2>1. DOMAIN fds = 1..MaxFd BY <1>1 DEF Types
  <2>2. \A i \in DOMAIN m_fd_watchers : /\ m_fd_watchers[i].fd \in 0..MaxFd
                                        /\ m_fd_watchers[i].mode \in {Normal, Urgent}
    BY <1>1, WatchersType DEF WatcherRecords
  <2>3. stack # <<>> /\ stack[1].at = "main" BY <1>1 DEF CallsFit
  <2>4. \A c \in Conn : /\ read[c] <= sent[c] /\ sent[c] <= Units(c)
                        /\ accepter[c] \in Gone..MessageSize /\ ui[c] \in Gone..MessageSize - 1
    BY <1>1 DEF Inv, UnitsFit, Types
  <2>5. m_client_trash \cap ToSet(m_clients) = {} BY DEF Inv, ConnsFit
  <2> QED BY <2>1, <2>2, <2>3, <2>4, <2>5 DEF TypeOK
<1>3. ASSUME NEW w \in Watchers
      PROVE  w.fd = None \/ fds[w.fd] = Watches(w.who) \/ IsPassedOn(w.who)
  <2>1. CASE w.who = Listener /\ w.fd # None /\ fds[w.fd] = Listener
    <3>1. Watches(w.who) = Listener BY <2>1 DEF Watches, Listener
    <3> QED BY <2>1, <3>1
  <2>2. ASSUME NEW c \in Conn, w.who = Acc(c), accepter[c] # Gone, w.fd # None,
               ui[c] = Gone => fds[w.fd] = <<"conn", c>>
        PROVE  fds[w.fd] = Watches(w.who) \/ IsPassedOn(w.who)
    <3>1. Watches(w.who) = <<"conn", c>> BY <2>2 DEF Watches, Acc
    <3>2. w.who[1] = "accepter" /\ w.who[2] = c BY <2>2 DEF Acc
    <3>3. CASE ui[c] = Gone BY <2>2, <3>1, <3>3
    <3>4. CASE ui[c] # Gone
      <4>1. accepter[c] = MessageSize BY <2>2, <3>4 DEF Inv, ConnsFit
      <4>2. IsHandled(c) BY <4>1 DEF Inv, ConnsFit
      <4> QED BY <3>2, <4>2 DEF IsPassedOn
    <3> QED BY <3>3, <3>4
  <2>3. ASSUME NEW c \in Conn, w.who = Ui(c), w.fd # None => fds[w.fd] = <<"conn", c>>
        PROVE  w.fd = None \/ fds[w.fd] = Watches(w.who)
    <3>1. Watches(w.who) = <<"conn", c>> BY <2>3 DEF Watches, Ui
    <3> QED BY <2>3, <3>1
  <2>4. CASE w.who \in ShellEnds /\ (w.fd # None => fds[w.fd] = w.who)
    <3>1. Watches(w.who) = w.who BY <2>4 DEF Watches, ShellEnds
    <3> QED BY <2>4, <3>1
  <2> QED BY <2>1, <2>2, <2>3, <2>4, TheWatched
<1> QED BY <1>2, <1>3 DEF WatchersAreOwners, Watchers

THEOREM WatchersAreAlwaysOwners == Spec => []WatchersAreOwners
<1>1. Inv => WatchersAreOwners BY SoundIsOwned
<1> QED BY <1>1, ServerIsSound, PTL

-----------------------------------------------------------------------------
(* The keys being handled, and what starts: most steps leave both alone.     *)
KeyFrames(s) == {i \in DOMAIN s : s[i].at = "keys"}
KeysKept(s, t) ==
    /\ KeyFrames(t) = KeyFrames(s)
    /\ \A i \in KeyFrames(s) : t[i].c = s[i].c /\ t[i].keys = s[i].keys
Calm(s, t) == KeysKept(s, t) /\ Started(t) \subseteq Started(s)

LEMMA KeepsIsCalm ==
    ASSUME NEW s, NEW t, Keeps(s, t),
           \A i \in DOMAIN t \ DOMAIN s : t[i].at \notin {"connect", "command", "keys"}
    PROVE  Calm(s, t)
<1>1. ASSUME NEW i \in DOMAIN t, t[i].at \in {"connect", "command", "keys"}
      PROVE  i \in DOMAIN s /\ Alike(s[i], t[i]) /\ s[i].at = t[i].at
  <2>1. i \in DOMAIN s BY <1>1
  <2>2. Goes(s[i], t[i]) BY <2>1 DEF Keeps
  <2> QED BY <1>1, <2>1, <2>2 DEF Goes, Alike
<1>2. ASSUME NEW i \in DOMAIN s, s[i].at = "keys"
      PROVE  i \in DOMAIN t /\ t[i].at = "keys" /\ t[i].c = s[i].c /\ t[i].keys = s[i].keys
  <2>1. i \in DOMAIN t BY <1>2 DEF Keeps, Catchers
  <2>2. Goes(s[i], t[i]) BY <2>1 DEF Keeps
  <2> QED BY <1>2, <2>1, <2>2 DEF Goes, Alike
<1>3. KeysKept(s, t) BY <1>1, <1>2 DEF KeysKept, KeyFrames
<1>4. Started(t) \subseteq Started(s) BY <1>1 DEF Started
<1> QED BY <1>3, <1>4 DEF Calm

LEMMA QuietIsCalm ==
    ASSUME QuietStack(stack')
    PROVE  Calm(stack, stack')
BY KeepsIsCalm DEF QuietStack

LEMMA SameIsCalm ==
    ASSUME stack' = stack
    PROVE  Calm(stack, stack')
BY DEF Calm, KeysKept, KeyFrames

(* What nothing but the keys' own steps change, and how far what was read    *)
(* goes.                                                                     *)
KeysStay ==
    /\ script' = script /\ m_pending_keys' = m_pending_keys /\ handled' = handled
    /\ \A c \in Conn : /\ read[c] <= read'[c]
                       /\ ui'[c] # Gone => ui[c] # Gone /\ read'[c] = read[c]

LEMMA RemoteVarsStay ==
    ASSUME Inv, UNCHANGED remoteVars
    PROVE  KeysStay
<1>1. \A c \in Conn : read[c] \in Nat BY DEF Inv, Types
<1> QED BY <1>1 DEF KeysStay, remoteVars

(* A shell starts, or returns. *)
LEMMA EvalIsCalm ==
    ASSUME Inv, OnTop("run"), Top.cmds # <<>>, NEW wait, Eval(Rest, Top.client, wait)
    PROVE  Calm(stack, stack')
<1> DEFINE g == EvalFrame(NextDepth, Top.client, wait)
           r == Replaced(Rest)
<1>1. stack' = r \o <<g>> BY DEF Eval
<1>2. g.at = "eval" BY DEF EvalFrame
<1>3. Types /\ CallsFit(stack) /\ stack \in Seq(Frames) /\ DOMAIN stack = 1..Len(stack)
  BY TopIs DEF Inv
<1>4. Rest \in Frames /\ Alike(Top, Rest) BY <1>3, RunTop
<1>5. QuietStack(r) /\ DOMAIN r = DOMAIN stack /\ Len(r) = Len(stack) BY <1>3, <1>4, StackReplaced
<1> HIDE DEF g, r
<1>6. r \in Seq(Frames) /\ Keeps(stack, r) BY <1>5 DEF QuietStack
<1>7. /\ DOMAIN (r \o <<g>>) = 1..Len(r) + 1 /\ DOMAIN r = 1..Len(r) /\ Len(r) \in Nat
      /\ (\A i \in 1..Len(r) : (r \o <<g>>)[i] = r[i]) /\ (r \o <<g>>)[Len(r) + 1] = g
  BY <1>6
<1>8. Keeps(stack, stack')
  <2>1. DOMAIN stack \subseteq DOMAIN stack' BY <1>1, <1>3, <1>5, <1>7
  <2>2. \A i \in DOMAIN stack : stack'[i] = r[i] BY <1>1, <1>3, <1>5, <1>7
  <2>3. \A i \in DOMAIN stack : Goes(stack[i], r[i]) BY <1>5, <1>6 DEF Keeps
  <2> QED BY <2>1, <2>2, <2>3 DEF Keeps
<1>9. \A i \in DOMAIN stack' \ DOMAIN stack : stack'[i] = g
  <2>1. \A i \in 1..Len(r) + 1 : i \in 1..Len(r) \/ i = Len(r) + 1 BY <1>7
  <2> QED BY <1>1, <1>3, <1>5, <1>7, <2>1
<1> QED BY <1>2, <1>8, <1>9, KeepsIsCalm

LEMMA CalmIsTransitive ==
    ASSUME NEW s, NEW t, NEW u, Calm(s, t), Calm(t, u)
    PROVE  Calm(s, u)
BY DEF Calm, KeysKept

LEMMA BelowIsCalm ==
    ASSUME NEW s \in Seq(Frames), s # <<>>, Last(s).at # "keys"
    PROVE  Calm(s, Front(s))
<1>1. /\ DOMAIN s = 1..Len(s) /\ Len(s) \in Nat \ {0} /\ Last(s) = s[Len(s)]
  BY LastOne
<1>2. DOMAIN Front(s) = 1..Len(s) - 1 /\ \A i \in 1..Len(s) - 1 : Front(s)[i] = s[i]
  BY TheFront
<1>3. \A i \in 1..Len(s) : i \in 1..Len(s) - 1 \/ i = Len(s)
  <2>1. \A n \in Nat \ {0} : \A i \in 1..n : i \in 1..n - 1 \/ i = n OBVIOUS
  <2> QED BY <1>1, <2>1, Zenon
<1>4. \A i \in 1..Len(s) - 1 : i \in 1..Len(s) BY <1>1
<1>5. KeyFrames(Front(s)) = KeyFrames(s) BY <1>1, <1>2, <1>3, <1>4, Zenon DEF KeyFrames
<1>6. \A i \in KeyFrames(s) : Front(s)[i] = s[i] BY <1>2, <1>5 DEF KeyFrames
<1>7. Started(Front(s)) \subseteq Started(s) BY <1>1, <1>2, <1>4 DEF Started
<1> QED BY <1>5, <1>6, <1>7 DEF Calm, KeysKept

LEMMA ThrowIsCalm ==
    ASSUME NEW s \in Seq(Frames), CallsFit(s), NEW kind, NEW children, Throw(s, children, kind)
    PROVE  Calm(s, stack')
<1> DEFINE t == SubSeq(s, 1, CatchIndex(s) - 1) \o <<Caught(s[CatchIndex(s)], kind)>>
<1>1. stack' = t BY DEF Throw
<1>2. Keeps(s, t) /\ DOMAIN t \subseteq DOMAIN s BY ThrowKeeps, Zenon
<1> HIDE DEF t
<1>3. \A i \in DOMAIN t \ DOMAIN s : FALSE BY <1>2
<1> QED BY <1>1, <1>2, <1>3, KeepsIsCalm

LEMMA EvalReturnsIsCalm ==
    ASSUME Inv, EvalReturns
    PROVE  Calm(stack, stack')
<1>1. /\ OnTop("eval")
      /\ \/ stack' = Below
         \/ Throw(Below, [child EXCEPT ![Top.d] = NoChild], "cancel")
  BY DEF EvalReturns
<1>2. Types /\ CallsFit(stack) /\ stack # <<>> /\ stack \in Seq(Frames) /\ Top.at = "eval"
  BY <1>1, TopIs DEF Inv, OnTop
<1>3. PICK n \in 0..MaxDepth : Depths(stack) = 1..n BY <1>2 DEF CallsFit
<1>4. Below \in Seq(Frames) /\ CallsFit(Below) BY <1>1, <1>3, DepthIsLast
<1>5. Calm(stack, Below) BY <1>2, BelowIsCalm DEF Below, Top
<1>6. CASE stack' = Below BY <1>5, <1>6
<1>7. CASE Throw(Below, [child EXCEPT ![Top.d] = NoChild], "cancel")
  <2>1. Calm(Below, stack') BY <1>4, <1>7, ThrowIsCalm
  <2> QED BY <1>5, <2>1, CalmIsTransitive
<1> QED BY <1>1, <1>6, <1>7

(* Whatever the shells do, no key is handled and nothing starts. *)
LEMMA ShellStepIsCalm ==
    ASSUME Inv, ShellStep(Readable), UNCHANGED remoteVars
    PROVE  Calm(stack, stack') /\ KeysStay
<1>0. Types /\ CallsFit(stack) BY DEF Inv
<1>1. ASSUME EvalWaits(Readable) PROVE Calm(stack, stack')
  BY <1>0, <1>1, EvalWaitsQuiet, QuietIsCalm
<1>2. ASSUME EvalPolls PROVE Calm(stack, stack')
  BY <1>0, <1>2, EvalPollsQuiet, QuietIsCalm
<1>3. ASSUME EvalReturns PROVE Calm(stack, stack')
  BY <1>0, <1>3, EvalReturnsIsCalm
<1>4. ASSUME NEW d \in Depth, OutReader(d) PROVE Calm(stack, stack')
  BY <1>4, OutReaderQuiet, QuietIsCalm
<1>5. ASSUME NEW d \in Depth, InWriter(d) PROVE Calm(stack, stack')
  BY <1>5, InWriterQuiet, QuietIsCalm
<1>6. ASSUME NEW d \in Depth, FifoReader(d) PROVE Calm(stack, stack')
  BY <1>6, FifoReaderQuiet, QuietIsCalm
<1>7. ASSUME FifoDone PROVE Calm(stack, stack')
  BY <1>0, <1>7, FifoDoneQuiet, QuietIsCalm
<1>8. ASSUME RunPlain PROVE Calm(stack, stack')
  BY <1>0, <1>8, RunPlainQuiet, QuietIsCalm
<1>9. ASSUME RunShell PROVE Calm(stack, stack')
  <2>1. OnTop("run") /\ Top.cmds # <<>> BY <1>9, Zenon DEF RunShell, RunsNext
  <2>2. Eval(Rest, Top.client, TRUE) \/ Eval(Rest, Top.client, FALSE) BY <1>9, Zenon DEF RunShell
  <2> QED BY <2>1, <2>2, EvalIsCalm, Zenon
<1>10. ASSUME RunFail PROVE Calm(stack, stack')
  BY <1>0, <1>10, RunFailQuiet, QuietIsCalm
<1>11. ASSUME RunQuit PROVE Calm(stack, stack')
  BY <1>0, <1>11, RunQuitQuiet, QuietIsCalm
<1>12. ASSUME RunDone PROVE Calm(stack, stack')
  BY <1>0, <1>12, RunDoneQuiet, QuietIsCalm
<1>13. Calm(stack, stack')
  BY <1>1, <1>2, <1>3, <1>4, <1>5, <1>6, <1>7, <1>8, <1>9, <1>10, <1>11, <1>12 DEF ShellStep
<1> QED BY <1>13, RemoteVarsStay

LEMMA OtherStepIsCalm ==
    ASSUME Inv, RemoteClient \/ ChildStep \/ UNCHANGED vars
    PROVE  Calm(stack, stack') /\ KeysStay
<1>1. ASSUME RemoteClient PROVE stack' = stack /\ KeysStay
  <2>1. stack' = stack /\ ui' = ui /\ script' = script BY <1>1, RemoteClientQuiet
  <2>2. UNCHANGED <<read, m_pending_keys, handled>> BY <1>1 DEF RemoteClient
  <2> QED BY <2>1, <2>2 DEF KeysStay, Inv, Types
<1>2. ASSUME ChildStep PROVE stack' = stack /\ KeysStay
  BY <1>2, RemoteVarsStay DEF ChildStep, Child
<1>3. ASSUME UNCHANGED vars PROVE stack' = stack /\ KeysStay
  BY <1>3, RemoteVarsStay DEF vars, serverVars
<1> QED BY <1>1, <1>2, <1>3, SameIsCalm

LEMMA AcceptIsCalm ==
    ASSUME Inv, Accept
    PROVE  Calm(stack, stack') /\ KeysStay
<1>1. Types /\ CallsFit(stack) /\ InEvents /\ stack' = Served BY DEF Inv, Accept, Runs
<1>2. QuietStack(stack') BY <1>1, ServedIs
<1>3. KeysStay BY DEF KeysStay, Accept, Inv, Types
<1> QED BY <1>2, <1>3, QuietIsCalm

LEMMA ConnDoneIsCalm ==
    ASSUME Inv, ConnectDone \/ CommandDone
    PROVE  Calm(stack, stack') /\ KeysStay
<1>1. Top.at \in {"connect", "command"} /\ stack' = Below
  BY DEF ConnectDone, CommandDone, OnTop
<1>2. KeysStay BY DEF KeysStay, ConnectDone, CommandDone, Inv, Types
<1>3. stack \in Seq(Frames) /\ stack # <<>> BY TopIs DEF Inv
<1>4. Calm(stack, Below) BY <1>1, <1>3, BelowIsCalm DEF Below, Top
<1> QED BY <1>1, <1>2, <1>4

LEMMA HandlesIsCalm ==
    ASSUME Inv, NEW c \in Conn, AccepterHandles(c)
    PROVE  KeysKept(stack, stack') /\ Evals(stack) = {}
<1>1. InEvents /\ Top.mode = Normal /\ ~IsHandled(c) BY Handling1
<1>2. /\ Len(stack) = 2 /\ Evals(stack) = {}
      /\ \A i \in DOMAIN stack : stack[i].at \in {"main", "events"}
  BY <1>1, AtEvents DEF Inv
<1>3. \E f, g : stack' = Served \o <<f, g>> BY <1>1, Zenon DEF AccepterHandles, Introduced
<1>4. PICK f, g : stack' = Served \o <<f, g>> BY <1>3, Zenon
<1>5. QuietStack(Served) /\ Len(Served) = 2 /\ Served[2] \in EventsFrames
  BY <1>1, <1>2, ServedIs DEF Inv
<1>6. stack'[2] = Served[2]
  <2> DEFINE s == Served
             t == <<f, g>>
             S == Frames \cup {f, g}
  <2>1. s \in Seq(Frames) BY <1>5 DEF QuietStack
  <2>2. s \in Seq(S) /\ t \in Seq(S) /\ 2 \in 1..Len(s) BY <1>5, <2>1
  <2> HIDE DEF s, t, S
  <2>3. \A i \in 1..Len(s) : (s \o t)[i] = s[i] BY <2>2, Joined
  <2> QED BY <1>4, <2>2, <2>3 DEF s, t
<1>7. stack' \in Seq(Frames) /\ CallsFit(stack')
  <2>1. Types' /\ CallsFit(stack)' BY AccepterHandlesInv DEF Inv
  <2> QED BY <2>1, Zenon DEF Types, CallsFit, Calls, Depths, Evals
<1>8. \A i \in DOMAIN stack' : stack'[i].at # "keys"
  BY <1>5, <1>6, <1>7, Positions DEF EventsFrames
<1> QED BY <1>2, <1>8 DEF KeysKept, KeyFrames

LEMMA HandlesStays ==
    ASSUME Inv, NEW c \in Conn, AccepterHandles(c)
    PROVE  /\ UNCHANGED <<script, m_pending_keys, handled>>
           /\ read[c] < MessageSize /\ read' = [read EXCEPT ![c] = MessageSize] /\ ui[c] = Gone
           /\ \A d \in Conn : d # c => ui'[d] = ui[d]
<1>1. accepter[c] \in 0..1 /\ ~IsHandled(c) /\ ui[c] = Gone /\ read' = [read EXCEPT ![c] = MessageSize]
  BY Handling1
<1>2. read[c] < MessageSize BY <1>1 DEF Inv, UnitsFit, MessageSize
<1>3. UNCHANGED <<script, m_pending_keys, handled>> BY DEF AccepterHandles
<1>4. ui' = ui \/ ui' = [ui EXCEPT ![c] = 0] BY <1>1 DEF AccepterHandles, Introduced
<1> QED BY <1>1, <1>2, <1>3, <1>4, Zenon DEF Inv, Types

LEMMA ReadsIsCalm ==
    ASSUME Inv, NEW c \in Conn, AccepterReads(c) \/ AccepterLeavesIt(c)
    PROVE  Calm(stack, stack') /\ KeysStay
<1>1. QuietStack(stack') BY AccepterReadsQuiet, AccepterLeavesItQuiet
<1>2. CASE AccepterLeavesIt(c)
  BY <1>1, <1>2, QuietIsCalm, RemoteVarsStay DEF AccepterLeavesIt
<1>3. CASE AccepterReads(c)
  <2>1. accepter[c] \in 0..1 /\ ui[c] = Gone BY <1>3, AccepterReadsQuiet
  <2>2. TakeMessage(c, accepter[c]) \in Nat BY <2>1, Taken
  <2>3. /\ read' = [read EXCEPT ![c] = read[c] + TakeMessage(c, accepter[c])]
        /\ UNCHANGED <<script, m_pending_keys, handled, ui>>
    BY <1>3 DEF AccepterReads
  <2>4. read \in [Conn -> Nat] BY DEF Inv, Types
  <2>5. KeysStay BY <2>1, <2>2, <2>3, <2>4 DEF KeysStay
  <2> QED BY <1>1, <2>5, QuietIsCalm
<1> QED BY <1>2, <1>3

LEMMA UiIsCalm ==
    ASSUME Inv, NEW c \in Conn, UiReads(c) \/ UiCancels(c)
    PROVE  Calm(stack, stack') /\ handled' = handled
<1>1. handled' = handled BY Zenon DEF UiReads, UiCancels
<1> QED BY <1>1, UiReadsQuiet, UiCancelsQuiet, QuietIsCalm

LEMMA MainIsCalm ==
    ASSUME Inv, \/ MainWaits \/ MainAgain \/ MainProcesses \/ ProcessEnds \/ EventsReturn
                \/ ProcessRemoves \/ EmptiesTrash
    PROVE  Calm(stack, stack') /\ KeysStay
<1>1. Types /\ CallsFit(stack) BY DEF Inv
<1>2. QuietStack(stack')
  BY <1>1, MainWaitsQuiet, MainProcessesQuiet, ProcessEndsQuiet, EventsReturnQuiet,
     ProcessRemovesQuiet, EmptiesTrashQuiet
<1>3. ASSUME EmptiesTrash PROVE KeysStay
  <2>1. PICK e \in m_client_trash : ui' = [ui EXCEPT ![e] = Gone] BY <1>3, Zenon DEF EmptiesTrash
  <2>2. UNCHANGED <<script, read, m_pending_keys, handled>> BY <1>3 DEF EmptiesTrash
  <2>3. \A d \in Conn : ui'[d] # Gone => ui[d] # Gone BY <1>1, <2>1 DEF Types
  <2> QED BY <1>1, <2>2, <2>3 DEF KeysStay, Types
<1>4. ASSUME \/ MainWaits \/ MainAgain \/ MainProcesses \/ ProcessEnds \/ EventsReturn
             \/ ProcessRemoves
      PROVE  KeysStay
  <2>1. UNCHANGED remoteVars
    BY <1>4, Zenon
       DEF MainWaits, MainAgain, MainProcesses, ProcessEnds, EventsReturn, ProcessRemoves
  <2> QED BY <2>1, RemoteVarsStay
<1> QED BY <1>2, <1>3, <1>4, QuietIsCalm

-----------------------------------------------------------------------------
(* While a shell is waited for nothing starts: a call that starts something  *)
(* is the third, and a shell is waited for by calls further up.              *)
LEMMA NoEvals ==
    ASSUME Inv, OnTop("keys") \/ OnTop("process")
    PROVE  /\ Evals(stack) = {} /\ Len(stack) \in {2, 3} /\ stack[Len(stack)] = Top
           /\ OnTop("keys") => Len(stack) = 3 /\ stack[2].at = "process"
<1>1. /\ Types /\ CallsFit(stack) /\ stack \in Seq(Frames) /\ DOMAIN stack = 1..Len(stack)
      /\ Len(stack) \in DOMAIN stack /\ Top = stack[Len(stack)] /\ Len(stack) \in Nat \ {0}
  BY TopIs DEF Inv
<1>2. /\ Top.at = "keys" => Len(stack) = 3 /\ stack[2].at = "process"
      /\ Top.at = "process" => Len(stack) = 2
  BY <1>1, Positions, Zenon
<1>3. Top.at \in {"keys", "process"} BY DEF OnTop
<1>4. \A i \in DOMAIN stack : stack[i].at # "eval"
  <2> SUFFICES ASSUME NEW i \in DOMAIN stack, stack[i].at = "eval" PROVE FALSE OBVIOUS
  <2>1. i > 2 /\ stack[i - 1].at = "run" /\ i \in 1..Len(stack) BY <1>1, Positions
  <2>2. i = 3 /\ i - 1 = 2 BY <1>2, <1>3, <2>1
  <2> QED BY <1>1, <1>2, <1>3, <2>1, <2>2
<1> QED BY <1>1, <1>2, <1>3, <1>4 DEF Evals, OnTop

LEMMA KeysOnTop ==
    /\ KeysEnd \/ HandleKey => OnTop("keys")
    /\ ProcessClient => OnTop("process")
BY DEF KeysEnd, HandleKey, ProcessClient, Processing

LEMMA NothingStarts ==
    ASSUME Inv, [Next]_vars
    PROVE  EvalIndexes # {} => Started(stack') \subseteq Started(stack) /\ handled' = handled
<1> SUFFICES ASSUME Evals(stack) # {}
             PROVE  Started(stack') \subseteq Started(stack) /\ handled' = handled
  BY DEF EvalIndexes, Evals
<1> DEFINE Quiet == Calm(stack, stack') /\ handled' = handled
<1>0. ASSUME KeysStay PROVE handled' = handled BY <1>0 DEF KeysStay
<1>1. ASSUME MainStep PROVE Quiet
  <2>1. ~KeysEnd /\ ~HandleKey /\ ~ProcessClient BY NoEvals, KeysOnTop
  <2> QED BY <1>0, <1>1, <2>1, MainIsCalm DEF MainStep
<1>2. ASSUME RemoteStep PROVE Quiet
  <2>1. ASSUME Accept PROVE Quiet BY <1>0, <2>1, AcceptIsCalm
  <2>2. ASSUME ConnectDone \/ CommandDone PROVE Quiet BY <1>0, <2>2, ConnDoneIsCalm
  <2>3. ASSUME NEW c \in Conn, AccepterReads(c) \/ AccepterLeavesIt(c) PROVE Quiet
    BY <1>0, <2>3, ReadsIsCalm
  <2>4. ASSUME NEW c \in Conn, AccepterHandles(c) PROVE Quiet BY <2>4, HandlesIsCalm
  <2>5. ASSUME NEW c \in Conn, UiReads(c) \/ UiCancels(c) PROVE Quiet BY <2>5, UiIsCalm
  <2> QED BY <1>2, <2>1, <2>2, <2>3, <2>4, <2>5 DEF RemoteStep
<1>3. ASSUME ShellStep(Readable), UNCHANGED remoteVars PROVE Quiet
  BY <1>0, <1>3, ShellStepIsCalm
<1>4. ASSUME RemoteClient \/ ChildStep \/ UNCHANGED vars PROVE Quiet
  BY <1>0, <1>4, OtherStepIsCalm
<1>5. Quiet BY <1>1, <1>2, <1>3, <1>4 DEF Next, ServerStep
<1> QED BY <1>5 DEF Calm

(* While a shell is waited for, what runs is what its own children ask for:  *)
(* no client is created, no command of another connection starts and no key  *)
(* is handled, however deep shells are nested.                               *)
THEOREM NothingEverStartsMeanwhile == Spec => NothingStartsMeanwhile
<1>1. Inv /\ [Next]_vars =>
        [EvalIndexes # {} => /\ Started(stack') \subseteq Started(stack)
                             /\ handled' = handled]_vars
  BY NothingStarts
<1> QED BY <1>1, ServerIsSound, PTL DEF Spec, NothingStartsMeanwhile

-----------------------------------------------------------------------------
(* The keys of a client, in order: those handled, those being handled, those *)
(* that wait. They are numbers of messages read so far, each once.           *)
Keys(c) == handled[c] \o BeingHandled(c) \o m_pending_keys[c]
InOrder(keys, n) ==
    /\ \A i \in 2..Len(keys) : keys[i - 1] < keys[i]
    /\ \A i \in 1..Len(keys) : keys[i] \in 1..n
AllTo(n) == [i \in 1..n - 1 |-> i + 1]
InTurn(keys, n, complete) ==
    keys \in Seq(Nat) /\ InOrder(keys, n) /\ (complete => keys = AllTo(n))
Complete(c) == ~HasCancel(c) /\ ui[c] # Gone
KeysInv == \A c \in Conn : InTurn(Keys(c), read[c] \div MessageSize, Complete(c))

LEMMA InOrderMore ==
    ASSUME NEW keys, NEW n \in Nat, NEW m \in Nat, InOrder(keys, n), n <= m
    PROVE  InOrder(keys, m)
BY DEF InOrder

LEMMA JoinedNats ==
    ASSUME NEW s \in Seq(Nat), NEW t \in Seq(Nat)
    PROVE  /\ s \o t \in Seq(Nat) /\ Len(s \o t) = Len(s) + Len(t)
           /\ Len(s) \in Nat /\ Len(t) \in Nat
           /\ \A i \in 1..Len(s) : (s \o t)[i] = s[i]
           /\ \A i \in 1..Len(t) : (s \o t)[Len(s) + i] = t[i]
           /\ \A i \in 1..Len(s) + Len(t) : i \in 1..Len(s) \/ i - Len(s) \in 1..Len(t)
BY Joined

LEMMA RegroupedNats ==
    ASSUME NEW s \in Seq(Nat), NEW t \in Seq(Nat), NEW u \in Seq(Nat)
    PROVE  (s \o t) \o u = s \o (t \o u)
BY ConcatAssociative

(* What comes first is in order if all is. *)
LEMMA FirstInOrder ==
    ASSUME NEW s \in Seq(Nat), NEW t \in Seq(Nat), NEW n \in Nat, InOrder(s \o t, n)
    PROVE  InOrder(s, n)
<1> DEFINE u == s \o t
<1>1. /\ Len(u) = Len(s) + Len(t) /\ Len(s) \in Nat /\ Len(t) \in Nat
      /\ \A i \in 1..Len(s) : u[i] = s[i]
  BY JoinedNats
<1>2. InOrder(u, n) OBVIOUS
<1> HIDE DEF u
<1> QED BY <1>1, <1>2 DEF InOrder

(* The messages read next come after those read before. *)
LEMMA LaterInOrder ==
    ASSUME NEW s \in Seq(Nat), NEW t \in Seq(Nat), NEW n \in Nat, NEW m \in Nat, n <= m,
           InOrder(s, n), Len(t) = m - n, \A i \in 1..m - n : t[i] = n + i
    PROVE  InOrder(s \o t, m)
<1> DEFINE u == s \o t
<1>1. /\ Len(u) = Len(s) + Len(t) /\ Len(s) \in Nat /\ Len(t) \in Nat
      /\ \A i \in 1..Len(s) : u[i] = s[i]
      /\ \A i \in 1..Len(t) : u[Len(s) + i] = t[i]
  BY JoinedNats, Zenon
<1> HIDE DEF u
<1>2. \A i \in 1..Len(u) : i <= Len(s) => u[i] = s[i] /\ s[i] \in 1..n BY <1>1 DEF InOrder
<1>3. ASSUME NEW i \in 1..Len(u), i > Len(s) PROVE u[i] = n + (i - Len(s)) /\ i - Len(s) \in 1..m - n
  <2>1. i - Len(s) \in 1..Len(t) /\ i = Len(s) + (i - Len(s)) BY <1>1, <1>3
  <2> QED BY <1>1, <2>1, Zenon
<1>4. ASSUME NEW i \in 2..Len(u) PROVE u[i - 1] < u[i]
  <2>1. i \in 1..Len(u) /\ i - 1 \in 1..Len(u) BY <1>1
  <2>2. CASE i <= Len(s)
    <3>1. i - 1 <= Len(s) /\ i \in 2..Len(s) BY <1>1, <2>2
    <3> QED BY <1>2, <2>1, <2>2, <3>1, Zenon DEF InOrder
  <2>3. CASE i > Len(s) /\ i - 1 <= Len(s)
    <3>1. u[i - 1] <= n /\ u[i - 1] \in Nat
      <4> DEFINE j == i - 1
      <4>1. j \in 1..Len(u) /\ j <= Len(s) BY <2>1, <2>3
      <4> HIDE DEF j
      <4>2. u[j] \in 1..n BY <1>2, <4>1, Zenon
      <4>3. u[j] \in Nat /\ u[j] <= n BY <4>2
      <4> QED BY <4>3 DEF j
    <3>2. u[i] = n + (i - Len(s)) /\ i - Len(s) > 0 BY <1>1, <1>3, <2>1, <2>3
    <3> QED BY <1>1, <3>1, <3>2
  <2>4. CASE i - 1 > Len(s)
    <3>1. i > Len(s) BY <1>1, <2>4
    <3>2. u[i] = n + (i - Len(s)) /\ u[i - 1] = n + (i - 1 - Len(s)) BY <1>3, <2>1, <2>4, <3>1
    <3> QED BY <1>1, <3>2
  <2> QED BY <1>1, <2>2, <2>3, <2>4
<1>5. ASSUME NEW i \in 1..Len(u) PROVE u[i] \in 1..m
  <2>1. CASE i <= Len(s) BY <1>2, <2>1
  <2>2. CASE i > Len(s) BY <1>1, <1>3, <2>2
  <2> QED BY <1>1, <2>1, <2>2
<1> QED BY <1>4, <1>5, Zenon DEF InOrder, u

LEMMA LaterIsAll ==
    ASSUME NEW t \in Seq(Nat), NEW n \in Nat \ {0}, NEW m \in Nat, n <= m,
           Len(t) = m - n, \A i \in 1..m - n : t[i] = n + i
    PROVE  AllTo(n) \o t = AllTo(m)
<1> DEFINE s == AllTo(n)
           u == s \o t
           k == n - 1
<1>1. k \in Nat /\ s = [i \in 1..k |-> i + 1] BY DEF AllTo
<1> HIDE DEF k
<1>2. s \in Seq(Nat) /\ Len(s) = k /\ \A i \in 1..k : s[i] = i + 1
  BY <1>1
<1> HIDE DEF s
<1>3. /\ u \in Seq(Nat) /\ Len(u) = Len(s) + Len(t)
      /\ \A i \in 1..Len(s) : u[i] = s[i]
      /\ \A i \in 1..Len(t) : u[Len(s) + i] = t[i]
  BY <1>2, JoinedNats, Zenon
<1> HIDE DEF u
<1>4. Len(u) = m - 1 BY <1>2, <1>3 DEF k
<1>5. \A i \in 1..m - 1 : u[i] = i + 1
  <2> SUFFICES ASSUME NEW i \in 1..m - 1 PROVE u[i] = i + 1 OBVIOUS
  <2>1. CASE i <= k BY <1>2, <1>3, <2>1
  <2>2. CASE i > k
    <3>1. i - k \in 1..m - n /\ i = k + (i - k) BY <1>1, <2>2 DEF k
    <3>2. u[i] = t[i - k] BY <1>2, <1>3, <3>1, Zenon
    <3>3. t[i - k] = n + (i - k) BY <3>1
    <3> QED BY <3>2, <3>3 DEF k
  <2> QED BY <1>1, <2>1, <2>2
<1>6. u = [i \in 1..m - 1 |-> u[i]] BY <1>3, <1>4, LenProperties, Zenon
<1>7. [i \in 1..m - 1 |-> u[i]] = AllTo(m) BY <1>5 DEF AllTo
<1> QED BY <1>6, <1>7 DEF u, s

(* The keys being handled are those of the third call, if of any. *)
HandledOf(s, c) == {i \in DOMAIN s : s[i].at = "keys" /\ s[i].c = c}
KeysOf(s, c) == IF HandledOf(s, c) = {} THEN <<>> ELSE s[CHOOSE i \in HandledOf(s, c) : TRUE].keys

LEMMA BeingHandledIs ==
    \A c : /\ BeingHandled(c) = KeysOf(stack, c)
           /\ BeingHandled(c)' = KeysOf(stack', c)
BY DEF BeingHandled, Handling, KeysOf, HandledOf

LEMMA KeptIsHandled ==
    ASSUME KeysKept(stack, stack')
    PROVE  \A c : BeingHandled(c)' = BeingHandled(c)
<1> SUFFICES ASSUME NEW c PROVE KeysOf(stack', c) = KeysOf(stack, c) BY BeingHandledIs
<1>1. HandledOf(stack', c) = HandledOf(stack, c) BY DEF KeysKept, KeyFrames, HandledOf
<1>2. \A i \in HandledOf(stack, c) : stack'[i].keys = stack[i].keys
  BY DEF KeysKept, KeyFrames, HandledOf
<1>3. HandledOf(stack, c) # {} =>
        (CHOOSE i \in HandledOf(stack, c) : TRUE) \in HandledOf(stack, c)
  OBVIOUS
<1> QED BY <1>1, <1>2, <1>3 DEF KeysOf

LEMMA NoneOfKeys ==
    ASSUME NEW s, \A i \in DOMAIN s : s[i].at # "keys"
    PROVE  \A c : KeysOf(s, c) = <<>>
BY DEF KeysOf, HandledOf

LEMMA ThirdIsKeys ==
    ASSUME NEW s \in Seq(Frames), CallsFit(s), 3 \in DOMAIN s, s[3].at = "keys"
    PROVE  KeysOf(s, s[3].c) = s[3].keys /\ \A c : c # s[3].c => KeysOf(s, c) = <<>>
<1>1. \A i \in DOMAIN s : s[i].at = "keys" => i = 3 BY Positions, Zenon
<1>2. HandledOf(s, s[3].c) = {3} BY <1>1 DEF HandledOf
<1>3. \A c : c # s[3].c => HandledOf(s, c) = {} BY <1>1 DEF HandledOf
<1> QED BY <1>2, <1>3 DEF KeysOf

LEMMA KeysOfType ==
    ASSUME NEW s \in Seq(Frames), CallsFit(s), NEW c
    PROVE  KeysOf(s, c) \in Seq(Nat)
<1>1. CASE HandledOf(s, c) = {} BY <1>1, NoneOf DEF KeysOf
<1>2. CASE HandledOf(s, c) # {}
  <2>1. PICK i \in DOMAIN s : s[i].at = "keys" BY <1>2 DEF HandledOf
  <2>2. i = 3 BY <2>1, Positions, Zenon
  <2>3. s[3] \in Frames /\ s[3].at = "keys" /\ 3 \in DOMAIN s BY <2>1, <2>2, EvalsOf
  <2>4. s[3].keys \in Seq(Nat) BY <2>3, FrameKinds DEF KeysFrames
  <2>5. c = s[3].c \/ KeysOf(s, c) = <<>> BY <2>3, ThirdIsKeys
  <2> QED BY <2>3, <2>4, <2>5, ThirdIsKeys, NoneOf, Zenon
<1> QED BY <1>1, <1>2

LEMMA KeysType ==
    ASSUME Inv, NEW c \in Conn
    PROVE  /\ handled[c] \in Seq(Nat) /\ BeingHandled(c) \in Seq(Nat)
           /\ m_pending_keys[c] \in Seq(Nat)
           /\ handled[c] \o BeingHandled(c) \in Seq(Nat) /\ Keys(c) \in Seq(Nat)
<1>1. handled[c] \in Seq(Nat) /\ m_pending_keys[c] \in Seq(Nat) BY DEF Inv, Types
<1>2. BeingHandled(c) \in Seq(Nat)
  <2>1. stack \in Seq(Frames) /\ CallsFit(stack) BY DEF Inv, Types
  <2> QED BY <2>1, KeysOfType, BeingHandledIs
<1>3. handled[c] \o BeingHandled(c) \in Seq(Nat) BY <1>1, <1>2, ConcatProperties
<1>4. (handled[c] \o BeingHandled(c)) \o m_pending_keys[c] \in Seq(Nat)
  BY <1>1, <1>3, ConcatProperties
<1> QED BY <1>1, <1>2, <1>3, <1>4 DEF Keys

LEMMA TurnStays ==
    ASSUME NEW keys, NEW n \in Nat, NEW m \in Nat, NEW b, NEW a, InTurn(keys, n, b), n <= m,
           a => b /\ m = n
    PROVE  InTurn(keys, m, a)
BY InOrderMore DEF InTurn

LEMMA ReadHalves ==
    ASSUME Inv, NEW c \in Conn
    PROVE  /\ read[c] \in Nat /\ read[c] \div MessageSize \in Nat
           /\ \A n \in Nat : read[c] <= n => read[c] \div MessageSize <= n \div MessageSize
           /\ ui[c] # Gone => read[c] \div MessageSize >= 1
<1>1. read[c] \in Nat /\ (ui[c] # Gone => read[c] >= MessageSize) BY DEF Inv, Types, UnitsFit
<1> DEFINE x == read[c]
<1> HIDE DEF x
<1>2. x \in Nat BY <1>1 DEF x
<1>3. x \div 2 \in Nat /\ (x \div 2) * 2 <= x /\ x < 2 * (x \div 2) + 2 BY <1>2
<1>4. \A n \in Nat : n \div 2 \in Nat /\ 2 * (n \div 2) <= n /\ n < 2 * (n \div 2) + 2 OBVIOUS
<1>5. \A n \in Nat : x <= n => x \div 2 <= n \div 2 BY <1>2, <1>3, <1>4
<1>6. x >= 2 => x \div 2 >= 1 BY <1>2, <1>3
<1> QED BY <1>1, <1>3, <1>5, <1>6 DEF x, MessageSize

(* Most steps leave the keys of a client as they are. *)
LEMMA CancelStays ==
    ASSUME script' = script
    PROVE  \A c : HasCancel(c)' <=> HasCancel(c)
BY DEF HasCancel, KeyOf

LEMMA CalmKeys ==
    ASSUME Inv, Inv', KeysInv, KeysKept(stack, stack'), KeysStay
    PROVE  KeysInv'
<1> SUFFICES ASSUME NEW c \in Conn
             PROVE  InTurn(Keys(c)', read'[c] \div MessageSize, Complete(c)')
  BY DEF KeysInv
<1>1. Keys(c)' = Keys(c) BY KeptIsHandled, Zenon DEF Keys, KeysStay
<1>2. /\ read'[c] \div MessageSize \in Nat /\ read[c] \div MessageSize \in Nat
      /\ read[c] \div MessageSize <= read'[c] \div MessageSize
  <2>1. read'[c] \in Nat /\ read[c] <= read'[c] BY DEF Inv, Types, KeysStay
  <2>2. \A n \in Nat : n \div MessageSize \in Nat BY DEF MessageSize
  <2> QED BY <2>1, <2>2, ReadHalves
<1>3. Complete(c)' => Complete(c) /\ read'[c] = read[c]
  BY CancelStays DEF Complete, KeysStay
<1>4. InTurn(Keys(c), read[c] \div MessageSize, Complete(c)) BY DEF KeysInv
<1> QED BY <1>1, <1>2, <1>3, <1>4, TurnStays

LEMMA HandlesKeys ==
    ASSUME Inv, Inv', KeysInv, NEW c \in Conn, AccepterHandles(c)
    PROVE  KeysInv'
<1>1. KeysKept(stack, stack') BY HandlesIsCalm
<1>2. /\ script' = script /\ m_pending_keys' = m_pending_keys /\ handled' = handled
      /\ read[c] < MessageSize /\ read' = [read EXCEPT ![c] = MessageSize] /\ ui[c] = Gone
      /\ \A d \in Conn : d # c => ui'[d] = ui[d]
  BY HandlesStays
<1>3. \A d : Keys(d)' = Keys(d) BY <1>1, <1>2, KeptIsHandled, Zenon DEF Keys
<1>4. \A d \in Conn : InTurn(Keys(d), read[d] \div MessageSize, Complete(d)) BY DEF KeysInv
<1>5. ASSUME NEW d \in Conn PROVE InTurn(Keys(d)', read'[d] \div MessageSize, Complete(d)')
  <2>1. CASE d # c
    <3>1. read'[d] = read[d] BY <1>2, <2>1 DEF Inv, Types
    <3>2. Complete(d)' => Complete(d) BY <1>2, <2>1, CancelStays DEF Complete
    <3> QED BY <1>3, <1>4, <3>1, <3>2 DEF InTurn
  <2>2. CASE d = c
    <3>1. read'[c] = MessageSize BY <1>2 DEF Inv, Types
    <3>2. read'[c] \div MessageSize = 1 /\ read[c] \div MessageSize = 0
      <4>1. read[c] \in Nat BY DEF Inv, Types
      <4> QED BY <1>2, <3>1, <4>1 DEF MessageSize
    <3>3. Keys(c) \in Seq(Nat) /\ InOrder(Keys(c), 0) BY <1>4, <3>2 DEF InTurn
    <3> DEFINE keys == Keys(c)
    <3> HIDE DEF keys
    <3>4. keys \in Seq(Nat) /\ Len(keys) \in Nat /\ \A i \in 1..Len(keys) : FALSE
      BY <3>3, LenProperties DEF InOrder, keys
    <3>5. Len(keys) = 0
      <4>1. Len(keys) # 0 => 1 \in 1..Len(keys) BY <3>4
      <4> QED BY <3>4, <4>1
    <3>6. keys = <<>> BY <3>4, <3>5, EmptySeq
    <3>7. AllTo(1) = <<>> BY DEF AllTo
    <3>8. InOrder(keys, 1) BY <3>5 DEF InOrder
    <3>9. InTurn(keys, 1, Complete(d)') BY <3>4, <3>6, <3>7, <3>8 DEF InTurn
    <3> QED BY <1>3, <2>2, <3>2, <3>9 DEF keys
  <2> QED BY <2>1, <2>2
<1> QED BY <1>5 DEF KeysInv

(* The keys of the others, when something is done with those of one client. *)
LEMMA OneClientKeys ==
    ASSUME Inv, KeysInv, NEW c \in Conn, script' = script,
           \A d \in Conn : d # c => /\ handled'[d] = handled[d] /\ read'[d] = read[d]
                                    /\ m_pending_keys'[d] = m_pending_keys[d]
                                    /\ KeysOf(stack', d) = KeysOf(stack, d)
                                    /\ ui'[d] # Gone => ui[d] # Gone,
           InTurn(Keys(c)', read'[c] \div MessageSize, Complete(c)')
    PROVE  KeysInv'
<1>1. ASSUME NEW d \in Conn, d # c
      PROVE  InTurn(Keys(d)', read'[d] \div MessageSize, Complete(d)')
  <2>1. Keys(d)' = Keys(d) BY <1>1, BeingHandledIs, Zenon DEF Keys
  <2>2. Complete(d)' => Complete(d) BY <1>1, CancelStays DEF Complete
  <2>3. InTurn(Keys(d), read[d] \div MessageSize, Complete(d)) BY DEF KeysInv
  <2> QED BY <1>1, <2>1, <2>2, <2>3 DEF InTurn
<1> QED BY <1>1 DEF KeysInv

(* More is read: what comes waits behind what was read before. *)
LEMMA UiReadsKeys ==
    ASSUME Inv, KeysInv, NEW c \in Conn, UiReads(c)
    PROVE  KeysInv'
<1> DEFINE units == sent[c] - read[c]
           n == read[c] \div MessageSize
           m == (read[c] + units) \div MessageSize
           new == NewMessages(c, units)
<1>1. /\ read' = [read EXCEPT ![c] = @ + units] /\ handled' = handled /\ script' = script
      /\ ui' = [ui EXCEPT ![c] = (@ + units) % MessageSize]
      /\ m_pending_keys' = [m_pending_keys EXCEPT ![c] = @ \o new]
  BY DEF UiReads
<1>2. KeysKept(stack, stack') BY UiIsCalm DEF Calm
<1>3. units \in Nat /\ read[c] + units <= sent[c] /\ read[c] \in Nat BY UnitsOf
<1>4. /\ new \in Seq(Nat) /\ Len(new) = m - n /\ n \in Nat /\ m \in Nat /\ n <= m
      /\ \A i \in 1..m - n : new[i] = n + i
  BY <1>3, TheMessages, Zenon
<1>5. InTurn(Keys(c), n, Complete(c)) BY DEF KeysInv
<1>6. ui[c] # Gone BY RunsUi DEF UiReads, Inv
<1>7. n \in Nat \ {0} BY <1>4, <1>6, ReadHalves
<1>8. Keys(c)' = Keys(c) \o new
  <2>1. /\ m_pending_keys'[c] = m_pending_keys[c] \o new /\ handled'[c] = handled[c]
        /\ BeingHandled(c)' = BeingHandled(c)
    BY <1>1, <1>2, KeptIsHandled, Zenon DEF Inv, Types
  <2> DEFINE h == handled[c] \o BeingHandled(c)
             p == m_pending_keys[c]
  <2>2. h \in Seq(Nat) /\ p \in Seq(Nat) /\ new \in Seq(Nat) BY <1>4, KeysType
  <2>3. Keys(c)' = h \o (p \o new) /\ Keys(c) = h \o p BY <2>1 DEF Keys
  <2> HIDE DEF h, p, new
  <2>4. (h \o p) \o new = h \o (p \o new) BY <2>2, RegroupedNats, Zenon
  <2> QED BY <2>3, <2>4
<1>9. read'[c] \div MessageSize = m BY <1>1 DEF Inv, Types
<1>10. Complete(c)' => Complete(c) BY <1>1, <1>6, CancelStays DEF Complete
<1>11. InTurn(Keys(c)', m, Complete(c)')
  <2> HIDE DEF n, m, new
  <2> DEFINE keys == Keys(c)
  <2>1. keys \in Seq(Nat) /\ InOrder(keys, n) /\ (Complete(c) => keys = AllTo(n))
    BY <1>5 DEF InTurn
  <2> HIDE DEF keys
  <2>2. keys \o new \in Seq(Nat) BY <1>4, <2>1, ConcatProperties
  <2>3. InOrder(keys \o new, m) BY <1>4, <2>1, LaterInOrder
  <2>4. AllTo(n) \o new = AllTo(m) BY <1>4, <1>7, LaterIsAll, Zenon
  <2>5. InTurn(keys \o new, m, Complete(c)') BY <1>10, <2>1, <2>2, <2>3, <2>4, Zenon DEF InTurn
  <2> QED BY <1>8, <2>5 DEF keys
<1>12. \A d \in Conn : d # c => /\ handled'[d] = handled[d] /\ read'[d] = read[d]
                                /\ m_pending_keys'[d] = m_pending_keys[d]
                                /\ KeysOf(stack', d) = KeysOf(stack, d)
                                /\ ui'[d] # Gone => ui[d] # Gone
  BY <1>1, <1>2, KeptIsHandled, BeingHandledIs DEF Inv, Types
<1> QED BY <1>1, <1>9, <1>11, <1>12, OneClientKeys

(* ctrl-g: what waits is forgotten. *)
LEMMA UiCancelsKeys ==
    ASSUME Inv, Inv', KeysInv, NEW c \in Conn, UiCancels(c)
    PROVE  KeysInv'
<1> DEFINE first == MessageSize * FirstCancel(c)
           units == first - read[c]
<1>1. /\ read' = [read EXCEPT ![c] = @ + units] /\ handled' = handled /\ script' = script
      /\ ui' = [ui EXCEPT ![c] = 0]
      /\ m_pending_keys' = [m_pending_keys EXCEPT ![c] = <<>>]
      /\ Cancels(c, sent[c] - read[c]) # {}
  BY DEF UiCancels
<1>2. KeysKept(stack, stack') BY UiIsCalm DEF Calm
<1>3. /\ FirstCancel(c) \in Nat /\ read[c] < first /\ FirstCancel(c) \in DOMAIN script[c]
      /\ KeyOf(c, FirstCancel(c)) = "cancel"
  BY <1>1, TheCancel
<1>4. ui[c] # Gone BY RunsUi DEF UiCancels, Inv
<1>5. read[c] \in Nat /\ read[c] >= MessageSize BY <1>4 DEF Inv, Types, UnitsFit
<1>6. HasCancel(c)
  <2>1. FirstCancel(c) >= 2
    <3> DEFINE x == FirstCancel(c)
               y == read[c]
    <3>1. x \in Nat /\ y \in Nat /\ y < 2 * x /\ y >= 2 BY <1>3, <1>5 DEF MessageSize
    <3> HIDE DEF x, y
    <3>2. x >= 2 BY <3>1
    <3> QED BY <3>2 DEF x
  <2>2. DOMAIN script[c] = 1..Len(script[c]) /\ Len(script[c]) \in Nat BY TheScript DEF Inv
  <2>3. FirstCancel(c) \in 2..Len(script[c]) BY <1>3, <2>1, <2>2
  <2> QED BY <1>3, <2>3 DEF HasCancel
<1>7. ~Complete(c)' BY <1>1, <1>6, CancelStays DEF Complete
<1>8. read'[c] = first /\ read[c] <= read'[c] /\ read'[c] \in Nat
  <2>1. read'[c] = read[c] + units BY <1>1 DEF Inv, Types
  <2>2. read'[c] \in Nat BY DEF Inv, Types
  <2>3. first \in Nat BY <1>3 DEF MessageSize
  <2> HIDE DEF first
  <2> QED BY <1>3, <1>5, <2>1, <2>2, <2>3
<1>9. Keys(c)' = handled[c] \o BeingHandled(c)
  <2>1. /\ m_pending_keys'[c] = <<>> /\ handled'[c] = handled[c]
        /\ BeingHandled(c)' = BeingHandled(c)
    BY <1>1, <1>2, KeptIsHandled DEF Inv, Types
  <2> DEFINE h == handled[c] \o BeingHandled(c)
  <2>2. h \in Seq(Nat) BY KeysType
  <2>3. Keys(c)' = h \o <<>> BY <2>1 DEF Keys
  <2> HIDE DEF h
  <2>4. h \o <<>> = h BY <2>2, ConcatEmptySeq
  <2> QED BY <2>3, <2>4 DEF h
<1>10. InTurn(Keys(c)', read'[c] \div MessageSize, Complete(c)')
  <2> DEFINE h == handled[c] \o BeingHandled(c)
             p == m_pending_keys[c]
             n == read[c] \div MessageSize
             m == read'[c] \div MessageSize
  <2>1. h \in Seq(Nat) /\ p \in Seq(Nat) BY KeysType
  <2>2. InOrder(h \o p, n) BY Zenon DEF KeysInv, InTurn, Keys
  <2>3. n \in Nat /\ m \in Nat /\ n <= m
    <3>1. \A k \in Nat : k \div MessageSize \in Nat BY DEF MessageSize
    <3> QED BY <1>8, <3>1, ReadHalves
  <2> HIDE DEF h, p, n, m
  <2>4. InOrder(h, n) BY <2>1, <2>2, <2>3, FirstInOrder
  <2>5. InOrder(h, m) BY <2>3, <2>4, InOrderMore
  <2>6. InTurn(h, m, Complete(c)') BY <1>7, <2>1, <2>5 DEF InTurn
  <2> QED BY <1>9, <2>6 DEF h, m
<1>11. \A d \in Conn : d # c => /\ handled'[d] = handled[d] /\ read'[d] = read[d]
                                /\ m_pending_keys'[d] = m_pending_keys[d]
                                /\ KeysOf(stack', d) = KeysOf(stack, d)
                                /\ ui'[d] # Gone => ui[d] # Gone
  BY <1>1, <1>2, KeptIsHandled, BeingHandledIs DEF Inv, Types
<1> QED BY <1>1, <1>10, <1>11, OneClientKeys

(* Keys are taken from those that wait, and handled one by one.              *)
LEMMA TakesKeys ==
    ASSUME NEW h \in Seq(Nat), NEW keys \in Seq(Nat), keys # <<>>, NEW p \in Seq(Nat)
    PROVE  Append(h, Head(keys)) \o Tail(keys) \o p = h \o keys \o p
<1> DEFINE k == Head(keys)
           t == Tail(keys)
           one == <<k>>
<1>1. k \in Nat /\ t \in Seq(Nat) /\ Len(t) = Len(keys) - 1 /\ Len(keys) \in Nat \ {0}
      /\ k = keys[1] /\ \A i \in 1..Len(t) : t[i] = keys[i + 1]
  BY HeadTailProperties, LenProperties, EmptySeq
<1> HIDE DEF k, t
<1>2. one \in Seq(Nat) /\ Len(one) = 1 /\ one[1] = k BY <1>1, OneOf
<1>3. Append(h, k) = h \o one BY <1>1, AppendIsConcat, Zenon
<1> HIDE DEF one
<1>4. one \o t = keys
  <2> DEFINE u == one \o t
  <2>1. /\ u \in Seq(Nat) /\ Len(u) = Len(one) + Len(t)
        /\ \A i \in 1..Len(one) : u[i] = one[i]
        /\ \A i \in 1..Len(t) : u[Len(one) + i] = t[i]
    BY <1>1, <1>2, JoinedNats, Zenon
  <2> HIDE DEF u
  <2>2. Len(u) = Len(keys) BY <1>1, <1>2, <2>1
  <2>3. \A i \in 1..Len(keys) : u[i] = keys[i]
    <3> SUFFICES ASSUME NEW i \in 1..Len(keys) PROVE u[i] = keys[i] OBVIOUS
    <3>1. CASE i = 1 BY <1>1, <1>2, <2>1, <3>1
    <3>2. CASE i # 1
      <4>1. i - 1 \in 1..Len(t) /\ i = 1 + (i - 1) BY <1>1, <3>2
      <4>2. u[i] = t[i - 1] BY <1>2, <2>1, <4>1, Zenon
      <4>3. t[i - 1] = keys[i] BY <1>1, <4>1
      <4> QED BY <4>2, <4>3
    <3> QED BY <3>1, <3>2
  <2>4. u = keys BY <2>1, <2>2, <2>3, SeqEqual, Zenon
  <2> QED BY <2>4 DEF u
<1>5. (h \o one) \o t = h \o (one \o t) BY <1>1, <1>2, RegroupedNats, Zenon
<1> QED BY <1>3, <1>4, <1>5, Zenon DEF k, t

LEMMA ReplacedIs ==
    ASSUME Inv, NEW f \in Frames
    PROVE  /\ Replaced(f) \in Seq(Frames) /\ Len(Replaced(f)) = Len(stack)
           /\ Replaced(f)[Len(stack)] = f
<1>1. stack \in Seq(Frames) /\ stack # <<>> BY TopIs DEF Inv
<1> DEFINE r == Append(Front(stack), f)
<1>2. /\ r \in Seq(Frames) /\ Len(r) = Len(stack) /\ DOMAIN r = 1..Len(stack) /\ r # <<>>
      /\ \A i \in 1..Len(stack) - 1 : r[i] = stack[i]
      /\ r[Len(stack)] = f /\ Last(r) = f
  BY <1>1, WithLast
<1>3. Replaced(f) = r BY DEF Replaced, Below
<1> HIDE DEF r
<1> QED BY <1>2, <1>3

(* A call on top: that of the keys, the third, stays or is the one on top.   *)
IsOnTop(r, g, t) ==
    /\ DOMAIN t = 1..Len(r) + 1 /\ t[Len(r) + 1] = g
    /\ \A i \in 1..Len(r) : t[i] = r[i]

LEMMA OnTopOf ==
    ASSUME NEW r \in Seq(Frames), NEW g, NEW t, t = r \o <<g>>
    PROVE  IsOnTop(r, g, t)
<1> DEFINE S == Frames \cup {g}
           u == r \o <<g>>
<1>1. r \in Seq(S) /\ g \in S OBVIOUS
<1> HIDE DEF S
<1>2. /\ u \in Seq(S) /\ Len(u) = Len(r) + 1 /\ u # <<>> /\ u = Append(r, g)
      /\ DOMAIN u = 1..Len(r) + 1 /\ DOMAIN r = 1..Len(r)
      /\ \A i \in 1..Len(r) : u[i] = r[i]
      /\ u[Len(r) + 1] = g /\ Last(u) = g
  BY <1>1, Pushed
<1>3. t = u OBVIOUS
<1> HIDE DEF u
<1> QED BY <1>2, <1>3 DEF IsOnTop

LEMMA HandleKeyKeys ==
    ASSUME Inv, Inv', KeysInv, HandleKey
    PROVE  KeysInv'
<1>1. OnTop("keys") /\ Top.keys # <<>> BY DEF HandleKey
<1>0. PICK c \in Conn : c = Top.c BY <1>1, KeysTop
<1> DEFINE key == Head(Top.keys)
           f == [Top EXCEPT !.keys = Tail(Top.keys)]
           run == RunFrame(<<KeyOf(c, key)>>, c)
           r == Replaced(f)
<1>2. Top \in KeysFrames /\ Top.at = "keys" /\ Top.keys \in Seq(Nat)
  BY <1>1, KeysTop
<1>3. /\ stack' = r \o <<run>> /\ handled' = [handled EXCEPT ![c] = Append(@, key)]
      /\ UNCHANGED <<script, ui, read, m_pending_keys>>
  BY <1>0 DEF HandleKey
<1>4. f.at = "keys" /\ f.c = c /\ f.keys = Tail(Top.keys) /\ f \in Frames
  <2>1. f \in KeysFrames /\ f.at = "keys" /\ f.c = c BY <1>0, HandlesKey
  <2>2. f.keys = Tail(Top.keys) BY <1>2 DEF KeysFrames
  <2> QED BY <2>1, <2>2, FramesAre
<1> HIDE DEF f, run
<1>5. /\ stack \in Seq(Frames) /\ CallsFit(stack) /\ Len(stack) = 3 /\ stack[3] = Top
      /\ 3 \in DOMAIN stack /\ stack # <<>>
  <2>1. Len(stack) = 3 /\ stack[3] = Top BY <1>1, NoEvals, Zenon
  <2>2. stack \in Seq(Frames) /\ CallsFit(stack) /\ DOMAIN stack = 1..Len(stack) /\ stack # <<>>
    BY TopIs DEF Inv
  <2> QED BY <2>1, <2>2
<1>6. r \in Seq(Frames) /\ Len(r) = 3 /\ r[3] = f
  <2>1. r \in Seq(Frames) /\ Len(r) = Len(stack) /\ r[Len(stack)] = f BY <1>4, ReplacedIs
  <2> QED BY <1>5, <2>1
<1> HIDE DEF r
<1>7. stack' \in Seq(Frames) /\ CallsFit(stack')
  <2>1. Types' /\ CallsFit(stack)' BY DEF Inv
  <2> QED BY <2>1, Zenon DEF Types, CallsFit, Calls, Depths, Evals
<1>8. 3 \in DOMAIN stack' /\ stack'[3] = f
  <2>1. r \in Seq(Frames) /\ stack' = r \o <<run>> BY <1>3, <1>6
  <2>2. IsOnTop(r, run, stack') BY <2>1, OnTopOf, Zenon
  <2> QED BY <1>6, <2>2 DEF IsOnTop
<1>9. /\ KeysOf(stack, c) = Top.keys /\ KeysOf(stack', c) = Tail(Top.keys)
      /\ \A d : d # c => KeysOf(stack, d) = <<>> /\ KeysOf(stack', d) = <<>>
  <2>1. stack[3].at = "keys" /\ stack[3].c = c /\ stack[3].keys = Top.keys BY <1>0, <1>2, <1>5
  <2>2. stack'[3].at = "keys" /\ stack'[3].c = c /\ stack'[3].keys = Tail(Top.keys)
    BY <1>4, <1>8
  <2>3. KeysOf(stack, c) = Top.keys /\ \A d : d # c => KeysOf(stack, d) = <<>>
    BY <1>5, <2>1, ThirdIsKeys
  <2>4. KeysOf(stack', c) = Tail(Top.keys) /\ \A d : d # c => KeysOf(stack', d) = <<>>
    BY <1>7, <1>8, <2>2, ThirdIsKeys, Zenon
  <2> QED BY <2>3, <2>4
<1>10. Keys(c)' = Keys(c)
  <2>1. handled[c] \in Seq(Nat) /\ m_pending_keys[c] \in Seq(Nat) BY KeysType
  <2>2. handled'[c] = Append(handled[c], key) BY <1>3 DEF Inv, Types
  <2>3. Keys(c)' = Append(handled[c], key) \o Tail(Top.keys) \o m_pending_keys[c]
    <3>1. BeingHandled(c)' = Tail(Top.keys) BY <1>9, BeingHandledIs
    <3> QED BY <1>3, <2>2, <3>1, Zenon DEF Keys
  <2>4. Keys(c) = handled[c] \o Top.keys \o m_pending_keys[c]
    BY <1>9, BeingHandledIs, Zenon DEF Keys
  <2> QED BY <1>1, <1>2, <2>1, <2>3, <2>4, TakesKeys, Zenon
<1>11. InTurn(Keys(c)', read'[c] \div MessageSize, Complete(c)')
  <2>1. Complete(c)' => Complete(c) BY <1>3, CancelStays DEF Complete
  <2>2. InTurn(Keys(c), read[c] \div MessageSize, Complete(c)) BY DEF KeysInv
  <2>3. read'[c] = read[c] BY <1>3
  <2> QED BY <1>10, <2>1, <2>2, <2>3 DEF InTurn
<1>12. \A d \in Conn : d # c => /\ handled'[d] = handled[d] /\ read'[d] = read[d]
                                /\ m_pending_keys'[d] = m_pending_keys[d]
                                /\ KeysOf(stack', d) = KeysOf(stack, d)
                                /\ ui'[d] # Gone => ui[d] # Gone
  BY <1>3, <1>9, Zenon DEF Inv, Types
<1> QED BY <1>3, <1>11, <1>12, OneClientKeys

LEMMA KeysEndKeys ==
    ASSUME Inv, Inv', KeysInv, KeysEnd
    PROVE  KeysInv'
<1>1. /\ OnTop("keys") /\ Top.keys = <<>> /\ stack' = Front(stack) /\ UNCHANGED remoteVars
  BY DEF KeysEnd, Below
<1>2. /\ Types /\ CallsFit(stack) /\ stack \in Seq(Frames) /\ DOMAIN stack = 1..Len(stack)
      /\ Len(stack) = 3 /\ stack[3] = Top /\ Top.at = "keys"
  BY <1>1, NoEvals, TopIs, Zenon DEF Inv, OnTop
<1>3. KeysOf(stack, Top.c) = <<>> /\ \A c : c # Top.c => KeysOf(stack, c) = <<>>
  BY <1>1, <1>2, ThirdIsKeys
<1>4. stack' \in Seq(Frames) /\ CallsFit(stack') /\ Len(stack') = 2
  BY <1>1, <1>2, KeysEndQuiet
<1>5. \A i \in DOMAIN stack' : stack'[i].at # "keys"
  <2>1. 3 \notin DOMAIN stack' BY <1>4, LenProperties
  <2> QED BY <1>4, <2>1, Positions, Zenon
<1>6. \A c : BeingHandled(c)' = BeingHandled(c) BY <1>3, <1>5, NoneOfKeys, BeingHandledIs
<1>7. \A c \in Conn : InTurn(Keys(c), read[c] \div MessageSize, Complete(c)) BY DEF KeysInv
<1>8. ASSUME NEW c \in Conn PROVE InTurn(Keys(c)', read'[c] \div MessageSize, Complete(c)')
  <2>1. Keys(c)' = Keys(c) BY <1>1, <1>6, Zenon DEF Keys, remoteVars
  <2>2. Complete(c)' => Complete(c) BY <1>1, CancelStays DEF Complete, remoteVars
  <2>3. read'[c] = read[c] BY <1>1 DEF remoteVars
  <2> QED BY <1>7, <2>1, <2>2, <2>3 DEF InTurn
<1> QED BY <1>8 DEF KeysInv

LEMMA ProcessClientKeys ==
    ASSUME Inv, Inv', KeysInv, ProcessClient
    PROVE  KeysInv'
<1> DEFINE k == Min(Busy)
<1>1. /\ OnTop("process") /\ Types /\ CallsFit(stack) /\ Processing
  BY DEF Inv, ProcessClient, Processing
<1>2. Top \in ProcessFrames /\ Top.at = "process" /\ k \in Nat \ {0} /\ m_clients[k] \in Conn
  BY <1>1, TheBusy
<1>3. PICK c \in Conn : c = m_clients[k] BY <1>2
<1> DEFINE f == [Top EXCEPT !.i = k + 1, !.had = TRUE, !.some = TRUE]
           g == [at |-> "keys", c |-> c, keys |-> m_pending_keys[c]]
           r == Replaced(f)
<1>4. /\ stack' = r \o <<g>>
      /\ m_pending_keys' = [m_pending_keys EXCEPT ![c] = <<>>]
      /\ UNCHANGED <<script, ui, read, handled>>
  BY <1>3 DEF ProcessClient
<1> HIDE DEF k
<1>5. f \in Frames
  <2> DEFINE yes == TRUE
             j == k + 1
  <2>1. yes \in BOOLEAN /\ j \in Nat \ {0} BY <1>2
  <2>2. f = [Top EXCEPT !.i = j, !.had = yes, !.some = yes] OBVIOUS
  <2> HIDE DEF f, yes, j
  <2>3. f \in ProcessFrames BY <1>2, <2>1, <2>2, Zenon DEF ProcessFrames
  <2> QED BY <2>3, FramesAre
<1> HIDE DEF f
<1>6. /\ stack \in Seq(Frames) /\ stack # <<>> /\ Len(stack) = 2 /\ DOMAIN stack = 1..2
  <2>1. stack \in Seq(Frames) /\ stack # <<>> /\ DOMAIN stack = 1..Len(stack) /\ Len(stack) \in DOMAIN stack
        /\ Top = stack[Len(stack)]
    BY <1>1, TopIs
  <2>2. Len(stack) = 2 BY <1>1, <1>2, <2>1, Positions
  <2> QED BY <2>1, <2>2
<1>7. r \in Seq(Frames) /\ Len(r) = 2
  <2>1. r \in Seq(Frames) /\ Len(r) = Len(stack) BY <1>5, ReplacedIs
  <2> QED BY <1>6, <2>1
<1> HIDE DEF r, g
<1>8. 3 \in DOMAIN stack' /\ stack'[3] = g
  <2>1. r \in Seq(Frames) /\ stack' = r \o <<g>> BY <1>4, <1>7
  <2>2. IsOnTop(r, g, stack') BY <2>1, OnTopOf, Zenon
  <2> QED BY <1>7, <2>2 DEF IsOnTop
<1>9. stack' \in Seq(Frames) /\ CallsFit(stack')
  <2>1. Types' /\ CallsFit(stack)' BY DEF Inv
  <2> QED BY <2>1, Zenon DEF Types, CallsFit, Calls, Depths, Evals
<1>10. g.at = "keys" /\ g.c = c /\ g.keys = m_pending_keys[c] BY DEF g
<1>11. /\ KeysOf(stack', c) = m_pending_keys[c] /\ KeysOf(stack, c) = <<>>
       /\ \A d : d # c => KeysOf(stack', d) = <<>> /\ KeysOf(stack, d) = <<>>
  <2>1. \A i \in DOMAIN stack : stack[i].at # "keys"
    <3> SUFFICES ASSUME NEW i \in DOMAIN stack, stack[i].at = "keys" PROVE FALSE OBVIOUS
    <3>1. i = 3 BY <1>1, <1>6, Positions, Zenon
    <3> QED BY <1>6, <3>1
  <2> QED BY <1>8, <1>9, <1>10, <2>1, ThirdIsKeys, NoneOfKeys
<1>12. Keys(c)' = Keys(c)
  <2>1. handled[c] \in Seq(Nat) /\ m_pending_keys[c] \in Seq(Nat) BY KeysType
  <2>2. m_pending_keys'[c] = <<>> BY <1>4 DEF Inv, Types
  <2> DEFINE h == handled[c]
             p == m_pending_keys[c]
  <2>3. Keys(c)' = h \o p \o <<>> BY <1>4, <1>11, <2>2, BeingHandledIs, Zenon DEF Keys
  <2>4. Keys(c) = h \o <<>> \o p BY <1>11, BeingHandledIs, Zenon DEF Keys
  <2> HIDE DEF h, p
  <2>5. h \in Seq(Nat) /\ p \in Seq(Nat) /\ h \o p \in Seq(Nat)
    <3>1. h \in Seq(Nat) /\ p \in Seq(Nat) BY <2>1 DEF h, p
    <3> QED BY <3>1, ConcatProperties
  <2>6. h \o <<>> = h BY <2>5, ConcatEmptySeq
  <2>7. (h \o p) \o <<>> = h \o p BY <2>5, ConcatEmptySeq
  <2> QED BY <2>3, <2>4, <2>6, <2>7
<1>13. InTurn(Keys(c)', read'[c] \div MessageSize, Complete(c)')
  <2>1. Complete(c)' => Complete(c) BY <1>4, CancelStays DEF Complete
  <2>2. InTurn(Keys(c), read[c] \div MessageSize, Complete(c)) BY DEF KeysInv
  <2>3. read'[c] = read[c] BY <1>4
  <2> QED BY <1>12, <2>1, <2>2, <2>3 DEF InTurn
<1>14. \A d \in Conn : d # c => /\ handled'[d] = handled[d] /\ read'[d] = read[d]
                                /\ m_pending_keys'[d] = m_pending_keys[d]
                                /\ KeysOf(stack', d) = KeysOf(stack, d)
                                /\ ui'[d] # Gone => ui[d] # Gone
  BY <1>4, <1>11, Zenon DEF Inv, Types
<1> QED BY <1>4, <1>13, <1>14, OneClientKeys

LEMMA KeysStep ==
    ASSUME Inv, KeysInv, [Next]_vars
    PROVE  KeysInv'
<1>0. Inv' BY StepInv
<1>1. ASSUME KeysKept(stack, stack'), KeysStay PROVE KeysInv' BY <1>0, <1>1, CalmKeys
<1>2. ASSUME Calm(stack, stack') /\ KeysStay PROVE KeysInv' BY <1>1, <1>2 DEF Calm
<1>3. ASSUME MainStep PROVE KeysInv'
  <2>1. ASSUME ProcessClient PROVE KeysInv' BY <1>0, <2>1, ProcessClientKeys
  <2>2. ASSUME HandleKey PROVE KeysInv' BY <1>0, <2>2, HandleKeyKeys
  <2>3. ASSUME KeysEnd PROVE KeysInv' BY <1>0, <2>3, KeysEndKeys
  <2>4. ASSUME ~KeysEnd, ~HandleKey, ~ProcessClient PROVE KeysInv'
    BY <1>2, <1>3, <2>4, MainIsCalm DEF MainStep
  <2> QED BY <2>1, <2>2, <2>3, <2>4
<1>4. ASSUME RemoteStep PROVE KeysInv'
  <2>1. ASSUME Accept PROVE KeysInv' BY <1>2, <2>1, AcceptIsCalm
  <2>2. ASSUME ConnectDone \/ CommandDone PROVE KeysInv' BY <1>2, <2>2, ConnDoneIsCalm
  <2>3. ASSUME NEW c \in Conn, AccepterReads(c) \/ AccepterLeavesIt(c) PROVE KeysInv'
    BY <1>2, <2>3, ReadsIsCalm
  <2>4. ASSUME NEW c \in Conn, AccepterHandles(c) PROVE KeysInv' BY <1>0, <2>4, HandlesKeys
  <2>5. ASSUME NEW c \in Conn, UiReads(c) PROVE KeysInv' BY <2>5, UiReadsKeys
  <2>6. ASSUME NEW c \in Conn, UiCancels(c) PROVE KeysInv' BY <1>0, <2>6, UiCancelsKeys
  <2> QED BY <1>4, <2>1, <2>2, <2>3, <2>4, <2>5, <2>6 DEF RemoteStep
<1>5. ASSUME ShellStep(Readable), UNCHANGED remoteVars PROVE KeysInv'
  BY <1>2, <1>5, ShellStepIsCalm
<1>6. ASSUME RemoteClient \/ ChildStep \/ UNCHANGED vars PROVE KeysInv'
  BY <1>2, <1>6, OtherStepIsCalm
<1> QED BY <1>3, <1>4, <1>5, <1>6 DEF Next, ServerStep

LEMMA InitKeys ==
    ASSUME Init
    PROVE  KeysInv
<1> SUFFICES ASSUME NEW c \in Conn
             PROVE InTurn(Keys(c), read[c] \div MessageSize, Complete(c))
  BY DEF KeysInv
<1> DEFINE none == <<>>
           n == read[c] \div MessageSize
<1>1. handled[c] = none /\ m_pending_keys[c] = none /\ ui[c] = Gone /\ read[c] = 0
  BY DEF Init
<1>2. BeingHandled(c) = none
  <2> DEFINE f == MainFrame
  <2>1. f.at # "keys" BY DEF MainFrame
  <2>2. stack = <<f>> BY DEF Init
  <2> HIDE DEF f
  <2>3. \A i \in DOMAIN stack : stack[i].at # "keys" BY <2>1, <2>2
  <2> QED BY <2>3, NoneOfKeys, BeingHandledIs, Zenon
<1>3. none \in Seq(Nat) /\ Len(none) = 0 OBVIOUS
<1>4. n = 0 BY <1>1 DEF MessageSize
<1> HIDE DEF none, n
<1>5. none \o none = none /\ none \o none \o none = none BY <1>3, ConcatEmptySeq DEF none
<1>6. Keys(c) = none BY <1>1, <1>2, <1>5 DEF Keys
<1>7. ~Complete(c) BY <1>1 DEF Complete
<1>8. InOrder(none, n) BY <1>3, <1>4 DEF InOrder
<1> QED BY <1>3, <1>6, <1>7, <1>8 DEF InTurn, n

LEMMA KeysInvIsOrder ==
    ASSUME KeysInv
    PROVE  KeysInOrder
<1> SUFFICES ASSUME NEW c \in Conn
             PROVE /\ \A i \in 2..Len(Keys(c)) : Keys(c)[i - 1] < Keys(c)[i]
                   /\ ~HasCancel(c) /\ ui[c] # Gone =>
                          Keys(c) = [i \in 1..(read[c] \div MessageSize) - 1 |-> i + 1]
  BY Zenon DEF KeysInOrder, Keys
<1>1. InTurn(Keys(c), read[c] \div MessageSize, Complete(c)) BY DEF KeysInv
<1> DEFINE k == Keys(c)
<1> HIDE DEF k
<1>2. InTurn(k, read[c] \div MessageSize, Complete(c)) BY <1>1 DEF k
<1>3. \A i \in 2..Len(k) : k[i - 1] < k[i] BY <1>2 DEF InTurn, InOrder
<1>4. Complete(c) => k = AllTo(read[c] \div MessageSize) BY <1>2 DEF InTurn
<1> QED BY <1>3, <1>4 DEF k, Complete, AllTo

(* The keys of a client that were handled, are being handled and wait are in *)
(* the order they were sent in, each once; without ctrl-g none is missing.   *)
THEOREM KeysAreAlwaysInOrder == Spec => []KeysInOrder
<1>1. Init => KeysInv BY InitKeys
<1>2. Inv /\ KeysInv /\ [Next]_vars => KeysInv' BY KeysStep
<1>3. KeysInv => KeysInOrder BY KeysInvIsOrder
<1> QED BY <1>1, <1>2, <1>3, ServerIsSound, PTL DEF Spec
=============================================================================
