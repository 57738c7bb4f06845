---------------------------- MODULE MCServerLoop ----------------------------
(* A client with a few keys and a second connection, of a client or of a     *)
(* command, with shells that print, close early and send commands.           *)
EXTENDS ServerLoop

MCConn == 1..2
Connect(cut, cmds) == [type |-> "Connect", cmds |-> cmds, key |-> "plain", cut |-> cut]
Command(cut, cmds) == [type |-> "Command", cmds |-> cmds, key |-> "plain", cut |-> cut]
Keyed(cut, key) == [type |-> "Key", cmds |-> <<>>, key |-> key, cut |-> cut]

MCConnections ==
    {<< <<Connect(TRUE, <<"shell">>), Keyed(FALSE, "plain")>>,
        <<Command(FALSE, <<"plain">>)>> >>,
     << <<Connect(FALSE, <<>>), Keyed(FALSE, "shell")>>,
        <<Connect(FALSE, <<>>), Keyed(FALSE, "cancel")>> >>,
     << <<Connect(FALSE, <<>>), Keyed(FALSE, "quit"), Keyed(TRUE, "plain")>>,
        <<Command(FALSE, <<"pipe">>)>> >>}

MCScripts == {<<"out", "shut">>, <<"shell", "close", "wait", "fail">>}
MCNested == {<<"out">>}
=============================================================================
