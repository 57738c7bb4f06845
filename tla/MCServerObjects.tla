-------------------------- MODULE MCServerObjects --------------------------
(* One client that does everything and one that interferes.                  *)
EXTENDS ServerObjects

MCNames == {"a", "b"}
MCOpened == <<"a", "b">>
MCPlaces == {1}

Plain == {"select", "save", "undo", "redo", "jump backward", "jump forward",
          "last buffer", "insert", "prompt", "escape"}
Commands(names) == {Edit(n) : n \in names} \cup {Delete(n) : n \in names}
All == Commands(MCNames) \cup {DeleteCurrent, Quit} \cup {[cmd |-> k] : k \in Plain}
Some == {Edit("b"), Delete("a"), Delete("b"), Quit}

CONSTANTS c1, c2
MCKeysOf == (c1 :> All) @@ (c2 :> Some)

None == [h \in {} |-> Quit]
MCHookConfigs ==
    {None,
     "WinCreate" :> Edit("b") @@ "ClientCreate" :> Quit,
     "BufCreate" :> Delete("a") @@ "BufClose" :> Edit("b"),
     "BufClose" :> Delete("b") @@ "WinClose" :> Edit("a"),
     "WinDisplay" :> Delete("b") @@ "ClientClose" :> DeleteCurrent,
     "BufCreate" :> Edit("b") @@ "BufClose" :> Edit("a") @@ "WinClose" :> Edit("b")}
=============================================================================
