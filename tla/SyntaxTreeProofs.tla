-------------------------- MODULE SyntaxTreeProofs --------------------------
(***************************************************************************)
(* The syntax tree of a buffer, for every number of changes: whatever the  *)
(* order of changes, draws and commands, and whatever parse times out, the *)
(* host's tree is in the coordinates that m_edits_timestamp says.          *)
(***************************************************************************)
EXTENDS SyntaxTree, SequenceTheorems, TLAPS

(* The invariant, for one SyntaxTree. *)
Sound(st) ==
    /\ st \in SyntaxTrees
    /\ st.edits_timestamp >= st.timestamp
    /\ st.tree # NoTree =>
         /\ st.tree = st.edits_timestamp
         /\ st.timestamp # Never
         /\ \/ st.byte_index = st.edits_timestamp
            \/ ~ForwardSorted(st.edits_timestamp)

Clock == MaxTime \in Nat /\ now \in 1 .. MaxTime

LEMMA InvIsSound ==
  SyntaxInv <=> SyntaxTypeOK /\ Sound(syntax_tree)
BY DEF SyntaxInv, Sound, SyntaxTypeOK, TreeInItsSpace, EditsAhead,
       ByteIndexIsOfTree, TreeIsDated

LEMMA NextInvIsSound ==
  ASSUME SyntaxTypeOK', Sound(syntax_tree)'
  PROVE  SyntaxInv'
BY DEF SyntaxInv, Sound, SyntaxTypeOK, TreeInItsSpace, EditsAhead,
       ByteIndexIsOfTree, TreeIsDated

LEMMA SpaceFacts ==
  ASSUME Clock
  PROVE  /\ now \in Times /\ Never \in Times /\ NoTree \in Times
         /\ Times \subseteq Spaces /\ Times \subseteq Nat
         /\ Garbled \in Spaces /\ Garbled \notin Times
         /\ Parsed(NoTree) = now
         /\ \A old \in Spaces : Parsed(old) \in Spaces
BY DEF Clock, Times, Spaces, Garbled, Parsed, Never, NoTree

(* There is no tree in an empty SyntaxTree, or when there is none. *)
LEMMA EmptyIsSound ==
  ASSUME Clock
  PROVE  Sound(Deferred) /\ Sound(Absent)
<1>1. /\ <<>> \in Seq(Times) /\ 0 \in Times /\ NoTree \in Spaces
      /\ 0 \in Times \cup {Garbled} /\ Garbled \in Times \cup {Garbled}
  BY SpaceFacts DEF Times, Clock
<1>2. Deferred \in SyntaxTrees
  BY <1>1 DEF Deferred, SyntaxTrees
<1>3. /\ Deferred.tree = NoTree
      /\ Deferred.edits_timestamp = 0 /\ Deferred.timestamp = 0
  BY DEF Deferred
<1>4. /\ Absent \in SyntaxTrees /\ Absent.tree = Deferred.tree
      /\ Absent.edits_timestamp = Deferred.edits_timestamp
      /\ Absent.timestamp = Deferred.timestamp
  BY <1>1, <1>2 DEF Absent, SyntaxTrees
<1> QED
  BY <1>2, <1>3, <1>4 DEF Sound

-----------------------------------------------------------------------------
(* A tree translated by edits is in the coordinates of some text, or of none. *)
LEMMA TranslatedIsSpace ==
  ASSUME Clock, NEW tree \in Spaces, NEW edits \in Seq(Times)
  PROVE  Translated(tree, edits) \in Spaces
<1>1. CASE tree = NoTree \/ edits = <<>>
  BY <1>1 DEF Translated
<1>2. CASE ~(tree = NoTree \/ edits = <<>>)
  <2>1. Len(edits) \in Nat /\ Len(edits) >= 1 /\ edits[Len(edits)] \in Times
    BY <1>2, EmptySeq, LenProperties, ElementOfSeq
  <2>2. CASE \A i \in 1 .. Len(edits) : edits[i] = tree + i
    <3>1. Translated(tree, edits) = edits[Len(edits)]
      BY <1>2, <2>1, <2>2 DEF Translated
    <3> QED
      BY <2>1, <3>1, SpaceFacts
  <2>3. CASE ~ \A i \in 1 .. Len(edits) : edits[i] = tree + i
    BY <1>2, <2>3, SpaceFacts DEF Translated
  <2> QED
    BY <2>2, <2>3
<1> QED
  BY <1>1, <1>2

(* apply_edits leads from the text that the tree is of to the buffer's. *)
LEMMA ApplyEditsIsSound ==
  ASSUME Clock, NEW st, Sound(st), st.tree # NoTree,
         ForwardSorted(st.edits_timestamp)
  PROVE  /\ Sound(ApplyEdits(st))
         /\ ApplyEdits(st).edits_timestamp = now
         /\ ApplyEdits(st).byte_index = now
         /\ ApplyEdits(st).tree = now
         /\ ApplyEdits(st).timestamp = st.timestamp
<1> DEFINE since == st.edits_timestamp
           edits == [i \in 1 .. now - since |-> since + i]
<1>1. /\ since \in Times /\ st.tree = since /\ st.byte_index = since
      /\ since >= st.timestamp /\ st.timestamp # Never
  BY DEF Sound, SyntaxTrees
<1>2. CASE since = now
  BY <1>1, <1>2 DEF ApplyEdits, SinceEdits
<1>3. CASE since # now
  <2>1. now - since \in Nat /\ now - since >= 1 /\ since \in Nat /\ now \in Nat
    BY <1>1, <1>3 DEF Clock, Times
  <2>2. edits \in Seq(Times) /\ Len(edits) = now - since
    BY <2>1 DEF Times
  <2>3. edits # <<>>
    BY <2>1, <2>2, EmptySeq
  <2>4. Translated(st.tree, edits) = now
    BY <1>1, <2>1, <2>2, <2>3 DEF Translated
  <2>5. st.pending_edits \o edits \in Seq(Times)
    BY <2>2, ConcatProperties DEF Sound, SyntaxTrees
  <2>6. ApplyEdits(st) =
          [st EXCEPT !.tree = Translated(@, edits),
                     !.pending_edits = @ \o edits,
                     !.edits_timestamp = now, !.byte_index = now]
    BY <1>1, <1>3 DEF ApplyEdits, SinceEdits, ForwardSorted
  <2> HIDE DEF edits
  <2>7. ApplyEdits(st) =
          [tree |-> now, byte_index |-> now, timestamp |-> st.timestamp,
           edits_timestamp |-> now,
           injection_timestamp |-> st.injection_timestamp,
           layer |-> st.layer, pending_edits |-> st.pending_edits \o edits,
           in_step |-> st.in_step]
    BY <2>4, <2>6 DEF Sound, SyntaxTrees
  <2>8. now >= st.timestamp
    BY SpaceFacts DEF Sound, SyntaxTrees, Times, Clock
  <2> QED
    BY <1>1, <2>5, <2>7, <2>8, SpaceFacts DEF Sound, SyntaxTrees
<1> QED
  BY <1>2, <1>3

(* A full parse starts over; when it times out the tree there stays, whose  *)
(* changes could not be applied to it then and never will.                  *)
LEMMA FullParseIsSound ==
  ASSUME Clock, NEW st, Sound(st), NEW inTime \in BOOLEAN,
         st.tree = NoTree \/ ~ForwardSorted(st.edits_timestamp)
  PROVE  Sound(FullParse(st, inTime))
<1>1. <<>> \in Seq(Times) /\ NoTree \in Spaces /\ now \in Spaces /\ now # Never
  BY SpaceFacts DEF Clock, Never
<1>0. FullParse(st, inTime) =
        [tree |-> IF inTime THEN now ELSE st.tree, byte_index |-> now,
         timestamp |-> IF inTime THEN now ELSE st.timestamp,
         edits_timestamp |-> IF inTime THEN now ELSE st.edits_timestamp,
         injection_timestamp |-> st.injection_timestamp,
         layer |-> NoTree, pending_edits |-> <<>>, in_step |-> st.in_step]
  <2>1. st = [tree |-> st.tree, byte_index |-> st.byte_index,
              timestamp |-> st.timestamp,
              edits_timestamp |-> st.edits_timestamp,
              injection_timestamp |-> st.injection_timestamp,
              layer |-> st.layer, pending_edits |-> st.pending_edits,
              in_step |-> st.in_step]
    BY DEF Sound, SyntaxTrees
  <2>2. CASE inTime
    <3>1. FullParse(st, inTime) =
            [st EXCEPT !.byte_index = now, !.tree = now, !.timestamp = now,
                       !.edits_timestamp = now, !.layer = NoTree,
                       !.pending_edits = <<>>]
      BY <2>2, SpaceFacts DEF FullParse
    <3> QED
      BY <2>1, <2>2, <3>1
  <2>3. CASE ~inTime
    <3>1. FullParse(st, inTime) =
            [st EXCEPT !.byte_index = now, !.tree = @, !.timestamp = @,
                       !.edits_timestamp = @, !.layer = NoTree,
                       !.pending_edits = <<>>]
      BY <2>3 DEF FullParse
    <3> QED
      BY <2>1, <2>3, <3>1
  <2> QED
    BY <2>2, <2>3
<1>2. CASE inTime
  <2>1. FullParse(st, inTime) =
          [tree |-> now, byte_index |-> now, timestamp |-> now,
           edits_timestamp |-> now,
           injection_timestamp |-> st.injection_timestamp,
           layer |-> NoTree, pending_edits |-> <<>>, in_step |-> st.in_step]
    BY <1>0, <1>2
  <2> QED
    BY <1>1, <2>1, SpaceFacts DEF Sound, SyntaxTrees
<1>3. CASE ~inTime
  <2>1. FullParse(st, inTime) =
          [tree |-> st.tree, byte_index |-> now, timestamp |-> st.timestamp,
           edits_timestamp |-> st.edits_timestamp,
           injection_timestamp |-> st.injection_timestamp,
           layer |-> NoTree, pending_edits |-> <<>>, in_step |-> st.in_step]
    BY <1>0, <1>3
  <2> QED
    BY <1>1, <2>1, SpaceFacts DEF Sound, SyntaxTrees
<1> QED
  BY <1>2, <1>3

LEMMA UpdateIsSound ==
  ASSUME Clock, NEW st, Sound(st), NEW inTime \in BOOLEAN
  PROVE  Sound(Update(st, inTime))
<1>1. CASE st.timestamp = now
  BY <1>1 DEF Update
<1>2. CASE /\ st.timestamp # now /\ st.tree # NoTree
           /\ ForwardSorted(st.edits_timestamp)
  <2> DEFINE edited == ApplyEdits(st)
  <2>1. /\ Sound(edited) /\ edited.tree = now /\ edited.edits_timestamp = now
        /\ edited.byte_index = now
    BY <1>2, ApplyEditsIsSound
  <2>2. Update(st, inTime) =
          [edited EXCEPT !.tree = IF inTime THEN Parsed(@) ELSE @,
                         !.timestamp = IF inTime THEN now ELSE @]
    BY <1>2 DEF Update, SinceEdits
  <2> HIDE DEF edited
  <2>3. Parsed(now) = now /\ now # Never
    BY DEF Parsed, Clock, Never
  <2>4. Update(st, inTime) =
          [tree |-> now, byte_index |-> now,
           timestamp |-> IF inTime THEN now ELSE edited.timestamp,
           edits_timestamp |-> now,
           injection_timestamp |-> edited.injection_timestamp,
           layer |-> edited.layer, pending_edits |-> edited.pending_edits,
           in_step |-> edited.in_step]
    BY <2>1, <2>2, <2>3 DEF Sound, SyntaxTrees
  <2>5. CASE inTime
    BY <2>1, <2>3, <2>4, <2>5, SpaceFacts DEF Sound, SyntaxTrees
  <2>6. CASE ~inTime
    BY <2>1, <2>3, <2>4, <2>6, SpaceFacts DEF Sound, SyntaxTrees, NoTree, Never
  <2> QED
    BY <2>5, <2>6
<1>3. CASE /\ st.timestamp # now
           /\ st.tree = NoTree \/ ~ForwardSorted(st.edits_timestamp)
  BY <1>3, FullParseIsSound DEF Update, SinceEdits
<1> QED
  BY <1>1, <1>2, <1>3

(* The tree of the background parser takes the place of the one there.      *)
LEMMA AdoptIsSound ==
  ASSUME Clock, NEW st, Sound(st), NEW ts \in Times, ts # NoTree
  PROVE  /\ Sound(Adopt(st, ts))
         /\ Adopt(st, ts).tree = ts
<1> DEFINE kept == IF KeepLayers(st, ts) THEN ApplyEdits(st)
                   ELSE [st EXCEPT !.layer = NoTree, !.pending_edits = <<>>]
<1>1. kept \in SyntaxTrees
  <2>1. CASE KeepLayers(st, ts)
    BY <2>1, ApplyEditsIsSound DEF KeepLayers, SinceEdits, Sound
  <2>2. CASE ~KeepLayers(st, ts)
    <3>1. <<>> \in Seq(Times) /\ NoTree \in Spaces
      BY SpaceFacts
    <3> QED
      BY <2>2, <3>1 DEF Sound, SyntaxTrees
  <2> QED
    BY <2>1, <2>2
<1>2. Adopt(st, ts) =
        [kept EXCEPT !.tree = ts, !.byte_index = ts, !.timestamp = ts,
                     !.edits_timestamp = ts, !.injection_timestamp = ts - 1]
  BY DEF Adopt, EditsOfAdopted
<1> HIDE DEF kept
<1>3. Adopt(st, ts) =
        [tree |-> ts, byte_index |-> ts, timestamp |-> ts,
         edits_timestamp |-> ts, injection_timestamp |-> ts - 1,
         layer |-> kept.layer, pending_edits |-> kept.pending_edits,
         in_step |-> kept.in_step]
  BY <1>1, <1>2 DEF SyntaxTrees
<1>4. ts - 1 \in Times /\ ts \in Spaces /\ ts >= ts /\ ts # Never
  BY DEF Times, Clock, NoTree, Never, Spaces, Garbled
<1> QED
  BY <1>1, <1>3, <1>4 DEF Sound, SyntaxTrees

(* A pass over the injections concerns the layer only. *)
LEMMA DetectInjectionsIsSound ==
  ASSUME Clock, NEW st, Sound(st), NEW found \in BOOLEAN, NEW reuse \in BOOLEAN,
         NEW inTime \in BOOLEAN
  PROVE  Sound(DetectInjections(st, found, reuse, inTime))
<1> DEFINE old == IF reuse THEN Translated(st.layer, st.pending_edits) ELSE NoTree
           layer == IF ~found THEN NoTree ELSE IF inTime THEN Parsed(old) ELSE old
           noted == IF found /\ ~inTime THEN st.timestamp - 1 ELSE st.timestamp
           step == /\ inTime => st.edits_timestamp = now
                   /\ old # NoTree => st.in_step
<1>1. CASE ~HasInjectionQuery \/ st.tree = NoTree
           \/ st.injection_timestamp = st.timestamp
  BY <1>1 DEF DetectInjections
<1>2. CASE ~(~HasInjectionQuery \/ st.tree = NoTree
             \/ st.injection_timestamp = st.timestamp)
  <2>1. layer \in Spaces
    <3>1. old \in Spaces
      BY TranslatedIsSpace, SpaceFacts DEF Sound, SyntaxTrees
    <3> HIDE DEF old
    <3> QED
      BY <3>1, SpaceFacts
  <2>2. noted \in Times
    BY <1>2 DEF Sound, SyntaxTrees, Times, Clock, Never
  <2>3. DetectInjections(st, found, reuse, inTime) =
          [st EXCEPT !.layer = layer, !.pending_edits = <<>>, !.in_step = step,
                     !.injection_timestamp = noted]
    BY <1>2 DEF DetectInjections, EditsLeft, Noted
  <2>6. step \in BOOLEAN
    OBVIOUS
  <2> HIDE DEF layer, noted, step
  <2>4. DetectInjections(st, found, reuse, inTime) =
          [tree |-> st.tree, byte_index |-> st.byte_index,
           timestamp |-> st.timestamp, edits_timestamp |-> st.edits_timestamp,
           injection_timestamp |-> noted, layer |-> layer,
           pending_edits |-> <<>>, in_step |-> step]
    BY <2>3 DEF Sound, SyntaxTrees
  <2>5. <<>> \in Seq(Times)
    OBVIOUS
  <2> QED
    BY <2>1, <2>2, <2>4, <2>5, <2>6 DEF Sound, SyntaxTrees
<1> QED
  BY <1>1, <1>2

-----------------------------------------------------------------------------
(* The steps. *)

LEMMA ClockTicks ==
  ASSUME HostParseAssumption, SyntaxTypeOK
  PROVE  Clock
BY DEF HostParseAssumption, SyntaxTypeOK, Clock

LEMMA InitSyntaxInv == HostParseAssumption /\ SyntaxInit => SyntaxInv
<1> SUFFICES ASSUME HostParseAssumption, SyntaxInit PROVE SyntaxInv
  OBVIOUS
<1>1. Clock
  BY DEF HostParseAssumption, SyntaxInit, Clock
<1>2. Sound(syntax_tree)
  BY <1>1, EmptyIsSound DEF SyntaxInit
<1>3. SyntaxTypeOK
  <2>1. follows = <<TRUE>> /\ now = 1
    BY DEF SyntaxInit
  <2>2. follows \in Seq(BOOLEAN) /\ Len(follows) = now
    BY <2>1
  <2>3. started \in Times /\ parsed \in Times
    BY <1>1, SpaceFacts DEF SyntaxInit
  <2> QED
    BY <1>1, <1>2, <2>2, <2>3 DEF SyntaxInit, SyntaxTypeOK, Sound, Clock
<1> QED
  BY <1>2, <1>3, InvIsSound

(* What is sound stays so while the clock stands still. *)
LEMMA SameClock ==
  ASSUME UNCHANGED <<now, follows>>, Sound(syntax_tree')
  PROVE  Sound(syntax_tree)'
<1>1. Times' = Times /\ SyntaxTrees' = SyntaxTrees
  BY DEF Times, SyntaxTrees
<1>2. \A t : ForwardSorted(t)' <=> ForwardSorted(t)
  BY DEF ForwardSorted
<1> QED
  BY <1>1, <1>2 DEF Sound

(* A change can be followed by changes in order, or in none. *)
LEMMA BufferChangePreserves ==
  ASSUME HostParseAssumption, SyntaxInv, NEW further \in BOOLEAN,
         BufferChange(further)
  PROVE  SyntaxInv'
<1>1. /\ now < MaxTime /\ now' = now + 1
      /\ follows' = Append(follows, further)
      /\ UNCHANGED <<started, parsed, late_trees, disabled, syntax_tree>>
  BY DEF BufferChange, Change
<1>2. SyntaxTypeOK /\ Sound(syntax_tree) /\ Clock
  BY InvIsSound, ClockTicks DEF SyntaxInv
<1>3. /\ follows \in Seq(BOOLEAN) /\ Len(follows) = now
      /\ now \in Nat /\ now >= 1 /\ MaxTime \in Nat
  BY <1>2 DEF SyntaxTypeOK, Clock
<1>4. /\ follows' \in Seq(BOOLEAN) /\ Len(follows') = now'
      /\ \A i \in 1 .. now : follows'[i] = follows[i]
  BY <1>1, <1>3, AppendProperties
<1>5. Times \subseteq Times'
  BY <1>1, <1>3 DEF Times
<1>6. Seq(Times) \subseteq Seq(Times')
  BY <1>5
<1>7. SyntaxTrees \subseteq SyntaxTrees'
  BY <1>5, <1>6 DEF SyntaxTrees
<1>8. ASSUME NEW t \in Times, ForwardSorted(t)'
      PROVE  ForwardSorted(t)
  BY <1>1, <1>3, <1>4, <1>8 DEF ForwardSorted, Times
<1>9. Sound(syntax_tree)'
  <2>1. syntax_tree.edits_timestamp \in Times
    BY <1>2 DEF Sound, SyntaxTrees
  <2>2. ~ForwardSorted(syntax_tree.edits_timestamp)
        => ~ForwardSorted(syntax_tree.edits_timestamp)'
    BY <1>1, <1>8, <2>1 DEF ForwardSorted
  <2> QED
    BY <1>1, <1>2, <1>7, <2>2 DEF Sound
<1>10. SyntaxTypeOK'
  BY <1>1, <1>2, <1>3, <1>4, <1>5, <1>9 DEF SyntaxTypeOK, Sound
<1> QED
  BY <1>9, <1>10, NextInvIsSound

LEMMA TreeArrivesPreserves ==
  ASSUME HostParseAssumption, SyntaxInv, TreeArrives
  PROVE  SyntaxInv'
<1>1. /\ parsed' \in started .. now
      /\ UNCHANGED <<now, started, late_trees, follows, disabled, syntax_tree>>
  BY DEF TreeArrives, NewTree
<1>2. SyntaxTypeOK /\ Sound(syntax_tree) /\ Clock
  BY InvIsSound, ClockTicks DEF SyntaxInv
<1>3. Sound(syntax_tree)'
  BY <1>1, <1>2, SameClock
<1>4. Times' = Times /\ parsed' \in Times
  BY <1>1, <1>2 DEF Times, SyntaxTypeOK, Clock
<1>5. SyntaxTypeOK'
  BY <1>1, <1>2, <1>3, <1>4 DEF SyntaxTypeOK, Sound
<1> QED
  BY <1>3, <1>5, NextInvIsSound

LEMMA DrawPreserves ==
  ASSUME HostParseAssumption, SyntaxInv, NEW again \in BOOLEAN,
         NEW layerInTime \in BOOLEAN, Draw(again, layerInTime)
  PROVE  SyntaxInv'
<1> DEFINE st == IF again \/ syntax_tree = Absent THEN Deferred ELSE syntax_tree
           synced == IF st.timestamp # parsed' THEN Adopt(st, parsed') ELSE st
<1>1. /\ ~disabled /\ UNCHANGED <<now, late_trees, follows, disabled>>
      /\ started' \in {now, started}
      /\ parsed' \in {now, NoTree, parsed}
  BY DEF Draw, WhenEnabled
<1>2. SyntaxTypeOK /\ Sound(syntax_tree) /\ Clock
  BY InvIsSound, ClockTicks DEF SyntaxInv
<1>3. started' \in Times /\ parsed' \in Times
  BY <1>1, <1>2, SpaceFacts DEF SyntaxTypeOK
<1>4. Sound(st)
  BY <1>2, EmptyIsSound
<1>5. Sound(syntax_tree')
  <2>1. CASE parsed' = NoTree
    <3>1. syntax_tree' = st
      BY <2>1 DEF Draw
    <3> QED
      BY <1>4, <3>1
  <2>2. CASE parsed' # NoTree
    <3>1. PICK found \in BOOLEAN, reuse \in BOOLEAN :
            syntax_tree' = DetectInjections(synced, found, reuse, layerInTime)
      BY <2>2 DEF Draw
    <3> HIDE DEF st
    <3>2. Sound(synced)
      BY <1>2, <1>3, <1>4, <2>2, AdoptIsSound
    <3> HIDE DEF synced
    <3> QED
      BY <1>2, <3>1, <3>2, DetectInjectionsIsSound
  <2> QED
    BY <2>1, <2>2
<1>6. Sound(syntax_tree)'
  BY <1>1, <1>5, SameClock
<1>7. SyntaxTypeOK'
  <2>1. Times' = Times
    BY <1>1 DEF Times
  <2> QED
    BY <1>1, <1>2, <1>3, <1>6, <2>1 DEF SyntaxTypeOK, Sound
<1> QED
  BY <1>6, <1>7, NextInvIsSound

LEMMA CommandPreserves ==
  ASSUME HostParseAssumption, SyntaxInv, NEW detects \in BOOLEAN, Command(detects)
  PROVE  SyntaxInv'
<1>1. /\ syntax_tree # Absent
      /\ UNCHANGED <<now, started, parsed, late_trees, follows, disabled>>
  BY DEF Command
<1>2. SyntaxTypeOK /\ Sound(syntax_tree) /\ Clock
  BY InvIsSound, ClockTicks DEF SyntaxInv
<1>3. PICK inTime \in BOOLEAN, found \in BOOLEAN, reuse \in BOOLEAN,
           layerInTime \in BOOLEAN :
        LET st == Update(syntax_tree, inTime)
        IN  syntax_tree' = IF detects /\ st.tree # NoTree
                           THEN DetectInjections(st, found, reuse, layerInTime)
                           ELSE st
  BY DEF Command
<1>4. Sound(Update(syntax_tree, inTime))
  BY <1>2, UpdateIsSound
<1>5. Sound(syntax_tree')
  BY <1>2, <1>3, <1>4, DetectInjectionsIsSound
<1>6. Sound(syntax_tree)'
  BY <1>1, <1>5, SameClock
<1>7. SyntaxTypeOK'
  <2>1. Times' = Times /\ ~disabled
    BY <1>1, <1>2 DEF Times, SyntaxTypeOK
  <2> QED
    BY <1>1, <1>2, <1>6, <2>1 DEF SyntaxTypeOK, Sound
<1> QED
  BY <1>6, <1>7, NextInvIsSound

LEMMA EnablePreserves ==
  ASSUME HostParseAssumption, SyntaxInv, NEW lazy \in BOOLEAN, Enable(lazy)
  PROVE  SyntaxInv'
<1>1. ~disabled' /\ UNCHANGED <<now, started, parsed, late_trees, follows>>
  BY DEF Enable
<1>2. SyntaxTypeOK /\ Sound(syntax_tree) /\ Clock
  BY InvIsSound, ClockTicks DEF SyntaxInv
<1>3. Sound(syntax_tree')
  <2>1. CASE lazy \/ syntax_tree # Absent
    BY <1>2, <2>1 DEF Enable
  <2>2. CASE ~(lazy \/ syntax_tree # Absent)
    <3>1. PICK inTime \in BOOLEAN : syntax_tree' = FullParse(Deferred, inTime)
      BY <2>2 DEF Enable
    <3>2. Sound(Deferred) /\ Deferred.tree = NoTree
      BY <1>2, EmptyIsSound DEF Deferred
    <3> QED
      BY <1>2, <3>1, <3>2, FullParseIsSound
  <2> QED
    BY <2>1, <2>2
<1>4. Sound(syntax_tree)'
  BY <1>1, <1>3, SameClock
<1>5. SyntaxTypeOK'
  <2>1. Times' = Times /\ disabled' = FALSE
    BY <1>1 DEF Times, Enable
  <2> QED
    BY <1>1, <1>2, <1>4, <2>1 DEF SyntaxTypeOK, Sound
<1> QED
  BY <1>4, <1>5, NextInvIsSound

LEMMA DisablePreserves ==
  ASSUME HostParseAssumption, SyntaxInv, Disable
  PROVE  SyntaxInv'
<1>1. /\ disabled' = TRUE /\ syntax_tree' = Absent
      /\ started' = Never /\ parsed' = NoTree
      /\ UNCHANGED <<now, late_trees, follows>>
  BY DEF Disable, End
<1>2. SyntaxTypeOK /\ Clock
  BY ClockTicks DEF SyntaxInv
<1>3. Sound(syntax_tree)'
  BY <1>1, <1>2, EmptyIsSound, SameClock
<1>4. SyntaxTypeOK'
  <2>1. Times' = Times /\ Absent' = Absent
    BY <1>1 DEF Times, Absent, Deferred
  <2> QED
    BY <1>1, <1>2, <1>3, <2>1, SpaceFacts DEF SyntaxTypeOK, Sound
<1> QED
  BY <1>3, <1>4, NextInvIsSound

LEMMA NextSyntaxInv ==
  HostParseAssumption /\ SyntaxInv /\ [SyntaxNext]_vars => SyntaxInv'
<1> SUFFICES ASSUME HostParseAssumption, SyntaxInv, [SyntaxNext]_vars
             PROVE  SyntaxInv'
  OBVIOUS
<1>1. ASSUME NEW further \in BOOLEAN, BufferChange(further) PROVE SyntaxInv'
  BY <1>1, BufferChangePreserves
<1>2. CASE TreeArrives
  BY <1>2, TreeArrivesPreserves
<1>3. ASSUME NEW again \in BOOLEAN, NEW layerInTime \in BOOLEAN,
             Draw(again, layerInTime)
      PROVE  SyntaxInv'
  BY <1>3, DrawPreserves
<1>4. ASSUME NEW detects \in BOOLEAN, Command(detects) PROVE SyntaxInv'
  BY <1>4, CommandPreserves
<1>5. ASSUME NEW lazy \in BOOLEAN, Enable(lazy) PROVE SyntaxInv'
  BY <1>5, EnablePreserves
<1>6. CASE Disable
  BY <1>6, DisablePreserves
<1>7. CASE UNCHANGED vars
  <2>1. UNCHANGED <<now, started, parsed, late_trees, follows, disabled, syntax_tree>>
    BY <1>7 DEF vars
  <2>2. SyntaxTypeOK /\ Sound(syntax_tree)
    BY InvIsSound
  <2>3. Sound(syntax_tree)'
    BY <2>1, <2>2, SameClock
  <2>4. SyntaxTypeOK'
    <3>1. Times' = Times
      BY <2>1 DEF Times
    <3> QED
      BY <2>1, <2>2, <2>3, <3>1 DEF SyntaxTypeOK, Sound
  <2> QED
    BY <2>3, <2>4, NextInvIsSound
<1> QED
  BY <1>1, <1>2, <1>3, <1>4, <1>5, <1>6, <1>7 DEF SyntaxNext

(* The inductive invariant, of the tree and of the byte index from which    *)
(* the offsets of edits are computed (SyntaxTree).                          *)
THEOREM SyntaxTreeIsSound == SyntaxSpec => []SyntaxInv
<1>1. SyntaxInit => SyntaxInv
  BY InitSyntaxInv, HostParseAssumption
<1>2. SyntaxInv /\ [SyntaxNext]_vars => SyntaxInv'
  BY NextSyntaxInv, HostParseAssumption
<1> QED
  BY <1>1, <1>2, PTL DEF SyntaxSpec

(* m_edits_timestamp tells the coordinate space of m_tree, although edits   *)
(* are applied in place and parses time out after they are (apply_edits,    *)
(* update, full_parse, adopt_tree).                                         *)
THEOREM TreeIsInItsSpace == SyntaxSpec => []TreeInItsSpace
<1>1. SyntaxInv => TreeInItsSpace
  BY DEF SyntaxInv
<1> QED
  BY <1>1, SyntaxTreeIsSound, PTL

(* "Invariant: m_edits_timestamp >= m_timestamp" (syntax_tree.hh). *)
THEOREM EditsAreAhead == SyntaxSpec => []EditsAhead
<1>1. SyntaxInv => EditsAhead
  BY DEF SyntaxInv
<1> QED
  BY <1>1, SyntaxTreeIsSound, PTL

(* Timestamps are the buffer's, and a buffer for which the trees are        *)
(* disabled has none (set_tree_sitter_disabled, sync_async_host_tree).      *)
THEOREM SyntaxTypeCorrect == SyntaxSpec => []SyntaxTypeOK
<1>1. SyntaxInv => SyntaxTypeOK
  BY DEF SyntaxInv
<1> QED
  BY <1>1, SyntaxTreeIsSound, PTL

-----------------------------------------------------------------------------
(* The injection layers. *)

(* LayerFollowsTree, for one SyntaxTree. *)
LayerSound(st) ==
    (st.layer # NoTree /\ st.in_step /\ ForwardSorted(st.edits_timestamp))
    => Translated(st.layer, st.pending_edits) = st.edits_timestamp

LEMMA LayerFollowsIsSound ==
  LayerFollowsTree <=> LayerSound(syntax_tree)
BY DEF LayerFollowsTree, LayerSound

LEMMA NextLayerFollowsIsSound ==
  ASSUME LayerSound(syntax_tree)'
  PROVE  LayerFollowsTree'
BY DEF LayerFollowsTree, LayerSound

(* Edits that were recorded at two times are applied as one list. *)
LEMMA TranslatedTwice ==
  ASSUME Clock, NEW tree \in Spaces, tree # NoTree,
         NEW first \in Seq(Times), NEW then \in Seq(Times),
         NEW since \in Times, Translated(tree, first) = since,
         \A i \in 1 .. Len(then) : then[i] = since + i
  PROVE  Translated(tree, first \o then) = since + Len(then)
<1>1. /\ Len(first) \in Nat /\ Len(then) \in Nat /\ since \in Nat /\ tree \in Nat
      /\ since # Garbled
  BY LenProperties, SpaceFacts DEF Spaces, Garbled, Clock, Times
<1>2. /\ Len(first \o then) = Len(first) + Len(then)
      /\ \A i \in 1 .. Len(first) + Len(then) :
           (first \o then)[i] = IF i <= Len(first) THEN first[i]
                                ELSE then[i - Len(first)]
  BY ConcatProperties
<1>3. since = tree + Len(first) /\ \A i \in 1 .. Len(first) : first[i] = tree + i
  <2>1. CASE first = <<>>
    BY <1>1, <2>1, EmptySeq DEF Translated
  <2>2. CASE first # <<>>
    BY <1>1, <2>2 DEF Translated
  <2> QED
    BY <2>1, <2>2
<1>4. \A i \in 1 .. Len(first) + Len(then) : (first \o then)[i] = tree + i
  <2> SUFFICES ASSUME NEW i \in 1 .. Len(first) + Len(then)
               PROVE  (first \o then)[i] = tree + i
    OBVIOUS
  <2>1. CASE i <= Len(first)
    BY <1>1, <1>2, <1>3, <2>1
  <2>2. CASE i > Len(first)
    <3>1. i - Len(first) \in 1 .. Len(then)
      BY <1>1, <2>2
    <3>2. then[i - Len(first)] = since + (i - Len(first))
      BY <3>1
    <3> QED
      BY <1>1, <1>2, <1>3, <2>2, <3>2
  <2> QED
    BY <1>1, <2>1, <2>2
<1>5. CASE first \o then = <<>>
  <2>1. Len(first) = 0 /\ Len(then) = 0
    BY <1>1, <1>2, <1>5, EmptySeq
  <2> QED
    BY <1>1, <1>3, <1>5, <2>1 DEF Translated
<1>6. CASE first \o then # <<>>
  BY <1>1, <1>2, <1>3, <1>4, <1>6 DEF Translated
<1> QED
  BY <1>5, <1>6

(* Without a layer nothing is translated. *)
LEMMA NoLayerIsSound ==
  ASSUME NEW st, st.layer = NoTree
  PROVE  LayerSound(st)
BY DEF LayerSound

(* apply_edits records for the layers what it applies to the host's tree. *)
LEMMA ApplyEditsMovesLayer ==
  ASSUME Clock, NEW st, Sound(st), LayerSound(st), st.tree # NoTree,
         ForwardSorted(st.edits_timestamp)
  PROVE  LayerSound(ApplyEdits(st))
<1> DEFINE since == st.edits_timestamp
           edits == [i \in 1 .. now - since |-> since + i]
<1>1. /\ since \in Times /\ st.byte_index = since
      /\ st.layer \in Spaces /\ st.pending_edits \in Seq(Times)
  BY DEF Sound, SyntaxTrees
<1>2. CASE since = now
  BY <1>2 DEF ApplyEdits, SinceEdits
<1>3. CASE since # now
  <2>1. now - since \in Nat /\ since \in Nat /\ now \in Nat
    BY <1>1, <1>3 DEF Clock, Times
  <2>2. edits \in Seq(Times) /\ Len(edits) = now - since
    BY <2>1 DEF Times
  <2>3. \A i \in 1 .. Len(edits) : edits[i] = since + i
    BY <2>1, <2>2
  <2>4. ApplyEdits(st) =
          [st EXCEPT !.tree = Translated(@, edits),
                     !.pending_edits = @ \o edits,
                     !.edits_timestamp = now, !.byte_index = now]
    BY <1>1, <1>3 DEF ApplyEdits, SinceEdits, ForwardSorted
  <2> HIDE DEF edits
  <2>5. /\ ApplyEdits(st).layer = st.layer
        /\ ApplyEdits(st).pending_edits = st.pending_edits \o edits
        /\ ApplyEdits(st).edits_timestamp = now
        /\ ApplyEdits(st).in_step = st.in_step
    BY <2>4 DEF Sound, SyntaxTrees
  <2>6. CASE st.layer = NoTree \/ ~st.in_step
    BY <2>5, <2>6 DEF LayerSound
  <2>7. CASE st.layer # NoTree /\ st.in_step
    <3>1. Translated(st.layer, st.pending_edits) = since
      BY <2>7 DEF LayerSound
    <3>2. Translated(st.layer, st.pending_edits \o edits) = since + Len(edits)
      BY <1>1, <2>2, <2>3, <2>7, <3>1, TranslatedTwice
    <3> QED
      BY <2>1, <2>2, <2>5, <3>2 DEF LayerSound
  <2> QED
    BY <2>6, <2>7
<1> QED
  BY <1>2, <1>3

(* A layer is parsed again from its tree of before, or anew; when that is   *)
(* stopped, the tree of before stays.  The one is of the buffer's text, in   *)
(* which the host's tree is too if the layer stays in step with it; the     *)
(* other, translated, is where the host's is.                               *)
LEMMA DetectInjectionsMovesLayer ==
  ASSUME Clock, NEW st, Sound(st), LayerSound(st),
         NEW found \in BOOLEAN, NEW reuse \in BOOLEAN, NEW inTime \in BOOLEAN
  PROVE  LayerSound(DetectInjections(st, found, reuse, inTime))
<1> DEFINE old == IF reuse THEN Translated(st.layer, st.pending_edits) ELSE NoTree
           layer == IF ~found THEN NoTree ELSE IF inTime THEN Parsed(old) ELSE old
           noted == IF found /\ ~inTime THEN st.timestamp - 1 ELSE st.timestamp
           step == /\ inTime => st.edits_timestamp = now
                   /\ old # NoTree => st.in_step
           d == DetectInjections(st, found, reuse, inTime)
<1>1. CASE ~HasInjectionQuery \/ st.tree = NoTree
           \/ st.injection_timestamp = st.timestamp
  BY <1>1 DEF DetectInjections
<1>2. CASE ~(~HasInjectionQuery \/ st.tree = NoTree
             \/ st.injection_timestamp = st.timestamp)
  <2>1. d = [st EXCEPT !.layer = layer, !.pending_edits = <<>>, !.in_step = step,
                       !.injection_timestamp = noted]
    BY <1>2 DEF DetectInjections, EditsLeft, Noted
  <2> HIDE DEF noted, layer, step
  <2>2. /\ d.layer = layer /\ d.pending_edits = <<>> /\ d.in_step = step
        /\ d.edits_timestamp = st.edits_timestamp
    BY <2>1 DEF Sound, SyntaxTrees
  <2> HIDE DEF d
  <2>3. LayerSound(d)
    <3>1. CASE ~ForwardSorted(st.edits_timestamp) \/ ~step \/ layer = NoTree
      BY <2>2, <3>1 DEF LayerSound
    <3>2. CASE ForwardSorted(st.edits_timestamp) /\ step /\ layer # NoTree
      <4>1. old \in {NoTree, st.edits_timestamp}
        BY <3>2 DEF step, LayerSound, Translated
      <4>2. layer = st.edits_timestamp
        BY <3>2, <4>1 DEF layer, step, Parsed
      <4> QED
        BY <2>2, <4>2 DEF LayerSound, Translated
    <3> QED
      BY <3>1, <3>2
  <2> QED
    BY <2>3 DEF d
<1> QED
  BY <1>1, <1>2

(* A command's update: a full parse starts over without layers. *)
LEMMA UpdateMovesLayer ==
  ASSUME Clock, NEW st, Sound(st), LayerSound(st), NEW inTime \in BOOLEAN
  PROVE  LayerSound(Update(st, inTime))
<1> DEFINE updated == Update(st, inTime)
<1>1. CASE st.timestamp = now
  BY <1>1 DEF Update
<1>2. CASE /\ st.timestamp # now /\ st.tree # NoTree
           /\ ForwardSorted(st.edits_timestamp)
  <2> DEFINE edited == ApplyEdits(st)
  <2>1. /\ Sound(edited) /\ edited.edits_timestamp = now /\ LayerSound(edited)
    BY <1>2, ApplyEditsIsSound, ApplyEditsMovesLayer
  <2>2. updated = [edited EXCEPT !.tree = IF inTime THEN Parsed(@) ELSE @,
                                 !.timestamp = IF inTime THEN now ELSE @]
    BY <1>2 DEF Update, SinceEdits
  <2> HIDE DEF edited, updated
  <2>3. /\ updated.layer = edited.layer
        /\ updated.pending_edits = edited.pending_edits
        /\ updated.in_step = edited.in_step
        /\ updated.edits_timestamp = now
    BY <2>1, <2>2 DEF Sound, SyntaxTrees
  <2>4. LayerSound(updated)
    BY <2>1, <2>3 DEF LayerSound
  <2> QED
    BY <2>3, <2>4 DEF updated
<1>3. CASE /\ st.timestamp # now
           /\ st.tree = NoTree \/ ~ForwardSorted(st.edits_timestamp)
  <2>1. updated = FullParse(st, inTime)
    BY <1>3 DEF Update, SinceEdits
  <2>2. FullParse(st, inTime).layer = NoTree
    BY DEF FullParse, Sound, SyntaxTrees
  <2>3. LayerSound(FullParse(st, inTime))
    BY <2>2, NoLayerIsSound
  <2> QED
    BY <1>3, <2>1, <2>2, <2>3
<1> QED
  BY <1>1, <1>2, <1>3

(* A tree of the buffer's text is adopted with the layers translated, or    *)
(* without them; an older one is adopted without them.                      *)
LEMMA AdoptMovesLayer ==
  ASSUME Clock, NEW st, Sound(st), LayerSound(st), NEW ts \in Times
  PROVE  LayerSound(Adopt(st, ts))
<1> DEFINE kept == IF KeepLayers(st, ts) THEN ApplyEdits(st)
                   ELSE [st EXCEPT !.layer = NoTree, !.pending_edits = <<>>]
           adopted == Adopt(st, ts)
<1>1. adopted = [kept EXCEPT !.tree = ts, !.byte_index = ts, !.timestamp = ts,
                             !.edits_timestamp = ts,
                             !.injection_timestamp = ts - 1]
  BY DEF Adopt, EditsOfAdopted
<1>2. /\ kept \in SyntaxTrees
      /\ LayerSound(kept)
      /\ kept.layer = NoTree \/ kept.edits_timestamp = ts
  <2>1. CASE KeepLayers(st, ts)
    <3>1. st.tree # NoTree /\ ForwardSorted(st.edits_timestamp) /\ ts = now
      BY <2>1 DEF KeepLayers, SinceEdits
    <3> QED
      BY <2>1, <3>1, ApplyEditsIsSound, ApplyEditsMovesLayer DEF Sound
  <2>2. CASE ~KeepLayers(st, ts)
    <3>1. <<>> \in Seq(Times) /\ NoTree \in Spaces
      BY SpaceFacts
    <3>2. kept \in SyntaxTrees /\ kept.layer = NoTree
      BY <2>2, <3>1 DEF Sound, SyntaxTrees
    <3> QED
      BY <3>2, NoLayerIsSound
  <2> QED
    BY <2>1, <2>2
<1> HIDE DEF kept, adopted
<1>3. /\ adopted.layer = kept.layer
      /\ adopted.pending_edits = kept.pending_edits
      /\ adopted.in_step = kept.in_step
      /\ adopted.edits_timestamp = ts
  BY <1>1, <1>2 DEF SyntaxTrees
<1>4. LayerSound(adopted)
  BY <1>2, <1>3 DEF LayerSound
<1> QED
  BY <1>4 DEF adopted

(* The layer stays sound while the clock stands still. *)
LEMMA SameClockLayer ==
  ASSUME UNCHANGED <<now, follows>>, LayerSound(syntax_tree')
  PROVE  LayerSound(syntax_tree)'
<1>1. \A t : ForwardSorted(t)' <=> ForwardSorted(t)
  BY DEF ForwardSorted
<1>2. Garbled' = Garbled /\ NoTree' = NoTree
  BY DEF Garbled, NoTree
<1> QED
  BY <1>1, <1>2 DEF LayerSound, Translated

(* Changes that are in order with one more were in order before it. *)
LEMMA BufferChangeKeepsLayer ==
  ASSUME HostParseAssumption, SyntaxInv, LayerSound(syntax_tree),
         NEW further \in BOOLEAN, BufferChange(further)
  PROVE  LayerSound(syntax_tree)'
<1>1. /\ now' = now + 1
      /\ follows' = Append(follows, further)
      /\ UNCHANGED syntax_tree
  BY DEF BufferChange, Change
<1>2. /\ follows \in Seq(BOOLEAN) /\ Len(follows) = now /\ now \in Nat
      /\ syntax_tree.edits_timestamp \in Times
  BY ClockTicks DEF SyntaxInv, SyntaxTypeOK, SyntaxTrees, Clock
<1>3. \A i \in 1 .. now : follows'[i] = follows[i]
  BY <1>1, <1>2, AppendProperties
<1>4. ForwardSorted(syntax_tree.edits_timestamp)'
      => ForwardSorted(syntax_tree.edits_timestamp)
  <2> DEFINE t == syntax_tree.edits_timestamp
  <2>1. t' = t /\ t \in Nat
    BY <1>1, <1>2 DEF Times
  <2>2. (\A i \in t + 2 .. now' : follows'[i]) => \A i \in t + 2 .. now : follows[i]
    BY <1>1, <1>2, <1>3, <2>1
  <2> QED
    BY <2>1, <2>2 DEF ForwardSorted
<1>5. Garbled' = Garbled /\ NoTree' = NoTree
  BY DEF Garbled, NoTree
<1> QED
  BY <1>1, <1>4, <1>5 DEF LayerSound, Translated

LEMMA DrawMovesLayer ==
  ASSUME HostParseAssumption, SyntaxInv, LayerSound(syntax_tree),
         NEW again \in BOOLEAN, NEW layerInTime \in BOOLEAN,
         Draw(again, layerInTime)
  PROVE  LayerSound(syntax_tree)'
<1> DEFINE st == IF again \/ syntax_tree = Absent THEN Deferred ELSE syntax_tree
           synced == IF st.timestamp # parsed' THEN Adopt(st, parsed') ELSE st
<1>1. Sound(syntax_tree) /\ Clock /\ parsed' \in Times
  <2>1. Sound(syntax_tree) /\ Clock /\ parsed \in Times
    BY InvIsSound, ClockTicks DEF SyntaxInv, SyntaxTypeOK
  <2> QED
    BY <2>1, SpaceFacts DEF Draw
<1>2. Sound(st) /\ LayerSound(st)
  BY <1>1, EmptyIsSound, NoLayerIsSound DEF Deferred
<1>3. LayerSound(syntax_tree')
  <2>1. CASE parsed' = NoTree
    <3>1. syntax_tree' = st
      BY <2>1 DEF Draw
    <3> QED
      BY <1>2, <3>1
  <2>2. CASE parsed' # NoTree
    <3>1. PICK found \in BOOLEAN, reuse \in BOOLEAN :
            syntax_tree' = DetectInjections(synced, found, reuse, layerInTime)
      BY <2>2 DEF Draw
    <3> HIDE DEF st
    <3>2. Sound(synced) /\ LayerSound(synced)
      BY <1>1, <1>2, <2>2, AdoptIsSound, AdoptMovesLayer
    <3> HIDE DEF synced
    <3> QED
      BY <1>1, <3>1, <3>2, DetectInjectionsMovesLayer
  <2> QED
    BY <2>1, <2>2
<1> QED
  BY <1>3, SameClockLayer DEF Draw

LEMMA CommandMovesLayer ==
  ASSUME HostParseAssumption, SyntaxInv, LayerSound(syntax_tree),
         NEW detects \in BOOLEAN, Command(detects)
  PROVE  LayerSound(syntax_tree)'
<1>1. Sound(syntax_tree) /\ Clock
  BY InvIsSound, ClockTicks DEF SyntaxInv
<1>2. PICK inTime \in BOOLEAN, found \in BOOLEAN, reuse \in BOOLEAN,
           layerInTime \in BOOLEAN :
        LET st == Update(syntax_tree, inTime)
        IN  syntax_tree' = IF detects /\ st.tree # NoTree
                           THEN DetectInjections(st, found, reuse, layerInTime)
                           ELSE st
  BY DEF Command
<1> DEFINE st == Update(syntax_tree, inTime)
<1>3. Sound(st) /\ LayerSound(st)
  BY <1>1, UpdateIsSound, UpdateMovesLayer
<1> HIDE DEF st
<1>4. LayerSound(syntax_tree')
  <2>1. CASE detects /\ st.tree # NoTree
    <3>1. syntax_tree' = DetectInjections(st, found, reuse, layerInTime)
      BY <1>2, <2>1 DEF st
    <3> QED
      BY <1>1, <1>3, <2>1, <3>1, DetectInjectionsMovesLayer
  <2>2. CASE ~(detects /\ st.tree # NoTree)
    <3>1. syntax_tree' = st
      BY <1>2, <2>2 DEF st
    <3> QED
      BY <1>3, <3>1
  <2> QED
    BY <2>1, <2>2
<1> QED
  BY <1>4, SameClockLayer DEF Command

LEMMA EnableMovesLayer ==
  ASSUME HostParseAssumption, SyntaxInv, LayerSound(syntax_tree),
         NEW lazy \in BOOLEAN, Enable(lazy)
  PROVE  LayerSound(syntax_tree)'
<1>1. LayerSound(syntax_tree')
  <2>1. CASE lazy \/ syntax_tree # Absent
    BY <2>1 DEF Enable
  <2>2. CASE ~(lazy \/ syntax_tree # Absent)
    <3>1. PICK inTime \in BOOLEAN : syntax_tree' = FullParse(Deferred, inTime)
      BY <2>2 DEF Enable
    <3>2. FullParse(Deferred, inTime).layer = NoTree
      BY DEF FullParse, Deferred
    <3> QED
      BY <3>1, <3>2, NoLayerIsSound
  <2> QED
    BY <2>1, <2>2
<1> QED
  BY <1>1, SameClockLayer DEF Enable

LEMMA NextLayerFollows ==
  HostParseAssumption /\ SyntaxInv /\ LayerFollowsTree /\ [SyntaxNext]_vars
  => LayerFollowsTree'
<1> SUFFICES ASSUME HostParseAssumption, SyntaxInv, LayerFollowsTree,
                    [SyntaxNext]_vars
             PROVE  LayerSound(syntax_tree)'
  BY NextLayerFollowsIsSound
<1>2. LayerSound(syntax_tree)
  BY LayerFollowsIsSound
<1>3. ASSUME NEW further \in BOOLEAN, BufferChange(further)
      PROVE  LayerSound(syntax_tree)'
  BY <1>2, <1>3, BufferChangeKeepsLayer
<1>4. CASE TreeArrives
  BY <1>2, <1>4, SameClockLayer DEF TreeArrives, NewTree
<1>5. ASSUME NEW again \in BOOLEAN, NEW layerInTime \in BOOLEAN,
             Draw(again, layerInTime)
      PROVE  LayerSound(syntax_tree)'
  BY <1>2, <1>5, DrawMovesLayer
<1>6. ASSUME NEW detects \in BOOLEAN, Command(detects)
      PROVE  LayerSound(syntax_tree)'
  BY <1>2, <1>6, CommandMovesLayer
<1>7. ASSUME NEW lazy \in BOOLEAN, Enable(lazy)
      PROVE  LayerSound(syntax_tree)'
  BY <1>2, <1>7, EnableMovesLayer
<1>8. CASE Disable
  <2>1. LayerSound(syntax_tree')
    BY <1>8, NoLayerIsSound DEF Disable, Absent, Deferred
  <2> QED
    BY <1>8, <2>1, SameClockLayer DEF Disable, End
<1>9. CASE UNCHANGED vars
  BY <1>2, <1>9, SameClockLayer DEF vars
<1> QED
  BY <1>3, <1>4, <1>5, <1>6, <1>7, <1>8, <1>9 DEF SyntaxNext

(* The layers' trees are where the edits that wait for them start, so that  *)
(* the edits that a change records are of the right text (apply_edits,      *)
(* adopt_tree, detect_injections).                                          *)
THEOREM LayersFollow == SyntaxSpec => []LayerFollowsTree
<1>1. SyntaxInit => LayerFollowsTree
  BY DEF SyntaxInit, LayerFollowsTree, Absent, Deferred
<1>2. SyntaxInv /\ LayerFollowsTree /\ [SyntaxNext]_vars => LayerFollowsTree'
  BY NextLayerFollows, HostParseAssumption
<1> QED
  BY <1>1, <1>2, SyntaxTreeIsSound, PTL DEF SyntaxSpec
=============================================================================
