------------------------- MODULE PatchJournalProofs -------------------------
(***************************************************************************)
(* Every copy a manifest names is on disk for as long as the manifest is   *)
(* (IInv): a call that makes or drops copies runs while its target has no  *)
(* manifest.  And what a patch changed is undone exactly (UndoInv): of a   *)
(* file that only the patch changed, the journal has the one change, with  *)
(* a copy of what the file was before.                                     *)
(***************************************************************************)
EXTENDS PatchJournal, TLAPS

\* What a call in progress may rely on at each of its steps.
CallOK ==
  /\ op.pc # "idle" => op.target \in Targets /\ op.call \in {"patch", "unpatch"}
  /\ op.pc = "edit" => op.next \in Nat \ {0}
  /\ op.pc \in {"copy", "write"} => op.next \in DOMAIN Layout[op.target]
  /\ op.pc \in {"undo", "back", "backDrop"} => op.at <= Len(op.changes)

TypesOK ==
  /\ TypeOK
  /\ backups = [t \in Targets |-> backups[t]]
  /\ CallOK

\* The copies that a list of changes of target t needs exist.
Copied(t, changes) ==
  \A i \in DOMAIN changes :
    changes[i].backup # 0 => changes[i].backup \in DOMAIN backups[t]

\* No manifest is on disk while copies are made or dropped.
NotYetRecorded ==
  op.pc \in {"clean", "mkdir", "edit", "copy", "write", "back", "backDrop"} =>
    manifest[op.target].state # "ok"

EditsCopied ==
  /\ op.pc \in {"mkdir", "edit", "copy", "write"} => Copied(op.target, op.changes)
  /\ op.pc = "write" /\ op.at # 0 => op.at \in DOMAIN backups[op.target]

IInv == TypesOK /\ CopiesOutliveManifest /\ NotYetRecorded /\ EditsCopied

-----------------------------------------------------------------------------
LEMMA ContentTypes ==
  /\ Absent \in Content /\ Original \in Content /\ Empty \in Content /\ Torn \in Content
BY DEF Absent, Original, Empty, Torn, Content

LEMMA IdleTypes == Idle \in Calls /\ Idle.pc = "idle" /\ NoResult.at = "idle"
BY ContentTypes DEF Idle, NoResult, Calls, Steps

LEMMA TypesInit == Init => TypesOK
<1> SUFFICES ASSUME Init PROVE TypesOK
  OBVIOUS
<1>1. file \in [Files -> Content]
  BY ContentTypes DEF Init
<1>3. TypeOK
  BY <1>1, IdleTypes DEF Init, TypeOK, NoManifest, NoBackups, NoResult, Steps
<1>4. CallOK
  BY IdleTypes DEF Init, CallOK
<1>5. backups = [t \in Targets |-> backups[t]]
  BY DEF Init
<1> QED
  BY <1>3, <1>4, <1>5 DEF TypesOK

LEMMA IInvInit == Init => IInv
<1> SUFFICES ASSUME Init PROVE IInv
  OBVIOUS
<1>1. TypesOK
  BY TypesInit
<1>2. CopiesOutliveManifest
  BY DEF Init, CopiesOutliveManifest, NoManifest
<1>3. NotYetRecorded /\ EditsCopied
  BY IdleTypes DEF Init, NotYetRecorded, EditsCopied
<1> QED
  BY <1>1, <1>2, <1>3 DEF IInv

-----------------------------------------------------------------------------
(* Types.  Most actions change op and one other variable.                   *)

LEMMA FileTypes ==
  ASSUME TypesOK, NEW f \in Files, NEW c \in Content,
         file' = [file EXCEPT ![f] = c]
  PROVE  file' \in [Files -> Content]
BY DEF TypesOK, TypeOK

LEMMA UnfinishedTypes ==
  ASSUME NEW c \in Content, NEW d \in Unfinished(c)
  PROVE  d \in Content
BY ContentTypes DEF Unfinished

LEMMA TouchedTypes ==
  ASSUME TypesOK, NEW t, NEW f \in Files, touched' = TouchedBy(t, f)
  PROVE  touched' \in [Targets -> SUBSET Files]
BY DEF TypesOK, TypeOK, TouchedBy

LEMMA ItemTypes ==
  ASSUME TypesOK, Undoing
  PROVE  /\ Item \in Change /\ op.at \in 1..Len(op.changes)
         /\ op.target \in Targets
         /\ Item.kind = "file" => Item.path \in Files /\ Item.backup \in Nat
BY DEF TypesOK, TypeOK, Calls, Undoing, Item, Change, CallOK

LEMMA CurrentTypes ==
  ASSUME TypesOK, op.pc \in {"copy", "write"}
  PROVE  Current \in Files /\ op.target \in Targets
BY JournalAssumption DEF TypesOK, Current, CallOK

LEMMA RestoredTypes ==
  ASSUME TypesOK, Undoing, Item.kind = "file", Restorable(Item)
  PROVE  Restored(Item) \in Content
BY ItemTypes, ContentTypes DEF TypesOK, TypeOK, Restorable, Restored, CopyOf

LEMMA EndTypes ==
  ASSUME TypesOK, NEW ok \in BOOLEAN, End(ok)
  PROVE  /\ op' \in Calls /\ op'.pc = "idle"
         /\ result' \in [call : {"none", "patch", "unpatch"},
                         target : Targets \union {NoTarget},
                         ok : BOOLEAN, failed : BOOLEAN, at : Steps]
BY IdleTypes DEF TypesOK, TypeOK, End, Calls

\* Calls that move on to another step.
LEMMA StepTypes == {"mkdir", "edit", "copy", "write", "undo", "clean", "back", "backDrop"} \subseteq Steps
BY DEF Steps

LEMMA CallMoves ==
  /\ \A o \in Calls, pc \in Steps : [o EXCEPT !.pc = pc] \in Calls
  /\ \A o \in Calls, pc \in Steps, cs \in Seq(Change) :
       [o EXCEPT !.pc = pc, !.changes = cs] \in Calls
  /\ \A o \in Calls, pc \in Steps, n \in Nat : [o EXCEPT !.pc = pc, !.at = n] \in Calls
  /\ \A o \in Calls, pc \in Steps, cs \in Seq(Change), n \in Nat :
       [o EXCEPT !.pc = pc, !.changes = cs, !.at = n] \in Calls
BY DEF Calls

\* What TypesOK says of the variables a call works on.
OpOK == op \in Calls /\ CallOK
HistoryOK ==
  /\ base \in [Targets -> [Files -> Content]]
  /\ touched \in [Targets -> SUBSET Files]
  /\ result \in [call : {"none", "patch", "unpatch"}, target : Targets \union {NoTarget},
                 ok : BOOLEAN, failed : BOOLEAN, at : Steps]

LEMMA ContinueTypes ==
  ASSUME TypesOK, op.pc \in {"load", "clean"}, Continue
  PROVE  OpOK' /\ HistoryOK'
<1>1. CASE op.call = "patch"
  <2>1. op' = [op EXCEPT !.pc = "mkdir", !.changes = <<>>]
    BY <1>1 DEF Continue
  <2>2. op' \in Calls
    <3>1. <<>> \in Seq(Change) /\ "mkdir" \in Steps /\ op \in Calls
      BY StepTypes DEF TypesOK, TypeOK
    <3> QED
      BY <2>1, <3>1, CallMoves
  <2>3. op'.pc = "mkdir" /\ op'.target = op.target /\ op'.call = op.call
    BY <2>1 DEF TypesOK, TypeOK, Calls
  <2>4. OpOK'
    BY <2>2, <2>3 DEF TypesOK, OpOK, CallOK
  <2>5. HistoryOK'
    BY ZenonT(60), <1>1 DEF Continue, Clean, TypesOK, TypeOK, HistoryOK, CallOK
  <2> QED
    BY <2>4, <2>5
<1>2. CASE op.call # "patch"
  <2>1. End(TRUE) /\ UNCHANGED <<base, touched>>
    BY <1>2 DEF Continue
  <2> QED
    BY <2>1, EndTypes DEF OpOK, CallOK, HistoryOK, TypesOK, TypeOK
<1> QED
  BY <1>1, <1>2

LEMMA LoadTypes == TypesOK /\ Load => TypesOK'
<1> SUFFICES ASSUME TypesOK, Load PROVE TypesOK'
  OBVIOUS
<1> DEFINE m == manifest[op.target]
<1>1. CASE m.state = "torn" /\ End(FALSE) /\ UNCHANGED <<base, touched>>
  BY <1>1, EndTypes DEF OpOK, CallOK, HistoryOK, TypesOK, TypeOK, Load
<1>2. CASE m.state = "absent" /\ Continue
  BY <1>2, ContinueTypes DEF OpOK, HistoryOK, TypesOK, TypeOK, Load
<1>3. CASE /\ m.state = "ok"
           /\ op' = [op EXCEPT !.pc = "undo", !.changes = m.changes, !.at = Len(m.changes)]
           /\ UNCHANGED <<base, touched, result>>
  <2>1. op.target \in Targets /\ m.changes \in Seq(Change)
    BY DEF TypesOK, TypeOK, CallOK, Load
  <2>2. op' \in Calls
    <3>1. "undo" \in Steps /\ op \in Calls /\ Len(m.changes) \in Nat
      BY <2>1, StepTypes DEF TypesOK, TypeOK
    <3> QED
      BY <1>3, <2>1, <3>1, CallMoves
  <2>3. /\ op'.pc = "undo" /\ op'.target = op.target /\ op'.call = op.call
        /\ op'.at <= Len(op'.changes)
    BY <1>3, <2>1 DEF TypesOK, TypeOK, Calls
  <2>4. OpOK'
    BY <2>2, <2>3 DEF TypesOK, OpOK, CallOK, Load
  <2> QED
    BY <1>3, <2>4 DEF OpOK, TypesOK, TypeOK, Load
<1> QED
  BY <1>1, <1>2, <1>3 DEF Load

LEMMA NextItemTypes ==
  ASSUME TypesOK, Undoing, op' = Next1 \/ op' = [Next1 EXCEPT !.failed = TRUE]
  PROVE  OpOK'
<1>1. op.at - 1 \in Nat /\ op.at - 1 <= Len(op.changes)
  BY ItemTypes DEF TypesOK, TypeOK, Calls
<1>2. Next1 \in Calls /\ [Next1 EXCEPT !.failed = TRUE] \in Calls
  BY <1>1 DEF TypesOK, TypeOK, Calls, Next1
<1>3. /\ op'.pc = op.pc /\ op'.target = op.target /\ op'.call = op.call
      /\ op'.changes = op.changes /\ op'.at = op.at - 1
  BY DEF TypesOK, TypeOK, Calls, Next1
<1> QED
  BY <1>1, <1>2, <1>3 DEF TypesOK, OpOK, CallOK, Undoing

LEMMA RollbackTypes == TypesOK /\ Rollback => TypesOK'
<1> SUFFICES ASSUME TypesOK, Rollback PROVE TypesOK'
  OBVIOUS
<1>1. CASE UndoDir
  <2>1. OpOK'
    BY <1>1, NextItemTypes DEF UndoDir
  <2> QED
    BY <1>1, <2>1 DEF UndoDir, OpOK, TypesOK, TypeOK
<1>2. CASE UndoFile
  <2>1. OpOK'
    BY <1>2, NextItemTypes DEF UndoFile
  <2>2. Item.path \in Files /\ Restored(Item) \in Content
    BY <1>2, ItemTypes, RestoredTypes DEF UndoFile
  <2>3. file' \in [Files -> Content] /\ touched' \in [Targets -> SUBSET Files]
    BY <1>2, <2>2, FileTypes, TouchedTypes DEF UndoFile
  <2> QED
    BY <1>2, <2>1, <2>3 DEF UndoFile, OpOK, TypesOK, TypeOK
<1>3. CASE UndoFileFails
  <2>1. OpOK'
    BY <1>3, NextItemTypes DEF UndoFileFails
  <2>2. Item.path \in Files /\ file[Item.path] \in Content
    BY <1>3, ItemTypes DEF UndoFileFails, TypesOK, TypeOK
  <2>3. /\ file' \in [Files -> Content] /\ touched' \in [Targets -> SUBSET Files]
        /\ mishaps' \in Nat
    <3>1. CASE UNCHANGED <<file, touched, mishaps>>
      BY <3>1 DEF TypesOK, TypeOK
    <3>2. CASE /\ Mishap
               /\ \E c \in IF Item.backup = 0 THEN {file[Item.path]}
                           ELSE Unfinished(file[Item.path]) :
                    file' = [file EXCEPT ![Item.path] = c]
               /\ touched' = TouchedBy(op.target, Item.path)
      <4>1. PICK c \in Content : file' = [file EXCEPT ![Item.path] = c]
        BY <3>2, <2>2, UnfinishedTypes
      <4> QED
        BY <3>2, <2>2, <4>1, FileTypes, TouchedTypes DEF Mishap, TypesOK, TypeOK
    <3> QED
      BY <1>3, <3>1, <3>2 DEF UndoFileFails
  <2> QED
    BY <1>3, <2>1, <2>3 DEF UndoFileFails, OpOK, TypesOK, TypeOK
<1> QED
  BY <1>1, <1>2, <1>3 DEF Rollback

LEMMA ForgetTypes == TypesOK /\ Forget => TypesOK'
<1> SUFFICES ASSUME TypesOK, Forget PROVE TypesOK'
  OBVIOUS
<1>1. CASE End(FALSE) /\ UNCHANGED manifest
  BY <1>1, EndTypes DEF CallOK, TypesOK, TypeOK, Forget
<1>2. CASE /\ manifest' = [manifest EXCEPT ![op.target] = NoManifest]
           /\ op' = [op EXCEPT !.pc = "clean"]
           /\ UNCHANGED result
  <2>1. op' \in Calls
    <3>1. "clean" \in Steps /\ op \in Calls
      BY StepTypes DEF TypesOK, TypeOK
    <3> QED
      BY <1>2, <3>1, CallMoves
  <2>2. CallOK'
    <3>1. op'.pc = "clean" /\ op'.target = op.target /\ op'.call = op.call
      BY <1>2 DEF TypesOK, TypeOK, Calls
    <3> QED
      BY <3>1 DEF TypesOK, CallOK, Forget
  <2>3. manifest' \in [Targets -> [state : {"absent", "ok", "torn"}, changes : Seq(Change)]]
    <3>1. <<>> \in Seq(Change)
      OBVIOUS
    <3> QED
      BY <1>2, <3>1 DEF NoManifest, TypesOK, TypeOK
  <2> QED
    BY <1>2, <2>1, <2>2, <2>3 DEF Forget, TypesOK, TypeOK
<1> QED
  BY <1>1, <1>2 DEF Forget

\* Dropping all copies of a target, or adding one.
LEMMA CopyTypes ==
  ASSUME TypesOK, NEW t \in Targets, NEW n \in Nat, NEW c \in Content,
         \/ backups' = backups
         \/ backups' = [backups EXCEPT ![t] = NoBackups]
         \/ backups' = [backups EXCEPT ![t] = WithCopy(@, n, c)]
  PROVE  /\ \A u \in Targets : \A k \in DOMAIN backups'[u] :
              k \in Nat /\ backups'[u][k] \in Content
         /\ backups' = [u \in Targets |-> backups'[u]]
<1>1. CASE backups' = backups
  BY <1>1 DEF TypesOK, TypeOK
<1>2. CASE backups' = [backups EXCEPT ![t] = NoBackups]
  BY <1>2 DEF TypesOK, TypeOK, NoBackups
<1>3. CASE backups' = [backups EXCEPT ![t] = WithCopy(@, n, c)]
  <2> DEFINE w == WithCopy(backups[t], n, c)
  <2>1. \A k \in DOMAIN w : k \in Nat /\ w[k] \in Content
    BY DEF TypesOK, TypeOK, WithCopy
  <2> HIDE DEF w
  <2>2. backups = [u \in Targets |-> backups[u]]
    BY DEF TypesOK
  <2>3. backups' = [backups EXCEPT ![t] = w]
    BY <1>3 DEF w
  <2>4. backups' = [u \in Targets |-> IF u = t THEN w ELSE backups[u]]
    BY <2>2, <2>3
  <2>5. backups' = [u \in Targets |-> backups'[u]]
    BY <2>4
  <2>6. \A u \in Targets : backups'[u] = IF u = t THEN w ELSE backups[u]
    BY <2>4
  <2>7. \A u \in Targets : \A k \in DOMAIN backups[u] : k \in Nat /\ backups[u][k] \in Content
    BY DEF TypesOK, TypeOK
  <2>8. \A u \in Targets : \A k \in DOMAIN backups'[u] : k \in Nat /\ backups'[u][k] \in Content
    BY <2>1, <2>6, <2>7
  <2> QED
    BY <2>5, <2>8
<1> QED
  BY <1>1, <1>2, <1>3

LEMMA DropBackupsTypes == TypesOK /\ DropBackups => TypesOK'
<1> SUFFICES ASSUME TypesOK, DropBackups PROVE TypesOK'
  OBVIOUS
<1>1. op.target \in Targets
  BY DEF TypesOK, CallOK, DropBackups
<1>2. OpOK' /\ HistoryOK'
  BY ContinueTypes DEF DropBackups
<1>3. /\ \A u \in Targets : \A k \in DOMAIN backups'[u] :
           k \in Nat /\ backups'[u][k] \in Content
      /\ backups' = [u \in Targets |-> backups'[u]]
  BY <1>1, ContentTypes, CopyTypes DEF DropBackups
<1> QED
  BY <1>2, <1>3 DEF OpOK, HistoryOK, DropBackups, TypesOK, TypeOK

LEMMA RollBackTypes ==
  ASSUME TypesOK, NEW pc \in {"back", "backDrop"}, op' = RollBack(pc), op.pc # "idle"
  PROVE  OpOK'
<1>1. Len(op.changes) \in Nat /\ op \in Calls /\ pc \in Steps
  BY StepTypes DEF TypesOK, TypeOK, Calls
<1>2. op' \in Calls
  BY <1>1, CallMoves DEF RollBack
<1>3. /\ op'.pc = pc /\ op'.at = Len(op.changes) /\ op'.changes = op.changes
      /\ op'.target = op.target /\ op'.call = op.call
  BY <1>1 DEF RollBack, Calls
<1> QED
  BY <1>1, <1>2, <1>3 DEF OpOK, CallOK, TypesOK

LEMMA MkdirAllTypes == TypesOK /\ MkdirAll => TypesOK'
<1> SUFFICES ASSUME TypesOK, MkdirAll PROVE TypesOK'
  OBVIOUS
<1> DEFINE d == HookDir[op.target]
           changes == IF d \in dirs THEN op.changes
                      ELSE Append(op.changes, [kind |-> "dir", path |-> d, backup |-> 0])
<1>1. op.target \in Targets /\ d \in Dirs
  BY JournalAssumption DEF TypesOK, CallOK, MkdirAll
<1>2. CASE /\ dirs' = dirs \union {d}
           /\ op' = [op EXCEPT !.pc = "edit", !.next = 1, !.changes = changes]
           /\ UNCHANGED mishaps
  <2>1. changes \in Seq(Change)
    BY <1>1 DEF TypesOK, TypeOK, Calls, Change
  <2>2. op' \in Calls /\ op'.pc = "edit" /\ op'.next = 1 /\ op'.target = op.target
        /\ op'.call = op.call
    <3> HIDE DEF changes
    <3> QED
      BY <1>2, <2>1, StepTypes DEF TypesOK, TypeOK, Calls
  <2>3. CallOK'
    BY <2>2 DEF TypesOK, CallOK, MkdirAll
  <2>4. dirs' \subseteq Dirs
    BY <1>1, <1>2 DEF TypesOK, TypeOK
  <2> QED
    BY <1>2, <2>2, <2>3, <2>4 DEF TypesOK, TypeOK, MkdirAll
<1>3. CASE Mishap /\ op' = RollBack("back") /\ UNCHANGED dirs
  BY <1>3, RollBackTypes DEF TypesOK, TypeOK, OpOK, Mishap, MkdirAll
<1> QED
  BY <1>2, <1>3 DEF MkdirAll

LEMMA ReadConfigTypes == TypesOK /\ ReadConfig => TypesOK'
<1> SUFFICES ASSUME TypesOK, ReadConfig PROVE TypesOK'
  OBVIOUS
<1>1. op.target \in Targets /\ op.next \in DOMAIN Layout[op.target] /\ Current \in Files
  BY JournalAssumption DEF TypesOK, TypeOK, Calls, CallOK, ReadConfig, MoreFiles, Current
<1>2. CASE op' = RollBack("back")
  BY <1>2, RollBackTypes DEF OpOK, TypesOK, TypeOK, ReadConfig
<1>3. CASE op' = [op EXCEPT !.pc = "copy", !.read = file[Current]]
  <2>1. op' \in Calls
    BY <1>1, <1>3, StepTypes DEF TypesOK, TypeOK, Calls
  <2>2. /\ op'.pc = "copy" /\ op'.target = op.target /\ op'.call = op.call
        /\ op'.next = op.next
    BY <1>3 DEF TypesOK, TypeOK, Calls
  <2>3. CallOK'
    BY <1>1, <2>2 DEF TypesOK, CallOK, ReadConfig
  <2> QED
    BY <2>1, <2>3 DEF TypesOK, TypeOK, ReadConfig
<1> QED
  BY <1>2, <1>3 DEF ReadConfig

LEMMA CopyAsideTypes == TypesOK /\ CopyAside => TypesOK'
<1> SUFFICES ASSUME TypesOK, CopyAside PROVE TypesOK'
  OBVIOUS
<1> DEFINE n == Len(op.changes) + 1
           at == IF file[Current].state = "absent" THEN 0 ELSE n
<1>1. /\ Current \in Files /\ op.target \in Targets /\ n \in Nat
      /\ file[Current] \in Content
  BY CurrentTypes DEF CopyAside, TypesOK, TypeOK, Calls
<1>2. CASE /\ backups' = IF file[Current].state = "absent" THEN backups
                         ELSE [backups EXCEPT ![op.target] = WithCopy(@, n, file[Current])]
           /\ op' = [op EXCEPT !.pc = "write", !.at = at]
           /\ UNCHANGED mishaps
  <2>1. at \in Nat
    BY <1>1
  <2>2. op' \in Calls
    <3>1. "write" \in Steps /\ op \in Calls
      BY StepTypes DEF TypesOK, TypeOK
    <3> HIDE DEF at
    <3> QED
      BY <1>2, <2>1, <3>1, CallMoves
  <2>3. /\ op'.pc = "write" /\ op'.target = op.target /\ op'.call = op.call
        /\ op'.next = op.next
    BY <1>2 DEF TypesOK, TypeOK, Calls
  <2>4. CallOK'
    BY <2>3 DEF TypesOK, CallOK, CopyAside
  <2>5. /\ \A u \in Targets : \A k \in DOMAIN backups'[u] :
             k \in Nat /\ backups'[u][k] \in Content
        /\ backups' = [u \in Targets |-> backups'[u]]
    BY <1>1, <1>2, CopyTypes
  <2> QED
    BY <1>2, <2>2, <2>4, <2>5 DEF TypesOK, TypeOK, CopyAside
<1>3. CASE Mishap /\ op' = RollBack("back") /\ UNCHANGED backups
  BY <1>3, RollBackTypes DEF OpOK, Mishap, TypesOK, TypeOK, CopyAside
<1> QED
  BY <1>2, <1>3 DEF CopyAside

LEMMA WriteFileTypes == TypesOK /\ WriteFile => TypesOK'
<1> SUFFICES ASSUME TypesOK, WriteFile PROVE TypesOK'
  OBVIOUS
<1> DEFINE item == [kind |-> "file", path |-> Current, backup |-> op.at]
           changes == Append(op.changes, item)
<1>1. Current \in Files /\ op.target \in Targets
  BY CurrentTypes DEF WriteFile
<1>2. Patched(Current) \in Content
  BY DEF Patched, Content, TypesOK, TypeOK, Calls
<1>3. file' \in [Files -> Content] /\ touched' \in [Targets -> SUBSET Files]
  BY <1>1, <1>2, FileTypes, TouchedTypes DEF WriteFile
<1>4. op' = [op EXCEPT !.pc = "edit", !.at = 0, !.next = op.next + 1, !.changes = changes]
  BY DEF WriteFile
<1>5. changes \in Seq(Change) /\ op.next + 1 \in Nat \ {0}
  BY <1>1 DEF TypesOK, TypeOK, Calls, Change
<1>6. /\ op' \in Calls /\ op'.pc = "edit" /\ op'.target = op.target
      /\ op'.call = op.call /\ op'.next = op.next + 1
  <2> HIDE DEF changes
  <2> QED
    BY <1>4, <1>5, StepTypes DEF TypesOK, TypeOK, Calls
<1>7. CallOK'
  BY <1>5, <1>6 DEF TypesOK, CallOK, WriteFile
<1> QED
  BY <1>3, <1>6, <1>7 DEF TypesOK, TypeOK, WriteFile

LEMMA WriteFileFailsTypes == TypesOK /\ WriteFileFails => TypesOK'
<1> SUFFICES ASSUME TypesOK, WriteFileFails PROVE TypesOK'
  OBVIOUS
<1>1. Current \in Files /\ file[Current] \in Content
  BY CurrentTypes DEF WriteFileFails, TypesOK, TypeOK
<1>2. OpOK'
  BY RollBackTypes DEF WriteFileFails
<1>3. /\ file' \in [Files -> Content] /\ touched' \in [Targets -> SUBSET Files]
      /\ mishaps' \in Nat
  <2>1. CASE UNCHANGED <<file, touched, mishaps>>
    BY <2>1 DEF TypesOK, TypeOK
  <2>2. CASE /\ Mishap
             /\ \E c \in Unfinished(file[Current]) : file' = [file EXCEPT ![Current] = c]
             /\ touched' = TouchedBy(NoTarget, Current)
    <3>1. PICK c \in Content : file' = [file EXCEPT ![Current] = c]
      BY <1>1, <2>2, UnfinishedTypes
    <3> QED
      BY <1>1, <2>2, <3>1, FileTypes, TouchedTypes DEF Mishap, TypesOK, TypeOK
  <2> QED
    BY <2>1, <2>2 DEF WriteFileFails
<1> QED
  BY <1>2, <1>3 DEF OpOK, WriteFileFails, TypesOK, TypeOK

\* A manifest that is saved, torn or removed.
LEMMA ManifestTypes ==
  ASSUME TypesOK, NEW t \in Targets, NEW cs \in Seq(Change),
         \/ manifest' = manifest
         \/ manifest' = [manifest EXCEPT ![t] = NoManifest]
         \/ manifest' = [manifest EXCEPT ![t] = TornManifest]
         \/ manifest' = [manifest EXCEPT ![t] = [state |-> "ok", changes |-> cs]]
  PROVE  manifest' \in [Targets -> [state : {"absent", "ok", "torn"}, changes : Seq(Change)]]
<1> DEFINE M == [state : {"absent", "ok", "torn"}, changes : Seq(Change)]
<1>1. <<>> \in Seq(Change)
  OBVIOUS
<1>2. /\ NoManifest \in M /\ TornManifest \in M
      /\ [state |-> "ok", changes |-> cs] \in M
  BY <1>1 DEF NoManifest, TornManifest
<1>3. manifest \in [Targets -> M]
  BY DEF TypesOK, TypeOK
<1> HIDE DEF M
<1>4. manifest' \in [Targets -> M]
  BY <1>2, <1>3
<1> QED
  BY <1>4 DEF M

LEMMA SaveManifestTypes == TypesOK /\ SaveManifest => TypesOK'
<1> SUFFICES ASSUME TypesOK, SaveManifest PROVE TypesOK'
  OBVIOUS
<1>1. op.target \in Targets /\ op.changes \in Seq(Change)
  BY DEF TypesOK, TypeOK, Calls, CallOK, SaveManifest
<1>2. CASE /\ manifest' = [manifest EXCEPT ![op.target] =
                             [state |-> "ok", changes |-> op.changes]]
           /\ End(TRUE)
           /\ UNCHANGED mishaps
  BY <1>1, <1>2, ManifestTypes, EndTypes DEF CallOK, SaveManifest, TypesOK, TypeOK
<1>3. CASE /\ Mishap
           /\ manifest' \in {manifest, [manifest EXCEPT ![op.target] =
                                          TornManifest]}
           /\ op' = RollBack("backDrop")
           /\ UNCHANGED result
  <2>1. OpOK'
    BY <1>3, RollBackTypes DEF SaveManifest
  <2>2. manifest' \in [Targets -> [state : {"absent", "ok", "torn"}, changes : Seq(Change)]]
    BY <1>1, <1>3, ManifestTypes
  <2> QED
    BY <1>3, <2>1, <2>2 DEF OpOK, Mishap, SaveManifest, TypesOK, TypeOK
<1> QED
  BY <1>2, <1>3 DEF SaveManifest

LEMMA RolledBackTypes == TypesOK /\ RolledBack => TypesOK'
<1> SUFFICES ASSUME TypesOK, RolledBack PROVE TypesOK'
  OBVIOUS
<1>1. op.target \in Targets /\ <<>> \in Seq(Change)
  BY DEF TypesOK, CallOK, RolledBack
<1>2. manifest' \in [Targets -> [state : {"absent", "ok", "torn"}, changes : Seq(Change)]]
  BY <1>1, ManifestTypes DEF RolledBack
<1>3. /\ \A u \in Targets : \A k \in DOMAIN backups'[u] :
           k \in Nat /\ backups'[u][k] \in Content
      /\ backups' = [u \in Targets |-> backups'[u]]
  BY <1>1, ContentTypes, CopyTypes DEF RolledBack
<1> QED
  BY <1>2, <1>3, EndTypes DEF CallOK, RolledBack, TypesOK, TypeOK

LEMMA BeginTypes ==
  ASSUME TypesOK, NEW t \in Targets, NEW call \in {"patch", "unpatch"}, Begin(t, call)
  PROVE  TypesOK'
<1>1. op' \in Calls /\ op'.pc = "load" /\ op'.target = t /\ op'.call = call
  BY IdleTypes DEF Begin, Calls, Steps
<1> QED
  BY <1>1 DEF CallOK, Begin, TypesOK, TypeOK

LEMMA UserEditTypes == ASSUME TypesOK, NEW f \in Files, UserEdit(f) PROVE TypesOK'
<1>1. mishaps' \in Nat
  BY DEF UserEdit, Mishap, TypesOK, TypeOK
<1>2. PICK c \in Content : file' = [file EXCEPT ![f] = c]
  <2>1. CASE file' = [file EXCEPT ![f] = Absent]
    BY <2>1, ContentTypes
  <2>2. CASE \E ours \in {FALSE, file[f].ours} :
               file' = [file EXCEPT ![f] =
                          [state |-> "text", user |-> mishaps' + 1, ours |-> ours]]
    <3> DEFINE version == mishaps' + 1
    <3>1. version \in Nat
      <4>1. \A n \in Nat : n + 1 \in Nat
        OBVIOUS
      <4> QED
        BY <1>1, <4>1, Zenon
    <3>2. PICK ours \in {FALSE, file[f].ours} :
            file' = [file EXCEPT ![f] = [state |-> "text", user |-> version, ours |-> ours]]
      BY <2>2, Zenon
    <3> HIDE DEF version
    <3>3. file[f] \in Content
      BY DEF TypesOK, TypeOK
    <3>4. ours \in BOOLEAN
      BY <3>3 DEF Content
    <3>5. [state |-> "text", user |-> version, ours |-> ours] \in Content
      BY <3>1, <3>4, Zenon DEF Content
    <3> QED
      BY <3>2, <3>5
  <2> QED
    BY <2>1, <2>2 DEF UserEdit
<1>3. file' \in [Files -> Content] /\ touched' \in [Targets -> SUBSET Files]
  BY <1>2, FileTypes, TouchedTypes DEF UserEdit
<1> QED
  BY <1>1, <1>3 DEF CallOK, UserEdit, TypesOK, TypeOK

LEMMA WritingTypes == TypesOK /\ op # Idle => Writing \subseteq Files
BY CurrentTypes, ItemTypes DEF Writing

LEMMA CrashTypes == TypesOK /\ Crash => TypesOK'
<1> SUFFICES ASSUME TypesOK, Crash PROVE TypesOK'
  OBVIOUS
<1>1. /\ file' \in [Files -> Content] /\ touched' \in [Targets -> SUBSET Files]
  <2>1. CASE file' = file /\ touched' = touched
    BY <2>1 DEF TypesOK, TypeOK
  <2>2. CASE \E f \in Writing : \E c \in {Empty, Torn} :
               /\ Writable(f)
               /\ file' = [file EXCEPT ![f] = c]
               /\ touched' = TouchedBy(op.target, f)
    <3>1. PICK f \in Files, c \in Content :
            file' = [file EXCEPT ![f] = c] /\ touched' = TouchedBy(op.target, f)
      BY <2>2, WritingTypes, ContentTypes DEF Crash
    <3> QED
      BY <3>1, FileTypes, TouchedTypes
  <2> QED
    BY <2>1, <2>2 DEF Crash
<1>2. manifest' \in [Targets -> [state : {"absent", "ok", "torn"}, changes : Seq(Change)]]
  <2>1. CASE manifest' = manifest
    BY <2>1 DEF TypesOK, TypeOK
  <2>2. CASE /\ op.pc = "edit"
             /\ manifest' = [manifest EXCEPT ![op.target] = TornManifest]
    <3>1. op.target \in Targets /\ <<>> \in Seq(Change)
      BY <2>2 DEF TypesOK, CallOK
    <3> QED
      BY <2>2, <3>1, ManifestTypes
  <2> QED
    BY <2>1, <2>2 DEF Crash
<1>3. result' \in [call : {"none", "patch", "unpatch"}, target : Targets \union {NoTarget},
                   ok : BOOLEAN, failed : BOOLEAN, at : Steps]
  BY DEF Crash, NoResult, Steps
<1> QED
  BY <1>1, <1>2, <1>3, IdleTypes DEF CallOK, Crash, Mishap, TypesOK, TypeOK

LEMMA TypesStep == TypesOK /\ [Next]_vars => TypesOK'
<1> SUFFICES ASSUME TypesOK, [Next]_vars PROVE TypesOK'
  OBVIOUS
<1>1. CASE UNCHANGED vars
  BY <1>1 DEF vars, CallOK, TypesOK, TypeOK
<1>2. CASE Next
  BY <1>2, BeginTypes, LoadTypes, RollbackTypes, ForgetTypes, DropBackupsTypes,
     MkdirAllTypes, ReadConfigTypes, CopyAsideTypes, WriteFileTypes, WriteFileFailsTypes,
     SaveManifestTypes, RolledBackTypes, UserEditTypes, CrashTypes
     DEF Next, Revert, Apply
<1> QED
  BY <1>1, <1>2

-----------------------------------------------------------------------------
(* The copies                                                               *)

CopiesInv == CopiesOutliveManifest /\ NotYetRecorded /\ EditsCopied

\* Steps that leave manifests and copies alone, and enter no step of a patch
\* whose copies matter.
LEMMA QuietStep ==
  ASSUME CopiesInv, UNCHANGED <<manifest, backups>>,
         \/ op'.pc \in {"idle", "load", "undo"}
         \/ /\ op'.pc \in {"back", "backDrop"} /\ op'.target = op.target
            /\ op.pc \in {"mkdir", "edit", "copy", "write", "back", "backDrop"}
         \/ /\ op'.pc \in {"edit", "copy"} /\ op'.target = op.target
            /\ op'.changes = op.changes /\ op.pc \in {"mkdir", "edit"}
  PROVE  CopiesInv'
BY DEF CopiesInv, CopiesOutliveManifest, NotYetRecorded, EditsCopied, Copied

LEMMA EndFields == ASSUME NEW ok, End(ok) PROVE op'.pc = "idle"
BY IdleTypes DEF End

LEMMA RollBackFields ==
  ASSUME TypesOK, NEW pc \in {"back", "backDrop"}, op' = RollBack(pc)
  PROVE  op'.pc = pc /\ op'.target = op.target
BY DEF RollBack, TypesOK, TypeOK, Calls

\* A target whose manifest goes away, while its copies stay or go.
LEMMA Forgotten ==
  ASSUME CopiesInv, TypesOK, op.target \in Targets,
         manifest'[op.target].state # "ok",
         \A t \in Targets \ {op.target} :
           manifest'[t] = manifest[t] /\ backups'[t] = backups[t]
  PROVE  CopiesOutliveManifest'
BY DEF CopiesInv, CopiesOutliveManifest

LEMMA ContinueCopies ==
  ASSUME TypesOK, Continue, op.pc \in {"load", "clean"}, CopiesOutliveManifest',
         manifest'[op.target].state # "ok"
  PROVE  CopiesInv'
<1>1. CASE op.call = "patch"
  <2>1. op'.pc = "mkdir" /\ op'.target = op.target /\ op'.changes = <<>>
    BY <1>1 DEF Continue, TypesOK, TypeOK, Calls
  <2> QED
    BY <2>1 DEF CopiesInv, NotYetRecorded, EditsCopied, Copied
<1>2. CASE op.call # "patch"
  <2>1. op'.pc = "idle"
    BY <1>2, EndFields DEF Continue
  <2> QED
    BY <2>1 DEF CopiesInv, NotYetRecorded, EditsCopied
<1> QED
  BY <1>1, <1>2

LEMMA RevertCopies == TypesOK /\ CopiesInv /\ Revert => CopiesInv'
<1> SUFFICES ASSUME TypesOK, CopiesInv, Revert PROVE CopiesInv'
  OBVIOUS
<1>1. CASE Load
  <2>1. UNCHANGED <<manifest, backups>>
    BY <1>1 DEF Load
  <2>2. CASE manifest[op.target].state = "absent" /\ Continue
    <3>1. CopiesOutliveManifest'
      BY <2>1 DEF CopiesInv, CopiesOutliveManifest
    <3> QED
      BY <1>1, <2>1, <2>2, <3>1, ContinueCopies DEF Load
  <2>3. CASE End(FALSE)
    BY <2>1, <2>3, EndFields, QuietStep
  <2>4. CASE op' = [op EXCEPT !.pc = "undo", !.changes = manifest[op.target].changes,
                              !.at = Len(manifest[op.target].changes)]
    <3>1. op'.pc = "undo"
      BY <2>4 DEF TypesOK, TypeOK, Calls
    <3> QED
      BY <2>1, <3>1, QuietStep
  <2> QED
    BY <1>1, <2>2, <2>3, <2>4 DEF Load
<1>2. CASE Rollback
  <2>1. UNCHANGED <<manifest, backups>> /\ op.pc \in {"undo", "back", "backDrop"}
    BY <1>2 DEF Rollback, UndoDir, UndoFile, UndoFileFails, Undoing
  <2>2. op'.pc = op.pc /\ op'.target = op.target
    BY <1>2 DEF Rollback, UndoDir, UndoFile, UndoFileFails, Next1, TypesOK, TypeOK, Calls
  <2> QED
    BY <2>1, <2>2, QuietStep
<1>3. CASE Forget
  <2>1. CASE End(FALSE) /\ UNCHANGED manifest
    BY <1>3, <2>1, EndFields, QuietStep DEF Forget
  <2>2. CASE /\ manifest' = [manifest EXCEPT ![op.target] = NoManifest]
             /\ op' = [op EXCEPT !.pc = "clean"]
    <3>1. op.target \in Targets /\ op'.pc = "clean" /\ op'.target = op.target
      BY <1>3, <2>2 DEF Forget, TypesOK, CallOK, TypeOK, Calls
    <3>2. /\ manifest'[op.target].state # "ok"
          /\ \A t \in Targets \ {op.target} :
               manifest'[t] = manifest[t] /\ backups'[t] = backups[t]
      BY <1>3, <2>2, <3>1 DEF Forget, NoManifest, TypesOK, TypeOK
    <3>3. CopiesOutliveManifest'
      BY <3>1, <3>2, Forgotten
    <3> QED
      BY <3>1, <3>2, <3>3 DEF CopiesInv, NotYetRecorded, EditsCopied
  <2> QED
    BY <1>3, <2>1, <2>2 DEF Forget
<1>4. CASE DropBackups
  <2>1. op.target \in Targets /\ op.pc = "clean" /\ manifest[op.target].state # "ok"
    BY <1>4 DEF DropBackups, TypesOK, CallOK, CopiesInv, NotYetRecorded
  <2>2. /\ manifest'[op.target].state # "ok"
        /\ \A t \in Targets \ {op.target} :
             manifest'[t] = manifest[t] /\ backups'[t] = backups[t]
    BY <1>4, <2>1 DEF DropBackups, TypesOK, TypeOK
  <2>3. CopiesOutliveManifest'
    BY <2>1, <2>2, Forgotten
  <2> QED
    BY <1>4, <2>1, <2>2, <2>3, ContinueCopies DEF DropBackups
<1> QED
  BY <1>1, <1>2, <1>3, <1>4 DEF Revert

LEMMA ApplyCopies == TypesOK /\ CopiesInv /\ Apply => CopiesInv'
<1> SUFFICES ASSUME TypesOK, CopiesInv, Apply PROVE CopiesInv'
  OBVIOUS
\* A step that gives up: the rollback begins, with nothing recorded.
<1>0. ASSUME UNCHANGED <<manifest, backups>>, op' = RollBack("back"),
             op.pc \in {"mkdir", "edit", "copy", "write"}
      PROVE  CopiesInv'
  BY <1>0, RollBackFields, QuietStep
<1>1. CASE MkdirAll
  <2> DEFINE d == HookDir[op.target]
             changes == IF d \in dirs THEN op.changes
                        ELSE Append(op.changes, [kind |-> "dir", path |-> d, backup |-> 0])
  <2>1. CASE op' = [op EXCEPT !.pc = "edit", !.next = 1, !.changes = changes]
    <3>1. op'.pc = "edit" /\ op'.target = op.target /\ op'.changes = changes
      BY <2>1 DEF TypesOK, TypeOK, Calls
    <3>2. Copied(op.target, op.changes) /\ op.changes \in Seq(Change)
      BY <1>1 DEF MkdirAll, CopiesInv, EditsCopied, TypesOK, TypeOK, Calls
    <3>3. Copied(op.target, changes)
      BY <3>2 DEF Copied
    <3> QED
      BY <1>1, <3>1, <3>3 DEF MkdirAll, CopiesInv, CopiesOutliveManifest, NotYetRecorded,
         EditsCopied, Copied
  <2> QED
    BY <1>0, <1>1, <2>1 DEF MkdirAll
<1>2. CASE ReadConfig
  <2>1. CASE op' = [op EXCEPT !.pc = "copy", !.read = file[Current]]
    <3>1. op'.pc = "copy" /\ op'.target = op.target /\ op'.changes = op.changes
      BY <2>1 DEF TypesOK, TypeOK, Calls
    <3> QED
      BY <1>2, <3>1, QuietStep DEF ReadConfig
  <2> QED
    BY <1>0, <1>2, <2>1 DEF ReadConfig
<1>3. CASE CopyAside
  <2> DEFINE n == Len(op.changes) + 1
             at == IF file[Current].state = "absent" THEN 0 ELSE n
             new == IF file[Current].state = "absent" THEN backups
                    ELSE [backups EXCEPT ![op.target] = WithCopy(@, n, file[Current])]
  <2>1. CASE backups' = new /\ op' = [op EXCEPT !.pc = "write", !.at = at]
    <3>1. /\ op'.pc = "write" /\ op'.target = op.target /\ op'.changes = op.changes
          /\ op'.at = at
      BY <2>1 DEF TypesOK, TypeOK, Calls
    <3>2. op.target \in Targets
      BY <1>3, CurrentTypes DEF CopyAside
    <3>3. /\ \A t \in Targets : DOMAIN backups[t] \subseteq DOMAIN backups'[t]
          /\ at # 0 => at \in DOMAIN backups'[op.target]
      <4>1. CASE file[Current].state = "absent"
        BY <2>1, <4>1
      <4>2. CASE file[Current].state # "absent"
        BY <2>1, <3>2, <4>2 DEF WithCopy, TypesOK, TypeOK
      <4> QED
        BY <4>1, <4>2
    <3>4. CopiesOutliveManifest'
      BY <1>3, <3>3 DEF CopyAside, CopiesInv, CopiesOutliveManifest
    <3>5. Copied(op.target, op.changes)'
      <4>1. Copied(op.target, op.changes)
        BY <1>3 DEF CopyAside, CopiesInv, EditsCopied
      <4> QED
        BY <3>1, <3>2, <3>3, <4>1 DEF Copied
    <3>6. NotYetRecorded'
      BY <1>3, <3>1 DEF CopyAside, CopiesInv, NotYetRecorded
    <3> QED
      BY <3>1, <3>3, <3>4, <3>5, <3>6 DEF CopiesInv, EditsCopied
  <2> QED
    BY <1>0, <1>3, <2>1 DEF CopyAside
<1>4. CASE WriteFile
  <2> DEFINE item == [kind |-> "file", path |-> Current, backup |-> op.at]
             changes == Append(op.changes, item)
  <2>1. op' = [op EXCEPT !.pc = "edit", !.at = 0, !.next = op.next + 1, !.changes = changes]
    BY <1>4 DEF WriteFile
  <2>2. op'.pc = "edit" /\ op'.target = op.target /\ op'.changes = changes
    BY <2>1 DEF TypesOK, TypeOK, Calls
  <2>3. /\ Copied(op.target, op.changes) /\ op.changes \in Seq(Change)
        /\ op.at # 0 => op.at \in DOMAIN backups[op.target]
    BY <1>4 DEF WriteFile, CopiesInv, EditsCopied, TypesOK, TypeOK, Calls
  <2>4. Copied(op.target, changes)
    BY <2>3 DEF Copied
  <2> HIDE DEF changes
  <2> QED
    BY <1>4, <2>2, <2>4 DEF WriteFile, CopiesInv, CopiesOutliveManifest, NotYetRecorded,
       EditsCopied, Copied
<1>5. CASE WriteFileFails
  BY <1>0, <1>5 DEF WriteFileFails
<1>6. CASE SaveManifest
  <2>0. op.target \in Targets /\ op.pc = "edit"
    BY <1>6 DEF SaveManifest, TypesOK, CallOK
  <2>1. CASE /\ manifest' = [manifest EXCEPT ![op.target] =
                               [state |-> "ok", changes |-> op.changes]]
             /\ End(TRUE)
    <3>1. Copied(op.target, op.changes)
      BY <2>0 DEF CopiesInv, EditsCopied
    <3>2. CopiesOutliveManifest'
      BY <1>6, <2>0, <2>1, <3>1 DEF SaveManifest, CopiesInv, CopiesOutliveManifest, Copied,
         TypesOK, TypeOK
    <3> QED
      BY <2>1, <3>2, EndFields DEF CopiesInv, NotYetRecorded, EditsCopied
  <2>2. CASE /\ manifest' \in {manifest, [manifest EXCEPT ![op.target] = TornManifest]}
             /\ op' = RollBack("backDrop")
    <3>1. op'.pc = "backDrop" /\ op'.target = op.target
      BY <2>2, RollBackFields
    <3>2. /\ manifest'[op.target].state # "ok"
          /\ \A t \in Targets \ {op.target} :
               manifest'[t] = manifest[t] /\ backups'[t] = backups[t]
      BY <1>6, <2>0, <2>2 DEF SaveManifest, CopiesInv, NotYetRecorded, TornManifest, TypesOK,
         TypeOK
    <3>3. CopiesOutliveManifest'
      BY <2>0, <3>2, Forgotten
    <3> QED
      BY <3>1, <3>2, <3>3 DEF CopiesInv, NotYetRecorded, EditsCopied
  <2> QED
    BY <1>6, <2>1, <2>2 DEF SaveManifest
<1>7. CASE RolledBack
  <2>1. op.target \in Targets /\ manifest[op.target].state # "ok" /\ op'.pc = "idle"
    BY <1>7, EndFields DEF RolledBack, TypesOK, CallOK, CopiesInv, NotYetRecorded
  <2>2. /\ manifest'[op.target].state # "ok"
        /\ \A t \in Targets \ {op.target} :
             manifest'[t] = manifest[t] /\ backups'[t] = backups[t]
    BY <1>7, <2>1 DEF RolledBack, NoManifest, TypesOK, TypeOK
  <2>3. CopiesOutliveManifest'
    BY <2>1, <2>2, Forgotten
  <2> QED
    BY <2>1, <2>3 DEF CopiesInv, NotYetRecorded, EditsCopied
<1> QED
  BY <1>1, <1>2, <1>3, <1>4, <1>5, <1>6, <1>7 DEF Apply

LEMMA HostCopies ==
  ASSUME TypesOK, CopiesInv,
         \/ \E t \in Targets : Begin(t, "patch") \/ Begin(t, "unpatch")
         \/ \E f \in Files : UserEdit(f)
         \/ Crash
  PROVE  CopiesInv'
<1>1. ASSUME NEW t \in Targets, NEW call, Begin(t, call) PROVE CopiesInv'
  <2>1. op'.pc = "load"
    BY <1>1, IdleTypes DEF Begin, Calls
  <2> QED
    BY <1>1, <2>1, QuietStep DEF Begin
<1>2. ASSUME NEW f \in Files, UserEdit(f) PROVE CopiesInv'
  BY <1>2 DEF UserEdit, CopiesInv, CopiesOutliveManifest, NotYetRecorded, EditsCopied, Copied
<1>3. CASE Crash
  <2>1. op'.pc = "idle"
    BY <1>3, IdleTypes DEF Crash
  <2>2. CASE manifest' = manifest
    BY <1>3, <2>1, <2>2, QuietStep DEF Crash
  <2>3. CASE op.pc = "edit" /\ manifest' = [manifest EXCEPT ![op.target] = TornManifest]
    <3>1. op.target \in Targets
      BY <2>3 DEF TypesOK, CallOK
    <3>2. /\ manifest'[op.target].state # "ok"
          /\ \A t \in Targets \ {op.target} :
               manifest'[t] = manifest[t] /\ backups'[t] = backups[t]
      BY <1>3, <2>3, <3>1 DEF Crash, TornManifest, TypesOK, TypeOK
    <3>3. CopiesOutliveManifest'
      BY <3>1, <3>2, Forgotten
    <3> QED
      BY <2>1, <3>3 DEF CopiesInv, NotYetRecorded, EditsCopied
  <2> QED
    BY <1>3, <2>2, <2>3 DEF Crash
<1> QED
  BY <1>1, <1>2, <1>3

LEMMA CopiesStep == TypesOK /\ CopiesInv /\ [Next]_vars => CopiesInv'
<1> SUFFICES ASSUME TypesOK, CopiesInv, [Next]_vars PROVE CopiesInv'
  OBVIOUS
<1>1. CASE UNCHANGED vars
  BY <1>1 DEF vars, CopiesInv, CopiesOutliveManifest, NotYetRecorded, EditsCopied, Copied
<1>2. CASE Next
  BY <1>2, RevertCopies, ApplyCopies, HostCopies DEF Next
<1> QED
  BY <1>1, <1>2

-----------------------------------------------------------------------------
LEMMA IInvStep == IInv /\ [Next]_vars => IInv'
BY TypesStep, CopiesStep DEF IInv, CopiesInv

LEMMA InvariantHolds == Spec => []IInv
BY IInvInit, IInvStep, PTL DEF Spec

(* Every variable has its type: state.go keeps the journal's bookkeeping    *)
(* well formed through failures and crashes, for any set of installations.  *)
THEOREM TypeCorrect == Spec => []TypeOK
<1>1. IInv => TypeOK
  BY DEF IInv, TypesOK
<1> QED
  BY <1>1, InvariantHolds, PTL

(* As long as a whole manifest is on disk, every copy it needs is there, for *)
(* any installations, layouts and bounds: Revert (state.go:225) never meets  *)
(* a manifest it cannot replay for want of a copy.                           *)
THEOREM CopiesAreKept == Spec => []CopiesOutliveManifest
<1>1. IInv => CopiesOutliveManifest
  BY DEF IInv
<1> QED
  BY <1>1, InvariantHolds, PTL

-----------------------------------------------------------------------------
(***************************************************************************)
(* What a patch changed can be undone: of every file that nobody else      *)
(* changed since, either the journal has no change and it is as it was, or *)
(* it has the one change, whose copy is what the file was.  Undone changes *)
(* are undone for good, and the files written so far hold aiguard's hook.  *)
(***************************************************************************)

FileChanged(cs, i, f) == cs[i].kind = "file" /\ cs[i].path = f
Alone(t) == Files \ touched[t]

\* A file is changed once, and its copy has the number of the change.
Journal(cs) ==
  /\ \A i \in DOMAIN cs : cs[i].kind = "file" => cs[i].backup \in {0, i}
  /\ \A i, j \in DOMAIN cs : \A f \in Files :
       FileChanged(cs, i, f) /\ FileChanged(cs, j, f) => i = j

\* The change of a file says what it was before.
Saved(t, n, f) ==
  /\ n # 0 => n \in DOMAIN backups[t] /\ backups[t][n] = base[t][f]
  /\ n = 0 => base[t][f] = Absent

Undoable(t, cs) ==
  \A f \in Alone(t) :
    /\ \A i \in DOMAIN cs : FileChanged(cs, i, f) => Saved(t, cs[i].backup, f)
    /\ (\A i \in DOMAIN cs : ~ FileChanged(cs, i, f)) => file[f] = base[t][f]

\* The changes after at are undone.
Undone(t, cs, at) ==
  \A f \in Alone(t) : \A i \in DOMAIN cs :
    i > at /\ FileChanged(cs, i, f) => file[f] = base[t][f]

AsBefore(t) == \A f \in Alone(t) : file[f] = base[t][f]

\* A file that aiguard wrote: its hook is in it, with what the user had there.
HoldsHook(t, f) == file[f].ours /\ (f \notin Owned => file[f].user = base[t][f].user)

AbsentIsAbsent ==
  /\ \A f \in Files : file[f].state = "absent" => file[f] = Absent
  /\ \A t \in Targets : \A n \in DOMAIN backups[t] : backups[t][n].state # "absent"

ManifestsUndo ==
  \A t \in Targets : manifest[t].state = "ok" =>
    Journal(manifest[t].changes) /\ Undoable(t, manifest[t].changes)

\* The call in progress.
CallUndoes ==
  /\ op.pc = "undo" => /\ manifest[op.target].state = "ok"
                       /\ op.changes = manifest[op.target].changes
  /\ op.pc \in {"mkdir", "edit", "copy", "write", "back", "backDrop"} =>
       Journal(op.changes) /\ Undoable(op.target, op.changes)
  /\ op.pc \in {"undo", "back", "backDrop"} /\ ~ op.failed =>
       Undone(op.target, op.changes, op.at)
  /\ op.pc = "clean" => AsBefore(op.target)

Written(n) ==
  /\ \A i \in DOMAIN op.changes :
       op.changes[i].kind = "file" =>
         \E k \in 1 .. n - 1 : k \in DOMAIN Layout[op.target]
                               /\ op.changes[i].path = Layout[op.target][k]
  /\ \A k \in DOMAIN Layout[op.target] :
       k < n /\ Layout[op.target][k] \in Alone(op.target) =>
         HoldsHook(op.target, Layout[op.target][k])

CallWrites ==
  /\ op.pc = "mkdir" => \A i \in DOMAIN op.changes : op.changes[i].kind # "file"
  /\ op.pc \in {"edit", "copy", "write"} => Written(op.next)
  /\ op.pc \in {"copy", "write"} /\ Current \in Alone(op.target) =>
       op.read = base[op.target][Current]
  /\ op.pc = "write" => /\ op.at \in {0, Len(op.changes) + 1}
                        /\ Current \in Alone(op.target) => Saved(op.target, op.at, Current)

UndoInv == /\ AbsentIsAbsent /\ ManifestsUndo /\ CallUndoes /\ CallWrites
           /\ RestoredExactly /\ PatchEndsWhole

-----------------------------------------------------------------------------
LEMMA UndoInit == Init => UndoInv
<1> SUFFICES ASSUME Init PROVE UndoInv
  OBVIOUS
<1>1. op.pc = "idle" /\ result.call = "none"
  BY IdleTypes DEF Init, NoResult
<1>2. \A t \in Targets : manifest[t].state = "absent"
  BY DEF Init, NoManifest
<1>3. AbsentIsAbsent
  <2>1. \A t \in Targets : \A n \in DOMAIN backups[t] : FALSE
    BY DEF Init, NoBackups
  <2>2. \A f \in Files : file[f] \in {Absent, Original}
    BY DEF Init
  <2> QED
    BY <2>1, <2>2 DEF AbsentIsAbsent, Original
<1> QED
  BY <1>1, <1>2, <1>3 DEF UndoInv, ManifestsUndo, CallUndoes, CallWrites, RestoredExactly,
     PatchEndsWhole, Ended

\* A journal keeps undoing what it undoes while its copies are kept and the
\* files it does not list change by other hands only.
LEMMA UndoableStays ==
  ASSUME NEW t, NEW cs, Journal(cs), Undoable(t, cs),
         touched[t] \subseteq touched'[t], base'[t] = base[t],
         \A n \in DOMAIN cs : n \in DOMAIN backups[t] =>
           n \in DOMAIN backups'[t] /\ backups'[t][n] = backups[t][n],
         \A f \in Files : \/ file'[f] = file[f]
                          \/ f \in touched'[t]
                          \/ \E i \in DOMAIN cs : FileChanged(cs, i, f)
  PROVE  Undoable(t, cs)'
<1> SUFFICES ASSUME NEW f \in Files, f \notin touched'[t]
             PROVE  /\ \A i \in DOMAIN cs : FileChanged(cs, i, f) =>
                         /\ cs[i].backup # 0 => /\ cs[i].backup \in DOMAIN backups'[t]
                                                /\ backups'[t][cs[i].backup] = base'[t][f]
                         /\ cs[i].backup = 0 => base'[t][f] = Absent
                    /\ (\A i \in DOMAIN cs : ~ FileChanged(cs, i, f)) => file'[f] = base'[t][f]
  BY DEF Undoable, Alone, Saved, FileChanged
<1>1. f \in Alone(t)
  BY DEF Alone
<1>2. ASSUME NEW i \in DOMAIN cs, FileChanged(cs, i, f)
      PROVE  /\ cs[i].backup # 0 => /\ cs[i].backup \in DOMAIN backups'[t]
                                    /\ backups'[t][cs[i].backup] = base'[t][f]
             /\ cs[i].backup = 0 => base'[t][f] = Absent
  <2>1. Saved(t, cs[i].backup, f)
    BY <1>1, <1>2 DEF Undoable
  <2>2. cs[i].backup \in {0, i}
    BY <1>2 DEF Journal, FileChanged
  <2> QED
    BY <2>1, <2>2 DEF Saved
<1>3. (\A i \in DOMAIN cs : ~ FileChanged(cs, i, f)) => file'[f] = base'[t][f]
  BY <1>1 DEF Undoable
<1> QED
  BY <1>2, <1>3

LEMMA UndoneStays ==
  ASSUME NEW t, NEW cs, NEW at, Undone(t, cs, at),
         touched[t] \subseteq touched'[t], base'[t] = base[t],
         \A f \in Files : file'[f] = file[f] \/ f \in touched'[t]
  PROVE  Undone(t, cs, at)'
BY DEF Undone, Alone, FileChanged

\* The manifests on disk, of the calls in progress and of the others.
LEMMA ManifestsStay ==
  ASSUME ManifestsUndo,
         \A t \in Targets : manifest'[t].state = "ok" =>
           /\ manifest'[t] = manifest[t]
           /\ touched[t] \subseteq touched'[t] /\ base'[t] = base[t]
           /\ backups'[t] = backups[t]
           /\ \A f \in Files :
                \/ file'[f] = file[f]
                \/ f \in touched'[t]
                \/ \E i \in DOMAIN manifest[t].changes : FileChanged(manifest[t].changes, i, f)
  PROVE  ManifestsUndo'
<1> SUFFICES ASSUME NEW t \in Targets, manifest'[t].state = "ok",
                    NEW cs, cs = manifest[t].changes
             PROVE  Journal(cs) /\ Undoable(t, cs)'
  BY DEF ManifestsUndo, Journal, FileChanged
<1>1. Journal(cs) /\ Undoable(t, cs)
  BY DEF ManifestsUndo
<1>2. Undoable(t, cs)'
  BY <1>1, UndoableStays
<1> QED
  BY <1>1, <1>2

LEMMA FilesQuiet ==
  ASSUME UndoInv, UNCHANGED <<file, manifest, backups, base, touched>>
  PROVE  AbsentIsAbsent' /\ ManifestsUndo'
BY DEF UndoInv, AbsentIsAbsent, ManifestsUndo, Undoable, Alone, Saved

LEMMA CallGoesOn ==
  ASSUME op'.pc # "idle"
  PROVE  RestoredExactly' /\ PatchEndsWhole'
BY IdleTypes DEF RestoredExactly, PatchEndsWhole, Ended

\* Everything undone: the files are as before.
LEMMA AllUndone ==
  ASSUME NEW t, NEW cs \in Seq(Change), Undoable(t, cs), Undone(t, cs, 0)
  PROVE  AsBefore(t)
<1>1. \A i \in DOMAIN cs : i > 0
  OBVIOUS
<1> QED
  BY <1>1 DEF AsBefore, Undoable, Undone

\* A file not written yet is as before.
LEMMA CurrentAsBefore ==
  ASSUME IInv, UndoInv, op.pc \in {"edit", "copy", "write"}, MoreFiles
  PROVE  /\ Current \in Files /\ op.target \in Targets /\ op.next \in DOMAIN Layout[op.target]
         /\ \A i \in DOMAIN op.changes : ~ FileChanged(op.changes, i, Current)
         /\ Current \in Alone(op.target) => file[Current] = base[op.target][Current]
<1>1. op.target \in Targets /\ op.next \in Nat \ {0}
  BY JournalAssumption DEF IInv, TypesOK, CallOK
<1>2. op.next \in DOMAIN Layout[op.target] /\ Layout[op.target] \in Seq(Files)
  BY <1>1, JournalAssumption DEF MoreFiles
<1>3. Current \in Files
  BY <1>2 DEF Current
<1>4. ASSUME NEW i \in DOMAIN op.changes, FileChanged(op.changes, i, Current) PROVE FALSE
  <2>1. Written(op.next)
    BY DEF UndoInv, CallWrites
  <2>2. PICK k \in 1 .. op.next - 1 : k \in DOMAIN Layout[op.target]
                                      /\ op.changes[i].path = Layout[op.target][k]
    BY <1>4, <2>1 DEF Written, FileChanged
  <2>3. Layout[op.target][k] = Layout[op.target][op.next]
    BY <1>4, <2>2 DEF FileChanged, Current
  <2>4. k = op.next
    BY <1>1, <1>2, <2>2, <2>3, JournalAssumption
  <2> QED
    BY <1>1, <2>2, <2>4
<1>5. Current \in Alone(op.target) => file[Current] = base[op.target][Current]
  BY <1>4 DEF UndoInv, CallUndoes, Undoable
<1> QED
  BY <1>1, <1>2, <1>3, <1>4, <1>5

LEMMA CurrentMore ==
  ASSUME IInv, op.pc \in {"copy", "write"}
  PROVE  MoreFiles
BY JournalAssumption DEF IInv, TypesOK, CallOK, MoreFiles


-----------------------------------------------------------------------------
(* Undoing                                                                  *)

LEMMA NextFields ==
  ASSUME TypesOK, op' = Next1 \/ op' = [Next1 EXCEPT !.failed = TRUE]
  PROVE  /\ op'.pc = op.pc /\ op'.target = op.target /\ op'.changes = op.changes
         /\ op'.at = op.at - 1 /\ op'.call = op.call
BY DEF Next1, TypesOK, TypeOK, Calls

\* The call's own list of changes, while it is undone.
LEMMA UndoingJournal ==
  ASSUME IInv, UndoInv, Undoing
  PROVE  /\ op.target \in Targets /\ op.at \in DOMAIN op.changes /\ op.changes \in Seq(Change)
         /\ Item \in Change
         /\ Journal(op.changes) /\ Undoable(op.target, op.changes)
         /\ manifest[op.target].state = "ok" => manifest[op.target].changes = op.changes
<1>1. TypesOK
  BY DEF IInv
<1>2. /\ op.target \in Targets /\ op.changes \in Seq(Change) /\ op.at \in 1 .. Len(op.changes)
      /\ Item \in Change
  BY <1>1, ItemTypes DEF TypesOK, TypeOK, Calls
<1>3. CASE op.pc = "undo"
  BY <1>2, <1>3 DEF UndoInv, CallUndoes, ManifestsUndo
<1>4. CASE op.pc \in {"back", "backDrop"}
  BY <1>2, <1>4 DEF UndoInv, CallUndoes, IInv, NotYetRecorded
<1> QED
  BY <1>2, <1>3, <1>4 DEF Undoing

\* A step of a rollback changes at most the file of its item.
LEMMA UndoingStays ==
  ASSUME IInv, UndoInv, Undoing, UNCHANGED <<manifest, backups, base>>,
         NEW t, t = op.target, NEW cs, cs = op.changes,
         \A u \in Targets : touched[u] \subseteq touched'[u],
         \A g \in Files : \/ file'[g] = file[g]
                          \/ /\ Item.kind = "file" /\ g = Item.path
                             /\ \A u \in Targets : u # op.target => g \in touched'[u]
  PROVE  ManifestsUndo' /\ Undoable(t, cs)'
<1>1. /\ t \in Targets /\ op.at \in DOMAIN cs /\ Journal(cs) /\ Undoable(t, cs)
      /\ manifest[t].state = "ok" => manifest[t].changes = cs
  BY UndoingJournal
<1>2. \A g \in Files : \/ file'[g] = file[g]
                       \/ g \in touched'[t]
                       \/ \E i \in DOMAIN cs : FileChanged(cs, i, g)
  BY <1>1 DEF FileChanged, Item
<1>3. Undoable(t, cs)'
  BY <1>1, <1>2, UndoableStays
<1>4. ManifestsUndo'
  <2>1. ASSUME NEW u \in Targets, manifest'[u].state = "ok", NEW g \in Files
        PROVE  \/ file'[g] = file[g]
               \/ g \in touched'[u]
               \/ \E i \in DOMAIN manifest[u].changes : FileChanged(manifest[u].changes, i, g)
    <3>1. CASE u = t
      BY <1>1, <1>2, <2>1, <3>1
    <3>2. CASE u # t
      BY <3>2
    <3> QED
      BY <3>1, <3>2
  <2>2. ManifestsUndo
    BY DEF UndoInv
  <2> QED
    BY <2>1, <2>2, ManifestsStay
<1> QED
  BY <1>3, <1>4

LEMMA UndoDirKeeps == IInv /\ UndoInv /\ UndoDir => UndoInv'
<1> SUFFICES ASSUME IInv, UndoInv, UndoDir PROVE UndoInv'
  OBVIOUS
<1> SUFFICES ASSUME NEW t, t = op.target, NEW cs, cs = op.changes, NEW at, at = op.at
             PROVE  UndoInv'
  OBVIOUS
<1>1. /\ Undoing /\ Item.kind = "dir" /\ op' = Next1
      /\ UNCHANGED <<file, manifest, backups, base, touched, result>>
  BY DEF UndoDir
<1>2. /\ op'.pc = op.pc /\ op'.target = t /\ op'.changes = cs /\ op'.at = at - 1
      /\ op'.failed = op.failed
  BY <1>1, NextFields DEF IInv, TypesOK, TypeOK, Calls, Next1
<1>3. /\ Undoable(t, cs)' /\ ManifestsUndo' /\ AbsentIsAbsent' /\ Journal(cs)
      /\ at \in DOMAIN cs /\ cs \in Seq(Change) /\ cs[at].kind = "dir"
  BY <1>1, FilesQuiet, UndoingStays, UndoingJournal DEF Item
<1>4. ~ op.failed => Undone(t, cs, at - 1)'
  <2>1. ~ op.failed => Undone(t, cs, at)
    BY <1>1 DEF UndoInv, CallUndoes, Undoing
  <2>2. \A i \in DOMAIN cs : i > at - 1 => i > at \/ i = at
    BY <1>3
  <2>3. ~ op.failed => Undone(t, cs, at - 1)
    BY <1>3, <2>1, <2>2 DEF Undone, FileChanged
  <2> QED
    BY <1>1, <2>3, UndoneStays
<1>5. CallUndoes'
  BY <1>1, <1>2, <1>3, <1>4 DEF CallUndoes, UndoInv, Undoing, Journal, FileChanged
<1>6. CallWrites'
  BY <1>1, <1>2 DEF CallWrites, Undoing
<1> QED
  BY <1>1, <1>2, <1>3, <1>5, <1>6, CallGoesOn DEF UndoInv, Undoing

\* A step on a file, whatever becomes of it.
LEMMA FileStep ==
  ASSUME IInv, UndoInv, Undoing, Item.kind = "file",
         UNCHANGED <<manifest, backups, base>>,
         op' = Next1 \/ op' = [Next1 EXCEPT !.failed = TRUE],
         touched' = TouchedBy(op.target, Item.path) \/ UNCHANGED <<file, touched>>,
         NEW c, file' = [file EXCEPT ![Item.path] = c],
         c.state = "absent" => c = Absent,
         op'.failed \/ Undone(op.target, op.changes, op.at)'
  PROVE  UndoInv'
<1> SUFFICES ASSUME NEW t, t = op.target, NEW cs, cs = op.changes, NEW at, at = op.at,
                    NEW f, f = Item.path
             PROVE  UndoInv'
  OBVIOUS
<1>1. /\ op'.pc = op.pc /\ op'.target = t /\ op'.changes = cs /\ op'.at = at - 1
  BY NextFields DEF IInv
<1>2. t \in Targets /\ Journal(cs) /\ f \in Files
  BY UndoingJournal, ItemTypes DEF IInv
<1>3. touched \in [Targets -> SUBSET Files] /\ file \in [Files -> Content]
  BY DEF IInv, TypesOK, TypeOK
<1>4. /\ \A u \in Targets : touched[u] \subseteq touched'[u]
      /\ \A g \in Files : \/ file'[g] = file[g]
                          \/ /\ g = f
                             /\ \A u \in Targets : u # t => g \in touched'[u]
  BY <1>3 DEF TouchedBy
<1>5. Undoable(t, cs)' /\ ManifestsUndo'
  BY <1>4, UndoingStays
<1>6. AbsentIsAbsent'
  BY <1>3 DEF UndoInv, AbsentIsAbsent
<1>7. CallUndoes'
  <2>1. op'.pc = "undo" => /\ manifest'[op'.target].state = "ok"
                           /\ op'.changes = manifest'[op'.target].changes
    BY <1>1 DEF UndoInv, CallUndoes
  <2>2. Undoable(op.target, op.changes)'
    BY <1>1, <1>5 DEF Undoable, Alone, Saved, FileChanged
  <2>3. Journal(op.changes)'
    BY <1>1, <1>2 DEF Journal, FileChanged
  <2>4. op'.pc # "clean"
    BY <1>1 DEF Undoing
  <2> QED
    BY <2>1, <2>2, <2>3, <2>4 DEF CallUndoes
<1>8. CallWrites'
  BY <1>1 DEF CallWrites, Undoing
<1> QED
  BY <1>1, <1>5, <1>6, <1>7, <1>8, CallGoesOn DEF UndoInv, Undoing

LEMMA UndoFileKeeps == IInv /\ UndoInv /\ UndoFile => UndoInv'
<1> SUFFICES ASSUME IInv, UndoInv, UndoFile PROVE UndoInv'
  OBVIOUS
<1> SUFFICES ASSUME NEW t, t = op.target, NEW cs, cs = op.changes, NEW at, at = op.at,
                    NEW f, f = Item.path, NEW c, c = Restored(Item)
             PROVE  UndoInv'
  OBVIOUS
<1>1. /\ Undoing /\ Item.kind = "file" /\ op' = Next1
      /\ file' = [file EXCEPT ![f] = c] /\ touched' = TouchedBy(t, f)
      /\ UNCHANGED <<manifest, backups, base>>
  BY DEF UndoFile
<1>2. /\ op'.pc = op.pc /\ op'.target = t /\ op'.changes = cs /\ op'.at = at - 1
      /\ op'.failed = op.failed
  BY <1>1, NextFields DEF IInv, TypesOK, TypeOK, Calls, Next1
<1>3. /\ t \in Targets /\ at \in DOMAIN cs /\ cs \in Seq(Change) /\ Journal(cs) /\ Undoable(t, cs)
      /\ f \in Files /\ FileChanged(cs, at, f) /\ Item = cs[at]
  BY <1>1, UndoingJournal, ItemTypes DEF IInv, FileChanged, Item
<1>4. c.state = "absent" => c = Absent
  BY <1>3 DEF UndoFile, Restorable, Restored, CopyOf, UndoInv, AbsentIsAbsent
<1>5. touched'[t] = touched[t]
  BY <1>1, <1>3 DEF IInv, TypesOK, TypeOK, TouchedBy
<1>6. f \in Alone(t) => c = base[t][f]
  BY <1>3 DEF Undoable, Saved, Restored, CopyOf
<1>7. ~ op.failed => Undone(t, cs, at)
  BY <1>1 DEF UndoInv, CallUndoes, Undoing
<1>8. ~ op.failed => Undone(t, cs, at - 1)'
  <2> SUFFICES ASSUME ~ op.failed, NEW g \in Files, g \notin touched[t],
                      NEW i \in DOMAIN cs, i > at - 1, FileChanged(cs, i, g)
               PROVE  file'[g] = base[t][g]
    BY <1>1, <1>5 DEF Undone, Alone, FileChanged
  <2>1. g \in Alone(t) /\ file \in [Files -> Content]
    BY DEF Alone, IInv, TypesOK, TypeOK
  <2>2. CASE g = f
    BY <1>1, <1>6, <2>1, <2>2
  <2>3. CASE g # f
    <3>1. i # at
      BY <1>3, <2>3 DEF FileChanged
    <3>2. i > at
      BY <1>3, <3>1
    <3> QED
      BY <1>1, <1>7, <2>1, <2>3, <3>2 DEF Undone
  <2> QED
    BY <2>2, <2>3
<1>9. op'.failed \/ Undone(op.target, op.changes, op.at)'
  BY <1>2, <1>8 DEF Undone, Alone, FileChanged
<1> QED
  BY <1>1, <1>4, <1>9, FileStep

LEMMA UndoFileFailsKeeps == IInv /\ UndoInv /\ UndoFileFails => UndoInv'
<1> SUFFICES ASSUME IInv, UndoInv, UndoFileFails PROVE UndoInv'
  OBVIOUS
<1>1. /\ Undoing /\ Item.kind = "file" /\ op' = [Next1 EXCEPT !.failed = TRUE]
      /\ UNCHANGED <<manifest, backups, base>>
  BY DEF UndoFileFails
<1>2. op'.failed
  BY <1>1 DEF Next1, IInv, TypesOK, TypeOK, Calls
<1>3. Item.path \in Files /\ file \in [Files -> Content]
  BY <1>1, ItemTypes DEF IInv, TypesOK, TypeOK
<1>4. file[Item.path].state = "absent" => file[Item.path] = Absent
  BY <1>3 DEF UndoInv, AbsentIsAbsent
<1>5. CASE UNCHANGED <<file, touched>>
  <2>1. file' = [file EXCEPT ![Item.path] = file[Item.path]]
    BY <1>3, <1>5
  <2> QED
    BY <1>1, <1>2, <1>4, <1>5, <2>1, FileStep
<1>6. ASSUME NEW c \in Unfinished(file[Item.path]), file' = [file EXCEPT ![Item.path] = c],
             touched' = TouchedBy(op.target, Item.path)
      PROVE  UndoInv'
  <2>1. c.state = "absent" => c = Absent
    BY <1>4 DEF Unfinished, Empty, Torn
  <2> QED
    BY <1>1, <1>2, <1>6, <2>1, FileStep
<1> QED
  BY <1>5, <1>6 DEF UndoFileFails, Unfinished

-----------------------------------------------------------------------------
(* The end of a rollback, and what follows it                               *)

LEMMA CallEnds == ASSUME op'.pc = "idle" PROVE CallUndoes' /\ CallWrites'
BY DEF CallUndoes, CallWrites

LEMMA UntouchedAlone == ASSUME NEW t \in Targets PROVE Untouched(t) \subseteq Alone(t)
BY JournalAssumption DEF Untouched, Alone

LEMMA EndResult ==
  ASSUME NEW ok, End(ok)
  PROVE  /\ op'.pc = "idle" /\ result'.call = op.call /\ result'.target = op.target
         /\ result'.ok = ok /\ result'.failed = op.failed /\ result'.at = op.pc
BY EndFields DEF End

\* A call that ends with everything as before.
LEMMA EndsAsBefore ==
  ASSUME NEW ok, End(ok), UNCHANGED <<file, base, touched>>, op.target \in Targets,
         AsBefore(op.target)
  PROVE  RestoredExactly' /\ ((ok = FALSE) => PatchEndsWhole')
<1> SUFFICES ASSUME NEW t, t = op.target
             PROVE  RestoredExactly' /\ ((ok = FALSE) => PatchEndsWhole')
  OBVIOUS
<1>1. \A f \in Untouched(t) : file[f] = base[t][f]
  BY UntouchedAlone DEF AsBefore
<1>2. \A f \in {Layout[t][i] : i \in DOMAIN Layout[t]} \ touched'[t] : file'[f] = base'[t][f]
  BY <1>1 DEF Untouched
<1>3. result'.target = t /\ result'.ok = ok
  BY EndResult
<1>4. \A f \in {Layout[result'.target][i] : i \in DOMAIN Layout[result'.target]}
               \ touched'[result'.target] : file'[f] = base'[result'.target][f]
  BY <1>2, <1>3
<1> QED
  BY <1>3, <1>4 DEF RestoredExactly, PatchEndsWhole, Ended, Untouched

\* The copies of a target without a manifest may go.
LEMMA DroppedCopies ==
  ASSUME IInv, UndoInv, NEW t \in Targets, manifest'[t].state # "ok",
         \A u \in Targets \ {t} :
           UNCHANGED <<manifest[u], base[u], touched[u]>>,
         UNCHANGED file,
         backups' = backups \/ backups' = [backups EXCEPT ![t] = NoBackups]
  PROVE  AbsentIsAbsent' /\ ManifestsUndo'
<1>1. /\ \A u \in Targets \ {t} : backups'[u] = backups[u]
      /\ backups'[t] = backups[t] \/ backups'[t] = NoBackups
  BY DEF IInv, TypesOK
<1>2. AbsentIsAbsent'
  <2>1. DOMAIN NoBackups = {}
    BY DEF NoBackups
  <2> QED
    BY <1>1, <2>1 DEF UndoInv, AbsentIsAbsent
<1>3. ManifestsUndo
  BY DEF UndoInv
<1>4. ManifestsUndo'
  BY <1>1, <1>3, ManifestsStay
<1> QED
  BY <1>2, <1>4

LEMMA ContinueKeeps ==
  ASSUME IInv, UndoInv, op.pc \in {"load", "clean"}, Continue,
         manifest[op.target].state # "ok", UNCHANGED <<file, manifest>>,
         backups' = backups \/ backups' = [backups EXCEPT ![op.target] = NoBackups]
  PROVE  UndoInv'
<1> SUFFICES ASSUME NEW t, t = op.target PROVE UndoInv'
  OBVIOUS
<1>1. t \in Targets /\ TypesOK
  BY DEF IInv, TypesOK, CallOK
<1>2. CASE op.call = "patch"
  <2>1. /\ op' = [op EXCEPT !.pc = "mkdir", !.changes = <<>>]
        /\ base' = [base EXCEPT ![t] = file] /\ touched' = [touched EXCEPT ![t] = {}]
    BY <1>2 DEF Continue, Clean
  <2>2. op'.pc = "mkdir" /\ op'.changes = <<>> /\ op'.target = t
    BY <1>1, <2>1 DEF TypesOK, TypeOK, Calls
  <2>3. base'[t] = file /\ \A u \in Targets \ {t} : UNCHANGED <<base[u], touched[u]>>
    BY <1>1, <2>1 DEF TypesOK, TypeOK
  <2>4. AbsentIsAbsent' /\ ManifestsUndo'
    BY <1>1, <2>3, DroppedCopies
  <2>5. Journal(op.changes)' /\ Undoable(op.target, op.changes)'
    BY <2>2, <2>3 DEF Journal, Undoable, FileChanged
  <2>6. CallUndoes' /\ CallWrites'
    BY <2>2, <2>5 DEF CallUndoes, CallWrites
  <2> QED
    BY <2>2, <2>4, <2>6, CallGoesOn DEF UndoInv
<1>3. CASE op.call # "patch"
  <2>1. End(TRUE) /\ UNCHANGED <<base, touched>>
    BY <1>3 DEF Continue
  <2>2. AbsentIsAbsent' /\ ManifestsUndo'
    BY <1>1, <2>1, DroppedCopies
  <2>3. CallUndoes' /\ CallWrites' /\ PatchEndsWhole'
    BY <1>3, <2>1, EndResult, CallEnds DEF PatchEndsWhole, Ended
  <2>4. RestoredExactly'
    <3>1. CASE op.pc = "clean"
      BY <1>1, <2>1, <3>1, EndsAsBefore DEF UndoInv, CallUndoes
    <3>2. CASE op.pc # "clean"
      BY <2>1, <3>2, EndResult DEF RestoredExactly
    <3> QED
      BY <3>1, <3>2
  <2> QED
    BY <2>2, <2>3, <2>4 DEF UndoInv
<1> QED
  BY <1>2, <1>3

\* A call that ends after a failure says nothing of the files.
LEMMA FailedEnds ==
  ASSUME UndoInv, End(FALSE), op.failed \/ op.pc \in {"load", "undo"}
  PROVE  CallUndoes' /\ CallWrites' /\ RestoredExactly' /\ PatchEndsWhole'
BY EndResult, CallEnds DEF RestoredExactly, PatchEndsWhole, Ended

LEMMA LoadKeeps == IInv /\ UndoInv /\ Load => UndoInv'
<1> SUFFICES ASSUME IInv, UndoInv, Load PROVE UndoInv'
  OBVIOUS
<1> SUFFICES ASSUME NEW t, t = op.target, NEW m, m = manifest[t] PROVE UndoInv'
  OBVIOUS
<1>0. UNCHANGED <<file, dirs, manifest, backups, mishaps>> /\ op.pc = "load"
  BY DEF Load
<1>1. t \in Targets /\ TypesOK
  BY <1>0 DEF IInv, TypesOK, CallOK
<1>2. CASE End(FALSE) /\ UNCHANGED <<base, touched>>
  BY <1>0, <1>2, FailedEnds, FilesQuiet DEF UndoInv
<1>3. CASE m.state = "absent" /\ Continue
  BY <1>0, <1>3, ContinueKeeps
<1>4. CASE /\ m.state = "ok"
           /\ op' = [op EXCEPT !.pc = "undo", !.changes = m.changes, !.at = Len(m.changes)]
           /\ UNCHANGED <<base, touched, result>>
  <2>1. /\ op'.pc = "undo" /\ op'.target = t /\ op'.changes = m.changes
        /\ op'.at = Len(m.changes)
    BY <1>1, <1>4 DEF TypesOK, TypeOK, Calls
  <2>2. m.changes \in Seq(Change)
    BY <1>1 DEF TypesOK, TypeOK
  <2>3. Undone(op.target, op.changes, op.at)'
    BY <2>1, <2>2 DEF Undone
  <2>4. CallUndoes' /\ CallWrites'
    BY <1>0, <1>4, <2>1, <2>3 DEF CallUndoes, CallWrites
  <2> QED
    BY <1>0, <1>4, <2>1, <2>4, FilesQuiet, CallGoesOn DEF UndoInv
<1> QED
  BY <1>2, <1>3, <1>4 DEF Load

LEMMA ForgetKeeps == IInv /\ UndoInv /\ Forget => UndoInv'
<1> SUFFICES ASSUME IInv, UndoInv, Forget PROVE UndoInv'
  OBVIOUS
<1> SUFFICES ASSUME NEW t, t = op.target PROVE UndoInv'
  OBVIOUS
<1>0. UNCHANGED <<file, dirs, backups, base, touched, mishaps>> /\ op.pc = "undo" /\ op.at = 0
  BY DEF Forget
<1>1. t \in Targets /\ TypesOK
  BY <1>0 DEF IInv, TypesOK, CallOK
<1>2. CASE End(FALSE) /\ UNCHANGED manifest
  BY <1>0, <1>2, FailedEnds, FilesQuiet DEF UndoInv
<1>3. CASE /\ ~ op.failed
           /\ manifest' = [manifest EXCEPT ![t] = NoManifest]
           /\ op' = [op EXCEPT !.pc = "clean"]
  <2>1. op'.pc = "clean" /\ op'.target = t
    BY <1>1, <1>3 DEF TypesOK, TypeOK, Calls
  <2>2. /\ manifest'[t].state # "ok"
        /\ \A u \in Targets \ {t} : manifest'[u] = manifest[u]
    BY <1>1, <1>3 DEF TypesOK, TypeOK, NoManifest
  <2>3. AbsentIsAbsent' /\ ManifestsUndo'
    BY <1>0, <1>1, <2>2, DroppedCopies
  <2>4. Undoable(t, op.changes) /\ Undone(t, op.changes, 0) /\ op.changes \in Seq(Change)
    BY <1>0, <1>1, <1>3 DEF UndoInv, CallUndoes, ManifestsUndo, TypesOK, TypeOK, Calls
  <2>5. AsBefore(t)
    BY <2>4, AllUndone
  <2>6. AsBefore(op.target)'
    BY <1>0, <2>1, <2>5 DEF AsBefore, Alone
  <2>7. CallUndoes' /\ CallWrites'
    BY <2>1, <2>6 DEF CallUndoes, CallWrites
  <2> QED
    BY <2>1, <2>3, <2>7, CallGoesOn DEF UndoInv
<1> QED
  BY <1>2, <1>3 DEF Forget

LEMMA DropBackupsKeeps == IInv /\ UndoInv /\ DropBackups => UndoInv'
<1> SUFFICES ASSUME IInv, UndoInv, DropBackups PROVE UndoInv'
  OBVIOUS
<1>1. manifest[op.target].state # "ok" /\ op.pc = "clean"
  BY DEF DropBackups, IInv, NotYetRecorded
<1> QED
  BY <1>1, ContinueKeeps DEF DropBackups

LEMMA RolledBackKeeps == IInv /\ UndoInv /\ RolledBack => UndoInv'
<1> SUFFICES ASSUME IInv, UndoInv, RolledBack PROVE UndoInv'
  OBVIOUS
<1> SUFFICES ASSUME NEW t, t = op.target PROVE UndoInv'
  OBVIOUS
<1>0. /\ UNCHANGED <<file, dirs, base, touched, mishaps>> /\ End(FALSE)
      /\ op.pc \in {"back", "backDrop"} /\ op.at = 0
  BY DEF RolledBack
<1>1. t \in Targets /\ TypesOK /\ manifest[t].state # "ok"
  BY <1>0 DEF IInv, TypesOK, CallOK, NotYetRecorded
<1>2. /\ manifest'[t].state # "ok" /\ \A u \in Targets \ {t} : manifest'[u] = manifest[u]
      /\ backups' = backups \/ backups' = [backups EXCEPT ![t] = NoBackups]
  BY <1>1 DEF RolledBack, NoManifest, TypesOK, TypeOK
<1>3. AbsentIsAbsent' /\ ManifestsUndo'
  BY <1>0, <1>1, <1>2, DroppedCopies
<1>4. ~ op.failed => AsBefore(t)
  <2>1. Undoable(t, op.changes) /\ op.changes \in Seq(Change)
    BY <1>0, <1>1 DEF UndoInv, CallUndoes, TypesOK, TypeOK, Calls
  <2>2. ~ op.failed => Undone(t, op.changes, 0)
    BY <1>0 DEF UndoInv, CallUndoes
  <2> QED
    BY <2>1, <2>2, AllUndone
<1>5. RestoredExactly' /\ PatchEndsWhole'
  <2>1. CASE op.failed
    BY <1>0, <2>1, FailedEnds
  <2>2. CASE ~ op.failed
    BY <1>0, <1>1, <1>4, <2>2, EndsAsBefore
  <2> QED
    BY <2>1, <2>2
<1> QED
  BY <1>0, <1>3, <1>5, EndResult, CallEnds DEF UndoInv

-----------------------------------------------------------------------------
(* Editing                                                                  *)

\* The manifests when others' edits are all that happened to the files.
LEMMA ManifestsLeft ==
  ASSUME IInv, UndoInv, UNCHANGED <<backups, base>>,
         \A u \in Targets : manifest'[u].state = "ok" => manifest'[u] = manifest[u],
         \A u \in Targets : manifest'[u].state = "ok" =>
           /\ touched[u] \subseteq touched'[u]
           /\ \A g \in Files : file'[g] = file[g] \/ g \in touched'[u]
  PROVE  ManifestsUndo'
<1>1. ManifestsUndo
  BY DEF UndoInv
<1> QED
  BY <1>1, ManifestsStay

LEMMA GiveUp ==
  ASSUME IInv, UndoInv, op.pc \in {"mkdir", "edit", "copy", "write"},
         NEW pc \in {"back", "backDrop"}, op' = RollBack(pc),
         UNCHANGED <<backups, base>>,
         \A u \in Targets : manifest'[u].state = "ok" => manifest'[u] = manifest[u],
         \A u \in Targets : /\ touched[u] \subseteq touched'[u]
                            /\ \A g \in Files : file'[g] = file[g] \/ g \in touched'[u],
         AbsentIsAbsent'
  PROVE  UndoInv'
<1> SUFFICES ASSUME NEW t, t = op.target, NEW cs, cs = op.changes PROVE UndoInv'
  OBVIOUS
<1>1. t \in Targets /\ cs \in Seq(Change) /\ TypesOK
  BY DEF IInv, TypesOK, CallOK, TypeOK, Calls
<1>2. op'.pc = pc /\ op'.target = t /\ op'.changes = cs /\ op'.at = Len(cs)
  BY <1>1 DEF RollBack, TypesOK, TypeOK, Calls
<1>3. ManifestsUndo'
  BY ManifestsLeft
<1>4. Journal(cs) /\ Undoable(t, cs)
  BY DEF UndoInv, CallUndoes
<1>5. Undoable(t, cs)'
  BY <1>1, <1>4, UndoableStays
<1>6. Journal(op.changes)' /\ Undoable(op.target, op.changes)'
  BY <1>2, <1>4, <1>5 DEF Journal, Undoable, Alone, Saved, FileChanged
<1>7. Undone(op.target, op.changes, op.at)'
  BY <1>1, <1>2 DEF Undone
<1>8. CallUndoes' /\ CallWrites'
  BY <1>2, <1>6, <1>7 DEF CallUndoes, CallWrites
<1> QED
  BY <1>2, <1>3, <1>8, CallGoesOn DEF UndoInv

LEMMA GiveUpQuietly ==
  ASSUME IInv, UndoInv, op.pc \in {"mkdir", "edit", "copy", "write"},
         NEW pc \in {"back", "backDrop"}, op' = RollBack(pc),
         UNCHANGED <<file, backups, base, touched>>,
         \A u \in Targets : manifest'[u].state = "ok" => manifest'[u] = manifest[u]
  PROVE  UndoInv'
<1>1. AbsentIsAbsent'
  BY DEF UndoInv, AbsentIsAbsent
<1> QED
  BY <1>1, GiveUp

LEMMA MkdirAllKeeps == IInv /\ UndoInv /\ MkdirAll => UndoInv'
<1> SUFFICES ASSUME IInv, UndoInv, MkdirAll PROVE UndoInv'
  OBVIOUS
<1> DEFINE d == HookDir[op.target]
           changes == IF d \in dirs THEN op.changes
                      ELSE Append(op.changes, [kind |-> "dir", path |-> d, backup |-> 0])
<1> SUFFICES ASSUME NEW t, t = op.target, NEW cs, cs = op.changes, NEW ds, ds = changes
             PROVE  UndoInv'
  OBVIOUS
<1>0. op.pc = "mkdir" /\ UNCHANGED <<file, manifest, backups, base, touched, result>>
  BY DEF MkdirAll
<1>1. t \in Targets /\ cs \in Seq(Change) /\ TypesOK
  BY <1>0 DEF IInv, TypesOK, CallOK, TypeOK, Calls
<1>2. CASE op' = RollBack("back")
  BY <1>0, <1>2, GiveUpQuietly
<1>3. CASE op' = [op EXCEPT !.pc = "edit", !.next = 1, !.changes = ds]
  <2>1. op'.pc = "edit" /\ op'.target = t /\ op'.changes = ds /\ op'.next = 1
    BY <1>1, <1>3 DEF TypesOK, TypeOK, Calls
  <2>2. \A i \in DOMAIN cs : cs[i].kind # "file"
    BY <1>0 DEF UndoInv, CallWrites
  <2>3. \A i \in DOMAIN ds : ds[i].kind # "file"
    BY <1>1, <2>2
  <2>4. Undoable(t, cs)
    BY <1>0 DEF UndoInv, CallUndoes
  <2>5. Journal(ds) /\ Undoable(t, ds)
    BY <2>2, <2>3, <2>4 DEF Journal, Undoable, FileChanged
  <2>6. Journal(op.changes)' /\ Undoable(op.target, op.changes)'
    BY <1>0, <2>1, <2>5 DEF Journal, Undoable, Alone, Saved, FileChanged
  <2>7. Written(op.next)'
    BY <1>1, <2>1, <2>3, JournalAssumption DEF Written
  <2>8. CallUndoes' /\ CallWrites'
    BY <2>1, <2>6, <2>7 DEF CallUndoes, CallWrites
  <2> QED
    BY <1>0, <2>1, <2>8, FilesQuiet, CallGoesOn DEF UndoInv
<1> QED
  BY <1>2, <1>3 DEF MkdirAll

LEMMA ReadConfigKeeps == IInv /\ UndoInv /\ ReadConfig => UndoInv'
<1> SUFFICES ASSUME IInv, UndoInv, ReadConfig PROVE UndoInv'
  OBVIOUS
<1>0. /\ op.pc = "edit" /\ MoreFiles /\ TypesOK
      /\ UNCHANGED <<file, manifest, backups, base, touched, result>>
  BY DEF ReadConfig, IInv
<1>1. CASE op' = RollBack("back")
  BY <1>0, <1>1, GiveUpQuietly
<1>2. CASE op' = [op EXCEPT !.pc = "copy", !.read = file[Current]]
  <2>1. /\ op'.pc = "copy" /\ op'.target = op.target /\ op'.changes = op.changes
        /\ op'.next = op.next /\ op'.read = file[Current]
    BY <1>0, <1>2 DEF TypesOK, TypeOK, Calls
  <2>2. Journal(op.changes)' /\ Undoable(op.target, op.changes)'
    BY <1>0, <2>1 DEF UndoInv, CallUndoes, Journal, Undoable, Alone, Saved, FileChanged
  <2>3. Written(op.next)'
    BY <1>0, <2>1 DEF UndoInv, CallWrites, Written, Alone, HoldsHook
  <2>4. Current' = Current
    BY <2>1 DEF Current
  <2>5. (Current \in Alone(op.target) => op.read = base[op.target][Current])'
    BY <1>0, <2>1, <2>4, CurrentAsBefore DEF Alone
  <2>6. CallUndoes' /\ CallWrites'
    BY <2>1, <2>2, <2>3, <2>5 DEF CallUndoes, CallWrites
  <2> QED
    BY <1>0, <2>1, <2>6, FilesQuiet, CallGoesOn DEF UndoInv
<1> QED
  BY <1>1, <1>2 DEF ReadConfig

LEMMA CopyAsideKeeps == IInv /\ UndoInv /\ CopyAside => UndoInv'
<1> SUFFICES ASSUME IInv, UndoInv, CopyAside PROVE UndoInv'
  OBVIOUS
<1> SUFFICES ASSUME NEW t, t = op.target, NEW cs, cs = op.changes, NEW n, n = Len(op.changes) + 1,
                    NEW f, f = Current, NEW c, c = file[f]
             PROVE  UndoInv'
  OBVIOUS
<1>0. op.pc = "copy" /\ UNCHANGED <<file, manifest, base, touched, result>>
  BY DEF CopyAside
<1>1. /\ t \in Targets /\ cs \in Seq(Change) /\ TypesOK /\ f \in Files
      /\ manifest[t].state # "ok"
      /\ f \in Alone(t) => c = base[t][f]
  BY <1>0, CurrentAsBefore, CurrentMore DEF IInv, TypesOK, TypeOK, Calls, NotYetRecorded
<1>2. CASE op' = RollBack("back") /\ UNCHANGED backups
  BY <1>0, <1>2, GiveUpQuietly
<1>3. CASE /\ backups' = IF c.state = "absent" THEN backups
                         ELSE [backups EXCEPT ![t] = WithCopy(@, n, c)]
           /\ op' = [op EXCEPT !.pc = "write", !.at = IF c.state = "absent" THEN 0 ELSE n]
  <2>1. /\ op'.pc = "write" /\ op'.target = t /\ op'.changes = cs /\ op'.next = op.next
        /\ op'.read = op.read /\ op'.at = IF c.state = "absent" THEN 0 ELSE n
    BY <1>1, <1>3 DEF TypesOK, TypeOK, Calls
  <2>2. \A u \in Targets \ {t} : backups'[u] = backups[u]
    BY <1>3 DEF IInv, TypesOK
  <2>4. /\ \A k \in DOMAIN backups[t] : k # n => k \in DOMAIN backups'[t]
                                               /\ backups'[t][k] = backups[t][k]
        /\ c.state # "absent" => n \in DOMAIN backups'[t] /\ backups'[t][n] = c
        /\ \A k \in DOMAIN backups'[t] :
             \/ k \in DOMAIN backups[t] /\ backups'[t][k] = backups[t][k]
             \/ c.state # "absent" /\ backups'[t][k] = c
    <3>1. CASE c.state # "absent"
      <4>1. backups'[t] = WithCopy(backups[t], n, c)
        BY <1>1, <1>3, <3>1 DEF TypesOK
      <4>2. /\ DOMAIN backups'[t] = DOMAIN backups[t] \union {n}
            /\ backups'[t][n] = c
            /\ \A k \in DOMAIN backups[t] : k # n => backups'[t][k] = backups[t][k]
        <5>1. PICK b : b = backups[t]
          OBVIOUS
        <5>2. PICK w : w = WithCopy(b, n, c)
          OBVIOUS
        <5>3. /\ DOMAIN w = DOMAIN b \union {n} /\ w[n] = c
              /\ \A k \in DOMAIN b : k # n => w[k] = b[k]
          BY <5>2 DEF WithCopy
        <5>4. backups'[t] = w
          BY <4>1, <5>1, <5>2
        <5> QED
          BY <5>1, <5>3, <5>4
      <4> QED
        BY <3>1, <4>2
    <3>2. CASE c.state = "absent"
      <4>1. backups' = backups
        BY <1>3, <3>2
      <4> QED
        BY <3>2, <4>1
    <3> QED
      BY <3>1, <3>2
  <2>5. AbsentIsAbsent'
    BY <1>0, <2>2, <2>4 DEF UndoInv, AbsentIsAbsent
  <2>6. ManifestsUndo'
    <3>1. ManifestsUndo
      BY DEF UndoInv
    <3> QED
      BY <1>0, <1>1, <2>2, <3>1, ManifestsStay
  <2>7. Journal(cs) /\ Undoable(t, cs)'
    <3>1. Journal(cs) /\ Undoable(t, cs)
      BY <1>0 DEF UndoInv, CallUndoes
    <3>2. \A k \in DOMAIN cs : k # n
      BY <1>1
    <3> QED
      BY <1>0, <2>4, <3>1, <3>2, UndoableStays
  <2>8. Journal(op.changes)' /\ Undoable(op.target, op.changes)'
    BY <2>1, <2>7 DEF Journal, Undoable, Alone, Saved, FileChanged
  <2>9. Written(op.next)'
    BY <1>0, <2>1 DEF UndoInv, CallWrites, Written, Alone, HoldsHook
  <2>10. Current' = f
    BY <2>1 DEF Current
  <2>11. f \in Alone(t) => op.read = base[t][f]
    BY <1>0 DEF UndoInv, CallWrites
  <2>12. f \in Alone(t) /\ c.state = "absent" => base[t][f] = Absent
    BY <1>1 DEF UndoInv, AbsentIsAbsent
  <2>13. (Current \in Alone(op.target) => op.read = base[op.target][Current])'
    BY <1>0, <2>1, <2>10, <2>11 DEF Alone
  <2>14. (Current \in Alone(op.target) => Saved(op.target, op.at, Current))'
    BY <1>0, <1>1, <2>1, <2>4, <2>10, <2>12 DEF Alone, Saved
  <2>15. op'.at \in {0, Len(op'.changes) + 1}
    BY <2>1
  <2>16. CallUndoes' /\ CallWrites'
    BY <2>1, <2>8, <2>9, <2>13, <2>14, <2>15 DEF CallUndoes, CallWrites
  <2> QED
    BY <2>1, <2>5, <2>6, <2>16, CallGoesOn, <1>0 DEF UndoInv
<1> QED
  BY <1>2, <1>3 DEF CopyAside

LEMMA WriteFileKeeps == IInv /\ UndoInv /\ WriteFile => UndoInv'
<1> SUFFICES ASSUME IInv, UndoInv, WriteFile PROVE UndoInv'
  OBVIOUS
<1> SUFFICES ASSUME NEW t, t = op.target, NEW cs, cs = op.changes, NEW n, n = op.next,
                    NEW f, f = Current, NEW c, c = Patched(f), NEW at, at = op.at,
                    NEW ds, ds = Append(cs, [kind |-> "file", path |-> f, backup |-> at])
             PROVE  UndoInv'
  OBVIOUS
<1>0. /\ op.pc = "write" /\ UNCHANGED <<manifest, backups, base, result>>
      /\ file' = [file EXCEPT ![f] = c] /\ touched' = TouchedBy(t, f)
      /\ op' = [op EXCEPT !.pc = "edit", !.at = 0, !.next = @ + 1, !.changes = ds]
  BY DEF WriteFile
<1>1. /\ t \in Targets /\ cs \in Seq(Change) /\ TypesOK /\ f \in Files /\ n \in Nat
      /\ manifest[t].state # "ok"
      /\ n \in DOMAIN Layout[t] /\ f = Layout[t][n]
      /\ \A i \in DOMAIN cs : ~ FileChanged(cs, i, f)
  BY <1>0, CurrentAsBefore, CurrentMore DEF IInv, TypesOK, TypeOK, Calls, NotYetRecorded, Current
<1>2. /\ op'.pc = "edit" /\ op'.target = t /\ op'.changes = ds /\ op'.next = n + 1
  BY <1>0, <1>1 DEF TypesOK, TypeOK, Calls
<1>3. /\ touched'[t] = touched[t]
      /\ \A u \in Targets \ {t} : touched[u] \subseteq touched'[u] /\ f \in touched'[u]
      /\ file'[f] = c /\ \A g \in Files : g # f => file'[g] = file[g]
  BY <1>0, <1>1 DEF TouchedBy, TypesOK, TypeOK
<1>4. /\ c.state = "text" /\ c.ours
      /\ f \notin Owned => c.user = op.read.user
  BY DEF Patched
<1>5. AbsentIsAbsent'
  BY SMTT(40), <1>0, <1>3, <1>4 DEF UndoInv, AbsentIsAbsent
<1>6. ManifestsUndo'
  BY <1>0, <1>1, <1>3, ManifestsLeft
<1>7. /\ Journal(cs) /\ Undoable(t, cs) /\ Written(n)
      /\ at \in {0, Len(cs) + 1}
      /\ f \in Alone(t) => Saved(t, at, f) /\ op.read = base[t][f]
  BY <1>0 DEF UndoInv, CallUndoes, CallWrites
\* The list is one change longer.
<1>8. /\ \A i \in DOMAIN ds : (i \in DOMAIN cs /\ ds[i] = cs[i]) \/ i = Len(cs) + 1
      /\ \A i \in DOMAIN cs : i \in DOMAIN ds /\ ds[i] = cs[i]
      /\ Len(cs) + 1 \in DOMAIN ds
      /\ ds[Len(cs) + 1] = [kind |-> "file", path |-> f, backup |-> at]
  BY <1>1
<1>9. /\ ds[Len(cs) + 1].kind = "file" /\ ds[Len(cs) + 1].path = f
      /\ ds[Len(cs) + 1].backup = at
  BY <1>8
<1>10. Journal(ds)
  BY SMTT(40), <1>1, <1>7, <1>8, <1>9 DEF Journal, FileChanged
<1>11. Undoable(t, ds)'
  <2> SUFFICES ASSUME NEW g \in Files, g \notin touched[t]
               PROVE  /\ \A i \in DOMAIN ds : FileChanged(ds, i, g) =>
                           /\ ds[i].backup # 0 => /\ ds[i].backup \in DOMAIN backups[t]
                                                  /\ backups[t][ds[i].backup] = base[t][g]
                           /\ ds[i].backup = 0 => base[t][g] = Absent
                      /\ (\A i \in DOMAIN ds : ~ FileChanged(ds, i, g)) => file'[g] = base[t][g]
    <3>1. Alone(t)' = Files \ touched[t] /\ base' = base /\ backups' = backups
      BY <1>0, <1>3 DEF Alone
    <3> QED
      BY <3>1 DEF Undoable, FileChanged, Saved
  <2>1. g \in Alone(t)
    BY DEF Alone
  <2>2. ASSUME NEW i \in DOMAIN ds, FileChanged(ds, i, g) PROVE Saved(t, ds[i].backup, g)
    BY <1>7, <1>8, <1>9, <2>1, <2>2 DEF Undoable, FileChanged
  <2>3. ASSUME \A i \in DOMAIN ds : ~ FileChanged(ds, i, g) PROVE file'[g] = base[t][g]
    <3>1. g # f
      BY <1>8, <1>9, <2>3 DEF FileChanged
    <3>2. \A i \in DOMAIN cs : ~ FileChanged(cs, i, g)
      BY <1>8, <2>3 DEF FileChanged
    <3> QED
      BY <1>3, <1>7, <2>1, <3>1, <3>2 DEF Undoable
  <2> QED
    BY <2>2, <2>3 DEF Saved
<1>12. Journal(op.changes)' /\ Undoable(op.target, op.changes)'
  BY <1>2, <1>10, <1>11 DEF Journal, Undoable, Alone, Saved, FileChanged
<1>13. \A i \in DOMAIN ds : ds[i].kind = "file" =>
         \E k \in 1 .. n : k \in DOMAIN Layout[t] /\ ds[i].path = Layout[t][k]
  <2> SUFFICES ASSUME NEW i \in DOMAIN ds, ds[i].kind = "file"
               PROVE  \E k \in 1 .. n : k \in DOMAIN Layout[t] /\ ds[i].path = Layout[t][k]
    OBVIOUS
  <2>1. CASE i \in DOMAIN cs /\ ds[i] = cs[i]
    <3>1. PICK k \in 1 .. n - 1 : k \in DOMAIN Layout[t] /\ ds[i].path = Layout[t][k]
      BY <1>7, <2>1 DEF Written
    <3>2. k \in 1 .. n
      BY <1>1, <3>1
    <3> QED
      BY <3>1, <3>2
  <2>2. CASE i = Len(cs) + 1
    <3>1. n \in 1 .. n
      BY <1>1, JournalAssumption
    <3> QED
      BY <1>1, <1>9, <2>2, <3>1
  <2> QED
    BY <1>8, <2>1, <2>2
<1>14. \A k \in DOMAIN Layout[t] :
         k < n + 1 /\ Layout[t][k] \in Files \ touched[t] =>
           /\ file'[Layout[t][k]].ours
           /\ Layout[t][k] \notin Owned => file'[Layout[t][k]].user = base[t][Layout[t][k]].user
  <2> SUFFICES ASSUME NEW k \in DOMAIN Layout[t], k < n + 1, NEW g, g = Layout[t][k],
                      g \in Alone(t)
               PROVE  file'[g].ours /\ (g \notin Owned => file'[g].user = base[t][g].user)
    BY DEF Alone
  <2>1. CASE k = n
    BY <1>1, <1>3, <1>4, <1>7, <2>1
  <2>2. CASE k # n
    <3>1. g # f
      BY <1>1, <2>2, JournalAssumption
    <3>2. k < n
      BY <1>1, <2>2, JournalAssumption
    <3>3. HoldsHook(t, g)
      BY <1>7, <3>2 DEF Written
    <3> QED
      BY <1>3, <3>1, <3>3 DEF HoldsHook, Alone
  <2> QED
    BY <2>1, <2>2
<1>15. Written(op.next)'
  <2>0. n \in Nat /\ op'.next = n + 1 /\ op'.changes = ds /\ op'.target = t
    BY <1>1, <1>2
  <2>1. op'.next - 1 = n /\ op'.next = n + 1 /\ op'.changes = ds /\ op'.target = t
    BY <2>0
  <2>2. Alone(op.target)' = Files \ touched[t] /\ base' = base
    BY <1>0, <1>2, <1>3 DEF Alone
  <2> QED
    BY <1>13, <1>14, <2>1, <2>2 DEF Written, HoldsHook
<1>16. CallUndoes' /\ CallWrites'
  BY <1>2, <1>12, <1>15 DEF CallUndoes, CallWrites
<1> QED
  BY <1>2, <1>5, <1>6, <1>16, CallGoesOn DEF UndoInv

LEMMA WriteFileFailsKeeps == IInv /\ UndoInv /\ WriteFileFails => UndoInv'
<1> SUFFICES ASSUME IInv, UndoInv, WriteFileFails PROVE UndoInv'
  OBVIOUS
<1>0. /\ op.pc = "write" /\ op' = RollBack("back") /\ UNCHANGED <<manifest, backups, base>>
      /\ TypesOK
  BY DEF WriteFileFails, IInv
<1>1. CASE UNCHANGED <<file, touched>>
  BY <1>0, <1>1, GiveUpQuietly
<1>2. ASSUME NEW c \in Unfinished(file[Current]), file' = [file EXCEPT ![Current] = c],
             touched' = TouchedBy(NoTarget, Current)
      PROVE  UndoInv'
  <2>1. Current \in Files /\ file \in [Files -> Content] /\ touched \in [Targets -> SUBSET Files]
    BY <1>0, CurrentTypes DEF TypesOK, TypeOK
  <2>2. c.state = "absent" => c = Absent
    BY <2>1 DEF Unfinished, Empty, Torn, UndoInv, AbsentIsAbsent
  <2>3. AbsentIsAbsent'
    BY <1>0, <1>2, <2>1, <2>2 DEF UndoInv, AbsentIsAbsent
  <2>4. \A u \in Targets : /\ touched[u] \subseteq touched'[u]
                           /\ \A g \in Files : file'[g] = file[g] \/ g \in touched'[u]
    BY <1>2, <2>1, JournalAssumption DEF TouchedBy
  <2> QED
    BY <1>0, <2>3, <2>4, GiveUp
<1> QED
  BY <1>1, <1>2 DEF WriteFileFails

LEMMA SaveManifestKeeps == IInv /\ UndoInv /\ SaveManifest => UndoInv'
<1> SUFFICES ASSUME IInv, UndoInv, SaveManifest PROVE UndoInv'
  OBVIOUS
<1> SUFFICES ASSUME NEW t, t = op.target, NEW cs, cs = op.changes PROVE UndoInv'
  OBVIOUS
<1>0. /\ op.pc = "edit" /\ ~ MoreFiles /\ UNCHANGED <<file, dirs, backups, base, touched>>
  BY DEF SaveManifest
<1>1. /\ t \in Targets /\ TypesOK /\ manifest[t].state # "ok" /\ op.next \in Nat
      /\ Layout[t] \in Seq(Files) /\ op.next > Len(Layout[t])
  BY <1>0, JournalAssumption DEF IInv, TypesOK, CallOK, NotYetRecorded, TypeOK, Calls, MoreFiles
<1>2. CASE /\ manifest' \in {manifest, [manifest EXCEPT ![t] = TornManifest]}
           /\ op' = RollBack("backDrop")
  <2>1. \A u \in Targets : manifest'[u].state = "ok" => manifest'[u] = manifest[u]
    BY <1>1, <1>2 DEF TypesOK, TypeOK, TornManifest
  <2> QED
    BY <1>0, <1>2, <2>1, GiveUpQuietly
<1>3. CASE /\ manifest' = [manifest EXCEPT ![t] = [state |-> "ok", changes |-> cs]]
           /\ End(TRUE)
  <2>1. AbsentIsAbsent'
    BY <1>0 DEF UndoInv, AbsentIsAbsent
  <2>2. Journal(cs) /\ Undoable(t, cs) /\ Written(op.next)
    BY <1>0 DEF UndoInv, CallUndoes, CallWrites
  <2>3. ManifestsUndo'
    <3>1. /\ manifest'[t].changes = cs
          /\ \A u \in Targets \ {t} : manifest'[u] = manifest[u]
      BY <1>1, <1>3 DEF TypesOK, TypeOK
    <3> SUFFICES ASSUME NEW u \in Targets, manifest'[u].state = "ok",
                        NEW ds, ds = manifest'[u].changes
                 PROVE  Journal(ds) /\ Undoable(u, ds)'
      BY DEF ManifestsUndo, Journal, FileChanged
    <3>2. Journal(ds) /\ Undoable(u, ds)
      BY <2>2, <3>1 DEF UndoInv, ManifestsUndo
    <3> QED
      BY <1>0, <3>2, UndoableStays
  <2>4. \A f \in Untouched(t) : HoldsHook(t, f)
    <3> SUFFICES ASSUME NEW k \in DOMAIN Layout[t], Layout[t][k] \notin touched[t]
                 PROVE  HoldsHook(t, Layout[t][k])
      BY DEF Untouched
    <3>1. k < op.next /\ Layout[t][k] \in Files
      BY <1>1
    <3> QED
      BY <2>2, <3>1 DEF Written, Alone
  <2>5. \A f \in {Layout[t][i] : i \in DOMAIN Layout[t]} \ touched'[t] :
          file'[f].ours /\ (f \notin Owned => file'[f].user = base'[t][f].user)
    BY <1>0, <2>4 DEF Untouched, HoldsHook
  <2>6. result'.target = t /\ result'.ok = TRUE /\ result'.at = "edit"
    BY <1>0, <1>3, EndResult
  <2>7. PatchEndsWhole'
    BY <2>5, <2>6 DEF PatchEndsWhole, Ended, Untouched
  <2>8. RestoredExactly'
    BY <2>6 DEF RestoredExactly
  <2> QED
    BY <1>3, <2>1, <2>3, <2>7, <2>8, EndResult, CallEnds DEF UndoInv
<1> QED
  BY <1>2, <1>3 DEF SaveManifest

-----------------------------------------------------------------------------
(* The user, and the steps of the host                                     *)

\* A call that ended was one for a target.
ResultOK == result.call # "none" => result.target \in Targets

LEMMA ResultStep == IInv /\ ResultOK /\ [Next]_vars => ResultOK'
<1> SUFFICES ASSUME IInv, ResultOK, [Next]_vars PROVE ResultOK'
  OBVIOUS
<1>1. ASSUME result' = result \/ result' = NoResult PROVE ResultOK'
  BY <1>1 DEF ResultOK, NoResult
<1>2. ASSUME NEW ok, End(ok), op.pc # "idle" PROVE ResultOK'
  BY <1>2, EndResult DEF ResultOK, IInv, TypesOK, CallOK
<1>3. Revert => ResultOK'
  BY <1>1, <1>2 DEF Revert, Load, Continue, Rollback, UndoDir, UndoFile, UndoFileFails, Forget,
     DropBackups
<1>4. Apply => ResultOK'
  BY <1>1, <1>2 DEF Apply, MkdirAll, ReadConfig, CopyAside, WriteFile, WriteFileFails,
     SaveManifest, RolledBack
<1>5. ASSUME \/ \E t \in Targets : Begin(t, "patch") \/ Begin(t, "unpatch")
             \/ \E f \in Files : UserEdit(f)
             \/ Crash
             \/ UNCHANGED vars
      PROVE  ResultOK'
  BY <1>1, <1>5 DEF Begin, UserEdit, Crash, vars
<1> QED
  BY <1>3, <1>4, <1>5 DEF Next


LEMMA BeginKeeps ==
  ASSUME IInv, UndoInv, NEW t \in Targets, NEW call, Begin(t, call)
  PROVE  UndoInv'
<1>1. op'.pc = "load" /\ UNCHANGED <<file, manifest, backups, base, touched>>
  BY IdleTypes DEF Begin, Calls
<1>2. CallUndoes' /\ CallWrites'
  BY <1>1 DEF CallUndoes, CallWrites
<1> QED
  BY <1>1, <1>2, FilesQuiet, CallGoesOn DEF UndoInv

LEMMA CrashKeeps == IInv /\ UndoInv /\ Crash => UndoInv'
<1> SUFFICES ASSUME IInv, UndoInv, Crash PROVE UndoInv'
  OBVIOUS
<1> SUFFICES ASSUME NEW t, t = op.target PROVE UndoInv'
  OBVIOUS
<1>0. op' = Idle /\ op'.pc = "idle" /\ result' = NoResult /\ UNCHANGED <<backups, base>>
      /\ TypesOK
  BY IdleTypes DEF Crash, IInv
<1>1. \A u \in Targets : manifest'[u].state = "ok" => manifest'[u] = manifest[u]
  BY DEF Crash, TornManifest, IInv, TypesOK, TypeOK
<1>2. CallUndoes' /\ CallWrites' /\ RestoredExactly' /\ PatchEndsWhole'
  BY <1>0, CallEnds DEF RestoredExactly, PatchEndsWhole, Ended, NoResult
<1>3. CASE file' = file /\ touched' = touched
  <2>1. ManifestsUndo'
    BY <1>0, <1>1, <1>3, ManifestsLeft
  <2>2. AbsentIsAbsent'
    BY <1>0, <1>3 DEF UndoInv, AbsentIsAbsent
  <2> QED
    BY <1>2, <2>1, <2>2 DEF UndoInv
<1>4. ASSUME NEW f \in Writing, NEW c \in {Empty, Torn}, file' = [file EXCEPT ![f] = c],
             touched' = TouchedBy(t, f)
      PROVE  UndoInv'
  <2>1. f \in Files /\ file \in [Files -> Content] /\ touched \in [Targets -> SUBSET Files]
    BY <1>0, WritingTypes DEF Crash, TypesOK, TypeOK
  <2>2. AbsentIsAbsent'
    BY <1>0, <1>4, <2>1 DEF UndoInv, AbsentIsAbsent, Empty, Torn
  <2>3. /\ \A u \in Targets : touched[u] \subseteq touched'[u] /\ (u # t => f \in touched'[u])
        /\ \A g \in Files : g # f => file'[g] = file[g]
    BY <1>4, <2>1 DEF TouchedBy
  <2>4. ManifestsUndo'
    <3>1. CASE op.pc = "write"
      <4>1. manifest[t].state # "ok"
        BY <3>1 DEF IInv, NotYetRecorded
      <4> QED
        BY <1>0, <1>1, <2>3, <4>1, ManifestsLeft
    <3>2. CASE Undoing /\ Item.kind = "file" /\ op.pc # "write"
      <4>1. f = Item.path
        BY <1>4, <3>2 DEF Writing
      <4>2. manifest' = manifest
        BY <3>2 DEF Crash, Undoing
      <4>3. PICK cs : cs = op.changes
        OBVIOUS
      <4>4. \A g \in Files : \/ file'[g] = file[g]
                             \/ /\ Item.kind = "file" /\ g = Item.path
                                /\ \A u \in Targets : u # op.target => g \in touched'[u]
        BY <2>3, <3>2, <4>1
      <4> QED
        BY <1>0, <2>3, <3>2, <4>2, <4>3, <4>4, UndoingStays
    <3> QED
      BY <1>4, <3>1, <3>2 DEF Writing
  <2> QED
    BY <1>2, <2>2, <2>4 DEF UndoInv
<1> QED
  BY <1>3, <1>4 DEF Crash

LEMMA UserEditKeeps ==
  ASSUME IInv, UndoInv, ResultOK, NEW f \in Files, UserEdit(f)
  PROVE  UndoInv'
<1>0. UNCHANGED <<manifest, backups, op, base, result>> /\ touched' = TouchedBy(NoTarget, f)
  BY DEF UserEdit
<1>1. file \in [Files -> Content] /\ touched \in [Targets -> SUBSET Files]
  BY DEF IInv, TypesOK, TypeOK
<1>2. PICK c : file' = [file EXCEPT ![f] = c] /\ (c.state = "absent" => c = Absent)
  BY DEF UserEdit
<1>3. AbsentIsAbsent'
  BY <1>0, <1>1, <1>2 DEF UndoInv, AbsentIsAbsent
<1>4. \A u \in Targets : /\ touched[u] \subseteq touched'[u] /\ f \in touched'[u]
                         /\ \A g \in Files : file'[g] = file[g] \/ g \in touched'[u]
  BY <1>0, <1>1, <1>2, JournalAssumption DEF TouchedBy
<1>5. ManifestsUndo'
  BY <1>0, <1>4, ManifestsLeft
\* Files nobody else changed are as they were.
<1>6. \A u \in Targets : \A g \in Files : g \notin touched'[u] => g \notin touched[u] /\ file'[g] = file[g]
  BY <1>4
<1>7. op.pc # "idle" => op.target \in Targets
  BY DEF IInv, TypesOK, CallOK
<1>8. CallUndoes'
  <2>1. ASSUME op.pc \in {"mkdir", "edit", "copy", "write", "back", "backDrop"}
        PROVE  Journal(op.changes)' /\ Undoable(op.target, op.changes)'
    <3>1. PICK t \in Targets : t = op.target
      BY <1>7, <2>1
    <3>2. PICK cs : cs = op.changes
      OBVIOUS
    <3>3. Journal(cs) /\ Undoable(t, cs)
      BY <2>1, <3>1, <3>2 DEF UndoInv, CallUndoes
    <3>4. Undoable(t, cs)'
      BY <1>0, <1>4, <3>3, UndoableStays
    <3> QED
      BY <1>0, <3>1, <3>2, <3>3, <3>4 DEF Journal, Undoable, Alone, Saved, FileChanged
  <2>2. ASSUME op.pc \in {"undo", "back", "backDrop"}, ~ op.failed
        PROVE  Undone(op.target, op.changes, op.at)'
    <3>1. PICK t \in Targets : t = op.target
      BY <1>7, <2>2
    <3>2. PICK cs, at : cs = op.changes /\ at = op.at
      OBVIOUS
    <3>3. Undone(t, cs, at)
      BY <2>2, <3>1, <3>2 DEF UndoInv, CallUndoes
    <3>4. Undone(t, cs, at)'
      BY <1>0, <1>4, <3>3, UndoneStays
    <3> QED
      BY <1>0, <3>1, <3>2, <3>4 DEF Undone, Alone, FileChanged
  <2>3. op.pc = "clean" => AsBefore(op.target)'
    BY <1>0, <1>6, <1>7 DEF UndoInv, CallUndoes, AsBefore, Alone
  <2> QED
    BY <1>0, <2>1, <2>2, <2>3 DEF UndoInv, CallUndoes
<1>9. CallWrites'
  <2>1. op.pc \in {"edit", "copy", "write"} => Written(op.next)'
    <3>1. op.pc \in {"edit", "copy", "write"} => Written(op.next)
      BY DEF UndoInv, CallWrites
    <3> QED
      BY <1>0, <1>6, <1>7, <3>1 DEF Written, Alone, HoldsHook
  <2>2. Current' = Current
    BY <1>0 DEF Current
  <2>3. op.pc \in {"copy", "write"} /\ Current \in Alone(op.target)' => Current \in Alone(op.target)
    BY <1>0, <1>6, <1>7 DEF Alone
  <2> QED
    BY <1>0, <2>1, <2>2, <2>3 DEF UndoInv, CallWrites, Saved
<1>10. RestoredExactly' /\ PatchEndsWhole'
  <2> SUFFICES ASSUME NEW t, t = result.target PROVE RestoredExactly' /\ PatchEndsWhole'
    OBVIOUS
  <2>1. result.call # "none" =>
          \A g \in {Layout[t][i] : i \in DOMAIN Layout[t]} \ touched'[t] :
            g \in Untouched(t) /\ file'[g] = file[g]
    BY <1>6, JournalAssumption DEF ResultOK, Untouched
  <2>3. RestoredExactly'
    BY <1>0, <2>1 DEF UndoInv, RestoredExactly, Untouched, Ended
  <2>4. PatchEndsWhole'
    BY <1>0, <2>1 DEF UndoInv, PatchEndsWhole, Untouched, Ended
  <2> QED
    BY <2>3, <2>4
<1> QED
  BY <1>3, <1>5, <1>8, <1>9, <1>10 DEF UndoInv

LEMMA UndoStep == IInv /\ ResultOK /\ UndoInv /\ [Next]_vars => UndoInv'
<1> SUFFICES ASSUME IInv, ResultOK, UndoInv, [Next]_vars PROVE UndoInv'
  BY SMTT(40)
<1>1. CASE UNCHANGED vars
  BY <1>1 DEF vars, UndoInv, AbsentIsAbsent, ManifestsUndo, CallUndoes, CallWrites, Written,
     Undoable, Undone, AsBefore, Alone, Saved, HoldsHook, Current, RestoredExactly,
     PatchEndsWhole, Ended, Untouched
<1>2. CASE Next
  BY <1>2, BeginKeeps, LoadKeeps, UndoDirKeeps, UndoFileKeeps, UndoFileFailsKeeps, ForgetKeeps,
     DropBackupsKeeps, MkdirAllKeeps, ReadConfigKeeps, CopyAsideKeeps, WriteFileKeeps,
     WriteFileFailsKeeps, SaveManifestKeeps, RolledBackKeeps, UserEditKeeps, CrashKeeps
     DEF Next, Revert, Rollback, Apply
<1> QED
  BY <1>1, <1>2

LEMMA UndoInvariant == Spec => []UndoInv
<1>1. Init => ResultOK
  BY DEF Init, ResultOK, NoResult
<1> QED
  BY <1>1, InvariantHolds, UndoInit, UndoStep, ResultStep, PTL DEF Spec

(* An unpatch that undid a patch gives back every file that nobody else     *)
(* changed, as it was before the patch: for any installations, layouts and  *)
(* number of failures and crashes, the journal of state.go loses no file.   *)
THEOREM UnpatchRestores == Spec => []RestoredExactly
<1>1. UndoInv => RestoredExactly
  BY DEF UndoInv
<1> QED
  BY <1>1, UndoInvariant, PTL

(* A patch that reports success has left its hook in every file and the     *)
(* user's text in the merged ones; one that failed and rolled back without a *)
(* failure has put every file back that the failed write did not change.    *)
THEOREM PatchesEndWhole == Spec => []PatchEndsWhole
<1>1. UndoInv => PatchEndsWhole
  BY DEF UndoInv
<1> QED
  BY <1>1, UndoInvariant, PTL
=============================================================================
