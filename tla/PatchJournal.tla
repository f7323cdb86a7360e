---------------------------- MODULE PatchJournal ----------------------------
(***************************************************************************)
(* The patch journal of patch/state.go and the patchers built on it        *)
(* (openclaw.go, claude_desktop.go): a patch edits files that belong to an *)
(* agent, keeps a copy of each, and records in a manifest how to undo it.  *)
(*                                                                         *)
(* stateMutex admits one patch or unpatch at a time.  Its steps interleave *)
(* with the user, who edits the same files, and with a crash.  A write     *)
(* that fails, or is cut off, may leave the file empty or torn.            *)
(***************************************************************************)
EXTENDS Integers, Sequences, FiniteSets

CONSTANTS
  Targets,     \* installations
  Files,       \* files the patches edit
  Owned,       \* files aiguard writes whole; the others are merged into
  Dirs, NoDir, \* directories a patch may create
  InDir,       \* InDir[f]: the directory f is in, NoDir if it always exists
  HookDir,     \* HookDir[t]: the directory a patch of t makes first
  Layout,      \* Layout[t]: the files a patch of t writes, in order
  NoTarget,
  MaxMishaps   \* bound: edits by the user, failed steps and crashes together

ASSUME JournalAssumption ==
  /\ Owned \subseteq Files
  /\ NoDir \notin Dirs /\ NoTarget \notin Targets
  /\ InDir \in [Files -> Dirs \union {NoDir}]
  /\ HookDir \in [Targets -> Dirs]
  /\ Layout \in [Targets -> Seq(Files)]
  /\ \A t \in Targets : \A i, j \in DOMAIN Layout[t] :
       Layout[t][i] = Layout[t][j] => i = j
  /\ MaxMishaps \in Nat

VARIABLES
  file,      \* file[f]: what is on disk
  dirs,      \* the directories that exist
  manifest,  \* manifest[t]: [state, changes]
  backups,   \* backups[t][n]: the copy made for the nth change
  op,        \* the call that holds stateMutex
  base,      \* history: base[t][f], the files before the edits of t's patch
  touched,   \* history: files changed since by someone other than t's patch
  result,    \* history: how the last call ended
  mishaps    \* how much of the bound is used up

vars == <<file, dirs, manifest, backups, op, base, touched, result, mishaps>>

-----------------------------------------------------------------------------
(* user counts the user's versions of a file; ours says that the file holds *)
(* aiguard's hook.                                                          *)
Content == [state : {"absent", "text", "torn"}, user : Nat, ours : BOOLEAN]
Absent  == [state |-> "absent", user |-> 0, ours |-> FALSE]
Empty   == [state |-> "text", user |-> 0, ours |-> FALSE]
Original == [state |-> "text", user |-> 1, ours |-> FALSE]
Torn    == [state |-> "torn", user |-> 0, ours |-> FALSE]

\* os.WriteFile truncates first, so a failure may come before or after that.
Unfinished(c) == {c, Empty, Torn}

\* backup is the number of the copy, 0 when the file did not exist.
Change == [kind : {"file"}, path : Files, backup : Nat]
            \union [kind : {"dir"}, path : Dirs, backup : {0}]

NoManifest == [state |-> "absent", changes |-> <<>>]
TornManifest == [state |-> "torn", changes |-> <<>>]
NoBackups == [n \in {} |-> Absent]

Idle == [call |-> "none", target |-> NoTarget, pc |-> "idle", changes |-> <<>>,
         at |-> 0, next |-> 0, read |-> Absent, failed |-> FALSE]

NoResult == [call |-> "none", target |-> NoTarget, ok |-> FALSE, failed |-> FALSE,
             at |-> "idle"]

InDirectory(d) == {f \in Files : InDir[f] = d /\ file[f].state # "absent"}
Writable(f) == InDir[f] \in dirs \union {NoDir}

Mishap == mishaps < MaxMishaps /\ mishaps' = mishaps + 1

\* The call ends and releases the mutex.
End(ok) ==
  /\ op' = Idle
  /\ result' = [call |-> op.call, target |-> op.target, ok |-> ok,
                failed |-> op.failed, at |-> op.pc]

\* Everyone else's patch sees f changed.
TouchedBy(t, f) ==
  [u \in Targets |-> IF u = t THEN touched[u] ELSE touched[u] \union {f}]

-----------------------------------------------------------------------------
(* A call begins by undoing what is recorded: Revert, and Apply's first step *)

Begin(t, call) ==
  /\ op = Idle
  /\ op' = [Idle EXCEPT !.call = call, !.target = t, !.pc = "load"]
  /\ UNCHANGED <<file, dirs, manifest, backups, base, touched, result, mishaps>>

\* The edits begin from a known state.
Clean(t) ==
  /\ base' = [base EXCEPT ![t] = file]
  /\ touched' = [touched EXCEPT ![t] = {}]

\* What follows once nothing is recorded for the target.
Continue ==
  IF op.call = "patch"
  THEN /\ op' = [op EXCEPT !.pc = "mkdir", !.changes = <<>>]
       /\ Clean(op.target)
       /\ UNCHANGED result
  ELSE End(TRUE) /\ UNCHANGED <<base, touched>>

Load ==
  LET m == manifest[op.target] IN
  /\ op.pc = "load"
  /\ \/ m.state = "torn" /\ End(FALSE) /\ UNCHANGED <<base, touched>>
     \/ m.state = "absent" /\ Continue
     \/ /\ m.state = "ok"
        /\ op' = [op EXCEPT !.pc = "undo", !.changes = m.changes, !.at = Len(m.changes)]
        /\ UNCHANGED <<base, touched, result>>
  /\ UNCHANGED <<file, dirs, manifest, backups, mishaps>>

-----------------------------------------------------------------------------
(* rollback: the changes are undone backwards, and a failed step does not   *)
(* stop it                                                                  *)

Next1 == [op EXCEPT !.at = @ - 1]
Item == op.changes[op.at]
Undoing == op.pc \in {"undo", "back", "backDrop"} /\ op.at > 0

\* os.Remove refuses a directory with something in it.
UndoDir ==
  /\ Undoing /\ Item.kind = "dir"
  /\ dirs' = IF InDirectory(Item.path) = {} THEN dirs \ {Item.path} ELSE dirs
  /\ op' = Next1
  /\ UNCHANGED <<file, manifest, backups, base, touched, result, mishaps>>

\* A file that had a copy gets it back; one that did not exist is deleted.
CopyOf(item) == backups[op.target][item.backup]
RestoredIfPresent(item) ==
  IF item.backup = 0 THEN file[item.path]
  ELSE CopyOf(item)
Restored(item) == IF item.backup = 0 THEN Absent ELSE CopyOf(item)
Restorable(item) ==
  item.backup # 0 =>
    Writable(item.path) /\ item.backup \in DOMAIN backups[op.target]

UndoFile ==
  /\ Undoing /\ Item.kind = "file"
  /\ Restorable(Item)
  /\ file' = [file EXCEPT ![Item.path] = Restored(Item)]
  /\ touched' = TouchedBy(op.target, Item.path)
  /\ op' = Next1
  /\ UNCHANGED <<dirs, manifest, backups, base, result, mishaps>>

\* The step fails: no copy, no directory, or the write itself fails.
UndoFileFails ==
  /\ Undoing /\ Item.kind = "file"
  /\ \/ ~ Restorable(Item) /\ UNCHANGED <<file, touched, mishaps>>
     \/ /\ Restorable(Item) /\ Mishap
        /\ \E c \in IF Item.backup = 0 THEN {file[Item.path]}
                    ELSE Unfinished(file[Item.path]) :
             file' = [file EXCEPT ![Item.path] = c]
        /\ touched' = TouchedBy(op.target, Item.path)
  /\ op' = [Next1 EXCEPT !.failed = TRUE]
  /\ UNCHANGED <<dirs, manifest, backups, base, result>>

ForgetCopiesAnyway ==
  /\ op.pc = "undo" /\ op.at = 0
  /\ \/ /\ op.failed /\ End(FALSE)
        /\ backups' = [backups EXCEPT ![op.target] = NoBackups]
        /\ UNCHANGED manifest
     \/ /\ ~ op.failed
        /\ manifest' = [manifest EXCEPT ![op.target] = NoManifest]
        /\ op' = [op EXCEPT !.pc = "clean"]
        /\ UNCHANGED <<result, backups>>
  /\ UNCHANGED <<file, dirs, base, touched, mishaps>>

\* Revert forgets the manifest only when everything was undone.
Forget ==
  /\ op.pc = "undo" /\ op.at = 0
  /\ \/ /\ op.failed /\ End(FALSE)
        /\ UNCHANGED manifest
     \/ /\ ~ op.failed
        /\ manifest' = [manifest EXCEPT ![op.target] = NoManifest]
        /\ op' = [op EXCEPT !.pc = "clean"]
        /\ UNCHANGED result
  /\ UNCHANGED <<file, dirs, backups, base, touched, mishaps>>

DropBackups ==
  /\ op.pc = "clean"
  /\ backups' = [backups EXCEPT ![op.target] = NoBackups]
  /\ Continue
  /\ UNCHANGED <<file, dirs, manifest, mishaps>>

-----------------------------------------------------------------------------
(* Apply: a patcher's edits through a ChangeSet *)

\* The file edited next.
Current == Layout[op.target][op.next]
MoreFiles == op.next <= Len(Layout[op.target])

RollBackButLast(pc) == [op EXCEPT !.pc = pc, !.at = Len(op.changes) - 1]
RollBack(pc) == [op EXCEPT !.pc = pc, !.at = Len(op.changes)]

\* MkdirAll records only what it creates.
MkdirAll ==
  LET d == HookDir[op.target] IN
  /\ op.pc = "mkdir"
  /\ \/ /\ dirs' = dirs \union {d}
        /\ op' = [op EXCEPT !.pc = "edit", !.next = 1,
             !.changes = IF d \in dirs THEN @
                         ELSE Append(@, [kind |-> "dir", path |-> d, backup |-> 0])]
        /\ UNCHANGED mishaps
     \/ Mishap /\ op' = RollBack("back") /\ UNCHANGED dirs
  /\ UNCHANGED <<file, manifest, backups, base, touched, result>>

\* readJSONObject: a config that does not parse fails the patch.
ReadConfig ==
  /\ op.pc = "edit" /\ MoreFiles
  /\ op' = IF Current \notin Owned /\ file[Current].state = "torn" THEN RollBack("back")
           ELSE [op EXCEPT !.pc = "copy", !.read = file[Current]]
  /\ UNCHANGED <<file, dirs, manifest, backups, base, touched, result, mishaps>>

WithCopy(b, n, c) == [m \in DOMAIN b \union {n} |-> IF m = n THEN c ELSE b[m]]

\* WriteFile first copies what is there.
CopyAside ==
  LET n == Len(op.changes) + 1 IN
  /\ op.pc = "copy"
  /\ \/ /\ backups' = IF file[Current].state = "absent" THEN backups
                      ELSE [backups EXCEPT ![op.target] = WithCopy(@, n, file[Current])]
        /\ op' = [op EXCEPT !.pc = "write",
                            !.at = IF file[Current].state = "absent" THEN 0 ELSE n]
        /\ UNCHANGED mishaps
     \/ Mishap /\ op' = RollBack("back") /\ UNCHANGED backups
  /\ UNCHANGED <<file, dirs, manifest, base, touched, result>>

\* A merged file keeps what was read of the user's; an owned one is replaced.
Patched(f) ==
  [state |-> "text", user |-> IF f \in Owned THEN 0 ELSE op.read.user, ours |-> TRUE]

\* The change is recorded only after the write has succeeded.
WriteFile ==
  /\ op.pc = "write"
  /\ Writable(Current)
  /\ file' = [file EXCEPT ![Current] = Patched(Current)]
  /\ touched' = TouchedBy(op.target, Current)
  /\ op' = [op EXCEPT !.pc = "edit", !.at = 0, !.next = @ + 1,
        !.changes = Append(@, [kind |-> "file", path |-> Current, backup |-> op.at])]
  /\ UNCHANGED <<dirs, manifest, backups, base, result, mishaps>>

WriteFileFails ==
  /\ op.pc = "write"
  /\ \/ ~ Writable(Current) /\ UNCHANGED <<file, touched, mishaps>>
     \/ /\ Writable(Current) /\ Mishap
        /\ \E c \in Unfinished(file[Current]) : file' = [file EXCEPT ![Current] = c]
        /\ touched' = TouchedBy(NoTarget, Current)
  /\ op' = RollBack("back")
  /\ UNCHANGED <<dirs, manifest, backups, base, result>>

\* saveManifest; when it fails the edits are rolled back too.
SaveManifest ==
  /\ op.pc = "edit" /\ ~ MoreFiles
  /\ \/ /\ manifest' = [manifest EXCEPT ![op.target] =
                          [state |-> "ok", changes |-> op.changes]]
        /\ End(TRUE)
        /\ UNCHANGED mishaps
     \/ /\ Mishap
        /\ manifest' \in {manifest,
                          [manifest EXCEPT ![op.target] = TornManifest]}
        /\ op' = RollBack("backDrop")
        /\ UNCHANGED result
  /\ UNCHANGED <<file, dirs, backups, base, touched>>

\* The rollback of a failed patch is over; a failed save also drops what is
\* left of the manifest and the copies.
RolledBack ==
  /\ op.pc \in {"back", "backDrop"} /\ op.at = 0
  /\ IF op.pc = "backDrop"
     THEN /\ manifest' = [manifest EXCEPT ![op.target] = NoManifest]
          /\ backups' = [backups EXCEPT ![op.target] = NoBackups]
     ELSE UNCHANGED <<manifest, backups>>
  /\ End(FALSE)
  /\ UNCHANGED <<file, dirs, base, touched, mishaps>>

-----------------------------------------------------------------------------
(* The user (external) changes or deletes a file; the process dies          *)

UserEdit(f) ==
  /\ Mishap
  /\ Writable(f)
  /\ \/ file' = [file EXCEPT ![f] = Absent]
     \/ \E ours \in {FALSE, file[f].ours} :
          file' = [file EXCEPT ![f] = [state |-> "text", user |-> mishaps' + 1, ours |-> ours]]
  /\ touched' = TouchedBy(NoTarget, f)
  /\ UNCHANGED <<dirs, manifest, backups, op, base, result>>

\* The file a call is writing when the process dies.
Writing ==
  CASE op.pc = "write" -> {Current}
    [] Undoing /\ Item.kind = "file" /\ Item.backup # 0 -> {Item.path}
    [] OTHER -> {}

Crash ==
  /\ op # Idle
  /\ Mishap
  /\ \/ file' = file /\ touched' = touched
     \/ \E f \in Writing : \E c \in {Empty, Torn} :
          /\ Writable(f)
          /\ file' = [file EXCEPT ![f] = c]
          /\ touched' = TouchedBy(op.target, f)
  /\ manifest' \in IF op.pc = "edit" /\ ~ MoreFiles
                   THEN {manifest, [manifest EXCEPT ![op.target] =
                                      TornManifest]}
                   ELSE {manifest}
  /\ op' = Idle
  /\ result' = NoResult
  /\ UNCHANGED <<dirs, backups, base>>

-----------------------------------------------------------------------------
Init ==
  /\ file \in [Files -> {Absent, Original}]
  /\ \A f \in Owned : file[f] = Absent
  /\ dirs = {}
  /\ \A f \in Files : InDir[f] # NoDir => file[f] = Absent
  /\ manifest = [t \in Targets |-> NoManifest]
  /\ backups = [t \in Targets |-> NoBackups]
  /\ op = Idle
  /\ base = [t \in Targets |-> file]
  /\ touched = [t \in Targets |-> {}]
  /\ result = NoResult
  /\ mishaps = 0

Rollback == UndoDir \/ UndoFile \/ UndoFileFails
Revert == Load \/ Rollback \/ Forget \/ DropBackups
Apply == MkdirAll \/ ReadConfig \/ CopyAside \/ WriteFile \/ WriteFileFails
           \/ SaveManifest \/ RolledBack

Next ==
  \/ \E t \in Targets : Begin(t, "patch") \/ Begin(t, "unpatch")
  \/ Revert \/ Apply
  \/ \E f \in Files : UserEdit(f)
  \/ Crash

Spec == Init /\ [][Next]_vars
-----------------------------------------------------------------------------
(* Properties *)

Steps == {"idle", "load", "undo", "clean", "mkdir", "edit", "copy", "write", "back",
          "backDrop"}
Calls == [call : {"none", "patch", "unpatch"}, target : Targets \union {NoTarget},
          pc : Steps, changes : Seq(Change), at : Nat, next : Nat, read : Content, failed : BOOLEAN]

TypeOK ==
  /\ file \in [Files -> Content]
  /\ dirs \subseteq Dirs
  /\ manifest \in [Targets -> [state : {"absent", "ok", "torn"}, changes : Seq(Change)]]
  /\ \A t \in Targets : \A n \in DOMAIN backups[t] : n \in Nat /\ backups[t][n] \in Content
  /\ op \in Calls
  /\ base \in [Targets -> [Files -> Content]]
  /\ touched \in [Targets -> SUBSET Files]
  /\ result \in [call : {"none", "patch", "unpatch"}, target : Targets \union {NoTarget},
                 ok : BOOLEAN, failed : BOOLEAN, at : Steps]
  /\ mishaps \in Nat

Ended(call, ok) == op = Idle /\ result.call = call /\ result.ok = ok

\* Files a patch of t edits that nothing else has changed since it began.
Untouched(t) == {Layout[t][i] : i \in DOMAIN Layout[t]} \ touched[t]

(* As long as a whole manifest is on disk, every copy it needs is there: an  *)
(* unpatch can be repeated after a crash or a failed step of an earlier one, *)
(* and no later patch overwrites or removes the copies.                      *)
CopiesOutliveManifest ==
  \A t \in Targets : manifest[t].state = "ok" =>
    \A i \in DOMAIN manifest[t].changes :
      LET item == manifest[t].changes[i]
      IN item.backup # 0 => item.backup \in DOMAIN backups[t]

(* An unpatch that undid a patch gives back every file as it was before, if  *)
(* nobody else changed it - also when the process died in the middle of an   *)
(* earlier unpatch, and when the patch was itself a re-patch.                *)
RestoredExactly ==
  Ended("unpatch", TRUE) /\ result.at = "clean" =>
    \A f \in Untouched(result.target) : file[f] = base[result.target][f]

(* A patch is whole or undone.  One that reported success left its hook in   *)
(* every file, and in a merged file the text the user had there; one that    *)
(* failed put every file back, unless restoring it failed, or the write that *)
(* failed had already changed it.                                            *)
PatchEndsWhole ==
  /\ Ended("patch", TRUE) =>
       \A f \in Untouched(result.target) :
         /\ file[f].ours
         /\ f \notin Owned => file[f].user = base[result.target][f].user
  /\ Ended("patch", FALSE) /\ result.at \in {"back", "backDrop"} /\ ~ result.failed =>
       \A f \in Untouched(result.target) : file[f] = base[result.target][f]

(* state.go:32: "a half-finished patch must not leave the agent broken":     *)
(* when a patch failed and its rollback did not, no file of the agent that   *)
(* parsed before is torn.                                                    *)
FailedPatchLeavesAgentWhole ==
  Ended("patch", FALSE) /\ result.at \in {"back", "backDrop"} /\ ~ result.failed =>
    \A i \in DOMAIN Layout[result.target] :
      LET f == Layout[result.target][i]
      IN file[f].state = "torn" => base[result.target][f].state = "torn"
=============================================================================
