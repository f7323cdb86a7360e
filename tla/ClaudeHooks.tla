---------------------------- MODULE ClaudeHooks ----------------------------
(* The hook commands in Claude Code's settings.json and the three places    *)
(* Claude Desktop is patched in on Windows: patch/claude_code.go and        *)
(* patch/claude_desktop.go.                                                 *)
(*                                                                          *)
(* Both agents share one command per hook event, whose arguments name the   *)
(* agents that claim it.  Everything else in settings.json is the user's.   *)
(* An update of the file is one step here: what two updates that overlap do *)
(* to each other is the subject of LlmSettings.  A group that is no object  *)
(* or has no handlers is copied as it is, like one of the user's handlers.  *)
EXTENDS Naturals, Sequences, FiniteSets, SequencesExt

CONSTANTS
  HookEvents,       \* the hook events aiguard installs a command for
  UserNames,        \* the names of the user's handlers
  HookFiles,        \* what "hooks" may hold before aiguard comes
  MaxHandEdits,     \* how often the user or an upgrade changes the handlers
  MaxTroubles       \* failed steps and crashes

ASSUME HooksAssumption ==
  HookEvents # {} /\ MaxHandEdits \in Nat /\ MaxTroubles \in Nat

VARIABLES
  hooks,            \* "hooks" of settings.json
  server,           \* Claude Desktop's config names aiguard's MCP server
  serverManifest,         \* that edit is in the journal
  monitor,          \* Cowork's audit logs are tailed
  desktop,          \* the Patch or Unpatch of Claude Desktop under way
  done,             \* what last succeeded for each agent, if still undisturbed
  handEdits, troubles

hookVars == <<hooks, server, serverManifest, monitor, desktop, done, handEdits, troubles>>

HookAgents == {"claude-code", "claude-desktop"}
NoDesktopCall == [op |-> "none"]

-----------------------------------------------------------------------------
(* Handlers, and the groups of an event.                                    *)

Own(claims, fresh) == [mine |-> TRUE, claims |-> claims, fresh |-> fresh]
Users(name) == [mine |-> FALSE, claims |-> {name}, fresh |-> TRUE]
NoEvent == [shape |-> "none", groups |-> <<>>]
Listing(groups) == [shape |-> "list", groups |-> groups]

OwnHandlers(groups) ==
  UNION {{<<g, i>> : i \in {j \in DOMAIN groups[g] : groups[g][j].mine}} : g \in DOMAIN groups}

Handler == [mine : {TRUE}, claims : SUBSET HookAgents, fresh : BOOLEAN]
             \cup {Users(name) : name \in UserNames \cup {"mine"}}

\* What settings.json can hold: an event that is no list, or "hooks" that are
\* no object, have no handlers of aiguard's.
HooksTyped(hs) ==
  /\ hs \in [shape  : {"none", "odd", "object"},
             events : [HookEvents -> [shape : {"none", "odd", "list"}, groups : Seq(Seq(Handler))]]]
  /\ hs.shape # "object" => \A e \in HookEvents : hs.events[e] = NoEvent
  /\ \A e \in HookEvents :
       hs.events[e].shape # "list" => OwnHandlers(hs.events[e].groups) = {}

ASSUME HookFilesAssumption == \A hs \in HookFiles : HooksTyped(hs)

\* claudeCodeHookClaims: a handler from before there were claims is the CLI's.
Claims(hs) ==
  LET own    == {h \in UNION {ToSet(FlattenSeq(hs.events[e].groups)) : e \in HookEvents} : h.mine}
      claims == UNION {h.claims : h \in own}
  IN IF own # {} /\ claims = {} THEN {"claude-code"} ELSE claims

IsCurrent(h, claims) == h.mine /\ h.fresh /\ h.claims = claims

\* The groups with only the handlers Keep allows; a group it empties goes.
Filtered(groups, Keep(_, _)) ==
  LET handlers(g) == FlattenSeq([i \in DOMAIN groups[g] |-> Keep(g, i)])
  IN FlattenSeq([g \in DOMAIN groups |->
       IF handlers(g) = <<>> /\ groups[g] # <<>> THEN <<>> ELSE <<handlers(g)>>])

\* mergeClaudeCodeHook: the first handler of ours is refreshed in place, any
\* other is a duplicate; without one, a group is added.
Merged(groups, claims) ==
  LET own     == OwnHandlers(groups)
      first   == CHOOSE a \in own : \A b \in own : a[1] < b[1] \/ (a[1] = b[1] /\ a[2] <= b[2])
      keep(g, i) == IF ~groups[g][i].mine THEN <<groups[g][i]>>
                    ELSE IF <<g, i>> = first THEN <<Own(claims, TRUE)>> ELSE <<>>
  IN IF own = {} THEN Append(groups, <<Own(claims, TRUE)>>)
     ELSE Filtered(groups, keep)

\* Mutant: a group goes with aiguard's handler in it.
WithoutGroups(groups) ==
  SelectSeq(groups, LAMBDA g : \A i \in DOMAIN g : ~g[i].mine)

Without(groups) ==
  Filtered(groups, LAMBDA g, i : IF groups[g][i].mine THEN <<>> ELSE <<groups[g][i]>>)

Installable(hs) ==
  hs.shape # "odd" /\ \A e \in HookEvents : hs.events[e].shape # "odd"

Installed(hs, claims) ==
  [shape  |-> "object",
   events |-> [e \in HookEvents |-> Listing(Merged(hs.events[e].groups, claims))]]

Removed(hs) ==
  LET left(e) == IF OwnHandlers(hs.events[e].groups) = {} THEN hs.events[e]
                 ELSE IF Without(hs.events[e].groups) = <<>> THEN NoEvent
                 ELSE Listing(Without(hs.events[e].groups))
      events  == [e \in HookEvents |-> left(e)]
  IN IF events = hs.events THEN hs
     ELSE [shape  |-> IF \A e \in HookEvents : events[e] = NoEvent THEN "none" ELSE "object",
           events |-> events]

-----------------------------------------------------------------------------
(* updateClaudeCodeHooks and what Status makes of the file.                 *)

\* Mutant: the other agent's claim is overwritten.
UpdatedAlone(hs, agent, add) ==
  IF add THEN Installed(hs, {agent})
  ELSE IF agent \notin Claims(hs) THEN hs ELSE Removed(hs)

\* The file afterwards; an error leaves it as it is.
Updated(hs, agent, add) ==
  LET claims == IF add THEN Claims(hs) \cup {agent} ELSE Claims(hs) \ {agent}
  IN IF ~add /\ agent \notin Claims(hs) THEN hs
     ELSE IF claims = {} THEN Removed(hs)
     ELSE Installed(hs, claims)

CanUpdate(hs, agent, add) ==
  (add \/ Claims(hs) \ {agent} # {}) /\ (add \/ agent \in Claims(hs)) => Installable(hs)

HooksActive(hs, agent) ==
  /\ agent \in Claims(hs)
  /\ \A e \in HookEvents :
       LET groups == hs.events[e].groups
       IN /\ Cardinality(OwnHandlers(groups)) = 1
          /\ \A at \in OwnHandlers(groups) : IsCurrent(groups[at[1]][at[2]], Claims(hs))

DesktopActive == server /\ (serverManifest => monitor /\ HooksActive(hooks, "claude-desktop"))

-----------------------------------------------------------------------------
(* The operations.                                                          *)

Trouble == troubles < MaxTroubles /\ troubles' = troubles + 1
Others == UNCHANGED <<server, serverManifest, monitor, desktop, handEdits>>

UpdateCode(add) ==
  /\ CanUpdate(hooks, "claude-code", add)
  /\ hooks' = Updated(hooks, "claude-code", add)
  /\ done' = [done EXCEPT !["claude-code"] = IF add THEN "patched" ELSE "unpatched"]
  /\ Others /\ UNCHANGED troubles

BeginDesktop(op) ==
  /\ desktop = NoDesktopCall
  /\ desktop' = [op |-> op, stage |-> "server", failed |-> FALSE, edits |-> handEdits]
  /\ done' = [done EXCEPT !["claude-desktop"] = "none"]
  /\ UNCHANGED <<hooks, server, serverManifest, monitor, handEdits, troubles>>

NextStage(stage) == IF stage = "server" THEN "hooks" ELSE "monitor"

\* The next stage; after the last one, or a failed stage of a Patch, the end.
Advance(fails) ==
  LET failed == desktop.failed \/ fails
      ends   == desktop.stage = "monitor" \/ (fails /\ desktop.op = "patch")
  IN /\ desktop' = IF ends THEN NoDesktopCall
                   ELSE [desktop EXCEPT !.stage = NextStage(@), !.failed = failed]
     /\ done' = IF ends /\ ~failed /\ desktop.edits = handEdits
                THEN [done EXCEPT !["claude-desktop"] =
                        IF desktop.op = "patch" THEN "patched" ELSE "unpatched"]
                ELSE done

\* Apply writes the entry and its journal; Revert is a no-op without one.
ServerStage ==
  /\ desktop # NoDesktopCall /\ desktop.stage = "server"
  /\ server' = IF desktop.op = "patch" THEN TRUE ELSE server /\ ~serverManifest
  /\ serverManifest' = (desktop.op = "patch")
  /\ Advance(FALSE)
  /\ UNCHANGED <<hooks, monitor, handEdits, troubles>>

HooksStage ==
  /\ desktop # NoDesktopCall /\ desktop.stage = "hooks"
  /\ LET add == desktop.op = "patch"
     IN IF CanUpdate(hooks, "claude-desktop", add)
        THEN hooks' = Updated(hooks, "claude-desktop", add) /\ Advance(FALSE)
        ELSE UNCHANGED hooks /\ Advance(TRUE)
  /\ UNCHANGED <<server, serverManifest, monitor, handEdits, troubles>>

MonitorStage ==
  /\ desktop # NoDesktopCall /\ desktop.stage = "monitor"
  /\ monitor' = (desktop.op = "patch")
  /\ Advance(FALSE)
  /\ UNCHANGED <<hooks, server, serverManifest, handEdits, troubles>>

\* A stage fails: Patch stops there and leaves the stages before it in place,
\* Unpatch goes on with the others and reports the errors together.  An Apply
\* that fails has undone the patch before it.
StageFails ==
  /\ Trouble
  /\ desktop # NoDesktopCall
  /\ Advance(TRUE)
  /\ IF desktop.stage = "server" /\ desktop.op = "patch"
     THEN server' = (server /\ ~serverManifest) /\ serverManifest' = FALSE
     ELSE UNCHANGED <<server, serverManifest>>
  /\ UNCHANGED <<hooks, monitor, handEdits>>

\* aiguard is killed between two stages.
KilledBetweenStages ==
  /\ Trouble
  /\ desktop # NoDesktopCall
  /\ desktop' = NoDesktopCall
  /\ UNCHANGED <<hooks, server, serverManifest, monitor, done, handEdits>>

Outdated(hs) ==
  LET old(h)   == [h EXCEPT !.fresh = ~h.mine]
      group(g) == [i \in DOMAIN g |-> old(g[i])]
      event(v) == [v EXCEPT !.groups = [g \in DOMAIN v.groups |-> group(v.groups[g])]]
  IN [hs EXCEPT !.events = [e \in HookEvents |-> event(hs.events[e])]]

\* The user adds a handler of his own, copies a group or deletes an event, or
\* an upgrade of aiguard makes every handler out of date.
HandEdit(e, how) ==
  /\ handEdits < MaxHandEdits /\ handEdits' = handEdits + 1
  /\ hooks.shape = "object" /\ hooks.events[e].shape = "list" /\ hooks.events[e].groups # <<>>
  /\ LET groups == hooks.events[e].groups
         with(v) == [hooks EXCEPT !.events[e] = v]
     IN hooks' = CASE how = "add" -> with(Listing([groups EXCEPT ![1] = Append(@, Users("mine"))]))
                   [] how = "copy" -> with(Listing(groups \o <<groups[1]>>))
                   [] how = "delete" -> with(NoEvent)
                   [] OTHER -> Outdated(hooks)
  /\ done' = [a \in HookAgents |-> "none"]
  /\ UNCHANGED <<server, serverManifest, monitor, desktop, troubles>>

HooksInit ==
  /\ hooks \in HookFiles
  /\ server = FALSE /\ serverManifest = FALSE /\ monitor = FALSE
  /\ desktop = NoDesktopCall
  /\ done = [a \in HookAgents |-> "none"]
  /\ handEdits = 0 /\ troubles = 0

HooksNext ==
  \/ \E add \in BOOLEAN : UpdateCode(add)
  \/ \E op \in {"patch", "unpatch"} : BeginDesktop(op)
  \/ ServerStage \/ HooksStage \/ MonitorStage
  \/ StageFails \/ KilledBetweenStages
  \/ \E e \in HookEvents, how \in {"add", "copy", "delete", "upgrade"} : HandEdit(e, how)

HooksSpec == HooksInit /\ [][HooksNext]_hookVars

-----------------------------------------------------------------------------
\* The types of the variables.
HooksTypeOK ==
  /\ HooksTyped(hooks)
  /\ Claims(hooks) \subseteq HookAgents
  /\ server \in BOOLEAN /\ serverManifest \in BOOLEAN /\ monitor \in BOOLEAN
  /\ desktop = NoDesktopCall
     \/ desktop \in [op : {"patch", "unpatch"}, stage : {"server", "hooks", "monitor"},
                     failed : BOOLEAN, edits : 0..MaxHandEdits]
  /\ done \in [HookAgents -> {"none", "patched", "unpatched"}]
  /\ handEdits \in 0..MaxHandEdits /\ troubles \in 0..MaxTroubles

\* The handlers of a list that are aiguard's, or that are the user's.
HandlersOf(list, mine) ==
  FlattenSeq([i \in DOMAIN list |-> IF list[i].mine = mine THEN <<list[i]>> ELSE <<>>])
UserHandlers(hs, e) == HandlersOf(FlattenSeq(hs.events[e].groups), FALSE)

\* No update takes, adds or moves a handler of the user's, in groups shared
\* with aiguard's own too (claude_code.go:425-427).
UserHandlersStay ==
  [][handEdits' = handEdits =>
       /\ \A e \in HookEvents : UserHandlers(hooks', e) = UserHandlers(hooks, e)
       /\ hooks.shape = "odd" => hooks' = hooks]_hookVars

\* An agent whose Patch succeeded shows as patched, and stays so when the other
\* one is patched, refreshed or unpatched: they share every handler.  An Unpatch
\* that succeeded leaves nothing of its agent, however many stages of a Patch
\* before it failed, and the last one leaves no handler of aiguard's.
HooksFollowPatch ==
  /\ done["claude-code"] = "patched" => HooksActive(hooks, "claude-code")
  /\ done["claude-desktop"] = "patched" => server /\ serverManifest /\ DesktopActive
  /\ done["claude-code"] = "unpatched" => "claude-code" \notin Claims(hooks)
  /\ done["claude-desktop"] = "unpatched" =>
       ~serverManifest /\ ~server /\ ~monitor /\ "claude-desktop" \notin Claims(hooks)
  /\ (\A a \in HookAgents : done[a] = "unpatched") =>
       \A e \in HookEvents : OwnHandlers(hooks.events[e].groups) = {}
=============================================================================
