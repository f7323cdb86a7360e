---------------------------- MODULE LlmSettings ----------------------------
(***************************************************************************)
(* The LLM provider switch: settings.yaml and its copy in memory           *)
(* (object/settings.go), the two handlers that change them                 *)
(* (controllers/settings.go, controllers/llmprovider.go), the settings.json *)
(* of Claude Code the switch edits (patch/claude_code_llm.go), and the hook *)
(* patcher, which edits the same file (patch/claude_code.go).               *)
(*                                                                         *)
(* settingsUpdateMutex admits one update or switch at a time; stateMutex,  *)
(* which a switch takes for its edit of settings.json, adds nothing to     *)
(* that.  The hook patcher takes neither.  A page of the Web UI posts the  *)
(* whole settings it was shown, with its own change.  Files are replaced   *)
(* atomically.                                                              *)
(***************************************************************************)
EXTENDS Integers, FiniteSets

CONSTANTS
  Providers,   \* provider ids
  Keys,        \* API keys (each stands for a saved profile with its key)
  NoKey,       \* a saved profile without a key
  NoProfile,   \* no profile of that id is saved
  Installs,    \* installations (agentId, path, owner)
  NoInstall, NoPage,
  Default,     \* the agent's own provider
  Configs,     \* settings.json files
  ConfigOf,    \* ConfigOf[i]: the file of installation i
  Agents,      \* agent ids
  AgentOf,     \* AgentOf[i]: the agent id of installation i
  Pages,       \* bound: pages of the Web UI
  Hookers,     \* bound: concurrent calls of updateClaudeCodeHooks
  MaxFails, MaxCrashes

ASSUME LlmAssumption ==
  /\ ConfigOf \in [Installs -> Configs]
  /\ AgentOf \in [Installs -> Agents]
  /\ Default \notin Providers /\ NoInstall \notin Installs /\ NoPage \notin Pages
  /\ NoProfile \notin Keys \union {NoKey}
  /\ NoKey \notin Keys
  /\ MaxFails \in Nat /\ MaxCrashes \in Nat

VARIABLES
  up,       \* aiguard runs
  memory,   \* currentSettings
  disk,     \* settings.yaml
  call,     \* the call that holds settingsUpdateMutex
  page,     \* page[g]: the settings page g shows
  config,   \* config[c]: the hooks and the provider in file c
  hooker,   \* hooker[h]: a call of updateClaudeCodeHooks
  wanted,   \* history: config[c], had every change been applied to the last one
  spoiled,  \* history: what went wrong: "stale", "overlap", "undo" or "crash"
  fails, crashes

vars == <<up, memory, disk, call, page, config, hooker, wanted, spoiled, fails, crashes>>

-----------------------------------------------------------------------------
(* Data *)

Settings == [profile : [Providers -> Keys \union {NoKey, NoProfile}],
             active : [Installs -> Providers \union {Default}]]
Config == [hooks : SUBSET Agents, env : Providers \union {Default}]

NoSettings == [profile |-> [p \in Providers |-> NoProfile],
               active |-> [i \in Installs |-> Default]]

Exists(s, p) == s.profile[p] # NoProfile

\* MarshalJSON: a page is never shown a key.
Shown(s) == [profile |-> [p \in Providers |-> IF Exists(s, p) THEN NoKey ELSE NoProfile],
             active |-> s.active]

\* What an operator makes of the page: one profile added, edited or deleted.
Edited(s) ==
  {s} \union {[profile |-> [s.profile EXCEPT ![p] = k], active |-> s.active] :
                p \in Providers, k \in Keys \union {NoProfile}}

\* ValidateProviderRemoval: a provider in use is not deleted.
AlwaysRemovable(current, next) == TRUE
Removable(current, next) ==
  \A i \in Installs : current.active[i] # Default => Exists(next, current.active[i])

\* PreserveApiKeys: a profile posted without a key keeps the one it had.
PostedAsIs(next, current) == next
WithKeys(next, current) ==
  [profile |-> [p \in Providers |->
      IF next.profile[p] = NoKey /\ Exists(current, p) THEN current.profile[p]
      ELSE next.profile[p]],
   active |-> next.active]

SetActive(s, i, p) == [profile |-> s.profile, active |-> [s.active EXCEPT ![i] = p]]

NoCall == [kind |-> "none", pc |-> "idle", next |-> NoSettings,
           install |-> NoInstall, to |-> Default, back |-> Default,
           read |-> [hooks |-> {}, env |-> Default], page |-> NoPage]
NoHooker == [pc |-> "idle", install |-> NoInstall, add |-> FALSE,
             read |-> [hooks |-> {}, env |-> Default]]

MutexFree == up /\ call.pc = "idle"
File == ConfigOf[call.install]

Fail == fails < MaxFails /\ fails' = fails + 1

\* Some hook call has read file c and not written it yet.
Hooking(c) == \E h \in Hookers : hooker[h].pc = "write" /\ ConfigOf[hooker[h].install] = c

-----------------------------------------------------------------------------
(* SaveSettings, at the end of MutateSettingsWithUndo: the file, then memory *)

SaveDisk ==
  /\ call.pc = "save"
  /\ disk' = call.next
  /\ call' = [call EXCEPT !.pc = "publish"]
  /\ UNCHANGED <<up, memory, page, config, hooker, wanted, spoiled, fails, crashes>>

\* The file is as it was; a switch has its edit of the agent's file to undo.
NoUndo == NoCall
PublishAnyway == [call EXCEPT !.pc = "publish"]
AfterFailedSave == IF call.kind = "switch" THEN [call EXCEPT !.pc = "undo"] ELSE NoCall

SaveFails ==
  /\ call.pc = "save"
  /\ Fail
  /\ call' = AfterFailedSave
  /\ UNCHANGED <<up, memory, disk, page, config, hooker, wanted, spoiled, crashes>>

\* SetSettings; an update answers with what was saved.
Publish ==
  /\ call.pc = "publish"
  /\ memory' = call.next
  /\ page' = IF call.kind = "update" THEN [page EXCEPT ![call.page] = Shown(call.next)]
             ELSE page
  /\ call' = NoCall
  /\ UNCHANGED <<up, disk, config, hooker, wanted, spoiled, fails, crashes>>

-----------------------------------------------------------------------------
(* UpdateSettings *)

LoadPage(g) ==
  /\ up
  /\ page' = [page EXCEPT ![g] = Shown(memory)]
  /\ UNCHANGED <<up, memory, disk, call, config, hooker, wanted, spoiled, fails, crashes>>

BeginUpdate(g) ==
  /\ MutexFree
  /\ \E s \in Edited(page[g]) :
       /\ Removable(memory, s)
       /\ call' = [NoCall EXCEPT !.kind = "update", !.pc = "save", !.page = g,
                                 !.next = WithKeys(s, memory)]
  /\ spoiled' = IF page[g].active = memory.active THEN spoiled
                ELSE spoiled \union {"stale"}
  /\ UNCHANGED <<up, memory, disk, page, config, hooker, wanted, fails, crashes>>

-----------------------------------------------------------------------------
(* SetLLMProvider: an unknown provider is an error *)

Known(s, p) == p # Default => Exists(s, p)

BeginSwitch(i, p) ==
  /\ MutexFree
  /\ Known(memory, p)
  /\ call' = [NoCall EXCEPT !.kind = "switch", !.pc = "read", !.install = i, !.to = p,
                            !.back = memory.active[i], !.next = SetActive(memory, i, p)]
  /\ UNCHANGED <<up, memory, disk, page, config, hooker, wanted, spoiled, fails, crashes>>

\* updateClaudeCodeLLMEnv reads the whole file, ...
ReadEnv ==
  /\ call.pc \in {"read", "undo"}
  /\ call.pc = "undo" => Known(call.next, call.back)
  /\ call' = [call EXCEPT !.pc = IF @ = "read" THEN "write" ELSE "undoWrite",
                          !.read = config[File]]
  /\ spoiled' = IF Hooking(File) THEN spoiled \union {"overlap"} ELSE spoiled
  /\ UNCHANGED <<up, memory, disk, page, config, hooker, wanted, fails, crashes>>

\* ... and, if that changes anything, writes it back with the provider's
\* values; every other key stays.
WithEmptyEnv(c, p) == [hooks |-> c.hooks, env |-> IF p = Default THEN NoProfile ELSE p]
WithEnv(c, p) == [hooks |-> c.hooks, env |-> p]

WriteEnv ==
  LET p == IF call.pc = "write" THEN call.to ELSE call.back IN
  /\ call.pc \in {"write", "undoWrite"}
  /\ config' = [config EXCEPT ![File] = IF WithEnv(call.read, p) = call.read THEN @
                                        ELSE WithEnv(call.read, p)]
  /\ wanted' = [wanted EXCEPT ![File] = WithEnv(@, p)]
  /\ call' = IF call.pc = "write" THEN [call EXCEPT !.pc = "save"] ELSE NoCall
  /\ UNCHANGED <<up, memory, disk, page, hooker, spoiled, fails, crashes>>

\* A switch that cannot edit the file changes nothing.
WriteEnvFails ==
  /\ call.pc = "write" /\ Fail
  /\ call' = NoCall
  /\ UNCHANGED <<up, memory, disk, page, config, hooker, wanted, spoiled, crashes>>

\* An undo that fails leaves the agent switched.
UndoFails ==
  /\ \/ call.pc = "undo" /\ ~ Known(call.next, call.back) /\ UNCHANGED fails
     \/ call.pc = "undoWrite" /\ Fail
  /\ call' = NoCall
  /\ spoiled' = spoiled \union {"undo"}
  /\ UNCHANGED <<up, memory, disk, page, config, hooker, wanted, crashes>>

-----------------------------------------------------------------------------
(* updateClaudeCodeHooks: the same file, read and written back unlocked;    *)
(* a claim already made, or already gone, needs no write                    *)

ReadHooks(h, i, add) ==
  LET c == ConfigOf[i] IN
  /\ up /\ hooker[h].pc = "idle"
  /\ add # (AgentOf[i] \in config[c].hooks)
  /\ hooker' = [hooker EXCEPT ![h] = [pc |-> "write", install |-> i, add |-> add,
                                      read |-> config[c]]]
  /\ spoiled' = IF Hooking(c) \/ (call.pc \in {"write", "undoWrite"} /\ File = c)
                THEN spoiled \union {"overlap"} ELSE spoiled
  /\ UNCHANGED <<up, memory, disk, call, page, config, wanted, fails, crashes>>

\* A claim is an agent's; the handler goes with the last one.
WithHook(c, a, add) ==
  [hooks |-> IF add THEN c.hooks \union {a} ELSE c.hooks \ {a}, env |-> c.env]

WriteHooks(h) ==
  LET k == hooker[h]
      c == ConfigOf[k.install]
      a == AgentOf[k.install]
  IN
  /\ k.pc = "write"
  /\ config' = [config EXCEPT ![c] = WithHook(k.read, a, k.add)]
  /\ wanted' = [wanted EXCEPT ![c] = WithHook(@, a, k.add)]
  /\ hooker' = [hooker EXCEPT ![h] = NoHooker]
  /\ UNCHANGED <<up, memory, disk, call, page, spoiled, fails, crashes>>

WriteHooksFails(h) ==
  /\ hooker[h].pc = "write" /\ Fail
  /\ hooker' = [hooker EXCEPT ![h] = NoHooker]
  /\ UNCHANGED <<up, memory, disk, call, page, config, wanted, spoiled, crashes>>

-----------------------------------------------------------------------------
(* The process *)

Crash ==
  /\ up /\ crashes < MaxCrashes /\ crashes' = crashes + 1
  /\ up' = FALSE
  /\ memory' = NoSettings
  /\ call' = NoCall
  /\ hooker' = [h \in Hookers |-> NoHooker]
  /\ spoiled' = IF call.kind = "switch" /\ call.pc \in {"save", "undo", "undoWrite"}
                THEN spoiled \union {"crash"} ELSE spoiled
  /\ UNCHANGED <<disk, page, config, wanted, fails>>

\* InitSettings
Start ==
  /\ ~ up
  /\ up' = TRUE
  /\ memory' = disk
  /\ UNCHANGED <<disk, call, page, config, hooker, wanted, spoiled, fails, crashes>>

-----------------------------------------------------------------------------
Init ==
  /\ up = TRUE
  /\ memory = NoSettings /\ disk = NoSettings
  /\ call = NoCall
  /\ page = [g \in Pages |-> NoSettings]
  /\ config = [c \in Configs |-> [hooks |-> {}, env |-> Default]]
  /\ hooker = [h \in Hookers |-> NoHooker]
  /\ wanted = config
  /\ spoiled = {}
  /\ fails = 0 /\ crashes = 0

Save == SaveDisk \/ SaveFails \/ Publish
Update == \E g \in Pages : LoadPage(g) \/ BeginUpdate(g)
Switch ==
  \/ \E i \in Installs, p \in Providers \union {Default} : BeginSwitch(i, p)
  \/ ReadEnv \/ WriteEnv \/ WriteEnvFails \/ UndoFails
Hook ==
  \E h \in Hookers :
    \/ \E i \in Installs, add \in BOOLEAN : ReadHooks(h, i, add)
    \/ WriteHooks(h) \/ WriteHooksFails(h)

Next == Save \/ Update \/ Switch \/ Hook \/ Crash \/ Start

Spec == Init /\ [][Next]_vars
-----------------------------------------------------------------------------
(* Properties *)

Calls == [kind : {"none", "update", "switch"},
          pc : {"idle", "read", "write", "save", "publish", "undo", "undoWrite"},
          next : Settings, install : Installs \union {NoInstall},
          to : Providers \union {Default}, back : Providers \union {Default},
          read : Config, page : Pages \union {NoPage}]
HookCalls == [pc : {"idle", "write"}, install : Installs \union {NoInstall}, add : BOOLEAN, read : Config]

TypeOK ==
  /\ up \in BOOLEAN
  /\ memory \in Settings /\ disk \in Settings
  /\ call \in Calls
  /\ page \in [Pages -> Settings]
  /\ config \in [Configs -> Config]
  /\ hooker \in [Hookers -> HookCalls]
  /\ wanted \in [Configs -> Config]
  /\ spoiled \subseteq {"stale", "overlap", "undo", "crash"}
  /\ fails \in Nat /\ crashes \in Nat

(* Whenever no call is under way, memory and settings.yaml agree: whatever   *)
(* failed or was cut off in between, what the handlers decide on next is     *)
(* what a restart would load.                                                *)
MemoryIsSaved == MutexFree => memory = disk

(* No update, however stale the page it was posted from, and no switch       *)
(* takes the API key from a profile that stays (settings.go:127: a client    *)
(* update "does not read as clear the key").                                 *)
KeysKept ==
  [][\A p \in Providers :
       Exists(disk, p) /\ Exists(disk', p) /\ disk.profile[p] # NoKey
         => disk'.profile[p] # NoKey]_vars

(* A provider some installation is switched to is saved (settings.go:140),   *)
(* as long as no page posted active providers that were out of date: no      *)
(* deletion gets past a switch that is being recorded, nor the reverse.      *)
ActiveProvidersExist ==
  "stale" \notin spoiled =>
    \A s \in {memory, disk}, i \in Installs : Known(s, s.active[i])

\* An agent's file points at a provider that no Active entry of it mentions.
LeftSwitched(c) ==
  /\ config[c].env # Default
  /\ \A i \in Installs : ConfigOf[i] = c => disk.active[i] # config[c].env

Resting == MutexFree /\ \A h \in Hookers : hooker[h].pc = "idle"

(* No agent is left pointed at a provider settings.yaml does not mention     *)
(* (settings.go:342), through failed saves and undone switches, when nothing *)
(* spoilt it: no crash between the two writes, no undo that failed, no stale *)
(* page, no overlapping hook patch.                                          *)
SwitchesAreRecorded ==
  Resting /\ spoiled = {} => \A c \in Configs : ~ LeftSwitched(c)

(* claude_code_llm.go:78: the lock is there because "a switch racing a       *)
(* patcher's own read-modify-write of the same installation could discard    *)
(* one of the two changes": no change to settings.json is discarded.         *)
NoChangeDiscarded == config = wanted
=============================================================================
