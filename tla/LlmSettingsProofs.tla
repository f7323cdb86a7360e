------------------------- MODULE LlmSettingsProofs -------------------------
(***************************************************************************)
(* What the lock, the order of the two saves and the merge of an update    *)
(* give for any providers, keys, installations, pages and failures.  IInv  *)
(* says of the settings a call is about to save that they keep the keys,   *)
(* and the providers in use, of those it started from; RecordInv, that     *)
(* what a switch left in an agent's file is recorded in settings.yaml, or  *)
(* the switch is still under way.                                          *)
(***************************************************************************)
EXTENDS LlmSettings, TLAPS

\* The settings a call has read stay in force until it publishes its own.
LockOK ==
  /\ call.pc # "idle" => up
  /\ call.pc = "publish" => disk = call.next
  /\ up /\ call.pc # "publish" => memory = disk
  /\ ~ up => memory = NoSettings

\* No profile of s that is still in t lost its key.
KeepsKeys(s, t) ==
  \A p \in Providers :
    Exists(s, p) /\ Exists(t, p) /\ s.profile[p] # NoKey => t.profile[p] # NoKey

InUse(s) == \A i \in Installs : Known(s, s.active[i])

NextOK ==
  call.pc \in {"read", "write", "save"} =>
    /\ KeepsKeys(memory, call.next)
    /\ "stale" \notin spoiled => InUse(call.next)


-----------------------------------------------------------------------------
(* Types *)

LEMMA SettingsTypes ==
  /\ NoSettings \in Settings
  /\ \A s \in Settings : Shown(s) \in Settings
  /\ \A s \in Settings : Edited(s) \subseteq Settings
  /\ \A s, t \in Settings : WithKeys(s, t) \in Settings
  /\ \A s \in Settings, i \in Installs, p \in Providers \union {Default} :
       SetActive(s, i, p) \in Settings
<1>1. NoSettings \in Settings
  BY DEF NoSettings, Settings
<1>2. ASSUME NEW s \in Settings PROVE Shown(s) \in Settings
  BY DEF Shown, Settings
<1>3. ASSUME NEW s \in Settings PROVE Edited(s) \subseteq Settings
  BY DEF Edited, Settings
<1>4. ASSUME NEW s \in Settings, NEW t \in Settings PROVE WithKeys(s, t) \in Settings
  BY DEF WithKeys, Settings
<1>5. ASSUME NEW s \in Settings, NEW i \in Installs, NEW p \in Providers \union {Default}
      PROVE  SetActive(s, i, p) \in Settings
  BY DEF SetActive, Settings
<1> QED
  BY <1>1, <1>2, <1>3, <1>4, <1>5

LEMMA ConfigTypes ==
  /\ \A c \in Config, p \in Providers \union {Default} : WithEnv(c, p) \in Config
  /\ \A c \in Config, a \in Agents, add \in BOOLEAN : WithHook(c, a, add) \in Config
<1>1. ASSUME NEW c \in Config, NEW p \in Providers \union {Default}
      PROVE  WithEnv(c, p) \in Config
  BY DEF WithEnv, Config
<1>2. ASSUME NEW c \in Config, NEW a \in Agents, NEW add \in BOOLEAN
      PROVE  WithHook(c, a, add) \in Config
  <2>1. c.hooks \union {a} \in SUBSET Agents /\ c.hooks \ {a} \in SUBSET Agents
        /\ c.env \in Providers \union {Default}
    BY DEF Config
  <2>2. (IF add THEN c.hooks \union {a} ELSE c.hooks \ {a}) \in SUBSET Agents
    BY <2>1
  <2> QED
    BY <2>1, <2>2 DEF WithHook, Config
<1> QED
  BY <1>1, <1>2

LEMMA NoCallTypes ==
  /\ NoCall \in Calls /\ NoCall.pc = "idle" /\ NoCall.kind = "none"
  /\ NoHooker \in HookCalls /\ NoHooker.pc = "idle"
<1>1. [hooks |-> {}, env |-> Default] \in Config
  BY DEF Config
<1>2. NoCall \in Calls /\ NoCall.pc = "idle" /\ NoCall.kind = "none"
  BY <1>1, SettingsTypes DEF NoCall, Calls
<1>3. NoHooker \in HookCalls /\ NoHooker.pc = "idle"
  BY <1>1 DEF NoHooker, HookCalls
<1> QED
  BY <1>2, <1>3

\* The records a call moves on to.
LEMMA CallMoves ==
  /\ \A c \in Calls, pc \in {"publish", "undo", "save"} : [c EXCEPT !.pc = pc] \in Calls
  /\ \A c \in Calls, pc \in {"write", "undoWrite"}, r \in Config :
       [c EXCEPT !.pc = pc, !.read = r] \in Calls
  /\ \A c \in Calls, g \in Pages, s \in Settings :
       [c EXCEPT !.kind = "update", !.pc = "save", !.page = g, !.next = s] \in Calls
  /\ \A c \in Calls, i \in Installs, p, b \in Providers \union {Default}, s \in Settings :
       [c EXCEPT !.kind = "switch", !.pc = "read", !.install = i, !.to = p, !.back = b,
                 !.next = s] \in Calls
<1>1. ASSUME NEW c \in Calls, NEW pc \in {"publish", "undo", "save"}
      PROVE  [c EXCEPT !.pc = pc] \in Calls
  BY DEF Calls
<1>2. ASSUME NEW c \in Calls, NEW pc \in {"write", "undoWrite"}, NEW r \in Config
      PROVE  [c EXCEPT !.pc = pc, !.read = r] \in Calls
  BY DEF Calls
<1>3. ASSUME NEW c \in Calls, NEW g \in Pages, NEW s \in Settings
      PROVE  [c EXCEPT !.kind = "update", !.pc = "save", !.page = g, !.next = s] \in Calls
  BY DEF Calls
<1>4. ASSUME NEW c \in Calls, NEW i \in Installs, NEW p \in Providers \union {Default},
             NEW b \in Providers \union {Default}, NEW s \in Settings
      PROVE  [c EXCEPT !.kind = "switch", !.pc = "read", !.install = i, !.to = p,
                       !.back = b, !.next = s] \in Calls
  BY DEF Calls
<1> QED
  BY <1>1, <1>2, <1>3, <1>4

LEMMA TypesInit == Init => TypeOK
<1> SUFFICES ASSUME Init PROVE TypeOK
  OBVIOUS
<1>1. [hooks |-> {}, env |-> Default] \in Config
  BY DEF Config
<1> QED
  BY <1>1, SettingsTypes, NoCallTypes DEF Init, TypeOK

\* What a call in progress is for.
SwitchOK ==
  /\ call.pc \in {"read", "write", "undo", "undoWrite"} => call.kind = "switch"
  /\ call.kind = "switch" => call.install \in Installs
HookersOK == \A h \in Hookers : hooker[h].pc = "write" => hooker[h].install \in Installs
TypesOK == TypeOK /\ SwitchOK /\ HookersOK

IInv == TypesOK /\ LockOK /\ NextOK /\ ActiveProvidersExist

LEMMA SaveTypes == TypesOK /\ Save => TypesOK'
<1> SUFFICES ASSUME TypesOK, Save PROVE TypesOK'
  OBVIOUS
<1>1. CASE SaveDisk
  <2>1. call' \in Calls /\ disk' \in Settings
    <3>1. call \in Calls /\ call.next \in Settings
      BY DEF TypesOK, TypeOK, Calls
    <3> QED
      BY <1>1, <3>1, CallMoves DEF SaveDisk
  <2>2. call'.pc = "publish" /\ call'.kind = call.kind /\ call'.install = call.install
    BY <1>1 DEF SaveDisk, TypesOK, TypeOK, Calls
  <2> QED
    BY <1>1, <2>1, <2>2
    DEF SaveDisk, TypesOK, TypeOK, SwitchOK, HookersOK
<1>2. CASE SaveFails
  <2>1. CASE call.kind = "switch"
    <3>1. call' = [call EXCEPT !.pc = "undo"]
      BY <1>2, <2>1 DEF SaveFails, AfterFailedSave
    <3>2. call' \in Calls
      BY <3>1, CallMoves DEF TypesOK, TypeOK
    <3>3. call'.pc = "undo" /\ call'.kind = call.kind /\ call'.install = call.install
      BY <3>1 DEF TypesOK, TypeOK, Calls
    <3> QED
      BY <1>2, <2>1, <3>2, <3>3
      DEF SaveFails, Fail, TypesOK, TypeOK, SwitchOK, HookersOK
  <2>2. CASE call.kind # "switch"
    BY <1>2, <2>2, NoCallTypes DEF SaveFails, AfterFailedSave, Fail, TypesOK, TypeOK,
       SwitchOK, HookersOK
  <2> QED
    BY <2>1, <2>2
<1>3. CASE Publish
  <2>1. memory' \in Settings /\ Shown(call.next) \in Settings
    BY <1>3, SettingsTypes DEF Publish, TypesOK, TypeOK, Calls
  <2>2. page' \in [Pages -> Settings]
    BY <1>3, <2>1 DEF Publish, TypesOK, TypeOK
  <2> QED
    BY <1>3, <2>1, <2>2, NoCallTypes
    DEF Publish, TypesOK, TypeOK, SwitchOK, HookersOK
<1> QED
  BY <1>1, <1>2, <1>3 DEF Save

LEMMA UpdateTypes == TypesOK /\ Update => TypesOK'
<1> SUFFICES ASSUME TypesOK, NEW g \in Pages, LoadPage(g) \/ BeginUpdate(g) PROVE TypesOK'
  BY DEF Update
<1>1. CASE LoadPage(g)
  <2>1. page' \in [Pages -> Settings]
    BY <1>1, SettingsTypes DEF LoadPage, TypesOK, TypeOK
  <2> QED
    BY <1>1, <2>1 DEF LoadPage, TypesOK, TypeOK, SwitchOK, HookersOK
<1>2. CASE BeginUpdate(g)
  <2>1. PICK s \in Edited(page[g]) :
          call' = [NoCall EXCEPT !.kind = "update", !.pc = "save", !.page = g,
                                 !.next = WithKeys(s, memory)]
    BY <1>2 DEF BeginUpdate
  <2>2. WithKeys(s, memory) \in Settings
    <3>1. page[g] \in Settings /\ memory \in Settings
      BY DEF TypesOK, TypeOK
    <3> QED
      BY <2>1, <3>1, SettingsTypes
  <2>3. call' \in Calls
    BY <2>1, <2>2, NoCallTypes, CallMoves
  <2>4. call'.pc = "save" /\ call'.kind = "update"
    BY <2>1, NoCallTypes DEF Calls
  <2>5. spoiled' \subseteq {"stale", "overlap", "undo", "crash"}
    BY <1>2 DEF BeginUpdate, TypesOK, TypeOK
  <2> QED
    BY <1>2, <2>3, <2>4, <2>5
    DEF BeginUpdate, TypesOK, TypeOK, SwitchOK, HookersOK
<1> QED
  BY <1>1, <1>2

LEMMA SwitchTypes == TypesOK /\ Switch => TypesOK'
<1> SUFFICES ASSUME TypesOK, Switch PROVE TypesOK'
  OBVIOUS
<1>1. ASSUME NEW i \in Installs, NEW p \in Providers \union {Default}, BeginSwitch(i, p)
      PROVE  TypesOK'
  <2>1. SetActive(memory, i, p) \in Settings /\ memory.active[i] \in Providers \union {Default}
    <3>1. memory \in Settings
      BY DEF TypesOK, TypeOK
    <3> QED
      BY <3>1, SettingsTypes DEF Settings
  <2>2. call' \in Calls
    BY <1>1, <2>1, NoCallTypes, CallMoves DEF BeginSwitch
  <2>3. call'.kind = "switch" /\ call'.install = i
    BY <1>1, NoCallTypes DEF BeginSwitch, Calls
  <2> QED
    BY <1>1, <2>2, <2>3
    DEF BeginSwitch, TypesOK, TypeOK, SwitchOK, HookersOK
<1>2. CASE ReadEnv
  <2>1. config[File] \in Config
    BY <1>2, LlmAssumption DEF ReadEnv, File, TypesOK, TypeOK, SwitchOK
  <2>2. call' \in Calls
    <3> DEFINE pc == IF call.pc = "read" THEN "write" ELSE "undoWrite"
    <3>1. call' = [call EXCEPT !.pc = pc, !.read = config[File]]
      BY <1>2 DEF ReadEnv
    <3> QED
      BY <2>1, <3>1, CallMoves DEF TypesOK, TypeOK
  <2>3. call'.kind = call.kind /\ call'.install = call.install
    BY <1>2 DEF ReadEnv, TypesOK, TypeOK, Calls
  <2>4. call'.kind = "switch" /\ call'.install \in Installs
    BY <1>2, <2>3 DEF ReadEnv, TypesOK, SwitchOK
  <2>5. spoiled' \subseteq {"stale", "overlap", "undo", "crash"}
    BY <1>2 DEF ReadEnv, TypesOK, TypeOK
  <2> QED
    BY <1>2, <2>2, <2>3, <2>4, <2>5
    DEF ReadEnv, TypesOK, TypeOK, SwitchOK, HookersOK
<1>3. CASE WriteEnv
  <2> DEFINE p == IF call.pc = "write" THEN call.to ELSE call.back
  <2>1. p \in Providers \union {Default} /\ call.read \in Config
    BY DEF TypesOK, TypeOK, Calls
  <2>2. File \in Configs
    BY <1>3, LlmAssumption DEF WriteEnv, File, TypesOK, SwitchOK
  <2>3. config' = [config EXCEPT ![File] = IF WithEnv(call.read, p) = call.read THEN @
                                           ELSE WithEnv(call.read, p)]
    BY <1>3 DEF WriteEnv
  <2>4. config' \in [Configs -> Config]
    BY <2>1, <2>2, <2>3, ConfigTypes DEF TypesOK, TypeOK
  <2>5. wanted' = [wanted EXCEPT ![File] = WithEnv(wanted[File], p)]
    BY <1>3 DEF WriteEnv
  <2>6. wanted[File] \in Config
    BY <2>2 DEF TypesOK, TypeOK
  <2>7. wanted' \in [Configs -> Config]
    BY <2>1, <2>2, <2>5, <2>6, ConfigTypes DEF TypesOK, TypeOK
  <2>8. call' \in Calls
    BY <1>3, NoCallTypes, CallMoves DEF WriteEnv, TypesOK, TypeOK
  <2>9. \/ call' = NoCall
        \/ call'.kind = call.kind /\ call'.install = call.install
    BY <1>3 DEF WriteEnv, TypesOK, TypeOK, Calls
  <2>10. SwitchOK'
    BY <1>3, <2>9, NoCallTypes DEF WriteEnv, TypesOK, SwitchOK
  <2> QED
    BY <1>3, <2>4, <2>7, <2>8, <2>10 DEF WriteEnv, TypesOK, TypeOK, HookersOK
<1>4. CASE WriteEnvFails \/ UndoFails
  <2>1. call' = NoCall /\ fails' \in Nat
    BY <1>4 DEF WriteEnvFails, UndoFails, Fail, TypesOK, TypeOK
  <2>2. spoiled' \subseteq {"stale", "overlap", "undo", "crash"}
    BY <1>4 DEF WriteEnvFails, UndoFails, TypesOK, TypeOK
  <2>3. UNCHANGED <<up, memory, disk, page, config, hooker, wanted, crashes>>
    BY <1>4 DEF WriteEnvFails, UndoFails
  <2> QED
    BY <2>1, <2>2, <2>3, NoCallTypes DEF TypesOK, TypeOK, SwitchOK, HookersOK
<1> QED
  BY <1>1, <1>2, <1>3, <1>4 DEF Switch

LEMMA HookTypes == TypesOK /\ Hook => TypesOK'
<1> SUFFICES ASSUME TypesOK, NEW h \in Hookers,
                    \/ \E i \in Installs, add \in BOOLEAN : ReadHooks(h, i, add)
                    \/ WriteHooks(h) \/ WriteHooksFails(h)
             PROVE  TypesOK'
  BY DEF Hook
<1>1. ASSUME NEW i \in Installs, NEW add \in BOOLEAN, ReadHooks(h, i, add)
      PROVE  TypesOK'
  <2> DEFINE k == [pc |-> "write", install |-> i, add |-> add, read |-> config[ConfigOf[i]]]
  <2>1. k \in HookCalls
    <3>1. config[ConfigOf[i]] \in Config
      BY LlmAssumption DEF TypesOK, TypeOK
    <3> QED
      BY <3>1 DEF HookCalls
  <2>2. hooker' = [hooker EXCEPT ![h] = k]
    BY <1>1 DEF ReadHooks
  <2>3. hooker' \in [Hookers -> HookCalls] /\ HookersOK'
    <3>1. k.install = i
      OBVIOUS
    <3> HIDE DEF k
    <3> QED
      BY <2>1, <2>2, <3>1 DEF TypesOK, TypeOK, HookersOK
  <2>4. spoiled' \subseteq {"stale", "overlap", "undo", "crash"}
    BY <1>1 DEF ReadHooks, TypesOK, TypeOK
  <2>5. UNCHANGED <<up, memory, disk, call, page, config, wanted, fails, crashes>>
    BY <1>1 DEF ReadHooks
  <2> QED
    BY <2>3, <2>4, <2>5 DEF TypesOK, TypeOK, SwitchOK
<1>2. ASSUME WriteHooks(h) PROVE TypesOK'
  <2> DEFINE k == hooker[h]
             c == ConfigOf[k.install]
             a == AgentOf[k.install]
  <2>1. k \in HookCalls /\ k.install \in Installs /\ k.pc = "write"
    BY <1>2 DEF WriteHooks, TypesOK, TypeOK, HookersOK
  <2>2. c \in Configs /\ a \in Agents /\ k.read \in Config /\ k.add \in BOOLEAN
    BY <2>1, LlmAssumption DEF HookCalls
  <2>3. WithHook(k.read, a, k.add) \in Config
        /\ WithHook(wanted[c], a, k.add) \in Config
    <3>1. wanted[c] \in Config
      BY <2>2 DEF TypesOK, TypeOK
    <3> HIDE DEF k, c, a
    <3> QED
      BY <2>1, <2>2, <3>1, ConfigTypes
  <2>4. /\ config' = [config EXCEPT ![c] = WithHook(k.read, a, k.add)]
        /\ wanted' = [wanted EXCEPT ![c] = WithHook(wanted[c], a, k.add)]
        /\ hooker' = [hooker EXCEPT ![h] = NoHooker]
    BY <1>2 DEF WriteHooks
  <2>5. config' \in [Configs -> Config] /\ wanted' \in [Configs -> Config]
    <3> HIDE DEF k, c, a
    <3> QED
      BY <2>3, <2>4 DEF TypesOK, TypeOK
  <2>6. hooker' \in [Hookers -> HookCalls] /\ HookersOK'
    BY <2>4, NoCallTypes DEF TypesOK, TypeOK, HookersOK
  <2> QED
    BY <1>2, <2>5, <2>6 DEF WriteHooks, TypesOK, TypeOK, SwitchOK
<1>3. ASSUME WriteHooksFails(h) PROVE TypesOK'
  <2>1. hooker' \in [Hookers -> HookCalls] /\ HookersOK'
    BY <1>3, NoCallTypes DEF WriteHooksFails, TypesOK, TypeOK, HookersOK
  <2> QED
    BY <1>3, <2>1 DEF WriteHooksFails, Fail, TypesOK, TypeOK, SwitchOK
<1> QED
  BY <1>1, <1>2, <1>3

LEMMA ProcessTypes == TypesOK /\ (Crash \/ Start) => TypesOK'
<1> SUFFICES ASSUME TypesOK, Crash \/ Start PROVE TypesOK'
  OBVIOUS
<1>1. CASE Crash
  <2>1. spoiled' \subseteq {"stale", "overlap", "undo", "crash"}
    BY <1>1 DEF Crash, TypesOK, TypeOK
  <2>2. hooker' \in [Hookers -> HookCalls] /\ HookersOK'
    BY <1>1, NoCallTypes DEF Crash, HookersOK
  <2>3. call' = NoCall /\ memory' = NoSettings /\ up' = FALSE /\ crashes' \in Nat
    BY <1>1 DEF Crash, TypesOK, TypeOK
  <2>4. UNCHANGED <<disk, page, config, wanted, fails>>
    BY <1>1 DEF Crash
  <2> QED
    BY <2>1, <2>2, <2>3, <2>4, NoCallTypes, SettingsTypes DEF TypesOK, TypeOK, SwitchOK
<1>2. CASE Start
  BY <1>2 DEF Start, TypesOK, TypeOK, SwitchOK, HookersOK
<1> QED
  BY <1>1, <1>2

LEMMA TypesStep == TypesOK /\ [Next]_vars => TypesOK'
<1>1. TypesOK /\ UNCHANGED vars => TypesOK'
  BY DEF vars, TypesOK, TypeOK, SwitchOK, HookersOK
<1> QED
  BY <1>1, SaveTypes, UpdateTypes, SwitchTypes, HookTypes, ProcessTypes DEF Next

\* The variables keep their types, for any constants.
THEOREM TypeCorrect == Spec => []TypeOK
<1>1. Init => TypesOK
  BY TypesInit, NoCallTypes DEF Init, TypesOK, SwitchOK, HookersOK
<1>2. TypesOK => TypeOK
  BY DEF TypesOK
<1> QED
  BY <1>1, <1>2, TypesStep, PTL DEF Spec
-----------------------------------------------------------------------------
(* What the two handlers make of the settings they read *)

LEMMA ExistsWithKeys ==
  ASSUME NEW s \in Settings, NEW m \in Settings, NEW p \in Providers
  PROVE  /\ Exists(WithKeys(s, m), p) <=> Exists(s, p)
         /\ Exists(m, p) /\ m.profile[p] # NoKey => WithKeys(s, m).profile[p] # NoKey
<1> DEFINE w == WithKeys(s, m).profile[p]
<1>1. w = IF s.profile[p] = NoKey /\ Exists(m, p) THEN m.profile[p] ELSE s.profile[p]
  BY DEF WithKeys
<1>2. NoKey # NoProfile
  BY LlmAssumption
<1>3. CASE s.profile[p] = NoKey /\ Exists(m, p)
  BY <1>1, <1>2, <1>3 DEF Exists
<1>4. CASE ~ (s.profile[p] = NoKey /\ Exists(m, p))
  BY <1>1, <1>2, <1>4 DEF Exists
<1> QED
  BY <1>3, <1>4

LEMMA UpdateKeeps ==
  ASSUME NEW s \in Settings, NEW m \in Settings
  PROVE  /\ KeepsKeys(m, WithKeys(s, m))
         /\ Removable(m, s) /\ s.active = m.active => InUse(WithKeys(s, m))
<1>1. KeepsKeys(m, WithKeys(s, m))
  BY ExistsWithKeys DEF KeepsKeys
<1>2. ASSUME Removable(m, s), s.active = m.active
      PROVE  InUse(WithKeys(s, m))
  <2> SUFFICES ASSUME NEW i \in Installs, m.active[i] # Default
               PROVE  Exists(WithKeys(s, m), m.active[i])
    <3>1. WithKeys(s, m).active = m.active
      BY <1>2 DEF WithKeys
    <3> QED
      BY <3>1 DEF InUse, Known
  <2>1. m.active[i] \in Providers
    BY DEF Settings
  <2>2. Exists(s, m.active[i])
    BY <1>2 DEF Removable
  <2> QED
    BY <2>1, <2>2, ExistsWithKeys
<1> QED
  BY <1>1, <1>2

LEMMA SwitchKeeps ==
  ASSUME NEW m \in Settings, NEW i \in Installs, NEW p \in Providers \union {Default}
  PROVE  /\ KeepsKeys(m, SetActive(m, i, p))
         /\ InUse(m) /\ Known(m, p) => InUse(SetActive(m, i, p))
<1>1. SetActive(m, i, p).profile = m.profile
      /\ SetActive(m, i, p).active = [m.active EXCEPT ![i] = p]
  BY DEF SetActive
<1>2. KeepsKeys(m, SetActive(m, i, p))
  BY <1>1 DEF KeepsKeys
<1>3. ASSUME InUse(m), Known(m, p) PROVE InUse(SetActive(m, i, p))
  <2> SUFFICES ASSUME NEW j \in Installs
               PROVE  Known(SetActive(m, i, p), SetActive(m, i, p).active[j])
    BY DEF InUse
  <2>1. SetActive(m, i, p).active[j] = IF j = i THEN p ELSE m.active[j]
    BY <1>1 DEF Settings
  <2>2. Known(m, SetActive(m, i, p).active[j])
    BY <1>3, <2>1 DEF InUse
  <2> QED
    BY <1>1, <2>2 DEF Known, Exists
<1> QED
  BY <1>2, <1>3

LEMMA EditedActive ==
  ASSUME NEW s, NEW t \in Edited(s)
  PROVE  t = s \/ t.active = s.active
BY DEF Edited

-----------------------------------------------------------------------------
(* The invariant *)

LEMMA IInvInit == Init => IInv
<1> SUFFICES ASSUME Init PROVE IInv
  OBVIOUS
<1>1. TypesOK
  BY TypesInit, NoCallTypes DEF Init, TypesOK, SwitchOK, HookersOK
<1>2. InUse(NoSettings)
  BY DEF InUse, Known, NoSettings
<1>3. LockOK /\ NextOK
  BY NoCallTypes DEF Init, LockOK, NextOK
<1>4. ActiveProvidersExist
  BY <1>2 DEF Init, ActiveProvidersExist, InUse
<1> QED
  BY <1>1, <1>3, <1>4 DEF IInv

\* The parts of the invariant a step leaves alone when it leaves the settings
\* and the call alone.
LEMMA IInvSaved ==
  ASSUME IInv, TypesOK', "stale" \in spoiled => "stale" \in spoiled',
         UNCHANGED <<up, memory, disk>>,
         \/ call' = NoCall /\ call.pc # "publish"
         \/ /\ call'.next = call.next
            /\ \/ call'.pc = call.pc
               \/ call.pc = "read" /\ call'.pc = "write"
               \/ call.pc = "write" /\ call'.pc = "save"
               \/ call.pc \in {"save", "undo"} /\ call'.pc \in {"undo", "undoWrite"}
  PROVE  IInv'
<1>1. LockOK'
  BY NoCallTypes DEF IInv, LockOK
<1>2. NextOK'
  BY NoCallTypes DEF IInv, NextOK, KeepsKeys, Exists, InUse, Known
<1>3. ActiveProvidersExist'
  BY DEF IInv, ActiveProvidersExist, Known, Exists
<1> QED
  BY <1>1, <1>2, <1>3 DEF IInv

LEMMA SaveIInv == IInv /\ Save => IInv'
<1> SUFFICES ASSUME IInv, Save PROVE IInv'
  OBVIOUS
<1>0. TypesOK'
  BY SaveTypes DEF IInv
<1>1. CASE SaveDisk
  <2>1. call'.pc = "publish" /\ call'.next = call.next
    BY <1>1 DEF SaveDisk, IInv, TypesOK, TypeOK, Calls
  <2>2. LockOK' /\ NextOK'
    BY <1>1, <2>1 DEF SaveDisk, IInv, LockOK, NextOK
  <2>3. ActiveProvidersExist'
    BY <1>1 DEF SaveDisk, IInv, NextOK, InUse, ActiveProvidersExist, Known, Exists
  <2> QED
    BY <1>0, <2>2, <2>3 DEF IInv
<1>2. CASE SaveFails
  <2>1. CASE call.kind = "switch"
    <3>1. call'.pc = "undo" /\ call'.next = call.next
      BY <1>2, <2>1 DEF SaveFails, AfterFailedSave, IInv, TypesOK, TypeOK, Calls
    <3> QED
      BY <1>0, <1>2, <3>1, IInvSaved DEF SaveFails
  <2>2. CASE call.kind # "switch"
    BY <1>0, <1>2, <2>2, IInvSaved DEF SaveFails, AfterFailedSave
  <2> QED
    BY <2>1, <2>2
<1>3. CASE Publish
  <2>1. memory' = disk' /\ up'
    BY <1>3 DEF Publish, IInv, LockOK
  <2>2. LockOK' /\ NextOK'
    BY <1>3, <2>1, NoCallTypes DEF Publish, LockOK, NextOK
  <2>3. ActiveProvidersExist'
    BY <1>3, <2>1 DEF Publish, IInv, ActiveProvidersExist, Known, Exists
  <2> QED
    BY <1>0, <2>2, <2>3 DEF IInv
<1> QED
  BY <1>1, <1>2, <1>3 DEF Save

LEMMA UpdateIInv == IInv /\ Update => IInv'
<1> SUFFICES ASSUME IInv, NEW g \in Pages, LoadPage(g) \/ BeginUpdate(g) PROVE IInv'
  BY DEF Update
<1>0. TypesOK'
  BY UpdateTypes DEF IInv, Update
<1>1. CASE LoadPage(g)
  BY <1>0, <1>1, IInvSaved DEF LoadPage
<1>2. CASE BeginUpdate(g)
  <2>1. PICK s \in Edited(page[g]) :
          /\ Removable(memory, s)
          /\ call' = [NoCall EXCEPT !.kind = "update", !.pc = "save", !.page = g,
                                    !.next = WithKeys(s, memory)]
    BY <1>2 DEF BeginUpdate
  <2>2. s \in Settings /\ memory \in Settings
    <3>1. page[g] \in Settings /\ memory \in Settings
      BY DEF IInv, TypesOK, TypeOK
    <3> QED
      BY <3>1, SettingsTypes
  <2>3. call'.pc = "save" /\ call'.next = WithKeys(s, memory)
    BY <2>1, NoCallTypes DEF Calls
  <2>4. "stale" \notin spoiled' => "stale" \notin spoiled /\ s.active = memory.active
    BY <1>2, EditedActive DEF BeginUpdate
  <2>5. LockOK'
    BY <1>2, <2>3 DEF BeginUpdate, MutexFree, IInv, LockOK
  <2>6. KeepsKeys(memory, call'.next)
        /\ ("stale" \notin spoiled' => InUse(call'.next))
    BY <2>1, <2>2, <2>3, <2>4, UpdateKeeps
  <2>7. NextOK'
    BY <1>2, <2>6 DEF BeginUpdate, NextOK, KeepsKeys, Exists, InUse, Known
  <2>8. ActiveProvidersExist'
    BY <1>2, <2>4 DEF BeginUpdate, IInv, ActiveProvidersExist, Known, Exists
  <2> QED
    BY <1>0, <2>5, <2>7, <2>8 DEF IInv
<1> QED
  BY <1>1, <1>2

LEMMA SwitchIInv == IInv /\ Switch => IInv'
<1> SUFFICES ASSUME IInv, Switch PROVE IInv'
  OBVIOUS
<1>0. TypesOK'
  BY SwitchTypes DEF IInv
<1>1. ASSUME NEW i \in Installs, NEW p \in Providers \union {Default}, BeginSwitch(i, p)
      PROVE  IInv'
  <2>1. call'.pc = "read" /\ call'.next = SetActive(memory, i, p)
    BY <1>1, NoCallTypes DEF BeginSwitch, Calls
  <2>2. memory \in Settings
    BY DEF IInv, TypesOK, TypeOK
  <2>3. "stale" \notin spoiled => InUse(memory)
    BY DEF IInv, ActiveProvidersExist, InUse
  <2>4. KeepsKeys(memory, call'.next)
        /\ ("stale" \notin spoiled => InUse(call'.next))
    BY <1>1, <2>1, <2>2, <2>3, SwitchKeeps DEF BeginSwitch
  <2>5. LockOK'
    BY <1>1, <2>1 DEF BeginSwitch, MutexFree, IInv, LockOK
  <2>6. NextOK'
    BY <1>1, <2>4 DEF BeginSwitch, NextOK, KeepsKeys, Exists, InUse, Known
  <2>7. ActiveProvidersExist'
    BY <1>1 DEF BeginSwitch, IInv, ActiveProvidersExist, Known, Exists
  <2> QED
    BY <1>0, <2>5, <2>6, <2>7 DEF IInv
<1>2. CASE ReadEnv
  <2>1. /\ call'.next = call.next
        /\ \/ call.pc = "read" /\ call'.pc = "write"
           \/ call.pc = "undo" /\ call'.pc = "undoWrite"
    BY <1>2 DEF ReadEnv, IInv, TypesOK, TypeOK, Calls
  <2> QED
    BY <1>0, <1>2, <2>1, IInvSaved DEF ReadEnv
<1>3. CASE WriteEnv
  <2>1. \/ call' = NoCall /\ call.pc # "publish"
        \/ call'.next = call.next /\ call.pc = "write" /\ call'.pc = "save"
    BY <1>3 DEF WriteEnv, IInv, TypesOK, TypeOK, Calls
  <2> QED
    BY <1>0, <1>3, <2>1, IInvSaved DEF WriteEnv
<1>4. CASE WriteEnvFails \/ UndoFails
  BY <1>0, <1>4, IInvSaved DEF WriteEnvFails, UndoFails
<1> QED
  BY <1>1, <1>2, <1>3, <1>4 DEF Switch

LEMMA HookIInv == IInv /\ Hook => IInv'
<1> SUFFICES ASSUME IInv, Hook PROVE IInv'
  OBVIOUS
<1>1. TypesOK'
  BY HookTypes DEF IInv
<1>2. /\ UNCHANGED <<up, memory, disk, call>>
      /\ "stale" \in spoiled => "stale" \in spoiled'
  BY DEF Hook, ReadHooks, WriteHooks, WriteHooksFails
<1> QED
  BY <1>1, <1>2, IInvSaved

LEMMA ProcessIInv == IInv /\ (Crash \/ Start) => IInv'
<1> SUFFICES ASSUME IInv, Crash \/ Start PROVE IInv'
  OBVIOUS
<1>0. TypesOK'
  BY ProcessTypes DEF IInv
<1>1. CASE Crash
  <2>1. InUse(NoSettings)
    BY DEF InUse, Known, NoSettings
  <2>2. LockOK' /\ NextOK'
    BY <1>1, NoCallTypes DEF Crash, LockOK, NextOK
  <2>3. ActiveProvidersExist'
    BY <1>1, <2>1 DEF Crash, IInv, ActiveProvidersExist, InUse, Known, Exists
  <2> QED
    BY <1>0, <2>2, <2>3 DEF IInv
<1>2. CASE Start
  <2>1. call.pc = "idle"
    BY <1>2 DEF Start, IInv, LockOK
  <2>2. LockOK' /\ NextOK'
    BY <1>2, <2>1 DEF Start, LockOK, NextOK
  <2>3. ActiveProvidersExist'
    BY <1>2 DEF Start, IInv, ActiveProvidersExist, Known, Exists
  <2> QED
    BY <1>0, <2>2, <2>3 DEF IInv
<1> QED
  BY <1>1, <1>2

LEMMA IInvStep == IInv /\ [Next]_vars => IInv'
<1>1. ASSUME IInv, UNCHANGED vars PROVE IInv'
  <2>1. TypesOK'
    BY <1>1, TypesStep DEF IInv
  <2> QED
    BY <1>1, <2>1, IInvSaved DEF vars
<1> QED
  BY <1>1, SaveIInv, UpdateIInv, SwitchIInv, HookIInv, ProcessIInv DEF Next

LEMMA Invariance == Spec => []IInv
BY IInvInit, IInvStep, PTL DEF Spec

\* Memory and settings.yaml agree whenever no call is under way.
THEOREM SavedIsLive == Spec => []MemoryIsSaved
<1>1. IInv => MemoryIsSaved
  BY DEF IInv, LockOK, MemoryIsSaved, MutexFree
<1> QED
  BY <1>1, Invariance, PTL

\* Without stale pages, every provider in use is saved.
THEOREM ProvidersInUseExist == Spec => []ActiveProvidersExist
<1>1. IInv => ActiveProvidersExist
  BY DEF IInv
<1> QED
  BY <1>1, Invariance, PTL

\* No profile that stays loses its key.
THEOREM NoKeyIsLost == Spec => KeysKept
<1> DEFINE Keeps == \A p \in Providers :
                      Exists(disk, p) /\ Exists(disk', p) /\ disk.profile[p] # NoKey
                        => disk'.profile[p] # NoKey
<1>1. IInv /\ [Next]_vars => [Keeps]_vars
  <2> SUFFICES ASSUME IInv, Next PROVE Keeps
    OBVIOUS
  <2>1. CASE SaveDisk
    <3>1. disk' = call.next /\ KeepsKeys(disk, call.next)
      BY <2>1 DEF SaveDisk, IInv, LockOK, NextOK
    <3> QED
      BY <3>1 DEF KeepsKeys, Exists
  <2>2. CASE disk' = disk
    BY <2>2
  <2>3. SaveDisk \/ disk' = disk
    BY DEF Next, Save, Update, Switch, Hook, SaveFails, Publish, LoadPage, BeginUpdate,
       BeginSwitch, ReadEnv, WriteEnv, WriteEnvFails, UndoFails, ReadHooks, WriteHooks,
       WriteHooksFails, Crash, Start
  <2> QED
    BY <2>1, <2>2, <2>3
<1> QED
  BY <1>1, Invariance, PTL DEF Spec, KeysKept

-----------------------------------------------------------------------------
(***************************************************************************)
(* What a switch leaves in an agent's file is recorded, or the switch is   *)
(* still under way: as long as nothing spoilt it, what a call has read of  *)
(* a file is what the file holds, and what it will save or undo differs    *)
(* from settings.yaml in the one installation it is for.                   *)
(***************************************************************************)

\* The file names the agent's own provider, or one that is recorded for it.
Recorded(c) ==
  config[c].env = Default \/ \E i \in Installs : ConfigOf[i] = c /\ disk.active[i] = config[c].env

\* The switch has edited the file and settings.yaml does not say so.
Unrecorded(c) ==
  call.kind = "switch" /\ call.pc \in {"save", "undo", "undoWrite"} /\ c = File

ReadsHold ==
  /\ \A h \in Hookers : hooker[h].pc = "write" =>
       hooker[h].read = config[ConfigOf[hooker[h].install]]
  /\ \A h, k \in Hookers :
       hooker[h].pc = "write" /\ hooker[k].pc = "write"
         /\ ConfigOf[hooker[h].install] = ConfigOf[hooker[k].install] => h = k
  /\ call.pc \in {"write", "undoWrite"} => call.read = config[File] /\ ~ Hooking(File)

SwitchHolds ==
  call.kind = "switch" =>
    /\ call.pc \in {"read", "write", "save"} =>
         call.next.active = [disk.active EXCEPT ![call.install] = call.to]
    /\ call.pc # "publish" => call.back = disk.active[call.install]
    /\ call.pc \in {"save", "undo", "undoWrite"} => config[File].env = call.to

UpdateHolds == call.kind # "switch" /\ call.pc = "save" => call.next.active = disk.active

RecordInv ==
  spoiled = {} =>
    /\ ReadsHold /\ SwitchHolds /\ UpdateHolds
    /\ \A c \in Configs : Recorded(c) \/ Unrecorded(c)

LEMMA RecordInit == Init => RecordInv
<1> SUFFICES ASSUME Init PROVE RecordInv
  OBVIOUS
<1>1. call = NoCall /\ call.pc = "idle" /\ call.kind = "none"
  BY NoCallTypes DEF Init
<1>2. \A h \in Hookers : hooker[h].pc = "idle"
  BY NoCallTypes DEF Init
<1>3. \A c \in Configs : Recorded(c)
  BY DEF Init, Recorded
<1> QED
  BY <1>1, <1>2, <1>3 DEF RecordInv, ReadsHold, SwitchHolds, UpdateHolds

\* A call that ends, where nothing is left unrecorded.
LEMMA CallEnds ==
  ASSUME RecordInv, call' = NoCall, spoiled' = {} => spoiled = {},
         UNCHANGED <<config, hooker>>,
         spoiled' = {} => \A c \in Configs : Recorded(c)'
  PROVE  RecordInv'
<1>1. call'.kind = "none" /\ call'.pc = "idle"
  BY NoCallTypes
<1> QED
  BY <1>1 DEF RecordInv, ReadsHold, SwitchHolds, UpdateHolds

\* Files and settings as they were, for a call that has edited none of them.
LEMMA StillRecorded ==
  ASSUME RecordInv, spoiled = {}, UNCHANGED <<config, disk>>,
         ~ (call.kind = "switch" /\ call.pc \in {"save", "undo", "undoWrite"})
  PROVE  \A c \in Configs : Recorded(c)'
BY DEF RecordInv, Recorded, Unrecorded

LEMMA SaveRecord == IInv /\ RecordInv /\ Save => RecordInv'
<1> SUFFICES ASSUME IInv, RecordInv, Save PROVE RecordInv'
  OBVIOUS
<1>0. call \in Calls /\ UNCHANGED <<config, hooker, spoiled>>
  BY DEF Save, SaveDisk, SaveFails, Publish, IInv, TypesOK, TypeOK
<1>1. CASE SaveDisk
  <2>1. /\ call.pc = "save" /\ disk' = call.next
        /\ call'.pc = "publish" /\ call'.kind = call.kind
    BY <1>0, <1>1 DEF SaveDisk, Calls
  <2> SUFFICES ASSUME spoiled = {} PROVE RecordInv'
    BY <1>0 DEF RecordInv
  <2>2. \A c \in Configs : Recorded(c)'
    <3> SUFFICES ASSUME NEW c \in Configs
                 PROVE  \/ config[c].env = Default
                        \/ \E i \in Installs : ConfigOf[i] = c /\ call.next.active[i] = config[c].env
      BY <1>0, <2>1 DEF Recorded
    <3>1. CASE call.kind = "switch"
      <4>1. PICK j \in Installs : j = call.install
        BY <3>1 DEF IInv, TypesOK, SwitchOK
      <4>2. /\ call.next.active = [disk.active EXCEPT ![j] = call.to]
            /\ config[ConfigOf[j]].env = call.to
        BY <2>1, <3>1, <4>1 DEF RecordInv, SwitchHolds, File
      <4>3. disk.active \in [Installs -> Providers \union {Default}]
        BY DEF IInv, TypesOK, TypeOK, Settings
      <4>4. CASE c = ConfigOf[j]
        BY <4>2, <4>3, <4>4
      <4>5. CASE c # ConfigOf[j]
        <5>1. Recorded(c)
          BY <4>1, <4>5 DEF RecordInv, Unrecorded, File
        <5> QED
          BY <4>2, <4>3, <4>5, <5>1 DEF Recorded
      <4> QED
        BY <4>4, <4>5
    <3>2. CASE call.kind # "switch"
      BY <2>1, <3>2 DEF RecordInv, UpdateHolds, Recorded, Unrecorded
    <3> QED
      BY <3>1, <3>2
  <2>3. ReadsHold' /\ SwitchHolds' /\ UpdateHolds'
    BY <1>0, <2>1 DEF RecordInv, ReadsHold, SwitchHolds, UpdateHolds
  <2> QED
    BY <2>2, <2>3 DEF RecordInv
<1>2. CASE SaveFails
  <2>0. call.pc = "save" /\ UNCHANGED disk
    BY <1>2 DEF SaveFails
  <2>1. CASE call.kind # "switch"
    <3>1. spoiled = {} => \A c \in Configs : Recorded(c)'
      BY <1>0, <2>0, <2>1, StillRecorded
    <3>2. call' = NoCall
      BY <1>2, <2>1 DEF SaveFails, AfterFailedSave
    <3> QED
      BY <1>0, <3>1, <3>2, CallEnds
  <2>2. CASE call.kind = "switch"
    <3>1. /\ call'.pc = "undo" /\ call'.kind = "switch" /\ call'.install = call.install
          /\ call'.back = call.back /\ call'.to = call.to
      BY <1>0, <1>2, <2>2 DEF SaveFails, AfterFailedSave, Calls
    <3>2. \A c : Recorded(c)' <=> Recorded(c)
      BY <1>0, <2>0 DEF Recorded
    <3>3. \A c : Unrecorded(c)' <=> Unrecorded(c)
      BY <2>0, <2>2, <3>1 DEF Unrecorded, File
    <3> QED
      BY <1>0, <2>0, <2>2, <3>1, <3>2, <3>3
      DEF RecordInv, ReadsHold, SwitchHolds, UpdateHolds, File
  <2> QED
    BY <2>1, <2>2
<1>3. CASE Publish
  <2>1. spoiled = {} => \A c \in Configs : Recorded(c)'
    BY <1>0, <1>3, StillRecorded DEF Publish
  <2> QED
    BY <1>0, <1>3, <2>1, CallEnds DEF Publish
<1> QED
  BY <1>1, <1>2, <1>3 DEF Save

LEMMA UpdateRecord == IInv /\ RecordInv /\ Update => RecordInv'
<1> SUFFICES ASSUME IInv, RecordInv, NEW g \in Pages, LoadPage(g) \/ BeginUpdate(g)
             PROVE  RecordInv'
  BY DEF Update
<1>1. CASE LoadPage(g)
  BY <1>1 DEF LoadPage, RecordInv, ReadsHold, SwitchHolds, UpdateHolds, Recorded, Unrecorded,
     File, Hooking
<1>2. CASE BeginUpdate(g)
  <2>1. PICK s \in Edited(page[g]) :
          call' = [NoCall EXCEPT !.kind = "update", !.pc = "save", !.page = g,
                                 !.next = WithKeys(s, memory)]
    BY <1>2 DEF BeginUpdate
  <2>2. call'.pc = "save" /\ call'.kind = "update" /\ call'.next = WithKeys(s, memory)
    BY <2>1, NoCallTypes DEF Calls
  <2>3. call.pc = "idle" /\ memory = disk /\ UNCHANGED <<disk, config, hooker>>
    BY <1>2 DEF BeginUpdate, MutexFree, IInv, LockOK
  <2> SUFFICES ASSUME spoiled' = {} PROVE RecordInv'
    BY DEF RecordInv
  <2>4. spoiled = {} /\ page[g].active = memory.active
    BY <1>2 DEF BeginUpdate
  <2>5. call'.next.active = disk.active
    BY <2>1, <2>2, <2>3, <2>4, EditedActive DEF WithKeys
  <2>6. \A c \in Configs : Recorded(c)'
    BY <2>3, <2>4, StillRecorded
  <2>7. ReadsHold' /\ SwitchHolds' /\ UpdateHolds'
    BY <2>2, <2>3, <2>4, <2>5 DEF RecordInv, ReadsHold, SwitchHolds, UpdateHolds
  <2> QED
    BY <2>6, <2>7 DEF RecordInv
<1> QED
  BY <1>1, <1>2

LEMMA BeginSwitchRecord ==
  ASSUME IInv, RecordInv, NEW i \in Installs, NEW p \in Providers \union {Default},
         BeginSwitch(i, p)
  PROVE  RecordInv'
<1>1. /\ call'.pc = "read" /\ call'.kind = "switch" /\ call'.install = i /\ call'.to = p
      /\ call'.back = memory.active[i] /\ call'.next = SetActive(memory, i, p)
  BY NoCallTypes DEF BeginSwitch, Calls
<1>2. call.pc = "idle" /\ memory = disk /\ UNCHANGED <<disk, config, hooker, spoiled>>
  BY DEF BeginSwitch, MutexFree, IInv, LockOK
<1>3. call'.next.active = [disk.active EXCEPT ![i] = p]
  BY <1>1, <1>2 DEF SetActive
<1>4. spoiled = {} => \A c \in Configs : Recorded(c)'
  BY <1>2, StillRecorded
<1>5. spoiled = {} => ReadsHold' /\ SwitchHolds' /\ UpdateHolds'
  BY <1>1, <1>2, <1>3 DEF RecordInv, ReadsHold, SwitchHolds, UpdateHolds
<1> QED
  BY <1>2, <1>4, <1>5 DEF RecordInv

LEMMA ReadEnvRecord == IInv /\ RecordInv /\ ReadEnv => RecordInv'
<1> SUFFICES ASSUME IInv, RecordInv, ReadEnv, spoiled' = {} PROVE RecordInv'
  BY DEF RecordInv
<1>1. /\ call'.kind = call.kind /\ call'.install = call.install /\ call'.to = call.to
      /\ call'.back = call.back /\ call'.next = call.next /\ call'.read = config[File]
      /\ \/ call.pc = "read" /\ call'.pc = "write"
         \/ call.pc = "undo" /\ call'.pc = "undoWrite"
  BY DEF ReadEnv, IInv, TypesOK, TypeOK, Calls
<1>2. spoiled = {} /\ ~ Hooking(File) /\ UNCHANGED <<disk, config, hooker>>
  BY DEF ReadEnv
<1>3. File' = File /\ Hooking(File)' = Hooking(File)
  BY <1>1, <1>2 DEF File, Hooking
<1>4. ReadsHold'
  BY <1>1, <1>2, <1>3 DEF RecordInv, ReadsHold
<1>5. SwitchHolds' /\ UpdateHolds'
  BY <1>1, <1>2, <1>3 DEF RecordInv, SwitchHolds, UpdateHolds
<1>6. \A c : (Recorded(c) => Recorded(c)') /\ (Unrecorded(c) => Unrecorded(c)')
  BY <1>1, <1>2, <1>3 DEF Recorded, Unrecorded
<1> QED
  BY <1>2, <1>4, <1>5, <1>6 DEF RecordInv

LEMMA WriteEnvRecord == IInv /\ RecordInv /\ WriteEnv => RecordInv'
<1> SUFFICES ASSUME IInv, RecordInv, WriteEnv, spoiled = {} PROVE RecordInv'
  BY DEF RecordInv, WriteEnv
<1> SUFFICES ASSUME NEW f, f = File, NEW p, p = IF call.pc = "write" THEN call.to ELSE call.back
             PROVE  RecordInv'
  OBVIOUS
<1>1. /\ call.pc \in {"write", "undoWrite"} /\ UNCHANGED <<disk, hooker, spoiled>>
      /\ config' = [config EXCEPT ![f] = IF WithEnv(call.read, p) = call.read THEN @
                                         ELSE WithEnv(call.read, p)]
      /\ call' = IF call.pc = "write" THEN [call EXCEPT !.pc = "save"] ELSE NoCall
  BY DEF WriteEnv
<1>2. call.kind = "switch" /\ call.install \in Installs /\ f \in Configs
      /\ config \in [Configs -> Config] /\ ConfigOf[call.install] = f
  BY <1>1, LlmAssumption DEF IInv, TypesOK, TypeOK, SwitchOK, File
<1>3. call.read = config[f] /\ ~ Hooking(f)
  BY <1>1 DEF RecordInv, ReadsHold
<1>4. config'[f].env = p /\ \A c \in Configs \ {f} : config'[c] = config[c]
  <2>1. WithEnv(call.read, p).env = p
    BY DEF WithEnv
  <2> QED
    BY <1>1, <1>2, <1>3, <2>1
<1>5. \A c \in Configs \ {f} : Recorded(c)'
  BY <1>1, <1>4 DEF RecordInv, Recorded, Unrecorded
<1>6. \A h \in Hookers : hooker[h].pc = "write" =>
        config'[ConfigOf[hooker[h].install]] = config[ConfigOf[hooker[h].install]]
  BY <1>3, <1>4, LlmAssumption DEF Hooking, IInv, TypesOK, HookersOK
<1>7. ASSUME call'.pc \notin {"write", "undoWrite"} PROVE ReadsHold'
  BY <1>1, <1>6, <1>7 DEF RecordInv, ReadsHold
<1>8. CASE call.pc = "write"
  <2>1. /\ call'.pc = "save" /\ call'.kind = "switch" /\ call'.install = call.install
        /\ call'.back = call.back /\ call'.to = call.to /\ call'.next = call.next
    BY <1>1, <1>2, <1>8 DEF IInv, TypesOK, TypeOK, Calls
  <2>2. File' = f
    BY <2>1 DEF File
  <2>3. SwitchHolds' /\ UpdateHolds'
    BY <1>1, <1>2, <1>4, <1>8, <2>1, <2>2 DEF RecordInv, SwitchHolds, UpdateHolds
  <2>4. Unrecorded(f)'
    BY <2>1, <2>2 DEF Unrecorded
  <2> QED
    BY <1>1, <1>5, <1>7, <2>1, <2>3, <2>4 DEF RecordInv
<1>9. CASE call.pc = "undoWrite"
  <2>1. call'.pc = "idle" /\ call'.kind = "none"
    BY <1>1, <1>9, NoCallTypes
  <2>2. p = disk.active[call.install]
    BY <1>2, <1>9 DEF RecordInv, SwitchHolds
  <2>3. Recorded(f)'
    BY <1>1, <1>2, <1>4, <2>2 DEF Recorded
  <2> QED
    BY <1>1, <1>5, <1>7, <2>1, <2>3 DEF RecordInv, SwitchHolds, UpdateHolds
<1> QED
  BY <1>1, <1>8, <1>9

LEMMA SwitchRecord == IInv /\ RecordInv /\ Switch => RecordInv'
<1> SUFFICES ASSUME IInv, RecordInv, Switch PROVE RecordInv'
  OBVIOUS
<1>1. CASE WriteEnvFails
  <2>1. spoiled = {} => \A c \in Configs : Recorded(c)'
    BY <1>1, StillRecorded DEF WriteEnvFails
  <2> QED
    BY <1>1, <2>1, CallEnds DEF WriteEnvFails
<1>2. CASE UndoFails
  BY <1>2 DEF UndoFails, RecordInv
<1> QED
  BY <1>1, <1>2, BeginSwitchRecord, ReadEnvRecord, WriteEnvRecord DEF Switch

LEMMA HookRecord == IInv /\ RecordInv /\ Hook => RecordInv'
<1> SUFFICES ASSUME IInv, RecordInv, spoiled' = {}, NEW h \in Hookers,
                    \/ \E i \in Installs, add \in BOOLEAN : ReadHooks(h, i, add)
                    \/ WriteHooks(h) \/ WriteHooksFails(h)
             PROVE  RecordInv'
  BY DEF Hook, RecordInv
<1>0. spoiled = {} /\ UNCHANGED <<disk, call>>
  BY DEF ReadHooks, WriteHooks, WriteHooksFails
<1>1. hooker \in [Hookers -> HookCalls] /\ config \in [Configs -> Config]
  BY DEF IInv, TypesOK, TypeOK
\* Only the files' hooks and the hook calls change.
<1>2. ASSUME \A c \in Configs : config'[c].env = config[c].env, ReadsHold' PROVE RecordInv'
  <2>1. call.kind = "switch" => File \in Configs
    BY LlmAssumption DEF IInv, TypesOK, SwitchOK, File
  <2>2. SwitchHolds' /\ UpdateHolds'
    BY <1>0, <1>2, <2>1 DEF RecordInv, SwitchHolds, UpdateHolds, File
  <2>3. \A c \in Configs : (Recorded(c) => Recorded(c)') /\ (Unrecorded(c) => Unrecorded(c)')
    BY <1>0, <1>2 DEF Recorded, Unrecorded, File
  <2> QED
    BY <1>0, <1>2, <2>2, <2>3 DEF RecordInv
<1>3. ASSUME NEW i \in Installs, NEW add \in BOOLEAN, ReadHooks(h, i, add) PROVE RecordInv'
  <2>1. /\ ~ Hooking(ConfigOf[i]) /\ UNCHANGED config
        /\ ~ (call.pc \in {"write", "undoWrite"} /\ File = ConfigOf[i])
    BY <1>3 DEF ReadHooks
  <2>2. /\ hooker'[h].pc = "write" /\ hooker'[h].install = i
        /\ hooker'[h].read = config[ConfigOf[i]]
        /\ \A k \in Hookers \ {h} : hooker'[k] = hooker[k]
    BY <1>1, <1>3 DEF ReadHooks
  <2>3. \A k \in Hookers \ {h} : hooker[k].pc = "write" => ConfigOf[hooker[k].install] # ConfigOf[i]
    BY <2>1 DEF Hooking
  <2>4. File' = File
    BY <1>0 DEF File
  <2>5. call.pc \in {"write", "undoWrite"} => call.read = config[File] /\ ~ Hooking(File)'
    BY <1>0, <2>1, <2>2, <2>4 DEF RecordInv, ReadsHold, Hooking
  <2>6. ReadsHold'
    <3>1. \A k \in Hookers : hooker'[k].pc = "write" =>
            hooker'[k].read = config'[ConfigOf[hooker'[k].install]]
      BY <1>0, <2>1, <2>2 DEF RecordInv, ReadsHold
    <3>2. \A k, l \in Hookers :
            hooker'[k].pc = "write" /\ hooker'[l].pc = "write"
              /\ ConfigOf[hooker'[k].install] = ConfigOf[hooker'[l].install] => k = l
      BY <1>0, <2>2, <2>3 DEF RecordInv, ReadsHold
    <3> QED
      BY <1>0, <2>1, <2>4, <2>5, <3>1, <3>2 DEF ReadsHold
  <2> QED
    BY <1>2, <2>1, <2>6
\* A call that ends, and leaves other files as they are.
<1>4. ASSUME hooker' = [hooker EXCEPT ![h] = NoHooker], hooker[h].pc = "write",
             \A c \in Configs : c # ConfigOf[hooker[h].install] => config'[c] = config[c]
      PROVE  ReadsHold'
  <2>1. hooker'[h].pc = "idle" /\ \A k \in Hookers \ {h} : hooker'[k] = hooker[k]
    BY <1>1, <1>4, NoCallTypes
  <2>2. \A k \in Hookers \ {h} : hooker[k].pc = "write" =>
          /\ ConfigOf[hooker[k].install] \in Configs
          /\ ConfigOf[hooker[k].install] # ConfigOf[hooker[h].install]
    BY <1>0, <1>4, LlmAssumption DEF RecordInv, ReadsHold, IInv, TypesOK, HookersOK
  <2>3. call.pc \in {"write", "undoWrite"} =>
          /\ File \in Configs /\ File # ConfigOf[hooker[h].install]
          /\ call.read = config[File] /\ ~ Hooking(File)
    BY <1>0, <1>4, LlmAssumption DEF RecordInv, ReadsHold, Hooking, IInv, TypesOK, SwitchOK, File
  <2>4. call.pc \in {"write", "undoWrite"} => ~ Hooking(File)'
    BY <1>0, <2>1, <2>3 DEF Hooking, File
  <2>5. File' = File
    BY <1>0 DEF File
  <2>6. \A k \in Hookers : hooker'[k].pc = "write" =>
          hooker'[k].read = config'[ConfigOf[hooker'[k].install]]
    BY <1>0, <1>4, <2>1, <2>2 DEF RecordInv, ReadsHold
  <2>7. \A k, l \in Hookers :
          hooker'[k].pc = "write" /\ hooker'[l].pc = "write"
            /\ ConfigOf[hooker'[k].install] = ConfigOf[hooker'[l].install] => k = l
    BY <1>0, <2>1 DEF RecordInv, ReadsHold
  <2> QED
    BY <1>0, <1>4, <2>3, <2>4, <2>5, <2>6, <2>7 DEF ReadsHold
<1>5. CASE WriteHooks(h)
  <2>1. PICK c \in Configs : c = ConfigOf[hooker[h].install]
    BY <1>5, LlmAssumption DEF WriteHooks, IInv, TypesOK, HookersOK
  <2>0. PICK new : new = WithHook(hooker[h].read, AgentOf[hooker[h].install], hooker[h].add)
    OBVIOUS
  <2>2. /\ config' = [config EXCEPT ![c] = new]
        /\ new.env = hooker[h].read.env
    BY <1>5, <2>0, <2>1 DEF WriteHooks, WithHook
  <2>3. hooker[h].pc = "write" /\ hooker[h].read = config[c]
    BY <1>0, <1>5, <2>1 DEF WriteHooks, RecordInv, ReadsHold
  <2>4. /\ \A d \in Configs : config'[d].env = config[d].env
        /\ \A d \in Configs : d # c => config'[d] = config[d]
    BY <1>1, <2>2, <2>3
  <2> QED
    BY <1>2, <1>4, <1>5, <2>1, <2>3, <2>4 DEF WriteHooks
<1>6. CASE WriteHooksFails(h)
  BY <1>2, <1>4, <1>6 DEF WriteHooksFails
<1> QED
  BY <1>3, <1>5, <1>6

LEMMA ProcessRecord == IInv /\ RecordInv /\ (Crash \/ Start) => RecordInv'
<1> SUFFICES ASSUME IInv, RecordInv, Crash \/ Start PROVE RecordInv'
  OBVIOUS
<1>1. CASE Crash
  <2> SUFFICES ASSUME spoiled' = {} PROVE RecordInv'
    BY DEF RecordInv
  <2>1. /\ spoiled = {} /\ ~ (call.kind = "switch" /\ call.pc \in {"save", "undo", "undoWrite"})
        /\ UNCHANGED <<disk, config>>
    BY <1>1 DEF Crash
  <2>2. \A c \in Configs : Recorded(c)'
    BY <2>1, StillRecorded
  <2>3. /\ call'.kind = "none" /\ call'.pc = "idle"
        /\ \A h \in Hookers : hooker'[h].pc = "idle"
    BY <1>1, NoCallTypes DEF Crash
  <2> QED
    BY <2>2, <2>3 DEF RecordInv, ReadsHold, SwitchHolds, UpdateHolds
<1>2. CASE Start
  BY <1>2 DEF Start, RecordInv, ReadsHold, SwitchHolds, UpdateHolds, Recorded, Unrecorded, File,
     Hooking
<1> QED
  BY <1>1, <1>2

LEMMA RecordStep == IInv /\ RecordInv /\ [Next]_vars => RecordInv'
<1>1. ASSUME IInv, RecordInv, UNCHANGED vars PROVE RecordInv'
  BY <1>1 DEF vars, RecordInv, ReadsHold, SwitchHolds, UpdateHolds, Recorded, Unrecorded, File,
     Hooking
<1> QED
  BY <1>1, SaveRecord, UpdateRecord, SwitchRecord, HookRecord, ProcessRecord DEF Next

\* When nothing spoilt it, no agent is left pointed at a provider that
\* settings.yaml does not mention, for any number of installations that share
\* a file, of failed saves and of restarts.
THEOREM NoSwitchIsForgotten == Spec => []SwitchesAreRecorded
<1>1. RecordInv => SwitchesAreRecorded
  <2> SUFFICES ASSUME RecordInv, call.pc = "idle", spoiled = {}, NEW c \in Configs
               PROVE  ~ LeftSwitched(c)
    BY DEF SwitchesAreRecorded, Resting, MutexFree
  <2> QED
    BY DEF RecordInv, Recorded, Unrecorded, LeftSwitched
<1> QED
  BY <1>1, RecordInit, RecordStep, Invariance, PTL DEF Spec
=============================================================================
