------------------------- MODULE PolicyEnforcement -------------------------
(***************************************************************************)
(* Live enforcement of Policy Hub sets: the operator's toggles             *)
(* (controllers/policyhub.go, object/policyset_state.go), the verdicts on  *)
(* agents' operations (controllers/enforce.go, object/enforce.go) with     *)
(* their cache of compiled sets, the set files an operator edits on disk,  *)
(* and the intercept path in the agent, which allows what it gets no       *)
(* answer for.                                                              *)
(*                                                                         *)
(* Requests run concurrently.  A verdict reads the enabled names once and  *)
(* then each set's file in turn; a toggle changes memory under a lock and  *)
(* writes the state file after releasing it.                               *)
(***************************************************************************)
EXTENDS Integers, FiniteSets

CONSTANTS
  Sets,        \* policy set names, as numbers: names are visited in order
  Texts,       \* what a set's file can hold
  Broken,      \* the texts Casbin cannot compile
  Subject,     \* Subject[t]: the agent text t is written for
  Denies,      \* Denies[t]: the operations text t denies
  Agents,
  Operations,
  SetAgent,    \* SetAgent[s]: the agent set s names in its "agent" field
  Supported,   \* sets of an intercept-capable agent and of this host's OS
  NoText,      \* no file, or nothing cached
  NoSet,
  Requests, Toggles,   \* bound: concurrent calls of each kind
  MaxEdits, MaxCrashes, MaxFails

ASSUME EnforcementAssumption ==
  /\ Sets \subseteq Nat /\ IsFiniteSet(Sets) /\ NoSet \notin Sets
  /\ NoText \notin Texts /\ Broken \subseteq Texts
  /\ Supported \subseteq Sets
  /\ Subject \in [Texts -> Agents]
  /\ Denies \in [Texts -> SUBSET Operations]
  /\ SetAgent \in [Sets -> Agents]
  /\ Agents # {} /\ Operations # {}

VARIABLES
  up,         \* aiguard runs
  file,       \* file[s]: the text of set s, or NoText
  patched,    \* the agents that are patched
  enabled,    \* enabledPolicySets
  state,      \* policyset_state.json: [torn, enabled]
  cache,      \* enforcerCache
  toggle,     \* toggle[t]: a call of TogglePolicySet
  request,    \* request[r]: a call of Enforce
  client,     \* client[r]: what the agent does about it
  records,    \* history: the verdicts recorded
  inForce,    \* history: the sets that denied request r all along
  everDenied, \* history: the sets that denied it at some time
  apart,      \* history: no two toggles overlapped and no write failed
  edits, crashes, fails

vars == <<up, file, patched, enabled, state, cache, toggle, request, client,
          records, inForce, everDenied, apart, edits, crashes, fails>>
history == <<records, inForce, everDenied>>
bounds == <<edits, crashes, fails>>

-----------------------------------------------------------------------------
IdleToggle == [pc |-> "idle", set |-> NoSet, on |-> FALSE, names |-> {}]
IdleRequest == [pc |-> "idle", todo |-> {}, set |-> NoSet, text |-> NoText]
IdleClient == [pc |-> "idle", agent |-> CHOOSE a \in Agents : TRUE,
               op |-> CHOOSE o \in Operations : TRUE]

\* A compiled text rules only on its own agent.
Applies(t, a) == t \in Texts \ Broken /\ Subject[t] = a
Refuses(t, a, o) == Applies(t, a) /\ o \in Denies[t]

\* The sets whose file denies request r's operation.
DenyingSets(r, f) ==
  {s \in Sets : f[s] \in Texts /\ Refuses(f[s], client[r].agent, client[r].op)}

\* The history variables follow every change of what is enabled or on file.
Track(en, f) ==
  /\ inForce' = [r \in Requests |-> inForce[r] \intersect en \intersect DenyingSets(r, f)]
  /\ everDenied' = [r \in Requests |->
       [enabled |-> everDenied[r].enabled \union en,
        denying |-> everDenied[r].denying \union DenyingSets(r, f)]]

InFlight == {t \in Toggles : toggle[t].pc # "idle"}

-----------------------------------------------------------------------------
(* The operator's toggle *)

\* gatePolicySet: supported agent and OS, and the agent patched.
Gate(s) == s \in Supported /\ SetAgent[s] \in patched

\* TogglePolicySet up to the gate.
BeginToggle(t, s, on) ==
  /\ up /\ toggle[t].pc = "idle"
  /\ file[s] # NoText
  /\ on => Gate(s)
  /\ toggle' = [toggle EXCEPT ![t] = [pc |-> "gated", set |-> s, on |-> on, names |-> {}]]
  /\ apart' = (apart /\ InFlight = {})
  /\ UNCHANGED <<up, file, patched, enabled, state, cache, request, client, history, bounds>>

\* SetPolicySetEnabled: the cached enforcer is dropped, ...
DropEnforcer(t) ==
  /\ up /\ toggle[t].pc = "gated"
  /\ toggle' = [toggle EXCEPT ![t].pc = "dropped"]
  /\ cache' = [cache EXCEPT ![toggle[t].set] = NoText]
  /\ UNCHANGED <<up, file, patched, enabled, state, request, client, history, apart, bounds>>

\* ... the set of enabled names is changed and copied under the lock, ...
ApplyToggle(t) ==
  LET names == IF toggle[t].on THEN enabled \union {toggle[t].set}
               ELSE enabled \ {toggle[t].set}
  IN
  /\ up /\ toggle[t].pc = "dropped"
  /\ enabled' = names
  /\ toggle' = [toggle EXCEPT ![t].pc = "applied", ![t].names = names]
  /\ Track(names, file)
  /\ UNCHANGED <<up, file, patched, state, cache, request, client, records, apart, bounds>>

\* ... and the copy is written to the state file after the lock is released.
OnlyThisName(t) == {toggle[t].set} \intersect toggle[t].names
WrittenNames(t) == toggle[t].names

WriteToggle(t) ==
  /\ up /\ toggle[t].pc = "applied"
  /\ toggle' = [toggle EXCEPT ![t] = IdleToggle]
  /\ \/ /\ state' = [torn |-> FALSE, enabled |-> WrittenNames(t)]
        /\ UNCHANGED <<fails, apart>>
     \/ /\ fails < MaxFails /\ fails' = fails + 1
        /\ state' \in {state, [torn |-> TRUE, enabled |-> {}]}
        /\ apart' = FALSE
  /\ UNCHANGED <<up, file, patched, enabled, cache, request, client, history, edits, crashes>>

-----------------------------------------------------------------------------
(* The verdict on one operation *)

\* Enforce reads the names of the enabled sets once (EnabledPolicySetNames).
BeginEnforce(r) ==
  /\ up /\ request[r].pc = "sent"
  /\ request' = [request EXCEPT ![r] = [IdleRequest EXCEPT !.pc = "visit", !.todo = enabled]]
  /\ inForce' = [inForce EXCEPT ![r] = enabled \intersect DenyingSets(r, file)]
  /\ everDenied' = [everDenied EXCEPT ![r] =
                      [enabled |-> enabled, denying |-> DenyingSets(r, file)]]
  /\ UNCHANGED <<up, file, patched, enabled, state, cache, toggle, client, records, apart,
                 bounds>>

\* The sets still to visit once s has ruled, or is skipped.
NoneAfterSet(r, s) == IF file[s] \in Broken THEN {} ELSE request[r].todo \ {s}
AfterSet(r, s) == request[r].todo \ {s}

\* GetPolicySet: the next set's file is read; one that is gone is skipped.
ReadSet(r) ==
  /\ up /\ request[r].pc = "visit"
  /\ \E s \in request[r].todo :
       /\ \A u \in request[r].todo : s <= u
       /\ request' = [request EXCEPT ![r] =
            IF file[s] = NoText THEN [@ EXCEPT !.todo = AfterSet(r, s)]
            ELSE [pc |-> "rule", todo |-> AfterSet(r, s), set |-> s, text |-> file[s]]]
  /\ UNCHANGED <<up, file, patched, enabled, state, cache, toggle, client, history, apart,
                 bounds>>

\* enforcerFor: the cached enforcer, if it was built from the text just read.
CachedByName(s, t) == IF cache[s] # NoText THEN cache[s] ELSE t
EnforcerFor(s, t) == IF cache[s] = t THEN cache[s] ELSE t

Record(r, allowed, s) ==
  records' = records \union {[request |-> r, agent |-> client[r].agent, op |-> client[r].op,
                              allowed |-> allowed, set |-> s]}

\* The set rules: a text that does not compile is neither cached nor a deny,
\* and the first deny ends the request.
RuleOnSet(r) ==
  LET s == request[r].set
      t == EnforcerFor(s, request[r].text)
      denied == Refuses(t, client[r].agent, client[r].op)
  IN
  /\ up /\ request[r].pc = "rule"
  /\ cache' = IF t \in Broken THEN cache ELSE [cache EXCEPT ![s] = t]
  /\ request' = [request EXCEPT ![r] =
       IF denied THEN [@ EXCEPT !.pc = "denied"]
       ELSE [@ EXCEPT !.pc = "visit", !.set = NoSet, !.text = NoText]]
  /\ IF denied THEN Record(r, FALSE, s) ELSE UNCHANGED records
  /\ UNCHANGED <<up, file, patched, enabled, state, toggle, client, inForce, everDenied,
                 apart, bounds>>

\* No enabled set denied it.
Allow(r) ==
  /\ up /\ request[r].pc = "visit" /\ request[r].todo = {}
  /\ request' = [request EXCEPT ![r].pc = "allowed"]
  /\ Record(r, TRUE, NoSet)
  /\ UNCHANGED <<up, file, patched, enabled, state, cache, toggle, client, inForce,
                 everDenied, apart, bounds>>

-----------------------------------------------------------------------------
(* The intercept path in the agent: openclaw_hook.js, mcpserver *)

\* It asks only while the agent is patched.
Ask(r) ==
  /\ client[r].pc = "idle" /\ request[r].pc = "idle"
  /\ \E a \in patched, o \in Operations :
       client' = [client EXCEPT ![r] = [pc |-> "asked", agent |-> a, op |-> o]]
  /\ request' = [request EXCEPT ![r] = IF up THEN [@ EXCEPT !.pc = "sent"] ELSE @]
  /\ inForce' = [inForce EXCEPT ![r] = {}]
  /\ everDenied' = [everDenied EXCEPT ![r] = [enabled |-> {}, denying |-> {}]]
  /\ UNCHANGED <<up, file, patched, enabled, state, cache, toggle, records, apart, bounds>>

\* The answer arrives in time: a clear deny blocks, anything else performs.
VerdictAsOutcome(r) == request[r].pc
Outcome(r) == IF request[r].pc = "denied" THEN "blocked" ELSE "performed"

Answer(r) ==
  /\ up /\ client[r].pc = "asked" /\ request[r].pc \in {"allowed", "denied"}
  /\ client' = [client EXCEPT ![r].pc = Outcome(r)]
  /\ UNCHANGED <<up, file, patched, enabled, state, cache, toggle, request, history, apart,
                 bounds>>

\* Timeout or connection failure: the agent goes ahead without an answer.
FailOpen(r) ==
  /\ client[r].pc = "asked"
  /\ client' = [client EXCEPT ![r].pc = "failedOpen"]
  /\ UNCHANGED <<up, file, patched, enabled, state, cache, toggle, request, history, apart,
                 bounds>>

\* The operation and the request are over; the slot is used again.
Finish(r) ==
  /\ client[r].pc \in {"blocked", "performed", "failedOpen"}
  /\ request[r].pc \in {"idle", "allowed", "denied"}
  /\ client' = [client EXCEPT ![r] = IdleClient]
  /\ request' = [request EXCEPT ![r] = IdleRequest]
  /\ records' = {e \in records : e.request # r}
  /\ inForce' = [inForce EXCEPT ![r] = {}]
  /\ everDenied' = [everDenied EXCEPT ![r] = [enabled |-> {}, denying |-> {}]]
  /\ UNCHANGED <<up, file, patched, enabled, state, cache, toggle, apart, bounds>>

-----------------------------------------------------------------------------
(* The host (external): set files are edited, agents patched, aiguard dies  *)

Edit(s) ==
  /\ edits < MaxEdits /\ edits' = edits + 1
  /\ \E t \in Texts \union {NoText} : t # file[s] /\ file' = [file EXCEPT ![s] = t]
  /\ Track(enabled, file')
  /\ UNCHANGED <<up, patched, enabled, state, cache, toggle, request, client, records, apart,
                 crashes, fails>>

TogglePatch(a) ==
  /\ edits < MaxEdits /\ edits' = edits + 1
  /\ patched' = IF a \in patched THEN patched \ {a} ELSE patched \union {a}
  /\ UNCHANGED <<up, file, enabled, state, cache, toggle, request, client, history, apart,
                 crashes, fails>>

\* A crash aborts every call; a state file being written may be left torn.
Crash ==
  /\ up /\ crashes < MaxCrashes /\ crashes' = crashes + 1
  /\ up' = FALSE
  /\ enabled' = {} /\ cache' = [s \in Sets |-> NoText]
  /\ toggle' = [t \in Toggles |-> IdleToggle]
  /\ request' = [r \in Requests |-> IdleRequest]
  /\ inForce' = [r \in Requests |-> {}]
  /\ state' \in IF \E t \in Toggles : toggle[t].pc = "applied"
                THEN {state, [torn |-> TRUE, enabled |-> {}]} ELSE {state}
  /\ UNCHANGED <<file, patched, client, records, everDenied, apart, edits, fails>>

\* InitPolicySetState: main panics on a state file that does not parse.
Start ==
  /\ ~ up /\ ~ state.torn
  /\ up' = TRUE
  /\ enabled' = state.enabled
  /\ UNCHANGED <<file, patched, state, cache, toggle, request, client, history, apart, bounds>>

-----------------------------------------------------------------------------
Init ==
  /\ up = TRUE
  /\ file \in [Sets -> Texts]
  /\ patched = Agents
  /\ enabled = {} /\ state = [torn |-> FALSE, enabled |-> {}]
  /\ cache = [s \in Sets |-> NoText]
  /\ toggle = [t \in Toggles |-> IdleToggle]
  /\ request = [r \in Requests |-> IdleRequest]
  /\ client = [r \in Requests |-> IdleClient]
  /\ records = {}
  /\ inForce = [r \in Requests |-> {}]
  /\ everDenied = [r \in Requests |-> [enabled |-> {}, denying |-> {}]]
  /\ apart = TRUE
  /\ edits = 0 /\ crashes = 0 /\ fails = 0

ToggleCall(t) ==
  \/ \E s \in Sets, on \in BOOLEAN : BeginToggle(t, s, on)
  \/ DropEnforcer(t) \/ ApplyToggle(t) \/ WriteToggle(t)

EnforceCall(r) == BeginEnforce(r) \/ ReadSet(r) \/ RuleOnSet(r) \/ Allow(r)
Intercept(r) == Ask(r) \/ Answer(r) \/ FailOpen(r) \/ Finish(r)

Next ==
  \/ \E t \in Toggles : ToggleCall(t)
  \/ \E r \in Requests : EnforceCall(r) \/ Intercept(r)
  \/ \E s \in Sets : Edit(s)
  \/ \E a \in Agents : TogglePatch(a)
  \/ Crash \/ Start

Spec == Init /\ [][Next]_vars
-----------------------------------------------------------------------------
(* Properties *)

ToggleCalls == [pc : {"idle", "gated", "dropped", "applied"}, set : Sets \union {NoSet},
                on : BOOLEAN, names : SUBSET Sets]
EnforceCalls == [pc : {"idle", "sent", "visit", "rule", "denied", "allowed"},
                 todo : SUBSET Sets, set : Sets \union {NoSet}, text : Texts \union {NoText}]
ClientCalls == [pc : {"idle", "asked", "blocked", "performed", "failedOpen"},
                agent : Agents, op : Operations]
Verdicts == [request : Requests, agent : Agents, op : Operations, allowed : BOOLEAN,
             set : Sets \union {NoSet}]

TypeOK ==
  /\ up \in BOOLEAN
  /\ file \in [Sets -> Texts \union {NoText}]
  /\ patched \subseteq Agents
  /\ enabled \subseteq Sets
  /\ state \in [torn : BOOLEAN, enabled : SUBSET Sets]
  /\ cache \in [Sets -> Texts \union {NoText}]
  /\ toggle \in [Toggles -> ToggleCalls]
  /\ request \in [Requests -> EnforceCalls]
  /\ client \in [Requests -> ClientCalls]
  /\ records \subseteq Verdicts
  /\ inForce \in [Requests -> SUBSET Sets]
  /\ everDenied \in [Requests -> [enabled : SUBSET Sets, denying : SUBSET Sets]]
  /\ apart \in BOOLEAN
  /\ edits \in Nat /\ crashes \in Nat /\ fails \in Nat

(* A recorded deny names a set that was enabled, and whose file denied that  *)
(* agent that operation, at some time while the request ran: no stale        *)
(* compiled text, no set turned off before the request, no other agent's.   *)
DenyIsJustified ==
  \A e \in records : ~ e.allowed =>
    e.set \in everDenied[e.request].enabled \intersect everDenied[e.request].denying

(* An operation that some set refused throughout the request, enabled and on *)
(* file, is never performed on an answer, whatever other sets are toggled,   *)
(* edited, deleted or fail to compile meanwhile: the agent goes ahead only   *)
(* when it gets no answer.                                                   *)
GuardHolds ==
  \A r \in Requests :
    client[r].pc = "performed" \/ request[r].pc = "allowed" => inForce[r] = {}

(* When no two toggles overlapped and no write failed, the state file says   *)
(* what is in force, also after a crash between the change and its write.    *)
SavedWhenApart ==
  up /\ apart /\ InFlight = {} => state = [torn |-> FALSE, enabled |-> enabled]

(* policyset_state.go:28: "a toggle made from the Web UI survives a          *)
(* restart": with no toggle under way, and no failed write, the file a       *)
(* restart loads is what is in force.                                        *)
ToggleSurvivesRestart ==
  up /\ InFlight = {} /\ fails = 0 /\ crashes = 0 => state.enabled = enabled
=============================================================================
