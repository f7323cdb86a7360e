------------------------- MODULE EnforcementProofs -------------------------
(***************************************************************************)
(* What is decided about an agent's operations and connections.  Of policy *)
(* sets, for any sets, texts, agents, requests, toggles and bounds: a      *)
(* recorded deny is justified, and an operation some set refused all along *)
(* is never performed on an answer.  Of the proxy, for any policies,       *)
(* settings, connections and operators: what the order of the reads in a   *)
(* decision, and of the two writes of a policy, give.                      *)
(***************************************************************************)
EXTENDS PolicyEnforcement, EgressProxy, WellFoundedInduction, TLAPS

-----------------------------------------------------------------------------
(* Policy sets                                                              *)

\* Request r has no verdict yet.
NoVerdict(r) == \A e \in records : e.request # r
Pending(r) == request[r].pc \in {"sent", "visit", "rule"}

\* A request is answered once, and a slot is used again only after that.
Paired(r) ==
  /\ client[r].pc = "idle" => request[r].pc = "idle" /\ NoVerdict(r)
  /\ Pending(r) => NoVerdict(r) /\ client[r].pc \in {"asked", "failedOpen"}

\* The sets it visits were enabled, and what it read was on file, meanwhile.
Seen(r) ==
  /\ request[r].pc \in {"visit", "rule"} =>
       /\ request[r].todo \subseteq everDenied[r].enabled
       /\ DenyingSets(r, file) \subseteq everDenied[r].denying
  /\ request[r].pc = "rule" =>
       /\ request[r].set \in everDenied[r].enabled
       /\ Refuses(request[r].text, client[r].agent, client[r].op)
            => request[r].set \in everDenied[r].denying

\* A set in force all along is still to be visited, or about to deny.
Guarded(r) ==
  /\ inForce[r] \subseteq DenyingSets(r, file)
  /\ request[r].pc = "visit" => inForce[r] \subseteq request[r].todo
  /\ request[r].pc = "rule" =>
       /\ inForce[r] \subseteq request[r].todo \union {request[r].set}
       /\ request[r].set \in inForce[r]
            => Refuses(request[r].text, client[r].agent, client[r].op)
  /\ client[r].pc = "performed" \/ request[r].pc = "allowed" => inForce[r] = {}

Justified(r) ==
  \A e \in records : e.request = r /\ ~ e.allowed =>
    e.set \in everDenied[r].enabled \intersect everDenied[r].denying

RequestOK(r) == Paired(r) /\ Seen(r) /\ Guarded(r) /\ Justified(r)

\* A toggle past its gate is one of some set.
TogglesOK == \A t \in Toggles : toggle[t].pc # "idle" => toggle[t].set \in Sets

IInv == TypeOK /\ TogglesOK /\ \A r \in Requests : RequestOK(r)

-----------------------------------------------------------------------------
(* Types *)

LEMMA IdleTypes ==
  /\ IdleToggle \in ToggleCalls
  /\ IdleRequest \in EnforceCalls /\ IdleRequest.pc = "idle"
  /\ IdleClient \in ClientCalls /\ IdleClient.pc = "idle"
BY EnforcementAssumption DEF IdleToggle, IdleRequest, IdleClient, ToggleCalls, EnforceCalls,
   ClientCalls

LEMMA TypesInit == Init => TypeOK /\ TogglesOK
<1> SUFFICES ASSUME Init PROVE TypeOK /\ TogglesOK
  OBVIOUS
<1>1. TypeOK
  BY IdleTypes DEF Init, TypeOK
<1>2. TogglesOK
  BY DEF Init, TogglesOK, IdleToggle
<1> QED
  BY <1>1, <1>2

LEMMA DenyingTypes == \A r, f : DenyingSets(r, f) \subseteq Sets
BY DEF DenyingSets

LEMMA TrackTypes ==
  ASSUME TypeOK, NEW en \in SUBSET Sets, NEW f, Track(en, f)
  PROVE  /\ inForce' \in [Requests -> SUBSET Sets]
         /\ everDenied' \in [Requests -> [enabled : SUBSET Sets, denying : SUBSET Sets]]
BY DenyingTypes DEF Track, TypeOK

LEMMA ToggleMoves ==
  ASSUME NEW c \in ToggleCalls, NEW ns \in SUBSET Sets
  PROVE  /\ [c EXCEPT !.pc = "dropped"] \in ToggleCalls
         /\ [c EXCEPT !.pc = "dropped"].set = c.set
         /\ [c EXCEPT !.pc = "applied", !.names = ns] \in ToggleCalls
         /\ [c EXCEPT !.pc = "applied", !.names = ns].set = c.set
BY DEF ToggleCalls

LEMMA ToggleTypes ==
  ASSUME TypeOK, TogglesOK, NEW t \in Toggles, ToggleCall(t)
  PROVE  TypeOK' /\ TogglesOK'
<1> USE DEF history, bounds
<1>1. ASSUME NEW s \in Sets, NEW on \in BOOLEAN, BeginToggle(t, s, on)
      PROVE  TypeOK' /\ TogglesOK'
  <2>1. [pc |-> "gated", set |-> s, on |-> on, names |-> {}] \in ToggleCalls
    BY DEF ToggleCalls
  <2>2. toggle' \in [Toggles -> ToggleCalls]
    BY <1>1, <2>1 DEF BeginToggle, TypeOK
  <2>3. apart' \in BOOLEAN
    BY <1>1 DEF BeginToggle, TypeOK
  <2>4. TypeOK'
    BY <1>1, <2>2, <2>3 DEF BeginToggle, TypeOK
  <2> QED
    BY <1>1, <2>4 DEF BeginToggle, TypeOK, TogglesOK
<1>2. CASE DropEnforcer(t)
  <2>1. toggle' \in [Toggles -> ToggleCalls]
    BY <1>2, ToggleMoves DEF DropEnforcer, TypeOK
  <2>2. cache' \in [Sets -> Texts \union {NoText}]
    BY <1>2 DEF DropEnforcer, TypeOK
  <2>3. TypeOK'
    BY <1>2, <2>1, <2>2 DEF DropEnforcer, TypeOK
  <2> QED
    BY <1>2, <2>3, ToggleMoves DEF DropEnforcer, TypeOK, TogglesOK
<1>3. CASE ApplyToggle(t)
  <2> DEFINE names == IF toggle[t].on THEN enabled \union {toggle[t].set}
                      ELSE enabled \ {toggle[t].set}
  <2>1. toggle[t].set \in Sets /\ enabled \in SUBSET Sets
    BY <1>3 DEF ApplyToggle, TypeOK, TogglesOK
  <2>2. names \in SUBSET Sets
    BY <2>1
  <2>3. /\ enabled' = names
        /\ toggle' = [toggle EXCEPT ![t] = [@ EXCEPT !.pc = "applied", !.names = names]]
        /\ Track(names, file)
    BY <1>3 DEF ApplyToggle
  <2> HIDE DEF names
  <2>4. toggle' \in [Toggles -> ToggleCalls]
    BY <2>2, <2>3, ToggleMoves DEF TypeOK
  <2>5. TypeOK'
    BY <1>3, <2>2, <2>3, <2>4, TrackTypes DEF ApplyToggle, TypeOK
  <2> QED
    BY <2>1, <2>2, <2>3, <2>5, ToggleMoves DEF TypeOK, TogglesOK
<1>4. CASE WriteToggle(t)
  <2>1. toggle' \in [Toggles -> ToggleCalls]
    BY <1>4, IdleTypes DEF WriteToggle, TypeOK
  <2>2. [torn |-> TRUE, enabled |-> {}] \in [torn : BOOLEAN, enabled : SUBSET Sets]
    OBVIOUS
  <2>3. toggle[t].names \in SUBSET Sets
    BY DEF TypeOK, ToggleCalls
  <2>4. [torn |-> FALSE, enabled |-> toggle[t].names] \in [torn : BOOLEAN, enabled : SUBSET Sets]
    BY <2>3
  <2>5. /\ state' \in [torn : BOOLEAN, enabled : SUBSET Sets]
        /\ apart' \in BOOLEAN /\ fails' \in Nat
    <3>1. CASE state' = [torn |-> FALSE, enabled |-> WrittenNames(t)] /\ UNCHANGED <<fails, apart>>
      <4>1. apart' \in BOOLEAN
        BY <3>1, Zenon DEF TypeOK
      <4> QED
        BY <3>1, <4>1, <2>4 DEF WrittenNames, TypeOK
    <3>2. CASE /\ fails' = fails + 1 /\ apart' = FALSE
               /\ state' \in {state, [torn |-> TRUE, enabled |-> {}]}
      <4>1. state' \in [torn : BOOLEAN, enabled : SUBSET Sets]
        <5>1. state \in [torn : BOOLEAN, enabled : SUBSET Sets]
          BY DEF TypeOK
        <5>2. state' = state \/ state' = [torn |-> TRUE, enabled |-> {}]
          BY <3>2
        <5> QED
          BY <2>2, <5>1, <5>2
      <4>2. apart' \in BOOLEAN
        BY <3>2
      <4>3. fails' \in Nat
        BY <3>2 DEF TypeOK
      <4> QED
        BY <4>1, <4>2, <4>3
    <3> QED
      BY <1>4, <3>1, <3>2, Zenon DEF WriteToggle
  <2>6. TypeOK'
    BY <1>4, <2>1, <2>5 DEF WriteToggle, TypeOK
  <2> QED
    BY <1>4, <2>6 DEF WriteToggle, TypeOK, TogglesOK, IdleToggle
<1> QED
  BY <1>1, <1>2, <1>3, <1>4 DEF ToggleCall

LEMMA EnforceMoves ==
  ASSUME NEW c \in EnforceCalls
  PROVE  /\ \A x \in {"idle", "sent", "denied", "allowed"} : [c EXCEPT !.pc = x] \in EnforceCalls
         /\ \A ss \in SUBSET Sets : [c EXCEPT !.todo = ss] \in EnforceCalls
         /\ \A ss \in SUBSET Sets : [c EXCEPT !.pc = "visit", !.todo = ss] \in EnforceCalls
         /\ [c EXCEPT !.pc = "visit", !.set = NoSet, !.text = NoText] \in EnforceCalls
BY DEF EnforceCalls

LEMMA VerdictTypes ==
  ASSUME TypeOK, NEW r \in Requests, NEW s \in Sets \union {NoSet}, NEW allowed \in BOOLEAN,
         Record(r, allowed, s)
  PROVE  records' \subseteq Verdicts
<1>1. client[r].agent \in Agents /\ client[r].op \in Operations
  BY DEF TypeOK, ClientCalls
<1>2. [request |-> r, agent |-> client[r].agent, op |-> client[r].op, allowed |-> allowed,
       set |-> s] \in Verdicts
  BY <1>1 DEF Verdicts
<1> QED
  BY <1>2 DEF Record, TypeOK

LEMMA EnforceTypes ==
  ASSUME TypeOK, NEW r \in Requests, EnforceCall(r)
  PROVE  TypeOK'
<1> USE DEF history, bounds
<1>1. CASE BeginEnforce(r)
  <2>1. [IdleRequest EXCEPT !.pc = "visit", !.todo = enabled] \in EnforceCalls
    BY IdleTypes, EnforceMoves DEF TypeOK
  <2>2. request' \in [Requests -> EnforceCalls]
    BY <1>1, <2>1 DEF BeginEnforce, TypeOK
  <2>3. inForce' \in [Requests -> SUBSET Sets]
    BY <1>1, DenyingTypes DEF BeginEnforce, TypeOK
  <2>4. [enabled |-> enabled, denying |-> DenyingSets(r, file)]
          \in [enabled : SUBSET Sets, denying : SUBSET Sets]
    BY DenyingTypes DEF TypeOK
  <2>5. everDenied' \in [Requests -> [enabled : SUBSET Sets, denying : SUBSET Sets]]
    BY <1>1, <2>4 DEF BeginEnforce, TypeOK
  <2> QED
    BY <1>1, <2>2, <2>3, <2>5 DEF BeginEnforce, TypeOK
<1>2. CASE ReadSet(r)
  <2>1. request[r] \in EnforceCalls /\ request[r].todo \in SUBSET Sets
    BY DEF TypeOK, EnforceCalls
  <2>2. PICK s \in request[r].todo : request' = [request EXCEPT ![r] =
          IF file[s] = NoText THEN [@ EXCEPT !.todo = AfterSet(r, s)]
          ELSE [pc |-> "rule", todo |-> AfterSet(r, s), set |-> s, text |-> file[s]]]
    BY <1>2 DEF ReadSet
  <2>3. [request[r] EXCEPT !.todo = AfterSet(r, s)] \in EnforceCalls
    BY <2>1, EnforceMoves DEF AfterSet
  <2>4. file[s] \in Texts \union {NoText} /\ s \in Sets
    BY <2>1 DEF TypeOK
  <2>5. [pc |-> "rule", todo |-> AfterSet(r, s), set |-> s, text |-> file[s]] \in EnforceCalls
    BY <2>1, <2>4 DEF EnforceCalls, AfterSet
  <2>6. request' \in [Requests -> EnforceCalls]
    <3>1. CASE file[s] = NoText
      <4> DEFINE c == [request[r] EXCEPT !.todo = AfterSet(r, s)]
      <4>1. request' = [request EXCEPT ![r] = c]
        BY <2>2, <3>1
      <4>2. c \in EnforceCalls
        BY <2>3
      <4> HIDE DEF c
      <4> QED
        BY <4>1, <4>2 DEF TypeOK
    <3>2. CASE file[s] # NoText
      <4>1. request' = [request EXCEPT ![r] = [pc |-> "rule", todo |-> AfterSet(r, s), set |-> s,
                                               text |-> file[s]]]
        BY <2>2, <3>2
      <4> QED
        BY <2>5, <4>1, Zenon DEF TypeOK
    <3> QED
      BY <3>1, <3>2
  <2> QED
    BY <1>2, <2>6 DEF ReadSet, TypeOK
<1>3. CASE RuleOnSet(r)
  <2> DEFINE t == EnforcerFor(request[r].set, request[r].text)
  <2>1. request[r] \in EnforceCalls /\ t \in Texts \union {NoText}
    BY DEF TypeOK, EnforceCalls, EnforcerFor
  <2>2. cache' \in [Sets -> Texts \union {NoText}]
    BY <1>3, <2>1 DEF RuleOnSet, TypeOK
  <2>3. request' \in [Requests -> EnforceCalls]
    BY <1>3, <2>1, EnforceMoves DEF RuleOnSet, TypeOK
  <2>4. records' \subseteq Verdicts
    <3>1. request[r].set \in Sets \union {NoSet}
      BY <2>1 DEF EnforceCalls
    <3>2. Record(r, FALSE, request[r].set) \/ records' = records
      BY <1>3 DEF RuleOnSet
    <3> QED
      BY <3>1, <3>2, VerdictTypes DEF TypeOK
  <2> QED
    BY <1>3, <2>2, <2>3, <2>4 DEF RuleOnSet, TypeOK
<1>4. CASE Allow(r)
  <2>1. request' \in [Requests -> EnforceCalls]
    BY <1>4, EnforceMoves DEF Allow, TypeOK
  <2>2. records' \subseteq Verdicts
    BY <1>4, VerdictTypes DEF Allow
  <2> QED
    BY <1>4, <2>1, <2>2 DEF Allow, TypeOK
<1> QED
  BY <1>1, <1>2, <1>3, <1>4 DEF EnforceCall

LEMMA ClientMoves ==
  ASSUME NEW c \in ClientCalls
  PROVE  \A x \in {"blocked", "performed", "failedOpen"} : [c EXCEPT !.pc = x] \in ClientCalls
BY DEF ClientCalls

LEMMA NoHistoryTypes ==
  [enabled |-> {}, denying |-> {}] \in [enabled : SUBSET Sets, denying : SUBSET Sets]
OBVIOUS

LEMMA InterceptTypes ==
  ASSUME TypeOK, NEW r \in Requests, Intercept(r)
  PROVE  TypeOK'
<1> USE DEF history, bounds
<1>1. CASE Ask(r)
  <2>1. PICK a \in patched, o \in Operations :
          client' = [client EXCEPT ![r] = [pc |-> "asked", agent |-> a, op |-> o]]
    BY <1>1 DEF Ask
  <2>2. [pc |-> "asked", agent |-> a, op |-> o] \in ClientCalls
    BY DEF TypeOK, ClientCalls
  <2>3. client' \in [Requests -> ClientCalls]
    BY <2>1, <2>2 DEF TypeOK
  <2>4. request' \in [Requests -> EnforceCalls]
    BY <1>1, EnforceMoves DEF Ask, TypeOK
  <2>5. /\ inForce' \in [Requests -> SUBSET Sets]
        /\ everDenied' \in [Requests -> [enabled : SUBSET Sets, denying : SUBSET Sets]]
    BY <1>1, NoHistoryTypes DEF Ask, TypeOK
  <2> QED
    BY <1>1, <2>3, <2>4, <2>5 DEF Ask, TypeOK
<1>2. CASE Answer(r)
  <2>1. client' \in [Requests -> ClientCalls]
    BY <1>2, ClientMoves DEF Answer, Outcome, TypeOK
  <2> QED
    BY <1>2, <2>1 DEF Answer, TypeOK
<1>3. CASE FailOpen(r)
  <2>1. client' \in [Requests -> ClientCalls]
    BY <1>3, ClientMoves DEF FailOpen, TypeOK
  <2> QED
    BY <1>3, <2>1 DEF FailOpen, TypeOK
<1>4. CASE Finish(r)
  <2>1. client' \in [Requests -> ClientCalls] /\ request' \in [Requests -> EnforceCalls]
    BY <1>4, IdleTypes DEF Finish, TypeOK
  <2>2. /\ inForce' \in [Requests -> SUBSET Sets]
        /\ everDenied' \in [Requests -> [enabled : SUBSET Sets, denying : SUBSET Sets]]
    BY <1>4, NoHistoryTypes DEF Finish, TypeOK
  <2>3. records' \subseteq Verdicts
    BY <1>4 DEF Finish, TypeOK
  <2> QED
    BY <1>4, <2>1, <2>2, <2>3 DEF Finish, TypeOK
<1> QED
  BY <1>1, <1>2, <1>3, <1>4 DEF Intercept

LEMMA EditTypes ==
  ASSUME TypeOK, NEW s \in Sets, Edit(s)
  PROVE  TypeOK'
<1>1. file' \in [Sets -> Texts \union {NoText}] /\ edits' \in Nat
  BY DEF Edit, TypeOK
<1>2. enabled \in SUBSET Sets /\ Track(enabled, file')
  BY DEF Edit, TypeOK
<1> QED
  BY <1>1, <1>2, TrackTypes DEF Edit, TypeOK

LEMMA ProcessTypes ==
  ASSUME TypeOK, TogglesOK, Crash \/ Start
  PROVE  TypeOK' /\ TogglesOK'
<1> USE DEF history, bounds
<1>1. CASE Crash
  <2>1. [torn |-> TRUE, enabled |-> {}] \in [torn : BOOLEAN, enabled : SUBSET Sets]
    OBVIOUS
  <2>2. state' \in [torn : BOOLEAN, enabled : SUBSET Sets]
    BY <1>1, <2>1 DEF Crash, TypeOK
  <2>3. toggle' \in [Toggles -> ToggleCalls] /\ request' \in [Requests -> EnforceCalls]
    BY <1>1, IdleTypes DEF Crash
  <2>4. /\ cache' \in [Sets -> Texts \union {NoText}] /\ inForce' \in [Requests -> SUBSET Sets]
        /\ crashes' \in Nat
    BY <1>1 DEF Crash, TypeOK
  <2>5. TypeOK'
    BY <1>1, <2>2, <2>3, <2>4 DEF Crash, TypeOK
  <2> QED
    BY <1>1, <2>5 DEF Crash, TogglesOK, IdleToggle
<1>2. CASE Start
  BY <1>2 DEF Start, TypeOK, TogglesOK
<1> QED
  BY <1>1, <1>2

LEMMA TypesStep == TypeOK /\ TogglesOK /\ [Next]_vars => TypeOK' /\ TogglesOK'
<1> SUFFICES ASSUME TypeOK, TogglesOK, [Next]_vars PROVE TypeOK' /\ TogglesOK'
  OBVIOUS
<1>1. ASSUME NEW t \in Toggles, ToggleCall(t) PROVE TypeOK' /\ TogglesOK'
  BY <1>1, ToggleTypes
<1>2. ASSUME NEW r \in Requests, EnforceCall(r) \/ Intercept(r) PROVE TypeOK' /\ TogglesOK'
  <2>1. toggle' = toggle
    BY <1>2 DEF EnforceCall, Intercept, BeginEnforce, ReadSet, RuleOnSet, Allow, Ask, Answer,
                FailOpen, Finish
  <2> QED
    BY <1>2, <2>1, EnforceTypes, InterceptTypes DEF TogglesOK
<1>3. ASSUME NEW s \in Sets, Edit(s) PROVE TypeOK' /\ TogglesOK'
  BY <1>3, EditTypes DEF Edit, TogglesOK
<1>4. ASSUME NEW a \in Agents, TogglePatch(a) PROVE TypeOK' /\ TogglesOK'
  BY <1>4 DEF TogglePatch, TypeOK, TogglesOK, history
<1>5. CASE Crash \/ Start
  BY <1>5, ProcessTypes
<1>6. CASE UNCHANGED vars
  BY <1>6 DEF vars, TypeOK, TogglesOK
<1> QED
  BY <1>1, <1>2, <1>3, <1>4, <1>5, <1>6 DEF Next

(* The variables of the enforcement keep their types                         *)
(* (object/enforce.go, object/policyset_state.go).                           *)
THEOREM TypeCorrect == Spec => []TypeOK
<1>1. Init => TypeOK /\ TogglesOK
  BY TypesInit
<1>2. TypeOK /\ TogglesOK /\ [Next]_vars => (TypeOK /\ TogglesOK)'
  BY TypesStep
<1> QED
  BY <1>1, <1>2, PTL DEF Spec
-----------------------------------------------------------------------------
(* The requests *)

\* What concerns r stays as it is.
SameRequest(r) ==
  /\ request'[r] = request[r] /\ client'[r] = client[r]
  /\ inForce'[r] = inForce[r] /\ everDenied'[r] = everDenied[r]
  /\ \A e \in records' : e.request = r => e \in records

LEMMA Unconcerned ==
  ASSUME NEW r \in Requests, RequestOK(r), file' = file, SameRequest(r)
  PROVE  RequestOK(r)'
<1>1. Pending(r)' = Pending(r) /\ (NoVerdict(r) => NoVerdict(r)')
  BY DEF SameRequest, Pending, NoVerdict
<1>2. DenyingSets(r, file)' = DenyingSets(r, file)
  BY DEF SameRequest, DenyingSets, Refuses, Applies
<1>3. Paired(r)'
  BY <1>1 DEF RequestOK, Paired, SameRequest
<1>4. Seen(r)'
  BY <1>2 DEF RequestOK, Seen, SameRequest, Refuses, Applies
<1>5. Guarded(r)'
  BY <1>2 DEF RequestOK, Guarded, SameRequest, Refuses, Applies
<1>6. Justified(r)'
  BY DEF RequestOK, Justified, SameRequest
<1> QED
  BY <1>3, <1>4, <1>5, <1>6 DEF RequestOK

LEMMA TrackKeeps ==
  ASSUME TypeOK, NEW r \in Requests, RequestOK(r), NEW en, Track(en, file'),
         UNCHANGED <<request, client, records>>
  PROVE  RequestOK(r)'
<1>1. /\ inForce'[r] = inForce[r] \intersect en \intersect DenyingSets(r, file')
      /\ everDenied'[r].enabled = everDenied[r].enabled \union en
      /\ everDenied'[r].denying = everDenied[r].denying \union DenyingSets(r, file')
  BY DEF Track, TypeOK
<1>2. DenyingSets(r, file)' = DenyingSets(r, file')
  BY DEF DenyingSets, Refuses, Applies
<1>3. Paired(r)'
  BY DEF RequestOK, Paired, Pending, NoVerdict
<1>4. Seen(r)'
  BY <1>1, <1>2 DEF RequestOK, Seen, Refuses, Applies
<1>5. Guarded(r)'
  BY <1>1, <1>2 DEF RequestOK, Guarded, Refuses, Applies
<1>6. Justified(r)'
  BY <1>1 DEF RequestOK, Justified
<1> QED
  BY <1>3, <1>4, <1>5, <1>6 DEF RequestOK

LEMMA InitRequests == Init => \A r \in Requests : RequestOK(r)
<1> SUFFICES ASSUME Init, NEW r \in Requests PROVE RequestOK(r)
  OBVIOUS
<1>1. /\ request[r].pc = "idle" /\ client[r].pc = "idle" /\ records = {} /\ inForce[r] = {}
  BY IdleTypes DEF Init
<1> QED
  BY <1>1 DEF RequestOK, Paired, Pending, NoVerdict, Seen, Guarded, Justified

LEMMA OtherRequests ==
  ASSUME TypeOK, NEW r \in Requests, EnforceCall(r) \/ Intercept(r),
         NEW q \in Requests, q # r
  PROVE  file' = file /\ SameRequest(q)
<1> USE DEF SameRequest, TypeOK, history
<1>1. CASE BeginEnforce(r) \/ ReadSet(r)
  BY <1>1 DEF BeginEnforce, ReadSet
<1>2. CASE RuleOnSet(r) \/ Allow(r)
  <2>1. \A e \in records' : e.request = q => e \in records
    BY <1>2 DEF RuleOnSet, Allow, Record
  <2> QED
    BY <1>2, <2>1 DEF RuleOnSet, Allow
<1>3. CASE Ask(r)
  BY <1>3 DEF Ask
<1>4. CASE Answer(r) \/ FailOpen(r)
  BY <1>4 DEF Answer, FailOpen
<1>5. CASE Finish(r)
  BY <1>5 DEF Finish
<1> QED
  BY <1>1, <1>2, <1>3, <1>4, <1>5 DEF EnforceCall, Intercept

\* The denying sets do not change while file and r's operation do not.
LEMMA SameDenying ==
  ASSUME NEW r \in Requests, file' = file, client'[r].agent = client[r].agent,
         client'[r].op = client[r].op
  PROVE  DenyingSets(r, file)' = DenyingSets(r, file)
BY DEF DenyingSets, Refuses, Applies

LEMMA BeginEnforceKeeps ==
  ASSUME TypeOK, NEW r \in Requests, RequestOK(r), BeginEnforce(r)
  PROVE  RequestOK(r)'
<1>1. /\ request'[r] = [IdleRequest EXCEPT !.pc = "visit", !.todo = enabled]
      /\ inForce'[r] = enabled \intersect DenyingSets(r, file)
      /\ everDenied'[r].enabled = enabled
      /\ everDenied'[r].denying = DenyingSets(r, file)
      /\ UNCHANGED <<client, records, file>>
  BY DEF BeginEnforce, TypeOK
<1>2. request'[r].pc = "visit" /\ request'[r].todo = enabled
  BY <1>1 DEF IdleRequest
<1>3. request[r].pc = "sent" /\ Pending(r)
  BY DEF BeginEnforce, Pending
<1>4. DenyingSets(r, file)' = DenyingSets(r, file)
  BY <1>1, SameDenying
<1>5. NoVerdict(r) /\ client[r].pc \in {"asked", "failedOpen"}
  BY <1>3 DEF RequestOK, Paired
<1>6. NoVerdict(r)'
  BY <1>1, <1>5 DEF NoVerdict
<1>7. Paired(r)' /\ Justified(r)'
  BY <1>1, <1>5, <1>6 DEF Paired, Justified, NoVerdict
<1>8. Seen(r)'
  BY <1>1, <1>2, <1>4 DEF Seen
<1>9. Guarded(r)'
  BY <1>1, <1>2, <1>4, <1>5 DEF Guarded
<1> QED
  BY <1>7, <1>8, <1>9 DEF RequestOK

LEMMA ReadSetKeeps ==
  ASSUME TypeOK, NEW r \in Requests, RequestOK(r), ReadSet(r)
  PROVE  RequestOK(r)'
<1>1. PICK s \in request[r].todo : request' = [request EXCEPT ![r] =
        IF file[s] = NoText THEN [@ EXCEPT !.todo = AfterSet(r, s)]
        ELSE [pc |-> "rule", todo |-> AfterSet(r, s), set |-> s, text |-> file[s]]]
  BY DEF ReadSet
<1>2. UNCHANGED <<client, records, file, inForce, everDenied>> /\ request[r].pc = "visit"
  BY DEF ReadSet, history
<1>3. s \in Sets /\ request[r] \in EnforceCalls
  BY DEF TypeOK, EnforceCalls
<1>4. request'[r].todo = request[r].todo \ {s}
  BY <1>1, <1>3 DEF TypeOK, EnforceCalls, AfterSet
<1>5. \/ request'[r].pc = "visit" /\ file[s] = NoText
      \/ /\ request'[r].pc = "rule" /\ file[s] # NoText
         /\ request'[r].set = s /\ request'[r].text = file[s]
  BY <1>1, <1>2, <1>3 DEF TypeOK, EnforceCalls
<1>6. DenyingSets(r, file)' = DenyingSets(r, file)
  BY <1>2, SameDenying
<1>7. /\ s \in DenyingSets(r, file) => Refuses(file[s], client[r].agent, client[r].op)
      /\ file[s] \in Texts \union {NoText}
      /\ Refuses(file[s], client[r].agent, client[r].op) => s \in DenyingSets(r, file)
      /\ file[s] = NoText => s \notin DenyingSets(r, file)
  BY <1>3, EnforcementAssumption DEF DenyingSets, TypeOK, Refuses, Applies
<1>8. NoVerdict(r) /\ client[r].pc \in {"asked", "failedOpen"}
  BY <1>2 DEF RequestOK, Paired, Pending
<1>9. Paired(r)' /\ Justified(r)'
  BY <1>2, <1>8 DEF Paired, Justified, NoVerdict
<1>10. Seen(r)'
  <2>1. /\ request[r].todo \subseteq everDenied[r].enabled
        /\ DenyingSets(r, file) \subseteq everDenied[r].denying
    BY <1>2 DEF RequestOK, Seen
  <2>2. Refuses(request[r].text, client[r].agent, client[r].op)'
          = Refuses(request'[r].text, client[r].agent, client[r].op)
    BY <1>2 DEF Refuses, Applies
  <2> QED
    BY <1>2, <1>4, <1>5, <1>6, <1>7, <2>1, <2>2 DEF Seen
<1>11. Guarded(r)'
  <2>1. inForce[r] \subseteq request[r].todo /\ inForce[r] \subseteq DenyingSets(r, file)
    BY <1>2 DEF RequestOK, Guarded
  <2>2. Refuses(request[r].text, client[r].agent, client[r].op)'
          = Refuses(request'[r].text, client[r].agent, client[r].op)
    BY <1>2 DEF Refuses, Applies
  <2> QED
    BY <1>2, <1>4, <1>5, <1>6, <1>7, <1>8, <2>1, <2>2 DEF Guarded
<1> QED
  BY <1>9, <1>10, <1>11 DEF RequestOK

LEMMA RuleOnSetKeeps ==
  ASSUME TypeOK, NEW r \in Requests, RequestOK(r), RuleOnSet(r)
  PROVE  RequestOK(r)'
<1> DEFINE denied == Refuses(request[r].text, client[r].agent, client[r].op)
<1>1. /\ EnforcerFor(request[r].set, request[r].text) = request[r].text
      /\ request[r].pc = "rule" /\ request[r] \in EnforceCalls
  BY DEF RuleOnSet, EnforcerFor, TypeOK
<1>2. UNCHANGED <<client, file, inForce, everDenied>>
  BY DEF RuleOnSet
<1>3. DenyingSets(r, file)' = DenyingSets(r, file)
  BY <1>2, SameDenying
<1>4. NoVerdict(r) /\ client[r].pc \in {"asked", "failedOpen"}
  BY <1>1 DEF RequestOK, Paired, Pending
<1>5. /\ inForce[r] \subseteq DenyingSets(r, file)
      /\ inForce[r] \subseteq request[r].todo \union {request[r].set}
      /\ request[r].set \in inForce[r] => denied
  BY <1>1 DEF RequestOK, Guarded
<1>6. /\ request[r].todo \subseteq everDenied[r].enabled
      /\ DenyingSets(r, file) \subseteq everDenied[r].denying
      /\ request[r].set \in everDenied[r].enabled
      /\ denied => request[r].set \in everDenied[r].denying
  BY <1>1 DEF RequestOK, Seen
<1>7. CASE denied
  <2>1. request' = [request EXCEPT ![r] = [@ EXCEPT !.pc = "denied"]]
    BY <1>1, <1>7 DEF RuleOnSet
  <2>2. Record(r, FALSE, request[r].set)
    BY <1>1, <1>7 DEF RuleOnSet
  <2>3. request'[r].pc = "denied"
    BY <1>1, <2>1 DEF TypeOK, EnforceCalls
  <2>4. Paired(r)' /\ Seen(r)' /\ Guarded(r)'
    BY <1>2, <1>3, <1>4, <1>5, <2>3 DEF Paired, Pending, Seen, Guarded
  <2>5. Justified(r)'
    BY <1>2, <1>4, <1>6, <1>7, <2>2 DEF Justified, Record, NoVerdict
  <2> QED
    BY <2>4, <2>5 DEF RequestOK
<1>8. CASE ~ denied
  <2>1. request' = [request EXCEPT ![r] = [@ EXCEPT !.pc = "visit", !.set = NoSet,
                                                    !.text = NoText]]
    BY <1>1, <1>8 DEF RuleOnSet
  <2>2. records' = records
    BY <1>1, <1>8 DEF RuleOnSet
  <2>3. request'[r].pc = "visit" /\ request'[r].todo = request[r].todo
    BY <1>1, <2>1 DEF TypeOK, EnforceCalls
  <2>4. Paired(r)' /\ Justified(r)'
    BY <1>2, <1>4, <2>2 DEF Paired, Justified, NoVerdict
  <2>5. Seen(r)' /\ Guarded(r)'
    BY <1>2, <1>3, <1>4, <1>5, <1>6, <1>8, <2>3 DEF Seen, Guarded
  <2> QED
    BY <2>4, <2>5 DEF RequestOK
<1> QED
  BY <1>7, <1>8

LEMMA AllowKeeps ==
  ASSUME TypeOK, NEW r \in Requests, RequestOK(r), Allow(r)
  PROVE  RequestOK(r)'
<1>1. /\ request'[r].pc = "allowed" /\ UNCHANGED <<client, file, inForce, everDenied>>
      /\ Record(r, TRUE, NoSet) /\ request[r].pc = "visit" /\ request[r].todo = {}
  BY DEF Allow, TypeOK, EnforceCalls
<1>2. DenyingSets(r, file)' = DenyingSets(r, file)
  BY <1>1, SameDenying
<1>3. NoVerdict(r) /\ client[r].pc \in {"asked", "failedOpen"}
  BY <1>1 DEF RequestOK, Paired, Pending
<1>4. inForce[r] = {}
  BY <1>1 DEF RequestOK, Guarded
<1>5. Paired(r)' /\ Seen(r)' /\ Guarded(r)'
  BY <1>1, <1>2, <1>3, <1>4 DEF Paired, Pending, Seen, Guarded
<1>6. Justified(r)'
  BY <1>1, <1>3 DEF Justified, Record, NoVerdict
<1> QED
  BY <1>5, <1>6 DEF RequestOK

LEMMA InterceptKeeps ==
  ASSUME TypeOK, NEW r \in Requests, RequestOK(r), Intercept(r)
  PROVE  RequestOK(r)'
<1>1. CASE Ask(r)
  <2>1. /\ client[r].pc = "idle" /\ request[r].pc = "idle"
        /\ request'[r].pc \in {"idle", "sent"} /\ client'[r].pc = "asked"
        /\ inForce'[r] = {} /\ records' = records
    BY <1>1 DEF Ask, TypeOK, EnforceCalls
  <2>2. NoVerdict(r)'
    BY <2>1 DEF RequestOK, Paired, NoVerdict
  <2>3. Paired(r)' /\ Justified(r)'
    BY <2>1, <2>2 DEF Paired, Justified, NoVerdict
  <2>4. Seen(r)' /\ Guarded(r)'
    BY <2>1 DEF Seen, Guarded
  <2> QED
    BY <2>3, <2>4 DEF RequestOK
<1>2. CASE Answer(r) \/ FailOpen(r)
  <2>1. /\ UNCHANGED <<request, file, records, inForce, everDenied>>
        /\ client'[r].agent = client[r].agent /\ client'[r].op = client[r].op
        /\ \/ client'[r].pc = "failedOpen"
           \/ /\ request[r].pc = "denied" /\ client'[r].pc = "blocked"
           \/ /\ request[r].pc = "allowed" /\ client'[r].pc = "performed"
    BY <1>2 DEF Answer, FailOpen, Outcome, TypeOK, ClientCalls, history
  <2>2. DenyingSets(r, file)' = DenyingSets(r, file)
    BY <2>1, SameDenying
  <2>3. Paired(r)' /\ Justified(r)'
    BY <2>1 DEF RequestOK, Paired, Pending, Justified, NoVerdict
  <2>4. Seen(r)' /\ Guarded(r)'
    BY <2>1, <2>2 DEF RequestOK, Seen, Guarded, Refuses, Applies
  <2> QED
    BY <2>3, <2>4 DEF RequestOK
<1>3. CASE Finish(r)
  <2>1. /\ request'[r].pc = "idle" /\ client'[r].pc = "idle" /\ inForce'[r] = {}
        /\ \A e \in records' : e.request # r
    BY <1>3, IdleTypes DEF Finish, TypeOK
  <2> QED
    BY <2>1 DEF RequestOK, Paired, Pending, NoVerdict, Seen, Guarded, Justified
<1> QED
  BY <1>1, <1>2, <1>3 DEF Intercept

LEMMA CrashKeeps ==
  ASSUME TypeOK, NEW r \in Requests, RequestOK(r), Crash
  PROVE  RequestOK(r)'
<1>1. /\ request'[r].pc = "idle" /\ inForce'[r] = {}
      /\ UNCHANGED <<client, records, everDenied>>
  BY IdleTypes DEF Crash
<1>2. Paired(r)' /\ Justified(r)'
  BY <1>1 DEF RequestOK, Paired, Pending, NoVerdict, Justified
<1>3. Seen(r)' /\ Guarded(r)'
  BY <1>1 DEF Seen, Guarded
<1> QED
  BY <1>2, <1>3 DEF RequestOK

LEMMA IInvStep == IInv /\ [Next]_vars => IInv'
<1> SUFFICES ASSUME IInv, [Next]_vars, NEW r \in Requests PROVE RequestOK(r)'
  BY TypesStep DEF IInv
<1> USE DEF IInv
<1>1. CASE UNCHANGED <<file, request, client, records, inForce, everDenied>>
  BY <1>1, Unconcerned DEF SameRequest
<1>2. ASSUME NEW t \in Toggles, ToggleCall(t) PROVE RequestOK(r)'
  <2>1. CASE ApplyToggle(t)
    <3>1. file' = file /\ Track(enabled', file') /\ UNCHANGED <<request, client, records>>
      BY <2>1 DEF ApplyToggle
    <3> QED
      BY <3>1, TrackKeeps
  <2>2. CASE ~ ApplyToggle(t)
    BY <1>1, <1>2, <2>2 DEF ToggleCall, BeginToggle, DropEnforcer, WriteToggle, history
  <2> QED
    BY <2>1, <2>2
<1>3. ASSUME NEW q \in Requests, EnforceCall(q) \/ Intercept(q) PROVE RequestOK(r)'
  <2>1. CASE q = r
    BY <1>3, <2>1, BeginEnforceKeeps, ReadSetKeeps, RuleOnSetKeeps, AllowKeeps, InterceptKeeps
    DEF EnforceCall
  <2>2. CASE q # r
    BY <1>3, <2>2, OtherRequests, Unconcerned
  <2> QED
    BY <2>1, <2>2
<1>4. ASSUME NEW s \in Sets, Edit(s) PROVE RequestOK(r)'
  <2>1. Track(enabled, file') /\ UNCHANGED <<request, client, records>>
    BY <1>4 DEF Edit
  <2> QED
    BY <2>1, TrackKeeps
<1>5. CASE Crash
  BY <1>5, CrashKeeps
<1>6. CASE Start \/ (\E a \in Agents : TogglePatch(a)) \/ UNCHANGED vars
  BY <1>1, <1>6 DEF Start, TogglePatch, vars, history
<1> QED
  BY <1>2, <1>3, <1>4, <1>5, <1>6 DEF Next

LEMMA InvariantHolds == Spec => []IInv
<1>1. Init => IInv
  BY TypesInit, InitRequests DEF IInv
<1> QED
  BY <1>1, IInvStep, PTL DEF Spec

(* A recorded deny names a set that was enabled, and denied that operation,  *)
(* while the request ran (EnforceForAgent, enforce.go).                      *)
THEOREM DeniesAreJustified == Spec => []DenyIsJustified
<1>1. IInv => DenyIsJustified
  <2>1. IInv => \A e \in records : e.request \in Requests
    BY DEF IInv, TypeOK, Verdicts
  <2> QED
    BY <2>1 DEF IInv, RequestOK, Justified, DenyIsJustified
<1> QED
  BY <1>1, InvariantHolds, PTL

(* No answer lets an operation through that some enabled set refused all     *)
(* along (EnforceForAgent, and the handler of openclaw_hook.js).             *)
THEOREM NoGuardIsBypassed == Spec => []GuardHolds
<1>1. IInv => GuardHolds
  BY DEF IInv, RequestOK, Guarded, GuardHolds
<1> QED
  BY <1>1, InvariantHolds, PTL

-----------------------------------------------------------------------------
(* The state file *)

\* As long as no two toggles overlapped and no write failed, the only toggle
\* under way is about to write what is in force, or has yet to change it.
SavedOK ==
  /\ ~ up => InFlight = {}
  /\ apart =>
       /\ \A t, u \in InFlight : t = u
       /\ up /\ (\A t \in Toggles : toggle[t].pc # "applied")
            => state = [torn |-> FALSE, enabled |-> enabled]
       /\ \A t \in Toggles : toggle[t].pc = "applied" => toggle[t].names = enabled

LEMMA SavedToggle ==
  ASSUME TypeOK, SavedOK, NEW t \in Toggles, ToggleCall(t)
  PROVE  SavedOK'
<1>1. ASSUME NEW s \in Sets, NEW on \in BOOLEAN, BeginToggle(t, s, on)
      PROVE  SavedOK'
  <2>1. /\ toggle' = [toggle EXCEPT ![t] = [pc |-> "gated", set |-> s, on |-> on, names |-> {}]]
        /\ apart' = (apart /\ InFlight = {}) /\ UNCHANGED <<up, enabled, state>> /\ up
    BY <1>1 DEF BeginToggle
  <2> QED
    BY <2>1 DEF SavedOK, InFlight, TypeOK
<1>2. CASE DropEnforcer(t)
  <2>1. /\ toggle'[t].pc = "dropped" /\ toggle[t].pc = "gated" /\ up
        /\ \A u \in Toggles : u # t => toggle'[u] = toggle[u]
        /\ UNCHANGED <<up, enabled, state, apart>>
    BY <1>2 DEF DropEnforcer, TypeOK, ToggleCalls
  <2> QED
    BY <2>1 DEF SavedOK, InFlight
<1>3. CASE ApplyToggle(t)
  <2>1. /\ toggle'[t].pc = "applied" /\ toggle'[t].names = enabled'
        /\ toggle[t].pc = "dropped" /\ up
        /\ \A u \in Toggles : u # t => toggle'[u] = toggle[u]
        /\ UNCHANGED <<up, state, apart>>
    BY <1>3 DEF ApplyToggle, TypeOK, ToggleCalls
  <2> QED
    BY <2>1 DEF SavedOK, InFlight
<1>4. CASE WriteToggle(t)
  <2>1. /\ toggle'[t].pc = "idle" /\ toggle[t].pc = "applied" /\ up
        /\ \A u \in Toggles : u # t => toggle'[u] = toggle[u]
        /\ UNCHANGED <<up, enabled>>
        /\ \/ apart' = FALSE
           \/ apart' = apart /\ state' = [torn |-> FALSE, enabled |-> toggle[t].names]
    BY <1>4 DEF WriteToggle, WrittenNames, IdleToggle, TypeOK
  <2> QED
    BY <2>1 DEF SavedOK, InFlight
<1> QED
  BY <1>1, <1>2, <1>3, <1>4 DEF ToggleCall

LEMMA SavedStep == TypeOK /\ SavedOK /\ [Next]_vars => SavedOK'
<1> SUFFICES ASSUME TypeOK, SavedOK, [Next]_vars PROVE SavedOK'
  OBVIOUS
<1>1. CASE UNCHANGED <<up, toggle, state, enabled, apart>>
  BY <1>1 DEF SavedOK, InFlight
<1>2. ASSUME NEW t \in Toggles, ToggleCall(t) PROVE SavedOK'
  BY <1>2, SavedToggle
<1>3. CASE Crash
  BY <1>3 DEF Crash, SavedOK, InFlight, IdleToggle
<1>4. CASE Start
  <2>1. state.torn = FALSE
    BY <1>4, Zenon DEF Start, TypeOK
  <2>2. state = [torn |-> state.torn, enabled |-> state.enabled]
    BY DEF TypeOK
  <2>3. state = [torn |-> FALSE, enabled |-> enabled']
    BY <1>4, <2>1, <2>2, Zenon DEF Start
  <2> QED
    BY <1>4, <2>3 DEF Start, SavedOK, InFlight
<1>5. ASSUME NEW r \in Requests, EnforceCall(r) \/ Intercept(r) PROVE SavedOK'
  BY <1>1, <1>5 DEF EnforceCall, Intercept, BeginEnforce, ReadSet, RuleOnSet, Allow, Ask, Answer,
                    FailOpen, Finish
<1>6. CASE (\E s \in Sets : Edit(s)) \/ (\E a \in Agents : TogglePatch(a)) \/ UNCHANGED vars
  BY <1>1, <1>6 DEF Edit, TogglePatch, vars
<1> QED
  BY <1>2, <1>3, <1>4, <1>5, <1>6 DEF Next

(* When no two toggles overlapped and no write failed, the state file says   *)
(* what is in force (SetPolicySetEnabled, policyset_state.go).               *)
THEOREM SavedIsInForce == Spec => []SavedWhenApart
<1>1. Init => TypeOK /\ TogglesOK /\ SavedOK
  <2>1. Init => SavedOK
    BY IdleTypes DEF Init, SavedOK, InFlight, IdleToggle
  <2> QED
    BY <2>1, TypesInit
<1>2. TypeOK /\ TogglesOK /\ SavedOK /\ [Next]_vars => (TypeOK /\ TogglesOK /\ SavedOK)'
  BY TypesStep, SavedStep
<1>3. TypeOK /\ TogglesOK /\ SavedOK => SavedWhenApart
  BY DEF SavedOK, SavedWhenApart, InFlight
<1> QED
  BY <1>1, <1>2, <1>3, PTL DEF Spec

-----------------------------------------------------------------------------
(* The proxy: the inductive invariant says of a request under way which     *)
(* question it still has to put, and that a policy it has seen is why; and  *)
(* of a policy that was written, but is not yet in force, that it is the    *)
(* one on disk.                                                             *)

AskingStages == {"pdp", "token", "fetch", "enforce", "unreachable"}

\* A request is where one of the policies it has seen has brought it.
OnItsWay(e, s) ==
  /\ e.stage = "unknown" => e.intent.recognizer = Unknown
  /\ e.stage = "stepup" =>
       /\ e.intent.recognizer # Unknown
       /\ \E p \in s.policies : Enabled(p, e.intent) /\ Says(p, e.intent, "step-up")
  /\ e.stage \in AskingStages =>
       /\ e.intent.recognizer # Unknown /\ e.ruling \in {"none", "error"}
       /\ \E p \in s.policies : Enabled(p, e.intent) /\ Says(p, e.intent, "pdp")
  /\ e.stage = "allowed" => GroundsToPass(e, s)
  /\ e.stage = "denied" => GroundsToBlock(e, s)

\* What is in force is among what a request has seen.
UpToDate(s) == policy \in s.policies /\ intercept \in s.intercepts

RequestsOK ==
  \A c \in Clients : exchange[c] # NoExchange => OnItsWay(exchange[c], seen[c]) /\ UpToDate(seen[c])

\* Of policies posted one at a time, one at most is being saved.
SavingOK ==
  ~overlapped =>
    /\ \A u, v \in Posters : posts[u] # NoPost /\ posts[v] # NoPost => u = v
    /\ \A u \in Posters : posts[u].stage = "set" =>
         ~policyFile.torn /\ policyFile.policy = posts[u].policy
    /\ running /\ (\A u \in Posters : posts[u].stage # "set") =>
         policyFile.torn \/ policyFile.policy = policy

DownOK ==
  ~running => /\ exchange = [c \in Clients |-> NoExchange]
              /\ posts = [u \in Posters |-> NoPost]

\* tokenMutex has one holder.
LockOK == \A c, d \in Clients : exchange[c].stage = "fetch" /\ exchange[d].stage = "fetch" => c = d

\* The inductive invariant.
ProxyInv == ProxyTypeOK /\ RequestsOK /\ SavingOK /\ DownOK /\ LockOK

-----------------------------------------------------------------------------
(* Lemmas *)

\* A set of natural numbers has a least element, the one Min chooses.
LEMMA MinOfNaturals ==
  ASSUME NEW S, S \subseteq Nat, S # {}
  PROVE  Min(S) \in S /\ \A k \in S : Min(S) <= k
<1>1. PICK x \in S : \A y \in S : ~ (<<y, x>> \in OpToRel(<, Nat))
  BY NatLessThanWellFounded, WFMin, Zenon
<1>2. \A y \in S : x <= y
  <2> TAKE y \in S
  <2>1. <<y, x>> \notin OpToRel(<, Nat)
    BY <1>1
  <2>2. x \in Nat /\ y \in Nat
    OBVIOUS
  <2>3. ~ (y < x)
    BY <2>1, <2>2, Zenon DEF OpToRel
  <2> QED
    BY <2>2, <2>3
<1> QED
  BY <1>2 DEF Min

\* Evaluate finds what the policy says.
LEMMA EvaluateSays ==
  ASSUME NEW p \in Policies, NEW i
  PROVE  Says(p, i, Sense(Evaluate(p, i)))
<1>1. CASE i.host \in p.allowlist
  BY <1>1 DEF Says, Evaluate, Sense
<1>2. CASE i.host \notin p.allowlist /\ Hits(p, i) = {}
  <2>1. \A k \in DOMAIN p.rules : ~Matches(p.rules[k], i)
    BY <1>2 DEF Hits
  <2>2. Evaluate(p, i) = p.default
    BY <1>2 DEF Evaluate
  <2> QED
    BY <1>2, <2>1, <2>2 DEF Says
<1>3. CASE i.host \notin p.allowlist /\ Hits(p, i) # {}
  <2> DEFINE first == Min(Hits(p, i))
  <2>1. Hits(p, i) \subseteq Nat
    BY ProxyAssumption DEF Hits
  <2>2. first \in Hits(p, i) /\ \A k \in Hits(p, i) : first <= k
    BY <1>3, <2>1, MinOfNaturals
  <2>3. first \in DOMAIN p.rules /\ Matches(p.rules[first], i)
    BY <2>2 DEF Hits
  <2>4. \A j \in DOMAIN p.rules : j < first => ~Matches(p.rules[j], i)
    <3> SUFFICES ASSUME NEW j \in DOMAIN p.rules, j < first, Matches(p.rules[j], i) PROVE FALSE
      OBVIOUS
    <3>1. j \in Hits(p, i)
      BY DEF Hits
    <3>2. j \in Nat /\ first \in Nat /\ first <= j
      BY <2>1, <2>2, <3>1
    <3> QED
      BY <3>2
  <2>5. Evaluate(p, i) = p.rules[first].action
    BY <1>3 DEF Evaluate
  <2> QED
    BY <1>3, <2>3, <2>4, <2>5 DEF Says
<1> QED
  BY <1>1, <1>2, <1>3

\* A request is let in where the policy puts it.
LEMMA FirstStageOnItsWay ==
  ASSUME NEW e \in Exchange, NEW s, NEW p \in Policies, p \in s.policies,
         e.stage = FirstStage(p, e.intent), e.ruling = "none"
  PROVE  OnItsWay(e, s)
<1> DEFINE i == e.intent
           said == Sense(Evaluate(p, i))
<1>1. Says(p, i, said)
  BY EvaluateSays
<1>2. CASE i.recognizer = Unknown
  <2>1. e.stage = "unknown"
    BY <1>2 DEF FirstStage
  <2> QED
    BY <1>2, <2>1 DEF OnItsWay, AskingStages
<1>3. CASE i.recognizer # Unknown /\ ~Enabled(p, i)
  <2>1. e.stage = "allowed"
    BY <1>3 DEF FirstStage
  <2>2. GroundsToPass(e, s)
    BY <1>3 DEF GroundsToPass
  <2> QED
    BY <2>1, <2>2 DEF OnItsWay, AskingStages
<1>4. CASE i.recognizer # Unknown /\ Enabled(p, i)
  <2>1. CASE Evaluate(p, i) = "allow"
    <3>1. e.stage = "allowed" /\ said = "allow"
      BY <1>4, <2>1 DEF FirstStage, AfterEvaluation, Sense
    <3>2. GroundsToPass(e, s)
      BY <1>1, <1>4, <3>1 DEF GroundsToPass
    <3> QED
      BY <3>1, <3>2 DEF OnItsWay, AskingStages
  <2>2. CASE Evaluate(p, i) = "deny"
    <3>1. e.stage = "denied" /\ said = "deny"
      BY <1>4, <2>2 DEF FirstStage, AfterEvaluation, Sense
    <3>2. GroundsToBlock(e, s)
      BY <1>1, <1>4, <3>1 DEF GroundsToBlock
    <3> QED
      BY <3>1, <3>2 DEF OnItsWay, AskingStages
  <2>3. CASE Evaluate(p, i) = "step-up"
    <3>1. e.stage = "stepup" /\ said = "step-up"
      BY <1>4, <2>3 DEF FirstStage, AfterEvaluation, Sense
    <3> QED
      BY <1>1, <1>4, <3>1 DEF OnItsWay, AskingStages
  <2>4. CASE Evaluate(p, i) \notin {"allow", "deny", "step-up"}
    <3>1. e.stage = "pdp" /\ said = "pdp"
      BY <1>4, <2>4 DEF FirstStage, AfterEvaluation, Sense
    <3> QED
      BY <1>1, <1>4, <3>1 DEF OnItsWay, AskingStages
  <2> QED
    BY <2>1, <2>2, <2>3, <2>4
<1> QED
  BY <1>2, <1>3, <1>4

\* What a request has grounds for it still has when it has seen more.
LEMMA SeeingMore ==
  ASSUME NEW e, NEW s, NEW t, s.policies \subseteq t.policies, s.intercepts \subseteq t.intercepts,
         OnItsWay(e, s)
  PROVE  OnItsWay(e, t)
<1>1. GroundsToPass(e, s) => GroundsToPass(e, t)
  BY DEF GroundsToPass
<1>2. GroundsToBlock(e, s) => GroundsToBlock(e, t)
  BY DEF GroundsToBlock
<1> QED
  BY <1>1, <1>2 DEF OnItsWay

\* A connection without a request, and an operator without a post, are idle.
LEMMA Idle ==
  /\ NoExchange.stage = "idle" /\ NoExchange \notin Exchange
  /\ NoPost.stage = "none" /\ NoPost \notin Post
<1>1. NoExchange.stage = "idle" /\ NoPost.stage = "none"
  BY DEF NoExchange, NoPost
<1>2. "idle" \notin Stages /\ "none" \notin {"write", "set"}
  BY DEF Stages
<1>3. \A e \in Exchange : e.stage \in Stages
  BY DEF Exchange
<1>4. \A r \in Post : r.stage \in {"write", "set"}
  BY DEF Post
<1> QED
  BY <1>1, <1>2, <1>3, <1>4

LEMMA Busy ==
  ASSUME ProxyTypeOK
  PROVE  /\ \A c \in Clients : exchange[c].stage # "idle" => exchange[c] \in Exchange
         /\ \A u \in Posters : posts[u].stage # "none" => posts[u] \in Post
  BY Idle DEF ProxyTypeOK

\* A request at its next stage is a request, the same one.
LEMMA Moved ==
  ASSUME NEW e \in Exchange, NEW stage \in Stages,
         NEW pdp \in Pdps, NEW tok \in Pdps, NEW ruling \in {"none", "allow", "deny", "error"}
  PROVE  LET a == [e EXCEPT !.stage = stage]
             b == [e EXCEPT !.stage = stage, !.pdp = pdp]
             k == [e EXCEPT !.stage = stage, !.token = tok]
             f == [e EXCEPT !.stage = stage, !.pdp = pdp, !.token = tok]
             g == [e EXCEPT !.ruling = ruling, !.pdp = pdp, !.token = tok, !.stage = stage]
         IN  /\ \A n \in {a, b, k, f} : n.ruling = e.ruling
             /\ g.ruling = ruling
             /\ \A n \in {a, b, k, f, g} : n \in Exchange /\ n.stage = stage /\ n.intent = e.intent
  BY DEF Exchange

\* The frame of the steps of one request: it stays on its way, the others do
\* not notice.
LEMMA RequestMoves ==
  ASSUME ProxyInv, NEW c \in Clients, NEW e \in Exchange,
         exchange[c].stage # "idle",
         exchange' = [exchange EXCEPT ![c] = e],
         OnItsWay(e, seen[c]),
         token' \in [of : Pdps, expired : BOOLEAN],
         \/ e.stage = "fetch" /\ tokenLock = {} /\ tokenLock' = {c}
         \/ e.stage # "fetch" /\ tokenLock' = tokenLock \ {c},
         UNCHANGED operatorVars
  PROVE  ProxyInv'
<1> USE DEF ProxyInv
<1>1. exchange'[c] = e /\ \A d \in Clients : d # c => exchange'[d] = exchange[d]
  BY DEF ProxyTypeOK
<1>2. exchange' \in [Clients -> Exchange \cup {NoExchange}]
  BY DEF ProxyTypeOK
<1>3. ProxyTypeOK' /\ LockOK'
  <2>1. tokenLock' = {d \in Clients : exchange'[d].stage = "fetch"}
    BY <1>1 DEF ProxyTypeOK
  <2>2. ProxyTypeOK'
    BY <1>2, <2>1 DEF ProxyTypeOK, operatorVars
  <2>3. LockOK'
    BY <1>1, <2>1 DEF ProxyTypeOK, LockOK
  <2> QED
    BY <2>2, <2>3
<1>4. RequestsOK'
  <2> SUFFICES ASSUME NEW d \in Clients, exchange'[d] # NoExchange
               PROVE  OnItsWay(exchange'[d], seen'[d]) /\ UpToDate(seen[d])'
    BY DEF RequestsOK
  <2>1. exchange[d] # NoExchange
    BY <1>1, Idle
  <2>2. UpToDate(seen[d])'
    BY <2>1 DEF RequestsOK, UpToDate, operatorVars
  <2>3. OnItsWay(exchange'[d], seen'[d])
    BY <1>1, <2>1 DEF RequestsOK, operatorVars
  <2> QED
    BY <2>2, <2>3
<1>5. SavingOK'
  BY DEF SavingOK, operatorVars
<1>6. DownOK'
  <2>1. running
    BY Idle DEF DownOK
  <2> QED
    BY <2>1 DEF DownOK, operatorVars
<1> QED
  BY <1>3, <1>4, <1>5, <1>6

\* The frame of a change of the policy or the settings in force: every request
\* sees it, and keeps its grounds.
LEMMA SeesMore ==
  ASSUME ProxyInv, policy' \in Policies, intercept' \in Intercepts,
         seen' = SeenWith(policy', intercept'), exchange' = exchange
  PROVE  RequestsOK' /\ seen' \in [Clients -> [policies : SUBSET Policies, intercepts : SUBSET Intercepts]]
<1> USE DEF ProxyInv
<1>1. ASSUME NEW c \in Clients, exchange[c] # NoExchange
      PROVE  /\ seen[c].policies \subseteq seen'[c].policies
             /\ seen[c].intercepts \subseteq seen'[c].intercepts
             /\ UpToDate(seen[c])'
  <2>1. seen'[c] = [policies |-> seen[c].policies \cup {policy'},
                   intercepts |-> seen[c].intercepts \cup {intercept'}]
    BY <1>1 DEF SeenWith
  <2> QED
    BY <2>1 DEF UpToDate
<1>2. RequestsOK'
  BY <1>1, SeeingMore DEF RequestsOK
<1>3. seen' \in [Clients -> [policies : SUBSET Policies, intercepts : SUBSET Intercepts]]
  <2>1. \A c \in Clients : seen[c] \in [policies : SUBSET Policies, intercepts : SUBSET Intercepts]
    BY DEF ProxyTypeOK
  <2>2. \A c \in Clients : /\ seen[c].policies \cup {policy'} \in SUBSET Policies
                           /\ seen[c].intercepts \cup {intercept'} \in SUBSET Intercepts
    BY <2>1
  <2>3. Unseen \in [policies : SUBSET Policies, intercepts : SUBSET Intercepts]
    BY DEF Unseen
  <2> QED
    BY <2>2, <2>3 DEF SeenWith
<1> QED
  BY <1>2, <1>3

-----------------------------------------------------------------------------
(* The steps of a request *)

LEMMA Asked ==
  ASSUME ProxyInv, NEW c \in Clients, exchange[c].stage \in AskingStages \cup {"unknown", "stepup"}
  PROVE  /\ exchange[c] \in Exchange /\ exchange[c] # NoExchange /\ exchange[c].stage # "idle"
         /\ OnItsWay(exchange[c], seen[c]) /\ intercept \in seen[c].intercepts
         /\ intercept \in Intercepts /\ intercept.pdp \in Pdps /\ NoPdp \in Pdps
<1>1. exchange[c].stage # "idle"
  BY DEF AskingStages
<1>2. exchange[c] \in Exchange /\ exchange[c] # NoExchange
  BY <1>1, Busy, Idle DEF ProxyInv
<1>3. OnItsWay(exchange[c], seen[c]) /\ intercept \in seen[c].intercepts
  BY <1>2 DEF ProxyInv, RequestsOK, UpToDate
<1>4. intercept \in Intercepts /\ intercept.pdp \in Pdps /\ NoPdp \in Pdps
  BY DEF ProxyInv, ProxyTypeOK, Pdps
<1> QED
  BY <1>1, <1>2, <1>3, <1>4

LEMMA PassThroughStep ==
  ASSUME ProxyInv, NEW c \in Clients, PassThrough(c)
  PROVE  ProxyInv'
<1> DEFINE e == exchange[c]
           next == IF intercept.passthrough THEN "allowed" ELSE "denied"
           n == [e EXCEPT !.stage = next]
<1>1. /\ e \in Exchange /\ e.stage = "unknown" /\ OnItsWay(e, seen[c])
      /\ intercept \in seen[c].intercepts
  BY Asked DEF PassThrough
<1>2. n \in Exchange /\ n.stage = next /\ n.intent = e.intent
  <2>1. next \in Stages
    BY DEF Stages
  <2> QED
    BY <1>1, <2>1 DEF Exchange
<1>3. exchange' = [exchange EXCEPT ![c] = n]
  BY DEF PassThrough, Moves
<1> HIDE DEF n
<1>4. OnItsWay(n, seen[c])
  <2>1. n.intent.recognizer = Unknown
    BY <1>1, <1>2 DEF OnItsWay
  <2>2. CASE intercept.passthrough
    BY <1>1, <1>2, <2>1, <2>2 DEF OnItsWay, AskingStages, GroundsToPass
  <2>3. CASE ~intercept.passthrough
    BY <1>1, <1>2, <2>1, <2>3 DEF OnItsWay, AskingStages, GroundsToBlock
  <2> QED
    BY <2>2, <2>3
<1>5. n.stage # "fetch" /\ tokenLock' = tokenLock \ {c}
  <2>1. c \notin tokenLock
    BY <1>1 DEF ProxyInv, ProxyTypeOK
  <2> QED
    BY <1>2, <2>1 DEF PassThrough
<1>6. token' \in [of : Pdps, expired : BOOLEAN] /\ UNCHANGED operatorVars
  BY DEF PassThrough, ProxyInv, ProxyTypeOK
<1> QED
  BY <1>1, <1>2, <1>3, <1>4, <1>5, <1>6, RequestMoves

LEMMA StepUpStep ==
  ASSUME ProxyInv, NEW c \in Clients, StepUp(c)
  PROVE  ProxyInv'
<1> DEFINE e == exchange[c]
           next == IF intercept.stepUp = "allow" THEN "allowed" ELSE "denied"
           n == [e EXCEPT !.stage = next]
<1>1. /\ e \in Exchange /\ e.stage = "stepup" /\ OnItsWay(e, seen[c])
      /\ intercept \in seen[c].intercepts
  BY Asked DEF StepUp
<1>2. n \in Exchange /\ n.stage = next /\ n.intent = e.intent
  <2>1. next \in Stages
    BY DEF Stages
  <2> QED
    BY <1>1, <2>1 DEF Exchange
<1>3. exchange' = [exchange EXCEPT ![c] = n]
  BY DEF StepUp, Moves
<1> HIDE DEF n
<1>4. OnItsWay(n, seen[c])
  <2>1. /\ n.intent.recognizer # Unknown
        /\ \E p \in seen[c].policies : Enabled(p, n.intent) /\ Says(p, n.intent, "step-up")
    BY <1>1, <1>2 DEF OnItsWay
  <2>2. CASE intercept.stepUp = "allow"
    BY <1>1, <1>2, <2>1, <2>2 DEF OnItsWay, AskingStages, GroundsToPass
  <2>3. CASE intercept.stepUp # "allow"
    BY <1>1, <1>2, <2>1, <2>3 DEF OnItsWay, AskingStages, GroundsToBlock
  <2> QED
    BY <2>2, <2>3
<1>5. n.stage # "fetch" /\ tokenLock' = tokenLock \ {c}
  <2>1. c \notin tokenLock
    BY <1>1 DEF ProxyInv, ProxyTypeOK
  <2> QED
    BY <1>2, <2>1 DEF StepUp
<1>6. token' \in [of : Pdps, expired : BOOLEAN] /\ UNCHANGED operatorVars
  BY DEF StepUp, ProxyInv, ProxyTypeOK
<1> QED
  BY <1>1, <1>2, <1>3, <1>4, <1>5, <1>6, RequestMoves

LEMMA DecideOnUnreachableStep ==
  ASSUME ProxyInv, NEW c \in Clients, DecideOnUnreachable(c)
  PROVE  ProxyInv'
<1> DEFINE e == exchange[c]
           next == IF intercept.failClosed THEN "denied" ELSE "allowed"
           n == [e EXCEPT !.stage = next]
<1>1. /\ e \in Exchange /\ e.stage = "unreachable" /\ OnItsWay(e, seen[c])
      /\ intercept \in seen[c].intercepts
  BY Asked DEF DecideOnUnreachable, AskingStages
<1>2. n \in Exchange /\ n.stage = next /\ n.intent = e.intent /\ n.ruling = e.ruling
  <2>1. next \in Stages
    BY DEF Stages
  <2> QED
    BY <1>1, <2>1 DEF Exchange
<1>3. exchange' = [exchange EXCEPT ![c] = n]
  BY DEF DecideOnUnreachable, Moves
<1> HIDE DEF n
<1>4. OnItsWay(n, seen[c])
  <2>1. /\ n.intent.recognizer # Unknown /\ n.ruling \in {"none", "error"}
        /\ \E p \in seen[c].policies : Enabled(p, n.intent) /\ Says(p, n.intent, "pdp")
    BY <1>1, <1>2 DEF OnItsWay, AskingStages
  <2>2. CASE intercept.failClosed
    BY <1>1, <1>2, <2>1, <2>2 DEF OnItsWay, AskingStages, GroundsToBlock
  <2>3. CASE ~intercept.failClosed
    BY <1>1, <1>2, <2>1, <2>3 DEF OnItsWay, AskingStages, GroundsToPass
  <2> QED
    BY <2>2, <2>3
<1>5. n.stage # "fetch" /\ tokenLock' = tokenLock \ {c}
  <2>1. c \notin tokenLock
    BY <1>1 DEF ProxyInv, ProxyTypeOK
  <2> QED
    BY <1>2, <2>1 DEF DecideOnUnreachable
<1>6. token' \in [of : Pdps, expired : BOOLEAN] /\ UNCHANGED operatorVars
  BY DEF DecideOnUnreachable, ProxyInv, ProxyTypeOK
<1> QED
  BY <1>1, <1>2, <1>3, <1>4, <1>5, <1>6, RequestMoves

\* A request that still asks is on its way whichever endpoint and token it holds.
LEMMA StillAsking ==
  ASSUME NEW e, NEW n, NEW s, OnItsWay(e, s), e.stage \in AskingStages, n.stage \in AskingStages,
         n.intent = e.intent, n.ruling \in {"none", "error"}
  PROVE  OnItsWay(n, s)
  BY DEF OnItsWay, AskingStages

LEMMA ReadEndpointStep ==
  ASSUME ProxyInv, NEW c \in Clients, ReadEndpoint(c)
  PROVE  ProxyInv'
<1> DEFINE e == exchange[c]
           next == IF intercept.pdp = NoPdp THEN "unreachable" ELSE "token"
           n == [e EXCEPT !.stage = next, !.pdp = intercept.pdp]
<1>1. e \in Exchange /\ e.stage = "pdp" /\ OnItsWay(e, seen[c]) /\ intercept.pdp \in Pdps
  BY Asked DEF ReadEndpoint, AskingStages
<1>2. n \in Exchange /\ n.stage = next /\ n.intent = e.intent /\ n.ruling = e.ruling
  <2>1. next \in Stages
    BY DEF Stages
  <2> QED
    BY <1>1, <2>1 DEF Exchange
<1>3. exchange' = [exchange EXCEPT ![c] = n]
  BY DEF ReadEndpoint
<1> HIDE DEF n
<1>4. OnItsWay(n, seen[c])
  <2>1. e.ruling \in {"none", "error"} /\ e.stage \in AskingStages /\ n.stage \in AskingStages
    BY <1>1, <1>2 DEF OnItsWay, AskingStages
  <2> QED
    BY <1>1, <1>2, <2>1, StillAsking
<1>5. n.stage # "fetch" /\ tokenLock' = tokenLock \ {c}
  <2>1. c \notin tokenLock
    BY <1>1 DEF ProxyInv, ProxyTypeOK
  <2> QED
    BY <1>2, <2>1 DEF ReadEndpoint
<1>6. token' \in [of : Pdps, expired : BOOLEAN] /\ UNCHANGED operatorVars
  BY DEF ReadEndpoint, ProxyInv, ProxyTypeOK
<1> QED
  BY <1>1, <1>2, <1>3, <1>4, <1>5, <1>6, RequestMoves

LEMMA TakeTokenStep ==
  ASSUME ProxyInv, NEW c \in Clients, TakeToken(c)
  PROVE  ProxyInv'
<1> DEFINE e == exchange[c]
           a == [e EXCEPT !.stage = "enforce", !.token = token.of]
           b == [e EXCEPT !.stage = "fetch", !.token = intercept.pdp]
<1>1. /\ e \in Exchange /\ e.stage = "token" /\ OnItsWay(e, seen[c])
      /\ intercept.pdp \in Pdps /\ token.of \in Pdps
  <2>1. token.of \in Pdps
    BY DEF ProxyInv, ProxyTypeOK
  <2> QED
    BY <2>1, Asked DEF TakeToken, AskingStages
<1>2. \A n \in {a, b} : n \in Exchange /\ n.intent = e.intent /\ n.ruling = e.ruling
  BY <1>1 DEF Exchange, Stages
<1>3. a.stage = "enforce" /\ b.stage = "fetch"
  BY <1>1 DEF Exchange
<1>4. \/ exchange' = [exchange EXCEPT ![c] = a] /\ tokenLock' = tokenLock
      \/ exchange' = [exchange EXCEPT ![c] = b] /\ tokenLock' = {c}
  BY DEF TakeToken
<1>5. tokenLock = {} /\ token' = token /\ UNCHANGED operatorVars
  BY DEF TakeToken, Free
<1> HIDE DEF a, b
<1>6. OnItsWay(a, seen[c]) /\ OnItsWay(b, seen[c])
  <2>1. e.ruling \in {"none", "error"} /\ e.stage \in AskingStages
    BY <1>1 DEF OnItsWay, AskingStages
  <2>2. a.stage \in AskingStages /\ b.stage \in AskingStages
    BY <1>3 DEF AskingStages
  <2> QED
    BY <1>1, <1>2, <2>1, <2>2, StillAsking
<1>7. token' \in [of : Pdps, expired : BOOLEAN] /\ tokenLock = tokenLock \ {c}
  BY <1>5 DEF ProxyInv, ProxyTypeOK
<1>8. CASE exchange' = [exchange EXCEPT ![c] = a] /\ tokenLock' = tokenLock
  <2>1. exchange[c].stage # "idle" /\ a \in Exchange /\ a.stage # "fetch" /\ tokenLock' = tokenLock \ {c}
    BY <1>1, <1>2, <1>3, <1>7, <1>8
  <2> QED
    BY <2>1, <1>5, <1>6, <1>7, <1>8, RequestMoves
<1>9. CASE exchange' = [exchange EXCEPT ![c] = b] /\ tokenLock' = {c}
  <2>1. exchange[c].stage # "idle" /\ b \in Exchange /\ b.stage = "fetch"
    BY <1>1, <1>2, <1>3
  <2> QED
    BY <2>1, <1>5, <1>6, <1>7, <1>9, RequestMoves
<1> QED
  BY <1>4, <1>8, <1>9

LEMMA FetchTokenStep ==
  ASSUME ProxyInv, NEW c \in Clients, FetchToken(c)
  PROVE  ProxyInv'
<1> DEFINE e == exchange[c]
           a == [e EXCEPT !.stage = "enforce"]
           b == [e EXCEPT !.stage = "unreachable", !.pdp = NoPdp, !.token = NoPdp]
<1>1. e \in Exchange /\ e.stage = "fetch" /\ OnItsWay(e, seen[c]) /\ NoPdp \in Pdps
  BY Asked DEF FetchToken, AskingStages
<1>2. \A n \in {a, b} : n \in Exchange /\ n.intent = e.intent /\ n.ruling = e.ruling
  BY <1>1 DEF Exchange, Stages
<1>3. a.stage = "enforce" /\ b.stage = "unreachable"
  BY <1>1 DEF Exchange
<1>4. exchange' = [exchange EXCEPT ![c] = a] \/ exchange' = [exchange EXCEPT ![c] = b]
  BY DEF FetchToken, Moves
<1>5. token' \in [of : Pdps, expired : BOOLEAN] /\ UNCHANGED operatorVars
  <2>1. e.token \in Pdps
    BY <1>1 DEF Exchange
  <2>2. \/ token' = token
        \/ \E short \in BOOLEAN : token' = [of |-> e.token, expired |-> short]
    BY DEF FetchToken
  <2>3. UNCHANGED operatorVars
    BY DEF FetchToken
  <2> QED
    BY <2>1, <2>2, <2>3 DEF ProxyInv, ProxyTypeOK
<1>6. tokenLock' = tokenLock \ {c}
  <2>1. tokenLock = {c}
    BY <1>1 DEF ProxyInv, ProxyTypeOK, LockOK
  <2>2. tokenLock' = {}
    BY DEF FetchToken, Free
  <2> QED
    BY <2>1, <2>2
<1> HIDE DEF a, b
<1>7. OnItsWay(a, seen[c]) /\ OnItsWay(b, seen[c])
  <2>1. e.ruling \in {"none", "error"} /\ e.stage \in AskingStages
    BY <1>1 DEF OnItsWay, AskingStages
  <2>2. a.stage \in AskingStages /\ b.stage \in AskingStages
    BY <1>3 DEF AskingStages
  <2> QED
    BY <1>1, <1>2, <2>1, <2>2, StillAsking
<1>8. PICK n \in {a, b} : exchange' = [exchange EXCEPT ![c] = n]
  BY <1>4
<1>9. n \in Exchange /\ n.stage # "fetch" /\ OnItsWay(n, seen[c]) /\ exchange[c].stage # "idle"
  BY <1>1, <1>2, <1>3, <1>7
<1> QED
  BY <1>5, <1>6, <1>8, <1>9, RequestMoves

LEMMA EnforceStep ==
  ASSUME ProxyInv, NEW c \in Clients, Enforce(c)
  PROVE  ProxyInv'
<1> DEFINE e == exchange[c]
<1>1. e \in Exchange /\ e.stage = "enforce" /\ OnItsWay(e, seen[c]) /\ NoPdp \in Pdps
  BY Asked DEF Enforce, AskingStages
<1>2. PICK ruling \in Ruling(c) :
        exchange' = [exchange EXCEPT ![c].ruling = ruling, ![c].pdp = NoPdp, ![c].token = NoPdp,
                                     ![c].stage = AfterRuling(ruling)]
  BY DEF Enforce
<1> DEFINE n == [e EXCEPT !.ruling = ruling, !.pdp = NoPdp, !.token = NoPdp, !.stage = AfterRuling(ruling)]
<1>3. ruling \in {"allow", "deny", "error"} /\ AfterRuling(ruling) \in Stages
  BY DEF Ruling, AfterRuling, Stages
<1>4. n \in Exchange /\ n.intent = e.intent /\ n.ruling = ruling /\ n.stage = AfterRuling(ruling)
  BY <1>1, <1>3 DEF Exchange
<1>5. exchange' = [exchange EXCEPT ![c] = n]
  BY <1>2 DEF ProxyInv, ProxyTypeOK
<1> HIDE DEF n
<1>6. OnItsWay(n, seen[c])
  <2>1. /\ n.intent.recognizer # Unknown
        /\ \E p \in seen[c].policies : Enabled(p, n.intent) /\ Says(p, n.intent, "pdp")
    BY <1>1, <1>4 DEF OnItsWay, AskingStages
  <2>2. CASE ruling = "allow"
    <3>1. n.stage = "allowed" /\ GroundsToPass(n, seen[c])
      BY <1>4, <2>1, <2>2 DEF AfterRuling, GroundsToPass
    <3> QED
      BY <3>1 DEF OnItsWay, AskingStages
  <2>3. CASE ruling = "deny"
    <3>1. n.stage = "denied" /\ GroundsToBlock(n, seen[c])
      BY <1>4, <2>1, <2>3 DEF AfterRuling, GroundsToBlock
    <3> QED
      BY <3>1 DEF OnItsWay, AskingStages
  <2>4. CASE ruling = "error"
    <3>1. n.stage = "unreachable" /\ n.ruling = "error"
      BY <1>4, <2>4 DEF AfterRuling
    <3> QED
      BY <2>1, <3>1 DEF OnItsWay
  <2> QED
    BY <1>3, <2>2, <2>3, <2>4
<1>7. n.stage # "fetch" /\ tokenLock' = tokenLock \ {c}
  <2>1. c \notin tokenLock
    BY <1>1 DEF ProxyInv, ProxyTypeOK
  <2> QED
    BY <1>4, <2>1 DEF Enforce, AfterRuling
<1>8. token' \in [of : Pdps, expired : BOOLEAN] /\ UNCHANGED operatorVars
  BY DEF Enforce, ProxyInv, ProxyTypeOK
<1> QED
  BY <1>1, <1>4, <1>5, <1>6, <1>7, <1>8, RequestMoves

LEMMA ReceiveStep ==
  ASSUME ProxyInv, NEW c \in Clients, NEW i \in Intents, Receive(c, i)
  PROVE  ProxyInv'
<1> USE DEF ProxyInv
<1> DEFINE n == [stage |-> FirstStage(policy, i), intent |-> i, pdp |-> NoPdp, token |-> NoPdp, ruling |-> "none"]
           sn == [policies |-> {policy}, intercepts |-> {intercept}]
<1>1. FirstStage(policy, i) \in Stages \ {"fetch"}
  BY DEF FirstStage, AfterEvaluation, Stages
<1>2. n \in Exchange /\ n.stage # "fetch"
  <2>1. NoPdp \in Pdps
    BY DEF Pdps
  <2> QED
    BY <1>1, <2>1 DEF Exchange
<1>3. OnItsWay(n, sn)
  <2>1. policy \in Policies /\ policy \in sn.policies /\ n.stage = FirstStage(policy, n.intent) /\ n.ruling = "none"
    BY DEF ProxyTypeOK
  <2> HIDE DEF n, sn
  <2> QED
    BY <1>2, <2>1, FirstStageOnItsWay
<1>4. sn \in [policies : SUBSET Policies, intercepts : SUBSET Intercepts] /\ UpToDate(sn)
  BY DEF ProxyTypeOK, UpToDate
<1>5. /\ exchange' = [exchange EXCEPT ![c] = n] /\ seen' = [seen EXCEPT ![c] = sn]
      /\ exchange[c] = NoExchange /\ running
      /\ UNCHANGED <<policy, policyFile, posts, intercept, token, tokenLock, overlapped, running, revisions, upsets>>
  BY DEF Receive
<1> HIDE DEF n, sn
<1>6. /\ exchange'[c] = n /\ \A d \in Clients : d # c => exchange'[d] = exchange[d]
      /\ exchange' \in [Clients -> Exchange \cup {NoExchange}]
  BY <1>2, <1>5 DEF ProxyTypeOK
<1>7. /\ seen'[c] = sn /\ \A d \in Clients : d # c => seen'[d] = seen[d]
      /\ seen' \in [Clients -> [policies : SUBSET Policies, intercepts : SUBSET Intercepts]]
  BY <1>4, <1>5 DEF ProxyTypeOK
<1>8. tokenLock' = {d \in Clients : exchange'[d].stage = "fetch"}
  BY <1>2, <1>5, <1>6, Idle DEF ProxyTypeOK
<1>9. ProxyTypeOK' /\ LockOK'
  <2>1. ProxyTypeOK'
    BY <1>5, <1>6, <1>7, <1>8 DEF ProxyTypeOK
  <2>2. LockOK'
    BY <1>2, <1>6 DEF LockOK
  <2> QED
    BY <2>1, <2>2
<1>10. RequestsOK'
  BY <1>3, <1>4, <1>5, <1>6, <1>7 DEF RequestsOK, UpToDate
<1>11. SavingOK' /\ DownOK'
  BY <1>5 DEF SavingOK, DownOK
<1> QED
  BY <1>9, <1>10, <1>11

LEMMA ServeStep ==
  ASSUME ProxyInv, NEW c \in Clients, Serve(c)
  PROVE  ProxyInv'
<1> USE DEF ProxyInv
<1>1. /\ exchange' = [exchange EXCEPT ![c] = NoExchange] /\ seen' = [seen EXCEPT ![c] = Unseen]
      /\ exchange[c].stage \in {"allowed", "denied"}
      /\ UNCHANGED <<policy, policyFile, posts, intercept, token, tokenLock, overlapped, running, revisions, upsets>>
  BY DEF Serve
<1>2. /\ exchange'[c] = NoExchange /\ \A d \in Clients : d # c => exchange'[d] = exchange[d]
      /\ exchange' \in [Clients -> Exchange \cup {NoExchange}]
  BY <1>1 DEF ProxyTypeOK
<1>3. Unseen \in [policies : SUBSET Policies, intercepts : SUBSET Intercepts]
  BY DEF Unseen
<1>4. /\ \A d \in Clients : d # c => seen'[d] = seen[d]
      /\ seen' \in [Clients -> [policies : SUBSET Policies, intercepts : SUBSET Intercepts]]
  BY <1>1, <1>3 DEF ProxyTypeOK
<1>5. tokenLock' = {d \in Clients : exchange'[d].stage = "fetch"}
  BY <1>1, <1>2, Idle DEF ProxyTypeOK
<1>6. ProxyTypeOK' /\ LockOK'
  <2>1. ProxyTypeOK'
    BY <1>1, <1>2, <1>4, <1>5 DEF ProxyTypeOK
  <2>2. LockOK'
    BY <1>2, Idle DEF LockOK
  <2> QED
    BY <2>1, <2>2
<1>7. RequestsOK'
  BY <1>1, <1>2, <1>4 DEF RequestsOK, UpToDate
<1>8. running
  BY <1>1, Idle DEF DownOK
<1>9. SavingOK' /\ DownOK'
  BY <1>1, <1>8 DEF SavingOK, DownOK
<1> QED
  BY <1>6, <1>7, <1>9

-----------------------------------------------------------------------------
(* The steps of the operator and of the process *)

\* A post at its next step, and one that is over.
LEMMA PostMoves ==
  ASSUME ProxyInv, NEW u \in Posters, posts[u].stage \in {"write", "set"}
  PROVE  LET set == [posts EXCEPT ![u].stage = "set"]
             over == [posts EXCEPT ![u] = NoPost]
         IN  /\ set \in [Posters -> Post \cup {NoPost}] /\ over \in [Posters -> Post \cup {NoPost}]
             /\ set[u].stage = "set" /\ set[u].policy = posts[u].policy
             /\ over[u] = NoPost
             /\ \A v \in Posters : v # u => set[v] = posts[v] /\ over[v] = posts[v]
             /\ posts[u] # NoPost /\ posts[u].policy \in Policies
<1>1. posts \in [Posters -> Post \cup {NoPost}]
  BY DEF ProxyInv, ProxyTypeOK
<1>2. posts[u] \in Post /\ posts[u] # NoPost
  BY Busy, Idle DEF ProxyInv
<1> DEFINE n == [posts[u] EXCEPT !.stage = "set"]
<1>3. n \in Post /\ n.stage = "set" /\ n.policy = posts[u].policy /\ posts[u].policy \in Policies
  BY <1>2 DEF Post
<1> HIDE DEF n
<1>4. [posts EXCEPT ![u].stage = "set"] = [posts EXCEPT ![u] = n]
  BY DEF n
<1> QED
  BY <1>1, <1>2, <1>3, <1>4

\* The frame of the operator's steps that no request sees.
LEMMA Unnoticed ==
  ASSUME ProxyInv, UNCHANGED <<policy, intercept, exchange, seen>>
  PROVE  RequestsOK' /\ LockOK'
  BY DEF ProxyInv, RequestsOK, LockOK, UpToDate

LEMMA PostPolicyStep ==
  ASSUME ProxyInv, NEW u \in Posters, NEW p \in Policies, PostPolicy(u, p)
  PROVE  ProxyInv'
<1> USE DEF ProxyInv
<1> DEFINE n == [stage |-> "write", policy |-> p]
<1>1. n \in Post /\ n.stage = "write"
  BY DEF Post
<1>2. /\ posts' = [posts EXCEPT ![u] = n] /\ running /\ posts[u] = NoPost
      /\ overlapped' = (overlapped \/ \E v \in Posters : posts[v] # NoPost)
      /\ revisions' = revisions + 1
      /\ UNCHANGED <<policy, policyFile, intercept, token, tokenLock, exchange, seen, running, upsets>>
  BY DEF PostPolicy
<1> HIDE DEF n
<1>3. /\ posts' \in [Posters -> Post \cup {NoPost}] /\ posts'[u] = n
      /\ \A v \in Posters : v # u => posts'[v] = posts[v]
  BY <1>1, <1>2 DEF ProxyTypeOK
<1>4. RequestsOK' /\ LockOK'
  BY <1>2, Unnoticed
<1>5. overlapped' \in BOOLEAN
  BY <1>2 DEF ProxyTypeOK
<1>6. ProxyTypeOK'
  BY <1>2, <1>3, <1>5 DEF ProxyTypeOK
<1>7. SavingOK'
  <2> SUFFICES ASSUME ~overlapped' PROVE SavingOK'
    BY DEF SavingOK
  <2>1. ~overlapped /\ \A v \in Posters : posts[v] = NoPost
    BY <1>2
  <2>2. \A v \in Posters : v # u => posts'[v] = NoPost
    BY <1>3, <2>1
  <2>3. \A v \in Posters : posts[v].stage # "set" /\ posts'[v].stage # "set"
    BY <1>1, <1>3, <2>1, <2>2, Idle
  <2>4. policyFile.torn \/ policyFile.policy = policy
    BY <1>2, <2>1, <2>3 DEF SavingOK
  <2> QED
    BY <1>2, <2>2, <2>3, <2>4 DEF SavingOK
<1>8. DownOK'
  BY <1>2 DEF DownOK
<1> QED
  BY <1>4, <1>6, <1>7, <1>8

LEMMA WritePolicyStep ==
  ASSUME ProxyInv, NEW u \in Posters, WritePolicy(u)
  PROVE  ProxyInv'
<1> USE DEF ProxyInv
<1> DEFINE set == [posts EXCEPT ![u].stage = "set"]
           over == [posts EXCEPT ![u] = NoPost]
<1>1. /\ set \in [Posters -> Post \cup {NoPost}] /\ over \in [Posters -> Post \cup {NoPost}]
      /\ set[u].stage = "set" /\ set[u].policy = posts[u].policy
      /\ over[u] = NoPost
      /\ \A v \in Posters : v # u => set[v] = posts[v] /\ over[v] = posts[v]
      /\ posts[u] # NoPost /\ posts[u].policy \in Policies /\ posts[u].stage = "write"
  BY PostMoves DEF WritePolicy
<1>2. /\ UNCHANGED <<policy, intercept, token, tokenLock, exchange, seen, overlapped, running, revisions>>
      /\ \/ /\ policyFile' = [torn |-> FALSE, policy |-> posts[u].policy]
            /\ posts' = set /\ upsets' = upsets
         \/ /\ policyFile' \in {policyFile, [policyFile EXCEPT !.torn = TRUE]}
            /\ posts' = over /\ upsets' = upsets + 1
  BY DEF WritePolicy
<1> HIDE DEF set, over
<1>3. RequestsOK' /\ LockOK'
  BY <1>2, Unnoticed
<1>4. running
  BY <1>1, Idle DEF DownOK
<1>5. DownOK'
  BY <1>2, <1>4 DEF DownOK
<1>6. CASE policyFile' = [torn |-> FALSE, policy |-> posts[u].policy] /\ posts' = set /\ upsets' = upsets
  <2>1. ProxyTypeOK'
    BY <1>1, <1>2, <1>6 DEF ProxyTypeOK
  <2>2. SavingOK'
    <3> SUFFICES ASSUME ~overlapped' PROVE SavingOK'
      BY DEF SavingOK
    <3>1. \A v \in Posters : v # u => posts[v] = NoPost /\ posts'[v] = NoPost
      BY <1>1, <1>2, <1>6 DEF SavingOK
    <3>2. policyFile'.torn = FALSE /\ policyFile'.policy = posts[u].policy
      BY <1>6
    <3>3. \A v \in Posters : posts'[v].stage = "set" => v = u
      BY <3>1, Idle
    <3> QED
      BY <1>1, <1>6, <3>1, <3>2, <3>3, Idle DEF SavingOK
  <2> QED
    BY <1>3, <1>5, <2>1, <2>2
<1>7. CASE /\ policyFile' \in {policyFile, [policyFile EXCEPT !.torn = TRUE]}
           /\ posts' = over /\ upsets' = upsets + 1
  <2>1. policyFile' \in [torn : BOOLEAN, policy : Policies]
    BY <1>7 DEF ProxyTypeOK
  <2>2. policyFile' = policyFile \/ policyFile'.torn
    BY <1>7 DEF ProxyTypeOK
  <2>3. ProxyTypeOK'
    BY <1>1, <1>2, <1>7, <2>1 DEF ProxyTypeOK
  <2>4. SavingOK'
    <3> SUFFICES ASSUME ~overlapped' PROVE SavingOK'
      BY DEF SavingOK
    <3>1. \A v \in Posters : posts'[v] = NoPost /\ posts[v].stage # "set"
      BY <1>1, <1>2, <1>7, Idle DEF SavingOK
    <3>2. policyFile.torn \/ policyFile.policy = policy
      BY <1>2, <1>4, <3>1 DEF SavingOK
    <3>3. policyFile'.torn \/ policyFile'.policy = policy'
      BY <1>2, <2>2, <3>2
    <3> QED
      BY <3>1, <3>3, Idle DEF SavingOK
  <2> QED
    BY <1>3, <1>5, <2>3, <2>4
<1> QED
  BY <1>2, <1>6, <1>7

LEMMA SetPolicyStep ==
  ASSUME ProxyInv, NEW u \in Posters, SetPolicy(u)
  PROVE  ProxyInv'
<1> USE DEF ProxyInv
<1> DEFINE over == [posts EXCEPT ![u] = NoPost]
<1>1. /\ over \in [Posters -> Post \cup {NoPost}] /\ over[u] = NoPost
      /\ \A v \in Posters : v # u => over[v] = posts[v]
      /\ posts[u] # NoPost /\ posts[u].policy \in Policies /\ posts[u].stage = "set"
  BY PostMoves DEF SetPolicy
<1>2. /\ policy' = posts[u].policy /\ posts' = over /\ seen' = SeenWith(policy', intercept)
      /\ UNCHANGED <<policyFile, intercept, token, tokenLock, exchange, overlapped, running, revisions, upsets>>
  BY DEF SetPolicy
<1> HIDE DEF over
<1>3. /\ RequestsOK'
      /\ seen' \in [Clients -> [policies : SUBSET Policies, intercepts : SUBSET Intercepts]]
  <2>1. policy' \in Policies /\ intercept' \in Intercepts /\ seen' = SeenWith(policy', intercept')
    BY <1>1, <1>2 DEF ProxyTypeOK
  <2> QED
    BY <1>2, <2>1, SeesMore
<1>4. ProxyTypeOK' /\ LockOK'
  <2>1. ProxyTypeOK'
    BY <1>1, <1>2, <1>3 DEF ProxyTypeOK
  <2>2. LockOK'
    BY <1>2 DEF LockOK
  <2> QED
    BY <2>1, <2>2
<1>5. SavingOK'
  <2> SUFFICES ASSUME ~overlapped' PROVE SavingOK'
    BY DEF SavingOK
  <2>1. policyFile.policy = policy' /\ \A v \in Posters : posts'[v] = NoPost
    BY <1>1, <1>2 DEF SavingOK
  <2> QED
    BY <1>2, <2>1, Idle DEF SavingOK
<1>6. DownOK'
  BY <1>1, <1>2 DEF DownOK
<1> QED
  BY <1>3, <1>4, <1>5, <1>6

LEMMA SaveInterceptStep ==
  ASSUME ProxyInv, NEW s \in Intercepts, SaveIntercept(s)
  PROVE  ProxyInv'
<1> USE DEF ProxyInv
<1>1. /\ intercept' = s /\ seen' = SeenWith(policy, s) /\ running /\ revisions' = revisions + 1
      /\ UNCHANGED <<policy, policyFile, posts, token, tokenLock, exchange, overlapped, running, upsets>>
  BY DEF SaveIntercept
<1>2. /\ RequestsOK'
      /\ seen' \in [Clients -> [policies : SUBSET Policies, intercepts : SUBSET Intercepts]]
  <2>1. policy' \in Policies /\ intercept' \in Intercepts /\ seen' = SeenWith(policy', intercept')
    BY <1>1 DEF ProxyTypeOK
  <2> QED
    BY <1>1, <2>1, SeesMore
<1>3. ProxyTypeOK' /\ LockOK'
  <2>1. ProxyTypeOK'
    BY <1>1, <1>2 DEF ProxyTypeOK
  <2>2. LockOK'
    BY <1>1 DEF LockOK
  <2> QED
    BY <2>1, <2>2
<1>4. SavingOK' /\ DownOK'
  BY <1>1 DEF SavingOK, DownOK
<1> QED
  BY <1>2, <1>3, <1>4

LEMMA ProxyCrashStep ==
  ASSUME ProxyInv, ProxyCrash
  PROVE  ProxyInv'
<1> USE DEF ProxyInv
<1>1. /\ ~running' /\ running' \in BOOLEAN /\ ~overlapped' /\ overlapped' \in BOOLEAN
      /\ posts' = [u \in Posters |-> NoPost] /\ exchange' = [c \in Clients |-> NoExchange]
      /\ token' = NoToken /\ tokenLock' = {} /\ seen' = [c \in Clients |-> Unseen]
      /\ upsets' = upsets + 1 /\ UNCHANGED <<policy, policyFile, intercept, revisions>>
  BY DEF ProxyCrash, Free
<1>2. Unseen \in [policies : SUBSET Policies, intercepts : SUBSET Intercepts]
  BY DEF Unseen
<1>3. token' \in [of : Pdps, expired : BOOLEAN]
  BY <1>1 DEF NoToken, Pdps
<1>4. /\ posts' \in [Posters -> Post \cup {NoPost}] /\ exchange' \in [Clients -> Exchange \cup {NoExchange}]
      /\ seen' \in [Clients -> [policies : SUBSET Policies, intercepts : SUBSET Intercepts]]
  BY <1>1, <1>2
<1>5. tokenLock' = {c \in Clients : exchange'[c].stage = "fetch"} /\ LockOK'
  BY <1>1, Idle DEF LockOK
<1>6. ProxyTypeOK'
  BY <1>1, <1>3, <1>4, <1>5 DEF ProxyTypeOK
<1>7. RequestsOK' /\ DownOK'
  BY <1>1 DEF RequestsOK, DownOK
<1>8. SavingOK'
  BY <1>1, Idle DEF SavingOK
<1> QED
  BY <1>5, <1>6, <1>7, <1>8

LEMMA ProxyStartStep ==
  ASSUME ProxyInv, ProxyStart
  PROVE  ProxyInv'
<1> USE DEF ProxyInv
<1>1. /\ ~running /\ running' = TRUE /\ policy' = policyFile.policy
      /\ UNCHANGED <<policyFile, posts, intercept, token, tokenLock, exchange, seen, overlapped, revisions, upsets>>
  BY DEF ProxyStart
<1>2. \A c \in Clients : exchange[c] = NoExchange
  BY <1>1 DEF DownOK
<1>3. \A u \in Posters : posts[u] = NoPost
  BY <1>1 DEF DownOK
<1>4. ProxyTypeOK' /\ LockOK'
  <2>1. ProxyTypeOK'
    BY <1>1 DEF ProxyTypeOK
  <2>2. LockOK'
    BY <1>1 DEF LockOK
  <2> QED
    BY <2>1, <2>2
<1>5. RequestsOK' /\ DownOK'
  BY <1>1, <1>2 DEF RequestsOK, DownOK
<1>6. SavingOK'
  BY <1>1, <1>3, Idle DEF SavingOK
<1> QED
  BY <1>4, <1>5, <1>6

LEMMA TokenExpiresStep ==
  ASSUME ProxyInv, TokenExpires
  PROVE  ProxyInv'
<1> USE DEF ProxyInv
<1>1. /\ token' = [token EXCEPT !.expired = TRUE]
      /\ UNCHANGED <<policy, policyFile, posts, intercept, seen, overlapped, running, revisions, upsets>>
      /\ UNCHANGED <<tokenLock, exchange>>
  BY DEF TokenExpires, operatorVars
<1>2. token' \in [of : Pdps, expired : BOOLEAN]
  BY <1>1 DEF ProxyTypeOK
<1>3. ProxyTypeOK'
  BY <1>1, <1>2 DEF ProxyTypeOK
<1>4. RequestsOK' /\ LockOK'
  BY <1>1, Unnoticed
<1>5. SavingOK' /\ DownOK'
  BY <1>1 DEF SavingOK, DownOK
<1> QED
  BY <1>3, <1>4, <1>5

-----------------------------------------------------------------------------
(* The invariant and what it gives *)

LEMMA ProxyInvInit == ProxyInit => ProxyInv
<1> SUFFICES ASSUME ProxyInit PROVE ProxyInv
  OBVIOUS
<1>1. /\ policy \in Policies /\ policyFile = [torn |-> FALSE, policy |-> policy]
      /\ intercept \in Intercepts
      /\ posts = [u \in Posters |-> NoPost] /\ overlapped = FALSE
      /\ token = NoToken /\ tokenLock = {}
      /\ exchange = [c \in Clients |-> NoExchange] /\ seen = [c \in Clients |-> Unseen]
      /\ running = TRUE /\ revisions = 0 /\ upsets = 0
  BY DEF ProxyInit, Free
<1>2. /\ Unseen \in [policies : SUBSET Policies, intercepts : SUBSET Intercepts]
      /\ token \in [of : Pdps, expired : BOOLEAN]
  BY <1>1 DEF Unseen, NoToken, Pdps
<1>3. /\ posts \in [Posters -> Post \cup {NoPost}] /\ exchange \in [Clients -> Exchange \cup {NoExchange}]
      /\ seen \in [Clients -> [policies : SUBSET Policies, intercepts : SUBSET Intercepts]]
  BY <1>1, <1>2
<1>4. tokenLock = {c \in Clients : exchange[c].stage = "fetch"} /\ LockOK
  BY <1>1, Idle DEF LockOK
<1>5. ProxyTypeOK
  BY <1>1, <1>2, <1>3, <1>4 DEF ProxyTypeOK
<1>6. RequestsOK /\ DownOK
  BY <1>1 DEF RequestsOK, DownOK
<1>7. SavingOK
  BY <1>1, Idle DEF SavingOK
<1> QED
  BY <1>4, <1>5, <1>6, <1>7 DEF ProxyInv

LEMMA ProxyInvStep == ProxyInv /\ [ProxyNext]_proxyVars => ProxyInv'
<1> SUFFICES ASSUME ProxyInv, [ProxyNext]_proxyVars PROVE ProxyInv'
  OBVIOUS
<1>1. CASE ProxyNext
  <2>1. ASSUME NEW u \in Posters, NEW p \in Policies, PostPolicy(u, p) PROVE ProxyInv'
    BY <2>1, PostPolicyStep
  <2>2. ASSUME NEW u \in Posters, WritePolicy(u) \/ SetPolicy(u) PROVE ProxyInv'
    BY <2>2, WritePolicyStep, SetPolicyStep
  <2>3. ASSUME NEW s \in Intercepts, SaveIntercept(s) PROVE ProxyInv'
    BY <2>3, SaveInterceptStep
  <2>4. ASSUME NEW c \in Clients, NEW i \in Intents, Receive(c, i) PROVE ProxyInv'
    BY <2>4, ReceiveStep
  <2>5. ASSUME NEW c \in Clients, PassThrough(c) \/ StepUp(c) \/ TakeToken(c) PROVE ProxyInv'
    BY <2>5, PassThroughStep, StepUpStep, TakeTokenStep
  <2>6. ASSUME NEW c \in Clients, Calls(c) PROVE ProxyInv'
    BY <2>6, ReadEndpointStep, FetchTokenStep, EnforceStep, DecideOnUnreachableStep DEF Calls
  <2>7. ASSUME NEW c \in Clients, Serve(c) PROVE ProxyInv'
    BY <2>7, ServeStep
  <2>8. CASE TokenExpires \/ ProxyCrash \/ ProxyStart
    BY <2>8, TokenExpiresStep, ProxyCrashStep, ProxyStartStep
  <2> QED
    BY <1>1, <2>1, <2>2, <2>3, <2>4, <2>5, <2>6, <2>7, <2>8 DEF ProxyNext
<1>2. CASE UNCHANGED proxyVars
  BY <1>2 DEF ProxyInv, ProxyTypeOK, RequestsOK, SavingOK, DownOK, LockOK, UpToDate, proxyVars
<1> QED
  BY <1>1, <1>2

\* The inductive invariant holds: a connection, a post and the token are always
\* in a state the code gets to.
THEOREM ProxyInvariant == ProxySpec => []ProxyInv
  BY ProxyInvInit, ProxyInvStep, PTL DEF ProxySpec

\* The types of the variables, and of the token's mutex: whoever holds it is
\* fetching a token (client.go:69-71).
THEOREM ProxyTypesHold == ProxySpec => []ProxyTypeOK
<1>1. ProxyInv => ProxyTypeOK
  BY DEF ProxyInv
<1> QED
  BY <1>1, ProxyInvariant, PTL

\* Whatever the policies, the rules in them and the settings, and however they
\* are replaced while a request is being decided: the verdict has grounds in
\* what was in force meanwhile (Engine.Decide, decision.go:35-101).
THEOREM VerdictsHaveGrounds == ProxySpec => []VerdictHasGrounds
<1>1. ProxyInv => VerdictHasGrounds
  <2> SUFFICES ASSUME ProxyInv, NEW c \in Clients, exchange[c].stage \in {"allowed", "denied"}
               PROVE  OnItsWay(exchange[c], seen[c])
    BY DEF VerdictHasGrounds, OnItsWay
  <2> QED
    BY Idle DEF ProxyInv, RequestsOK
<1> QED
  BY <1>1, ProxyInvariant, PTL

\* For any number of operators and failures: while nobody is posting, the policy
\* in force is the one a restart loads, unless posts overlapped or the file is
\* torn (SavePolicy, policy.go:106-122).
THEOREM PolicySurvivesRestart == ProxySpec => []PolicyIsSaved
<1>1. ProxyInv => PolicyIsSaved
  BY Idle DEF ProxyInv, SavingOK, PolicyIsSaved
<1> QED
  BY <1>1, ProxyInvariant, PTL
=============================================================================
