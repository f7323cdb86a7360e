---------------------------- MODULE EgressProxy ----------------------------
(* The proxy agents' HTTP traffic passes through: each request is recognized,*)
(* judged by the local policy (object/policy.go) and, where that says so, by *)
(* Casdoor (casdoorclient/client.go), then blocked or forwarded             *)
(* (proxy/http_handler.go, proxy/decision.go).                              *)
(*                                                                          *)
(* Connections are served concurrently.  A decision reads the policy once   *)
(* and the settings up to three times, and shares one cached access token;  *)
(* meanwhile an operator replaces the policy and the settings.  A request   *)
(* is what its recognizer makes of it.                                      *)
EXTENDS Naturals, FiniteSets, FiniteSetsExt

CONSTANTS
  Clients,          \* connections served
  Intents,          \* recognizer, category, tool, amount and host of a request
  Policies,         \* policies: recognizers, allowlist, rules, default
  Intercepts,       \* settings: pdp, failClosed, passthrough, stepUp
  NoPdp,            \* no Casdoor endpoint, and no token
  Posters,          \* requests that replace the policy
  MaxRevisions,     \* bound: policies posted and settings saved
  MaxUpsets         \* bound: failed writes of the policy file, and crashes

ASSUME ProxyAssumption ==
  /\ \A p \in Policies : DOMAIN p.rules \subseteq Nat
  /\ \A s \in Intercepts : s.passthrough \in BOOLEAN /\ s.failClosed \in BOOLEAN
  /\ MaxRevisions \in Nat /\ MaxUpsets \in Nat

VARIABLES
  policy, policyFile,
  posts,            \* posts[u]: how far the UpdatePolicy u is in has come
  intercept,        \* the settings
  token,            \* the cached token: whose it is, and whether it expired
  tokenLock,        \* the connection that holds tokenMutex, or none
  exchange,         \* exchange[c]: the request c's connection is in
  seen,             \* history: policies and settings in force during it
  overlapped,       \* history: two UpdatePolicy overlapped
  running, revisions, upsets

proxyVars == <<policy, policyFile, posts, intercept, token, tokenLock, exchange, seen,
               overlapped, running, revisions, upsets>>

Unknown == "none"         \* the recognizer of a request that none recognizes
NoToken == [of |-> NoPdp, expired |-> TRUE]
NoPost == [stage |-> "none"]
NoExchange == [stage |-> "idle"]
Unseen == [policies |-> {}, intercepts |-> {}]
Free == {}

\* What a connection or a request sees from now on.
SeenWith(p, s) ==
  [c \in Clients |-> IF exchange[c] = NoExchange THEN Unseen
                     ELSE [policies |-> seen[c].policies \cup {p},
                           intercepts |-> seen[c].intercepts \cup {s}]]

-----------------------------------------------------------------------------
(* The operator.                                                            *)

PostPolicy(u, p) ==
  /\ running
  /\ posts[u] = NoPost
  /\ revisions < MaxRevisions /\ revisions' = revisions + 1
  /\ posts' = [posts EXCEPT ![u] = [stage |-> "write", policy |-> p]]
  /\ overlapped' = (overlapped \/ \E v \in Posters : posts[v] # NoPost)
  /\ UNCHANGED <<policy, policyFile, intercept, token, tokenLock, exchange, seen, running, upsets>>

\* Mutant: the policy is in force before it is written.
InForceFirst(u) ==
  /\ posts[u].stage = "write"
  /\ policy' = posts[u].policy
  /\ \/ /\ policyFile' = [torn |-> FALSE, policy |-> posts[u].policy]
        /\ posts' = [posts EXCEPT ![u].stage = "set"]
        /\ UNCHANGED upsets
     \/ /\ upsets < MaxUpsets /\ upsets' = upsets + 1
        /\ policyFile' \in {policyFile, [policyFile EXCEPT !.torn = TRUE]}
        /\ posts' = [posts EXCEPT ![u] = NoPost]
  /\ UNCHANGED <<intercept, token, tokenLock, exchange, seen, overlapped, running, revisions>>

\* SavePolicy up to os.WriteFile, which may fail, before or after it truncates.
WritePolicy(u) ==
  /\ posts[u].stage = "write"
  /\ \/ /\ policyFile' = [torn |-> FALSE, policy |-> posts[u].policy]
        /\ posts' = [posts EXCEPT ![u].stage = "set"]
        /\ UNCHANGED upsets
     \/ /\ upsets < MaxUpsets /\ upsets' = upsets + 1
        /\ policyFile' \in {policyFile, [policyFile EXCEPT !.torn = TRUE]}
        /\ posts' = [posts EXCEPT ![u] = NoPost]
  /\ UNCHANGED <<policy, intercept, token, tokenLock, exchange, seen, overlapped, running, revisions>>

SetPolicy(u) ==
  /\ posts[u].stage = "set"
  /\ policy' = posts[u].policy
  /\ posts' = [posts EXCEPT ![u] = NoPost]
  /\ seen' = SeenWith(policy', intercept)
  /\ UNCHANGED <<policyFile, intercept, token, tokenLock, exchange, overlapped, running, revisions, upsets>>

\* The settings are replaced, in memory and in settings.yaml (LlmSettings).
SaveIntercept(s) ==
  /\ running
  /\ revisions < MaxRevisions /\ revisions' = revisions + 1
  /\ intercept' = s
  /\ seen' = SeenWith(policy, s)
  /\ UNCHANGED <<policy, policyFile, posts, token, tokenLock, exchange, overlapped, running, upsets>>

operatorVars == <<policy, policyFile, posts, intercept, seen, overlapped, running, revisions, upsets>>

-----------------------------------------------------------------------------
(* The policy.                                                              *)

Enabled(p, i) == p.recognizers = {} \/ i.recognizer \in p.recognizers

Matches(r, i) ==
  /\ r.category \in {"", "*", i.category}
  /\ r.tool \in {"", i.tool}
  /\ r.min > 0 => i.amount >= r.min
  /\ r.hosts # {} => i.host \in r.hosts

Hits(p, i) == {k \in DOMAIN p.rules : Matches(p.rules[k], i)}

\* Mutant: a later rule overrides the earlier ones.
LastRule(p, i) ==
  IF i.host \in p.allowlist THEN "allow"
  ELSE IF Hits(p, i) = {} THEN p.default ELSE p.rules[Max(Hits(p, i))].action

Evaluate(p, i) ==
  IF i.host \in p.allowlist THEN "allow"
  ELSE IF Hits(p, i) = {} THEN p.default ELSE p.rules[Min(Hits(p, i))].action

\* Where a decision goes on from: any other action asks Casdoor.
AfterEvaluation(action) ==
  IF action = "allow" THEN "allowed"
  ELSE IF action = "deny" THEN "denied"
  ELSE IF action = "step-up" THEN "stepup" ELSE "pdp"

FirstStage(p, i) ==
  IF i.recognizer = Unknown THEN "unknown"
  ELSE IF ~Enabled(p, i) THEN "allowed"
  ELSE AfterEvaluation(Evaluate(p, i))

-----------------------------------------------------------------------------
(* A request on a connection.                                               *)

Moves(c, stage) == exchange' = [exchange EXCEPT ![c].stage = stage]

\* The request is read and recognized; Decide looks at the policy once.
Receive(c, i) ==
  /\ running
  /\ exchange[c] = NoExchange
  /\ exchange' = [exchange EXCEPT ![c] =
       [stage |-> FirstStage(policy, i), intent |-> i, pdp |-> NoPdp, token |-> NoPdp, ruling |-> "none"]]
  /\ seen' = [seen EXCEPT ![c] = [policies |-> {policy}, intercepts |-> {intercept}]]
  /\ UNCHANGED <<policy, policyFile, posts, intercept, token, tokenLock, overlapped, running, revisions, upsets>>

\* Unrecognized traffic, and a step-up, which is stubbed: the settings decide.
PassThrough(c) ==
  /\ exchange[c].stage = "unknown"
  /\ Moves(c, IF intercept.passthrough THEN "allowed" ELSE "denied")
  /\ UNCHANGED <<token, tokenLock, operatorVars>>

StepUp(c) ==
  /\ exchange[c].stage = "stepup"
  /\ Moves(c, IF intercept.stepUp = "allow" THEN "allowed" ELSE "denied")
  /\ UNCHANGED <<token, tokenLock, operatorVars>>

\* Client.Decide reads the endpoint it will ask.
ReadEndpoint(c) ==
  /\ exchange[c].stage = "pdp"
  /\ exchange' = [exchange EXCEPT
       ![c].stage = IF intercept.pdp = NoPdp THEN "unreachable" ELSE "token",
       ![c].pdp = intercept.pdp]
  /\ UNCHANGED <<token, tokenLock, operatorVars>>

\* Mutant: the cached token is used for ever.
Cached == token.of # NoPdp
Usable == token.of # NoPdp /\ ~token.expired

\* getAccessToken: under tokenMutex the cached token, or a request to the
\* endpoint the settings name by now.
TakeToken(c) ==
  /\ exchange[c].stage = "token"
  /\ tokenLock = Free
  /\ IF Usable
     THEN /\ exchange' = [exchange EXCEPT ![c].stage = "enforce", ![c].token = token.of]
          /\ UNCHANGED tokenLock
     ELSE /\ exchange' = [exchange EXCEPT ![c].stage = "fetch", ![c].token = intercept.pdp]
          /\ tokenLock' = {c}
  /\ UNCHANGED <<token, operatorVars>>

\* The answer, which may be none; a token that lasts 30 seconds or less counts
\* as expired.
FetchToken(c) ==
  /\ exchange[c].stage = "fetch"
  /\ tokenLock' = Free
  /\ \/ /\ exchange[c].token # NoPdp
        /\ \E short \in BOOLEAN : token' = [of |-> exchange[c].token, expired |-> short]
        /\ Moves(c, "enforce")
     \/ /\ exchange' = [exchange EXCEPT ![c].stage = "unreachable", ![c].pdp = NoPdp, ![c].token = NoPdp]
        /\ UNCHANGED token
  /\ UNCHANGED operatorVars

\* Casdoor's enforce API: it takes only its own tokens, and may not answer.
Ruling(c) ==
  {"error"} \cup (IF exchange[c].token = exchange[c].pdp THEN {"allow", "deny"} ELSE {})

AfterRuling(ruling) ==
  IF ruling = "allow" THEN "allowed" ELSE IF ruling = "deny" THEN "denied" ELSE "unreachable"

Enforce(c) ==
  /\ exchange[c].stage = "enforce"
  /\ \E ruling \in Ruling(c) :
       exchange' = [exchange EXCEPT
         ![c].ruling = ruling, ![c].pdp = NoPdp, ![c].token = NoPdp,
         ![c].stage = AfterRuling(ruling)]
  /\ UNCHANGED <<token, tokenLock, operatorVars>>

\* decideOnUnreachable reads the settings once more.
DecideOnUnreachable(c) ==
  /\ exchange[c].stage = "unreachable"
  /\ Moves(c, IF intercept.failClosed THEN "denied" ELSE "allowed")
  /\ UNCHANGED <<token, tokenLock, operatorVars>>

\* serveOneRequest to its end: blocked, or forwarded and answered, and stored
\* as an event; then the connection's next request.
Serve(c) ==
  /\ exchange[c].stage \in {"allowed", "denied"}
  /\ exchange' = [exchange EXCEPT ![c] = NoExchange]
  /\ seen' = [seen EXCEPT ![c] = Unseen]
  /\ UNCHANGED <<policy, policyFile, posts, intercept, token, tokenLock, overlapped, running, revisions, upsets>>

TokenExpires ==
  /\ ~token.expired
  /\ token' = [token EXCEPT !.expired = TRUE]
  /\ UNCHANGED <<tokenLock, exchange, operatorVars>>

-----------------------------------------------------------------------------
(* The process.                                                             *)

ProxyCrash ==
  /\ running
  /\ upsets < MaxUpsets /\ upsets' = upsets + 1
  /\ running' = FALSE
  /\ posts' = [u \in Posters |-> NoPost] /\ overlapped' = FALSE
  /\ token' = NoToken /\ tokenLock' = Free
  /\ exchange' = [c \in Clients |-> NoExchange] /\ seen' = [c \in Clients |-> Unseen]
  /\ UNCHANGED <<policy, policyFile, intercept, revisions>>

\* InitPolicy; a policy file that does not parse keeps aiguard from starting.
ProxyStart ==
  /\ ~running /\ ~policyFile.torn
  /\ running' = TRUE
  /\ policy' = policyFile.policy
  /\ UNCHANGED <<policyFile, posts, intercept, token, tokenLock, exchange, seen, overlapped, revisions, upsets>>

ProxyInit ==
  /\ policy \in Policies /\ policyFile = [torn |-> FALSE, policy |-> policy]
  /\ intercept \in Intercepts
  /\ posts = [u \in Posters |-> NoPost] /\ overlapped = FALSE
  /\ token = NoToken /\ tokenLock = Free
  /\ exchange = [c \in Clients |-> NoExchange] /\ seen = [c \in Clients |-> Unseen]
  /\ running = TRUE /\ revisions = 0 /\ upsets = 0

Calls(c) == ReadEndpoint(c) \/ FetchToken(c) \/ Enforce(c) \/ DecideOnUnreachable(c)

ProxyNext ==
  \/ \E u \in Posters : (\E p \in Policies : PostPolicy(u, p)) \/ WritePolicy(u) \/ SetPolicy(u)
  \/ \E s \in Intercepts : SaveIntercept(s)
  \/ \E c \in Clients : \/ \E i \in Intents : Receive(c, i)
                         \/ PassThrough(c) \/ StepUp(c) \/ TakeToken(c) \/ Calls(c) \/ Serve(c)
  \/ TokenExpires \/ ProxyCrash \/ ProxyStart

\* The client's HTTP calls end within their timeout, its mutex is handed on in
\* turn, and time passes.
ProxyFairness ==
  /\ \A c \in Clients : WF_proxyVars(Calls(c)) /\ SF_proxyVars(TakeToken(c))
  /\ WF_proxyVars(TokenExpires)

ProxySpec == ProxyInit /\ [][ProxyNext]_proxyVars /\ ProxyFairness

-----------------------------------------------------------------------------
(* Properties.                                                              *)

\* The types of the variables.
Pdps == {s.pdp : s \in Intercepts} \cup {NoPdp}
Stages == {"unknown", "stepup", "pdp", "token", "fetch", "enforce", "unreachable", "allowed", "denied"}
Exchange == [stage : Stages, intent : Intents, pdp : Pdps, token : Pdps,
             ruling : {"none", "allow", "deny", "error"}]
Post == [stage : {"write", "set"}, policy : Policies]
ProxyTypeOK ==
  /\ policy \in Policies /\ policyFile \in [torn : BOOLEAN, policy : Policies]
  /\ intercept \in Intercepts
  /\ posts \in [Posters -> Post \cup {NoPost}]
  /\ exchange \in [Clients -> Exchange \cup {NoExchange}]
  /\ seen \in [Clients -> [policies : SUBSET Policies, intercepts : SUBSET Intercepts]]
  /\ token \in [of : Pdps, expired : BOOLEAN]
  /\ tokenLock = {c \in Clients : exchange[c].stage = "fetch"}
  /\ running \in BOOLEAN /\ overlapped \in BOOLEAN
  /\ revisions \in Nat /\ upsets \in Nat

\* What a policy says of a request: its first rule that matches, if any; an
\* action that is none of the others asks Casdoor.
Sense(action) == IF action \in {"allow", "deny", "step-up"} THEN action ELSE "pdp"
Says(p, i, what) ==
  IF i.host \in p.allowlist THEN what = "allow"
  ELSE \/ /\ \A k \in DOMAIN p.rules : ~Matches(p.rules[k], i)
          /\ Sense(p.default) = what
       \/ \E k \in DOMAIN p.rules :
            /\ Matches(p.rules[k], i) /\ Sense(p.rules[k].action) = what
            /\ \A j \in DOMAIN p.rules : j < k => ~Matches(p.rules[j], i)

\* Why a request e may pass, or be blocked, given what it has seen: traffic
\* nobody recognizes by the settings; else by a policy, or as that says by the
\* setting for step-ups, Casdoor's own ruling or, without one, by the setting
\* for an unreachable Casdoor.
GroundsToPass(e, s) ==
  IF e.intent.recognizer = Unknown
  THEN \E x \in s.intercepts : x.passthrough
  ELSE \E p \in s.policies :
    \/ ~Enabled(p, e.intent) \/ Says(p, e.intent, "allow")
    \/ Says(p, e.intent, "step-up") /\ \E x \in s.intercepts : x.stepUp = "allow"
    \/ Says(p, e.intent, "pdp") /\ e.ruling = "allow"
    \/ /\ Says(p, e.intent, "pdp") /\ e.ruling \in {"none", "error"}
       /\ \E x \in s.intercepts : ~x.failClosed

GroundsToBlock(e, s) ==
  IF e.intent.recognizer = Unknown
  THEN \E x \in s.intercepts : ~x.passthrough
  ELSE \E p \in s.policies : Enabled(p, e.intent) /\
    (\/ Says(p, e.intent, "deny")
     \/ Says(p, e.intent, "step-up") /\ \E x \in s.intercepts : x.stepUp # "allow"
     \/ Says(p, e.intent, "pdp") /\ e.ruling = "deny"
     \/ /\ Says(p, e.intent, "pdp") /\ e.ruling \in {"none", "error"}
        /\ \E x \in s.intercepts : x.failClosed)

\* A request is let through, or blocked, only on grounds in force while it was
\* being decided - however the policy, the settings, the token and its endpoint
\* change meanwhile.
VerdictHasGrounds ==
  \A c \in Clients :
    /\ exchange[c].stage = "allowed" => GroundsToPass(exchange[c], seen[c])
    /\ exchange[c].stage = "denied" => GroundsToBlock(exchange[c], seen[c])

\* A Casdoor connection the operator changes takes effect: from some time on
\* every call carries a token of the Casdoor it goes to, although the token of
\* the old one is kept over the change (client.go:69-74).
ConnectionTakesEffect ==
  <>[](\A c \in Clients : exchange[c].stage = "enforce" => exchange[c].token = exchange[c].pdp)

\* The policy in force is the one a restart loads, unless two were posted at
\* once or the file was torn; a post that failed changes neither.
PolicyIsSaved ==
  running /\ ~overlapped /\ (\A u \in Posters : posts[u] = NoPost)
    => policyFile.torn \/ policyFile.policy = policy
=============================================================================
