---------------------------- MODULE CasdoorLogin ----------------------------
(* The operator's login against Casdoor, auth/auth.go: every save of the    *)
(* settings configures the Casdoor SDK anew, and an attempt that fails is   *)
(* retried in the background until another InitConfig takes over.           *)
(*                                                                          *)
(* The SDK holds one global configuration.  An attempt installs the         *)
(* settings it read without a certificate, fetches the certificate through  *)
(* whatever configuration is installed by then, and installs them again     *)
(* with it.                                                                 *)
EXTENDS Naturals

CONSTANTS
  Connections,      \* Casdoor connections the operator can enter
  NoConnection,     \* an incomplete one, or none installed
  MaxSaves,         \* bound: saves of the settings
  MaxOutages        \* bound: Casdoor goes down or comes back

ASSUME LoginAssumption ==
  /\ NoConnection \notin Connections
  /\ MaxSaves \in Nat /\ MaxOutages \in Nat

VARIABLES
  casdoor,          \* the connection in the settings
  reachable,        \* Casdoor answers
  sdk,              \* the SDK's connection, and whose certificate it has
  available,        \* the login button is shown
  generation,       \* currentGeneration
  attempts,         \* attempts[n]: the n-th InitConfig and the loop it leaves
  saves, outages,
  raced             \* history: an attempt began while another was under way

loginVars == <<casdoor, reachable, sdk, available, generation, attempts, saves, outages, raced>>

Inits == 0..MaxSaves      \* InitConfig at start-up and after each save
NotYet == [at |-> "none", conn |-> NoConnection, loop |-> FALSE, gen |-> 0]

UnderWay(n) == attempts[n].at \in {"begin", "fetch"}
Settled == \A n \in Inits : ~UnderWay(n)

\* The Web UI is served once the first attempt is over.
Serving == attempts[0].loop \/ attempts[0].at = "done"

\* UpdateSettings, then InitConfig in the same handler.
SaveConnection(c) ==
  /\ Serving
  /\ saves < MaxSaves /\ saves' = saves + 1
  /\ casdoor' = c
  /\ attempts' = [attempts EXCEPT ![saves'].at = "begin"]
  /\ raced' = (raced \/ ~Settled)
  /\ UNCHANGED <<reachable, sdk, available, generation, outages>>

\* Mutant: the login stays on offer.
FailedQuietly(n) ==
  /\ UNCHANGED available
  /\ IF attempts[n].loop
     THEN /\ attempts' = [attempts EXCEPT ![n].at = "sleep"]
          /\ UNCHANGED generation
     ELSE /\ generation' = generation + 1
          /\ attempts' = [attempts EXCEPT ![n] =
               [at |-> "sleep", conn |-> NoConnection, loop |-> TRUE, gen |-> generation']]

\* An attempt that failed: the first of an InitConfig leaves a retry loop.
Failed(n) ==
  /\ available' = FALSE
  /\ IF attempts[n].loop
     THEN /\ attempts' = [attempts EXCEPT ![n].at = "sleep"]
          /\ UNCHANGED generation
     ELSE /\ generation' = generation + 1
          /\ attempts' = [attempts EXCEPT ![n] =
               [at |-> "sleep", conn |-> NoConnection, loop |-> TRUE, gen |-> generation']]

\* tryInitConfig up to the first InitConfig of the SDK.
ReadConnection(n) ==
  /\ attempts[n].at = "begin"
  /\ IF casdoor = NoConnection
     THEN Failed(n) /\ UNCHANGED sdk
     ELSE /\ sdk' = [to |-> casdoor, cert |-> NoConnection]
          /\ attempts' = [attempts EXCEPT ![n].at = "fetch", ![n].conn = casdoor]
          /\ UNCHANGED <<available, generation>>
  /\ UNCHANGED <<casdoor, reachable, saves, outages, raced>>

\* The application and its certificate are fetched, or not.
FetchCert(n) ==
  /\ attempts[n].at = "fetch"
  /\ IF reachable
     THEN /\ sdk' = [to |-> attempts[n].conn, cert |-> sdk.to]
          /\ available' = TRUE
          /\ attempts' = [attempts EXCEPT ![n] = [NotYet EXCEPT !.at = "done"]]
          /\ UNCHANGED generation
     ELSE Failed(n) /\ UNCHANGED sdk
  /\ UNCHANGED <<casdoor, reachable, saves, outages, raced>>

\* Mutant: a loop takes itself for an older one.
SupersededAtOnce(n) == attempts[n].gen <= generation

\* The loop after its 10 seconds: a loop that was superseded ends.
Superseded(n) == attempts[n].gen # generation
Retry(n) ==
  /\ attempts[n].at = "sleep"
  /\ IF Superseded(n)
     THEN attempts' = [attempts EXCEPT ![n] = [NotYet EXCEPT !.at = "done"]] /\ UNCHANGED raced
     ELSE /\ attempts' = [attempts EXCEPT ![n].at = "begin"]
          /\ raced' = (raced \/ ~Settled)
  /\ UNCHANGED <<casdoor, reachable, sdk, available, generation, saves, outages>>

Outage ==
  /\ outages < MaxOutages /\ outages' = outages + 1
  /\ reachable' = ~reachable
  /\ UNCHANGED <<casdoor, sdk, available, generation, attempts, saves, raced>>

LoginInit ==
  /\ casdoor \in Connections \cup {NoConnection}
  /\ reachable \in BOOLEAN
  /\ sdk = [to |-> NoConnection, cert |-> NoConnection]
  /\ available = FALSE
  /\ generation = 0 /\ saves = 0 /\ outages = 0 /\ raced = FALSE
  /\ attempts = [n \in Inits |-> IF n = 0 THEN [NotYet EXCEPT !.at = "begin"] ELSE NotYet]

LoginNext ==
  \/ \E c \in Connections \cup {NoConnection} : SaveConnection(c)
  \/ \E n \in Inits : ReadConnection(n) \/ FetchCert(n) \/ Retry(n)
  \/ Outage

\* Attempts go on - the SDK's HTTP calls end - and the loops wake up.
LoginFairness ==
  \A n \in Inits : WF_loginVars(ReadConnection(n)) /\ WF_loginVars(FetchCert(n))
                   /\ WF_loginVars(Retry(n))

LoginSpec == LoginInit /\ [][LoginNext]_loginVars /\ LoginFairness

-----------------------------------------------------------------------------
(* Properties.                                                              *)

\* The types of the variables.
LoginTypeOK ==
  /\ casdoor \in Connections \cup {NoConnection}
  /\ reachable \in BOOLEAN /\ available \in BOOLEAN /\ raced \in BOOLEAN
  /\ sdk \in [to : Connections \cup {NoConnection}, cert : Connections \cup {NoConnection}]
  /\ generation \in 0 .. MaxSaves + 1
  /\ attempts \in [Inits -> [at : {"none", "begin", "fetch", "sleep", "done"},
                             conn : Connections \cup {NoConnection}, loop : BOOLEAN,
                             gen : 0 .. MaxSaves + 1]]
  /\ saves \in 0..MaxSaves /\ outages \in 0..MaxOutages

\* While login is offered and nothing is under way the SDK has a certificate;
\* and if no two attempts ever overlapped, the connection and the certificate
\* are those of the settings as last saved, whatever outages, saves and retry
\* loops came before.
Ready == available /\ Settled
LoginIsCurrent ==
  Ready => /\ sdk.cert # NoConnection
           /\ ~raced => sdk = [to |-> casdoor, cert |-> casdoor]

\* Unless attempts overlapped, login comes back once Casdoor stays reachable
\* (auth.go:117-121).
LoginReturns ==
  <>[](reachable /\ casdoor # NoConnection /\ ~raced) => <>[]available

\* What auth.go:150-151 says of the generations: re-configuring from the Web
\* UI does not leave older loops racing to install stale settings.
NoStaleSettings == Ready => sdk.to = casdoor
=============================================================================
