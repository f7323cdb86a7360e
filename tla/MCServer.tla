------------------------------ MODULE MCServer ------------------------------
(* The MCP server, self-learning, the login and the proxy.  They share      *)
(* nothing, so a behaviour is one of any of them, and the others have       *)
(* nothing to do; part says which.  The proxy is checked as two instances:  *)
(* one connection with every kind of request while policies and settings    *)
(* change, and two that share the token with payments that need Casdoor.    *)
EXTENDS McpServer, SelfLearn, CasdoorLogin, EgressProxy

CONSTANTS p1, p2, k2

VARIABLE part

MCVars == <<part, mcpVars, learnVars, loginVars, proxyVars>>

-----------------------------------------------------------------------------
\* A chat, a payment of some size, a tool call nobody has a rule for, a call to
\* a host that is allowed, and traffic no recognizer knows.
MCIntent(recognizer, category, tool, amount, host) ==
  [recognizer |-> recognizer, category |-> category, tool |-> tool, amount |-> amount, host |-> host]
MCIntents ==
  { MCIntent("llm", "llm.chat", "", 0, "api"),
    MCIntent("payment-example", "payment", "", 1, "bank"),
    MCIntent("payment-example", "payment", "", 2, "bank"),
    MCIntent("mcp", "mcp.tool_call", "pay", 0, "shop"),
    MCIntent("none", "", "", 0, "web") }

MCRule(category, tool, min, hosts, action) ==
  [category |-> category, tool |-> tool, min |-> min, hosts |-> hosts, action |-> action]
\* The default policy, and one that leaves payments alone, with a rule for all.
MCPolicies ==
  { [recognizers |-> {"mcp", "llm", "payment-example"}, allowlist |-> {}, default |-> "pdp",
     rules |-> << MCRule("payment", "", 2, {}, "step-up"), MCRule("payment", "", 0, {}, "pdp"),
                  MCRule("llm.chat", "", 0, {}, "allow") >>],
    [recognizers |-> {"mcp", "llm"}, allowlist |-> {"api"}, default |-> "",
     rules |-> << MCRule("*", "pay", 0, {"shop"}, "deny"), MCRule("", "", 0, {}, "allow") >>] }

MCIntercepts ==
  { [pdp |-> p1, failClosed |-> TRUE, passthrough |-> TRUE, stepUp |-> "deny"],
    [pdp |-> p2, failClosed |-> FALSE, passthrough |-> FALSE, stepUp |-> "allow"],
    [pdp |-> NoPdp, failClosed |-> TRUE, passthrough |-> FALSE, stepUp |-> "later"] }

-----------------------------------------------------------------------------

\* A session that never was, and an empty Casdoor connection that is given up:
\* states in which no fairness condition is left open.
McpAside ==
  /\ mcp = "exited" /\ messages = 0 /\ reports = 0 /\ dropped = {}
  /\ queue = <<>> /\ posting = {} /\ posted = <<>> /\ received = {}
LoginAside ==
  /\ casdoor = NoConnection /\ reachable = FALSE /\ available = FALSE
  /\ sdk = [to |-> NoConnection, cert |-> NoConnection]
  /\ generation = 0 /\ saves = 0 /\ outages = 0 /\ raced = FALSE
  /\ attempts = [n \in Inits |-> [NotYet EXCEPT !.at = "done"]]

ProxyAside ==
  /\ policy = CHOOSE p \in Policies : TRUE
  /\ policyFile = [torn |-> TRUE, policy |-> policy]
  /\ intercept = CHOOSE s \in Intercepts : TRUE
  /\ posts = [u \in Posters |-> NoPost] /\ overlapped = FALSE
  /\ token = NoToken /\ tokenLock = Free
  /\ exchange = [c \in Clients |-> NoExchange] /\ seen = [c \in Clients |-> Unseen]
  /\ running = FALSE /\ revisions = 0 /\ upsets = 0

MCInit ==
  \/ part = "mcp" /\ McpInit /\ LearnInit /\ LoginAside /\ ProxyAside
  \/ part = "learn" /\ LearnInit /\ McpAside /\ LoginAside /\ ProxyAside
  \/ part = "login" /\ LoginInit /\ McpAside /\ LearnInit /\ ProxyAside
  \/ part = "proxy" /\ ProxyInit /\ McpAside /\ LearnInit /\ LoginAside
  \/ part = "token" /\ ProxyInit /\ policy.default = "pdp" /\ McpAside /\ LearnInit /\ LoginAside

MCNext ==
  /\ UNCHANGED part
  /\ \/ part = "mcp" /\ McpNext /\ UNCHANGED <<learnVars, loginVars, proxyVars>>
     \/ part = "learn" /\ LearnNext /\ UNCHANGED <<mcpVars, loginVars, proxyVars>>
     \/ part = "login" /\ LoginNext /\ UNCHANGED <<mcpVars, learnVars, proxyVars>>
     \/ part = "proxy" /\ ProxyNext /\ exchange'[k2] = NoExchange /\ UNCHANGED <<mcpVars, learnVars, loginVars>>
     \/ /\ part = "token" /\ ProxyNext /\ posts' = posts /\ revisions' <= 1 /\ upsets' = 0
        /\ \A c \in Clients : exchange'[c] # NoExchange => exchange'[c].intent.amount = 1
        /\ UNCHANGED <<mcpVars, learnVars, loginVars>>

MCSpec == MCInit /\ [][MCNext]_MCVars /\ McpFairness /\ LoginFairness /\ ProxyFairness
=============================================================================
