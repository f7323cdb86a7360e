----------------------------- MODULE SelfLearn -----------------------------
(* Self-learning: an operator corrects the verdict on a record, and the     *)
(* correction becomes a rule.  The correction is on the record, in this     *)
(* host's database (object/record_store.go); the rule, like the operator's  *)
(* digital employee, is in the properties of their user at Casdoor          *)
(* (controllers/selflearn.go, controllers/employee.go, object/selflearn.go).*)
(*                                                                          *)
(* A request reads the whole user first and writes all its properties back  *)
(* later; requests overlap as they like.                                    *)
EXTENDS Naturals, FiniteSets

CONSTANTS
  Ruled,            \* records with a verdict
  Logged,           \* records that were only logged
  Operators,        \* operators, each with a user at Casdoor
  Requests,         \* requests to the management API
  EmployeeSets,     \* policy sets of a digital employee
  NoSet,
  MaxMisses         \* bound: failed database and Casdoor calls

ASSUME LearnAssumption == Ruled \cap Logged = {} /\ NoSet \notin EmployeeSets /\ MaxMisses \in Nat

VARIABLES
  feedback,         \* the feedback columns of each record
  properties,       \* each user's properties: learned rules and employee set
  requests,         \* each request: how far it is and what it read
  corrected,        \* history: who has given feedback on a record
  chosen,           \* history: the employee set each operator saved last
  upset,            \* history: operators with overlapping or failed requests
  misses

learnVars == <<feedback, properties, requests, corrected, chosen, upset, misses>>

AnyRecord == Ruled \cup Logged
Feedback == {"none", "allow", "deny"}
Properties == [rules : [AnyRecord -> Feedback], employee : EmployeeSets \cup {NoSet}]
NoRules == [r \in AnyRecord |-> "none"]

NoRequest == [stage |-> "new"]
Over == [stage |-> "over"]
InFlight(q) == requests[q].stage \notin {"new", "over"}
Busy(u) == \E q \in Requests : InFlight(q) /\ requests[q].by = u

Miss == misses < MaxMisses /\ misses' = misses + 1
Upset(u) == upset' = upset \cup {u}

-----------------------------------------------------------------------------
(* The three requests.                                                      *)

\* requireCasdoorUser: signed in, and the user is read afresh from Casdoor.
Accept(q, u, first, op) ==
  /\ requests[q] = NoRequest
  /\ requests' = [requests EXCEPT ![q] =
       [stage |-> first, by |-> u, user |-> properties[u], op |-> op]]
  /\ upset' = IF Busy(u) THEN upset \cup {u} ELSE upset
  /\ UNCHANGED <<feedback, properties, corrected, chosen, misses>>

UpdateRecordFeedback(q, u, r, f) ==
  Accept(q, u, "record", [name |-> "correct", record |-> r, feedback |-> f])
DeleteLearnedRule(q, u, r) ==
  Accept(q, u, "user", [name |-> "forget", record |-> r, feedback |-> "none"])
UpdateEmployeePolicySet(q, u, s) ==
  Accept(q, u, "user", [name |-> "employ", set |-> s])

\* Mutant: a withdrawn feedback leaves the rule.
UpsertOnly(rules, r, f) == IF f = "none" THEN rules ELSE [rules EXCEPT ![r] = f]

\* UpsertLearnedRule: one rule for each record, none for a withdrawn one.
UpsertRule(rules, r, f) == [rules EXCEPT ![r] = f]

Written(q) ==
  LET op   == requests[q].op
      user == requests[q].user
  IN IF op.name = "employ" THEN [user EXCEPT !.employee = op.set]
     ELSE [user EXCEPT !.rules = UpsertRule(user.rules, op.record, op.feedback)]

\* SetRecordFeedback; only a record that was ruled on takes feedback.
Corrected(r, u, f) ==
  /\ feedback' = [feedback EXCEPT ![r] = f]
  /\ corrected' = [corrected EXCEPT ![r] = @ \cup {u}]

CorrectRecord(q) ==
  /\ requests[q].stage = "record"
  /\ LET op == requests[q].op
         u  == requests[q].by
     IN \/ /\ op.record \in Ruled
           /\ Corrected(op.record, u, op.feedback)
           /\ requests' = [requests EXCEPT ![q].stage = "user"]
           /\ UNCHANGED misses
        \/ /\ op.record \in Ruled => Miss
           /\ op.record \in Logged => UNCHANGED misses
           /\ requests' = [requests EXCEPT ![q] = Over]
           /\ UNCHANGED <<feedback, corrected>>
  /\ UNCHANGED <<properties, chosen, upset>>

\* UpdateUserProperties: the column "properties" is written as a whole.
WriteUser(q) ==
  /\ requests[q].stage = "user"
  /\ LET op == requests[q].op
         u  == requests[q].by
     IN \/ /\ properties' = [properties EXCEPT ![u] = Written(q)]
           /\ chosen' = IF op.name = "employ" THEN [chosen EXCEPT ![u] = op.set] ELSE chosen
           /\ requests' = [requests EXCEPT ![q] =
                IF op.name = "forget" THEN [@ EXCEPT !.stage = "unrecord"] ELSE Over]
           /\ UNCHANGED <<upset, misses>>
        \/ /\ Miss /\ Upset(u)
           /\ requests' = [requests EXCEPT ![q] = Over]
           /\ UNCHANGED <<properties, chosen>>
  /\ UNCHANGED <<feedback, corrected>>

\* A forgotten rule takes the feedback of its record with it, if that works.
WithdrawFeedback(q) ==
  /\ requests[q].stage = "unrecord"
  /\ LET op == requests[q].op
         u  == requests[q].by
     IN \/ /\ op.record \in Ruled
           /\ Corrected(op.record, u, "none")
           /\ UNCHANGED <<upset, misses>>
        \/ /\ op.record \in Ruled => Miss /\ Upset(u)
           /\ op.record \in Logged => UNCHANGED <<upset, misses>>
           /\ UNCHANGED <<feedback, corrected>>
  /\ requests' = [requests EXCEPT ![q] = Over]
  /\ UNCHANGED <<properties, chosen>>

LearnInit ==
  /\ feedback = NoRules
  /\ properties = [u \in Operators |-> [rules |-> NoRules, employee |-> NoSet]]
  /\ requests = [q \in Requests |-> NoRequest]
  /\ corrected = [r \in AnyRecord |-> {}]
  /\ chosen = [u \in Operators |-> NoSet]
  /\ upset = {} /\ misses = 0

LearnNext ==
  \/ \E q \in Requests, u \in Operators :
       \/ \E r \in AnyRecord : \/ \E f \in Feedback : UpdateRecordFeedback(q, u, r, f)
                               \/ DeleteLearnedRule(q, u, r)
       \/ \E s \in EmployeeSets : UpdateEmployeePolicySet(q, u, s)
  \/ \E q \in Requests : CorrectRecord(q) \/ WriteUser(q) \/ WithdrawFeedback(q)

LearnSpec == LearnInit /\ [][LearnNext]_learnVars

-----------------------------------------------------------------------------
(* Properties.                                                              *)

\* The types of the variables.
LearnTypeOK ==
  /\ feedback \in [AnyRecord -> Feedback]
  /\ properties \in [Operators -> Properties]
  /\ \A q \in Requests :
       /\ requests[q].stage \in {"new", "record", "user", "unrecord", "over"}
       /\ InFlight(q) => requests[q].by \in Operators /\ requests[q].user \in Properties
  /\ corrected \in [AnyRecord -> SUBSET Operators]
  /\ chosen \in [Operators -> EmployeeSets \cup {NoSet}]
  /\ upset \subseteq Operators /\ misses \in 0..MaxMisses

\* The rule an operator's user has for a record they alone have corrected is
\* the feedback on it, and the employee set is the one they saved last - for
\* an operator whose requests neither overlapped nor failed, whatever the
\* other operators do.
Agree(u) ==
  \A r \in AnyRecord : corrected[r] \subseteq {u} => properties[u].rules[r] = feedback[r]
LessonsAgree ==
  \A u \in Operators \ upset :
    ~Busy(u) => Agree(u) /\ properties[u].employee = chosen[u]

\* What controllers/selflearn.go:66-69 says: the Records page and the
\* Self-Learning page can never disagree about what was taught.
PagesNeverDisagree ==
  (\A q \in Requests : ~InFlight(q)) => \A u \in Operators : Agree(u)
=============================================================================
