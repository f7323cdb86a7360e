---------------------------- MODULE CodexSwitch ----------------------------
(* Switching Codex between its own endpoint and a relay: patch/codex_llm.go *)
(* and the line editor of patch/codex_toml.go.                              *)
(*                                                                          *)
(* auth.json is data and is written whole; config.toml is the operator's    *)
(* file and only the lines of the managed keys may change.  A line is a     *)
(* sequence of tokens, a single-line string (with whatever it contains) is  *)
(* one token, and a line without "\n" is the unterminated last one.  Spaces *)
(* and CRLF are left out: no decision depends on them.                      *)
EXTENDS Naturals, Sequences, FiniteSets, SequencesExt

CONSTANTS
  Documents,      \* the config.toml files an operator may start with
  Paragraphs,     \* what the operator may append by hand, as lines
  Relays,         \* LLM providers: records of key, model and url
  Missing,        \* no value: a key to remove, an empty model, no key
  MaxOutside,     \* how often the operator or Codex writes a file
  MaxFaults       \* how many writes fail or are cut by a crash

\* The tokens that mean something to whoever reads a file; a string in quotes,
\* whatever it contains, is none of them.
Marks == {"\n", "=", "#", "[", "]", "{", "}", "\"", "\"\"\"", "'''"}

ASSUME CodexAssumption ==
  /\ MaxOutside \in Nat /\ MaxFaults \in Nat
  /\ Documents \cup Paragraphs \subseteq Seq(Seq(STRING))
  /\ Missing \notin Relays /\ Missing # "aiguard"
  /\ \A r \in Relays : {r.model, r.url} \ {Missing} \subseteq STRING \ Marks

VARIABLES
  codexAuth,      \* auth.json: the mode and the key it holds
  config,         \* config.toml, a sequence of lines
  switch,         \* the call of updateCodexLLMConfig that holds stateMutex
  settled,        \* config.toml after the last switch back, if nobody edited it
  asked,          \* the last call that succeeded, and what was written before it
  outside,        \* writes by the operator and Codex so far
  faults          \* failed writes and crashes so far

codexVars == <<codexAuth, config, switch, settled, asked, outside, faults>>

NoSwitch == [stage |-> "idle"]
Never == [goal |-> Missing, at |-> MaxOutside + 1]
Unsettled == <<<<>>>>

-----------------------------------------------------------------------------
(* Lines and values.                                                        *)

Body(line) == IF line # <<>> /\ Last(line) = "\n" THEN Front(line) ELSE line
Blank(line) == Body(line) = <<>>
Remark(line) == ~Blank(line) /\ line[1] = "#"
Terminated(line) == IF Last(line) = "\n" THEN line ELSE Append(line, "\n")

\* The first of the tokens ts in s at or after from, 0 if there is none.
FirstOf(s, ts, from) ==
  SelectInSubSeq(s, from, Len(s), LAMBDA t : t \in ts)

Header(line) ==
  LET b     == Body(line)
      array == Len(b) > 1 /\ b[2] = "["
      open  == IF array THEN 3 ELSE 2
      end   == FirstOf(b, {"]"}, open)
      close == IF array THEN end + 1 ELSE end
  IN [ok    |-> /\ b # <<>> /\ b[1] = "[" /\ end # 0
                /\ array => close <= Len(b) /\ b[close] = "]"
                /\ close < Len(b) => b[close + 1] = "#",
      name  |-> SubSeq(b, open, end - 1),
      array |-> array]

\* Where the "=" of an assignment is, 0 if the line is none.
Assigns(line) ==
  LET at == FirstOf(Body(line), {"=", "#"}, 1)
  IN IF at > 1 /\ line[at] = "=" THEN at ELSE 0

\* A single quoted key is the key it quotes; any other is taken as written.
KeyOf(line) ==
  LET key == SubSeq(line, 1, Assigns(line) - 1)
  IN IF Len(key) = 3 /\ key[1] = "\"" /\ key[3] = "\"" THEN <<key[2]>> ELSE key

Fresh == [multiline |-> "", depth |-> 0, remark |-> FALSE]

ScanToken(s, t) ==
  CASE s.remark -> s
    [] ~s.remark /\ s.multiline # "" ->
         IF t = s.multiline THEN [s EXCEPT !.multiline = ""] ELSE s
    [] OTHER ->
         CASE t \in {"\"\"\"", "'''"} -> [s EXCEPT !.multiline = t]
           [] t = "#" -> [s EXCEPT !.remark = TRUE]
           [] t \in {"[", "{"} -> [s EXCEPT !.depth = @ + 1]
           [] t \in {"]", "}"} /\ s.depth > 0 -> [s EXCEPT !.depth = @ - 1]
           [] OTHER -> s

ScanLine(s, tokens) ==
  LET t == FoldLeft(ScanToken, s, tokens)
  IN [multiline |-> t.multiline, depth |-> t.depth, remark |-> FALSE]
Continuing(s) == s.multiline # "" \/ s.depth > 0

-----------------------------------------------------------------------------
(* parseCodexTOML: the headers and the assignments, by line number.         *)

Uncommented(b) ==
  LET at == FirstOf(b, {"#"}, 1) IN IF at = 0 THEN b ELSE SubSeq(b, 1, at - 1)

\* An entry whose value goes on in line n.
Continued(e, n, body) == [e EXCEPT !.end = n + 1, !.value = @ \o body]

\* One line more.  An array entry's assignments get a table name no table has;
\* a line of a value that goes on is structure whatever it looks like.
Locate(d, line) ==
  LET n      == Len(d.lines) + 1
      body   == Body(line)
      header == Header(line)
      value  == SubSeq(body, Assigns(line) + 1, Len(body))
      next   == [d EXCEPT !.lines = Append(@, line)]
  IN IF Continuing(d.scan)
     THEN [next EXCEPT !.scan = ScanLine(@, body),
                       !.entries[Len(d.entries)] = Continued(@, n, body)]
     ELSE IF Blank(line) \/ Remark(line) THEN next
     ELSE IF header.ok
     THEN [next EXCEPT !.table = (IF header.array THEN <<"[[">> ELSE <<>>) \o header.name,
                       !.tables = Append(@, [name |-> header.name, array |-> header.array,
                                             start |-> n])]
     ELSE IF Assigns(line) = 0 THEN next
     ELSE [next EXCEPT !.scan = ScanLine(Fresh, value),
                       !.entries = Append(@,
                          [table |-> d.table, key |-> KeyOf(line),
                           path |-> SubSeq(line, 1, Assigns(line) - 1),
                           start |-> n, end |-> n + 1, value |-> Uncommented(value)])]

Parse(lines) ==
  FoldLeft(Locate, [lines |-> <<>>, table |-> <<>>, tables |-> <<>>,
                    entries |-> <<>>, scan |-> Fresh], lines)

Smallest(S, none) == IF S = {} THEN none ELSE CHOOSE i \in S : \A j \in S : i <= j

\* The entry of a key, as a set of none or one; the line of a table's header.
EntryOf(d, table, key) ==
  LET found == {i \in DOMAIN d.entries :
                  d.entries[i].table = table /\ d.entries[i].key = <<key>>}
  IN IF found = {} THEN {} ELSE {d.entries[Smallest(found, 0)]}

TableOf(d, name) ==
  Smallest({t.start : t \in {x \in ToSet(d.tables) : ~x.array /\ x.name = name}}, 0)

TableEnd(d, h) ==
  Smallest({t.start : t \in {x \in ToSet(d.tables) : x.start > h}}, Len(d.lines) + 1)

-----------------------------------------------------------------------------
(* What go-toml makes of a document (external): every value by its full     *)
(* name, provided that values end, a key of one name is that name, quoted   *)
(* or not, and no name is defined twice.                                    *)

Plain(name) ==
  FlattenSeq([i \in DOMAIN name |-> IF name[i] = "\"" THEN <<>> ELSE <<name[i]>>])
FullName(e) ==
  (IF e.table = <<>> THEN <<>> ELSE Append(Plain(e.table), ".")) \o Plain(e.path)

Starts(p, s) == Len(p) <= Len(s) /\ SubSeq(s, 1, Len(p)) = p

Parses(d) ==
  LET names  == [i \in DOMAIN d.entries |-> FullName(d.entries[i])]
      tables == [i \in DOMAIN d.tables |-> Plain(d.tables[i].name)]
  IN /\ ~Continuing(d.scan)
     /\ \A e \in ToSet(d.entries) : Len(Plain(e.path)) = 1 => e.key = Plain(e.path)
     /\ Cardinality(ToSet(names)) = Len(names)
     /\ \A i, j \in DOMAIN tables :
          i # j /\ tables[i] = tables[j] => d.tables[i].array /\ d.tables[j].array
     /\ \A i \in DOMAIN tables, j \in DOMAIN names :
          /\ ~Starts(names[j], tables[i])
          /\ Starts(tables[i], names[j])
             => Len(Plain(d.entries[j].table)) >= Len(tables[i])

\* The values of a full name: none or one in a document that parses.
Reads(d, name) == {e.value : e \in {x \in ToSet(d.entries) : FullName(x) = name}}

ProviderTable == <<"model_providers", ".", "aiguard">>

\* model_providers has an "aiguard": a table, or an array of them too.
HasProvider(d, arrays) ==
  \/ \E t \in ToSet(d.tables) :
       Starts(ProviderTable, Plain(t.name)) /\ (arrays \/ ~t.array)
  \/ \E e \in ToSet(d.entries) : Starts(Append(ProviderTable, "."), FullName(e))

-----------------------------------------------------------------------------
(* editCodexTOML.                                                           *)

Setting(k, v) == [key |-> k, value |-> v]

Replaced(line, value) ==
  LET b  == Body(line)
      at == FirstOf(b, {"="}, 1)
      c  == FirstOf(b, {"#"}, at)
  IN SubSeq(b, 1, at) \o <<value>>
     \o (IF c = 0 THEN <<>> ELSE SubSeq(b, c, Len(b)))
     \o SubSeq(line, Len(b) + 1, Len(line))

Lines(entries) == UNION {e.start..(e.end - 1) : e \in entries}

\* Mutant: a key is removed from every table.
DroppedAnywhere(d, table, settings) ==
  Lines({e \in ToSet(d.entries) :
           \E s \in ToSet(settings) : s.value = Missing /\ e.key = <<s.key>>})

\* resolve: a key on one line is replaced or removed, a longer one only
\* removed, and a key that is not there is a line to insert.
Resolvable(d, table, settings) ==
  \A s \in ToSet(settings) :
    s.value # Missing => Cardinality(Lines(EntryOf(d, table, s.key))) <= 1
Dropped(d, table, settings) ==
  Lines(UNION {EntryOf(d, table, s.key) : s \in {x \in ToSet(settings) : x.value = Missing}})
Rewritten(d, table, settings, i) ==
  {Replaced(d.lines[i], s.value) :
     s \in {x \in ToSet(settings) : x.value # Missing /\ i \in Lines(EntryOf(d, table, x.key))}}
ToInsert(d, table, settings) ==
  FlattenSeq([i \in DOMAIN settings |->
    LET s == settings[i]
    IN IF s.value # Missing /\ EntryOf(d, table, s.key) = {}
       THEN <<<<s.key, "=", s.value, "\n">>>> ELSE <<>>])

\* The line up to which only lines that Skip allows precede line at.
Before(lines, at, Skip(_)) ==
  LET kept == {i \in 1..(at - 1) : ~Skip(lines[i])}
  IN IF kept = {} THEN 1 ELSE (CHOOSE i \in kept : \A j \in kept : j <= i) + 1

RootInsertPoint(d) ==
  Before(d.lines, TableEnd(d, 0), LAMBDA l : Blank(l) \/ Remark(l))

\* The lines of the provider table and the blank ones above it.
TableBlock(d) ==
  LET h == TableOf(d, ProviderTable)
  IN IF h = 0 THEN {} ELSE Before(d.lines, h, Blank)..(TableEnd(d, h) - 1)

Edited(d, edit) ==
  LET lines    == d.lines
      n        == Len(lines)
      h        == TableOf(d, ProviderTable)
      root     == ToInsert(d, <<>>, edit.root)
      provider == ToInsert(d, ProviderTable, edit.provider)
      at       == RootInsertPoint(d)
      newTable == edit.provider # <<>> /\ h = 0
      removed  == Dropped(d, <<>>, edit.root)
                  \cup (IF edit.drop THEN TableBlock(d) ELSE {})
      text(i)  == LET new == Rewritten(d, <<>>, edit.root, i)
                             \cup Rewritten(d, ProviderTable, edit.provider, i)
                  IN IF new = {} THEN lines[i] ELSE CHOOSE l \in new : TRUE
      gap      == IF at <= n /\ ~Blank(lines[at]) THEN <<<<"\n">>>> ELSE <<>>
      space    == IF (n # 0 /\ ~Blank(lines[n])) \/ (n = 0 /\ root # <<>>)
                  THEN <<<<"\n">>>> ELSE <<>>
      ended(i) == \/ i = h /\ provider # <<>>
                  \/ i = n /\ (newTable \/ (root # <<>> /\ at = n + 1))
      inserted(i) ==
        (IF i = h + 1 /\ h # 0 THEN provider ELSE <<>>)
        \o (IF i = at /\ root # <<>> THEN root \o gap ELSE <<>>)
        \o (IF i = n + 1 /\ newTable
            THEN space \o <<<<"[">> \o ProviderTable \o <<"]", "\n">>>> \o provider
            ELSE <<>>)
      kept(i)  == IF i > n \/ i \in removed THEN <<>>
                  ELSE <<IF ended(i) THEN Terminated(text(i)) ELSE text(i)>>
  IN FlattenSeq([i \in 1..(n + 1) |-> inserted(i) \o kept(i)])

SaysSetting(d, prefix, s) ==
  Reads(d, Append(prefix, s.key)) = (IF s.value = Missing THEN {} ELSE {<<s.value>>})

\* verifyCodexTOML: the edited document read back.
Verified(d, edit) ==
  /\ Parses(d)
  /\ \A s \in ToSet(edit.root) : SaysSetting(d, <<>>, s)
  /\ edit.drop => ~HasProvider(d, FALSE)
  /\ \A s \in ToSet(edit.provider) : SaysSetting(d, Append(ProviderTable, "."), s)

\* Mutant: the edited document is not read back.
Unverified(d, edit, made) ==
  Resolvable(d, <<>>, edit.root) /\ Resolvable(d, ProviderTable, edit.provider)

Editable(d, edit, made) ==
  /\ Resolvable(d, <<>>, edit.root)
  /\ Resolvable(d, ProviderTable, edit.provider)
  /\ Verified(Parse(made), edit)

-----------------------------------------------------------------------------
(* The two switches.                                                        *)

NoEdit == [root |-> <<>>, provider |-> <<>>, drop |-> FALSE]

ApplyEdit(r) ==
  [root     |-> <<Setting("model_provider", "aiguard"), Setting("model", r.model)>>,
   provider |-> <<Setting("name", "AIGuard"), Setting("base_url", r.url),
                  Setting("wire_api", "responses"),
                  Setting("requires_openai_auth", "true")>>,
   drop     |-> FALSE]

PointsHere(d) == Reads(d, <<"model_provider">>) = {<<"aiguard">>}

\* Mutant: the relay's model stays.
ClearKeepsModel(d) ==
  [root     |-> IF PointsHere(d) THEN <<Setting("model_provider", Missing)>> ELSE <<>>,
   provider |-> <<>>,
   drop     |-> HasProvider(d, TRUE)]

ClearEdit(d) ==
  [root     |-> IF PointsHere(d)
                THEN <<Setting("model_provider", Missing), Setting("model", Missing)>>
                ELSE <<>>,
   provider |-> <<>>,
   drop     |-> HasProvider(d, TRUE)]

\* Both files are read and the new config.toml is made before anything is
\* written; nothing to change, or a config.toml that cannot be edited, ends it.
StartSwitch(d, goal, auth, edit, changed) ==
  /\ Parses(d) /\ codexAuth.mode # "broken"
  /\ changed
  /\ LET made == IF edit = NoEdit THEN config ELSE Edited(d, edit)
     IN /\ edit = NoEdit \/ Editable(d, edit, made)
        /\ switch' = [stage |-> "auth", goal |-> goal, auth |-> auth, backup |-> codexAuth,
                      seen |-> config, config |-> made, writes |-> edit # NoEdit,
                      began |-> outside]
  /\ UNCHANGED <<codexAuth, config, settled, asked, outside, faults>>

ApplyProvider(r) ==
  /\ switch = NoSwitch
  /\ r.url # Missing /\ r.model # Missing
  /\ LET d    == Parse(config)
         edit == ApplyEdit(r)
     IN StartSwitch(d, r, [mode |-> "apikey", key |-> r.key], edit, TRUE)

ClearedAuth(auth) ==
  IF auth.mode = "apikey" THEN [mode |-> "chatgpt", key |-> Missing] ELSE auth

ClearProvider ==
  /\ switch = NoSwitch
  /\ LET d    == Parse(config)
         edit == ClearEdit(d)
     IN StartSwitch(d, Missing, ClearedAuth(codexAuth), edit,
                    codexAuth.mode = "apikey" \/ edit # NoEdit)

\* The call returns; asked and settled note what it leaves behind.
Succeed ==
  /\ switch' = NoSwitch
  /\ asked' = [goal |-> switch.goal, at |-> switch.began]
  /\ settled' = IF /\ switch.goal = Missing
                   /\ switch.seen = config /\ PointsHere(Parse(config))
                THEN config' ELSE settled

WriteAuth ==
  /\ switch.stage = "auth"
  /\ codexAuth' = switch.auth
  /\ IF switch.writes
     THEN switch' = [switch EXCEPT !.stage = "config"] /\ UNCHANGED <<asked, settled, config>>
     ELSE config' = config /\ Succeed
  /\ UNCHANGED <<outside, faults>>

WriteConfig ==
  /\ switch.stage = "config"
  /\ config' = switch.config
  /\ Succeed
  /\ UNCHANGED <<codexAuth, outside, faults>>

Fault == faults < MaxFaults /\ faults' = faults + 1

\* Mutant: auth.json is not put back.
WriteFailsHalfway ==
  /\ Fault
  /\ switch.stage # "idle"
  /\ switch' = NoSwitch
  /\ UNCHANGED <<codexAuth, config, settled, asked, outside>>

\* AtomicWriteFile fails and leaves the old file; auth.json is put back.
WriteFails ==
  /\ Fault
  /\ switch.stage # "idle"
  /\ codexAuth' = IF switch.stage = "config" THEN switch.backup ELSE codexAuth
  /\ switch' = NoSwitch
  /\ UNCHANGED <<config, settled, asked, outside>>

\* aiguard is killed, or putting auth.json back fails as well: an error that
\* restoreFileState swallows.
Interrupted ==
  /\ Fault
  /\ switch.stage = "config"
  /\ switch' = NoSwitch
  /\ asked' = Never
  /\ UNCHANGED <<codexAuth, config, settled, outside>>

\* The operator appends to config.toml, whatever a switch has already read.
OperatorEdits(p) ==
  /\ outside < MaxOutside /\ outside' = outside + 1
  /\ LET before == IF config = <<>> THEN <<>>
                   ELSE [config EXCEPT ![Len(config)] = Terminated(@)]
         d      == Parse(before \o p)
     IN Parses(d) /\ config' = before \o p
  /\ settled' = Unsettled
  /\ UNCHANGED <<codexAuth, switch, asked, faults>>

\* `codex login`, with an account or with a key of the operator's own.
CodexLogin(mode) ==
  /\ outside < MaxOutside /\ outside' = outside + 1
  /\ codexAuth' = [mode |-> mode, key |-> Missing]
  /\ UNCHANGED <<config, switch, settled, asked, faults>>

CodexInit ==
  /\ codexAuth \in [mode : {"chatgpt", "apikey", "broken"}, key : {Missing}]
  /\ config \in Documents
  /\ switch = NoSwitch
  /\ settled = Unsettled
  /\ asked = Never
  /\ outside = 0
  /\ faults = 0

CodexNext ==
  \/ \E r \in Relays : ApplyProvider(r)
  \/ ClearProvider
  \/ WriteAuth \/ WriteConfig
  \/ WriteFails \/ Interrupted
  \/ \E p \in Paragraphs : OperatorEdits(p)
  \/ \E mode \in {"chatgpt", "apikey"} : CodexLogin(mode)

CodexSpec == CodexInit /\ [][CodexNext]_codexVars

-----------------------------------------------------------------------------
\* The types of the variables; a configuration is never left that Codex
\* cannot parse, however the line editor read it.
CodexTypeOK ==
  /\ codexAuth \in [mode : {"chatgpt", "apikey", "broken"},
                    key : {r.key : r \in Relays} \cup {Missing}]
  /\ Parses(Parse(config))
  /\ switch.stage \in {"idle", "auth", "config"}
  /\ outside \in 0..MaxOutside /\ faults \in 0..MaxFaults

\* A document's last line is AIGuard's: it is in the provider table, whose
\* header is, or in the value of a managed key at the top.
IsOwn(d) ==
  \/ d.table = ProviderTable
  \/ /\ d.entries # <<>>
     /\ LET e == Last(d.entries)
        IN /\ e.end > Len(d.lines)
           /\ e.table = <<>> /\ e.key \in {<<"model">>, <<"model_provider">>}

\* The text of the other lines, as they are read one after the other.
OperatorLines(lines) ==
  FlattenSeq([i \in DOMAIN lines |->
    IF Blank(lines[i]) \/ IsOwn(Parse(SubSeq(lines, 1, i))) THEN <<>> ELSE <<Body(lines[i])>>])

\* A switch changes the lines of the managed keys and no other: what the
\* operator wrote stays, in its order, multi-line values, quoted keys and
\* look-alike tables included (codex_toml.go:54-63).
OperatorLinesStay ==
  switch.stage # "idle" => OperatorLines(switch.config) = OperatorLines(switch.seen)

\* The last switch that succeeded is in force in both files as long as nobody
\* else writes them, whatever other switch has failed since and however far it
\* came: Codex is never left with a relay's key and no provider pointing at
\* it, or the reverse (codex_llm.go:131-134).
LastSwitchHolds ==
  (switch = NoSwitch /\ asked.at = outside) =>
    LET d == Parse(config)
    IN IF asked.goal = Missing
       THEN /\ codexAuth = [mode |-> "chatgpt", key |-> Missing]
            /\ ~PointsHere(d) /\ ~HasProvider(d, FALSE)
       ELSE /\ codexAuth = [mode |-> "apikey", key |-> asked.goal.key]
            /\ PointsHere(d)
            /\ Reads(d, <<"model">>) = {<<asked.goal.model>>}
            /\ Reads(d, ProviderTable \o <<".", "base_url">>) = {<<asked.goal.url>>}

\* What a round of switches, to a relay and back, makes of a file without one:
\* its last line ends, no blank lines come after it, and one comes where the
\* top-level keys meet what follows them.
Rounded(lines) ==
  LET n     == Len(lines)
      last  == Before(lines, n + 1, Blank) - 1
      at    == RootInsertPoint(Parse(lines))
      ended == [i \in 1..last |-> IF i = n THEN Terminated(lines[i]) ELSE lines[i]]
  IN IF at <= n /\ ~Blank(lines[at]) THEN InsertAt(ended, at, <<"\n">>) ELSE ended

\* Switching to a relay and back again and again does not let the file grow:
\* whatever relays were in use in between, a switch back leaves the file the
\* one before it left, tidied once (codex_toml.go:211-224, 239-257).
SwitchSettles ==
  [][ settled # Unsettled /\ settled' # Unsettled =>
        settled' \in {settled, Rounded(settled)} ]_codexVars

\* What codex_toml.go:61-63 says of the file, taken for the comments in it:
\* "leaves every byte it does not own exactly where it was".
EveryCommentStays ==
  switch.stage # "idle" =>
    SelectSeq(switch.config, Remark) = SelectSeq(switch.seen, Remark)
=============================================================================
