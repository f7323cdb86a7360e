---------------------------- MODULE HermesPatch ----------------------------
(* Patching Hermes: patch/hermes_agent.go and the line editor of            *)
(* patch/hermes_config.go.                                                  *)
(*                                                                          *)
(* The observer plugin is aiguard's and is journalled (the journal is the   *)
(* subject of PatchJournal; here an Apply or a Revert is one step, with its *)
(* failures).  config.yaml is the user's: one item of plugins.enabled is    *)
(* inserted or removed by line, outside the journal.  A line is a record of *)
(* what yamlContentIndent, yamlMappingKey and yamlSequenceItem make of it.  *)
EXTENDS Naturals, Sequences, FiniteSets, SequencesExt

CONSTANTS
  HermesDocuments,  \* what the user may have in config.yaml, as lines
  YamlNames,        \* the keys and items of config.yaml
  MaxRewrites,      \* how often the user replaces the file
  MaxHermesFaults        \* failed writes and crashes

ASSUME HermesAssumption == MaxRewrites \in Nat /\ MaxHermesFaults \in Nat

VARIABLES
  yaml,             \* config.yaml, "torn" after a write that was cut short
  plugin,           \* the plugin directory
  journal,          \* the manifest of the patch exists
  patching,         \* the Patch or Unpatch under way
  outcome,          \* the last operation that succeeded, if nothing happened since
  rewrites, hermesFaults

hermesVars == <<yaml, plugin, journal, patching, outcome, rewrites, hermesFaults>>

NotPatching == [stage |-> "idle"]
TornYaml == <<[kind |-> "torn", indent |-> 0]>>
Nothing == <<[kind |-> "none", indent |-> 0]>>
Observer == "casdoor-aiguard-observer"

-----------------------------------------------------------------------------
(* Lines: a key with nothing, a scalar or a flow list after it; an item; a  *)
(* text line that continues something; a remark or a blank line.            *)

KeyLine(indent, name) == [kind |-> "key", indent |-> indent, name |-> name, form |-> "block", items |-> <<>>]
FlowLine(indent, name, items) == [kind |-> "key", indent |-> indent, name |-> name, form |-> "flow", items |-> items]
ScalarLine(indent, name) == [kind |-> "key", indent |-> indent, name |-> name, form |-> "scalar", items |-> <<>>]
ItemLine(indent, name) == [kind |-> "item", indent |-> indent, name |-> name]
TextLine(indent) == [kind |-> "text", indent |-> indent]
RemarkLine == [kind |-> "remark", indent |-> 0]
BlankLine == [kind |-> "blank", indent |-> 0]

HermesLine ==
  [kind : {"key"}, indent : Nat, name : YamlNames, form : {"flow"}, items : Seq(YamlNames)]
  \cup [kind : {"key"}, indent : Nat, name : YamlNames, form : {"block", "scalar"}, items : {<<>>}]
  \cup [kind : {"item"}, indent : Nat, name : YamlNames]
  \cup [kind : {"text"}, indent : Nat] \cup {RemarkLine, BlankLine}

ASSUME HermesDocumentsAssumption ==
  /\ HermesDocuments \subseteq Seq(HermesLine) \ {<<>>}
  /\ {"plugins", "enabled", "disabled", Observer} \subseteq YamlNames

HasContent(line) == line.kind \notin {"remark", "blank"}
Least(S, none) == IF S = {} THEN none ELSE CHOOSE i \in S : \A j \in S : i <= j
Greatest(S, none) == IF S = {} THEN none ELSE CHOOSE i \in S : \A j \in S : j <= i

\* The first line from start on that leaves the block of a key at indent.
BlockEnd(y, indent, start) ==
  Least({i \in start..Len(y) : HasContent(y[i]) /\ y[i].indent <= indent}, Len(y) + 1)

\* The key's line in [start, end), 0 when a shallower line comes before it.
FindMappingKey(y, key, indent, start, end) ==
  LET inside == start..(Least({i \in start..(end - 1) :
                                 HasContent(y[i]) /\ y[i].indent < indent}, end) - 1)
  IN Least({i \in inside : y[i].kind = "key" /\ y[i].indent = indent /\ y[i].name = key}, 0)

ChildIndent(y, line, indent, end) ==
  LET first == Least({i \in (line + 1)..(end - 1) : HasContent(y[i])}, 0)
  IN IF first = 0 THEN indent + 2 ELSE y[first].indent

LastContent(y, start, end) ==
  Greatest({i \in start..(end - 1) : HasContent(y[i])}, start - 1)

\* Items under a key: deeper lines that are no items continue the one above.
SequenceItems(y, line, indent) ==
  LET item(i) == y[i].kind = "item" /\ y[i].indent >= indent
      end     == Least({i \in (line + 1)..Len(y) :
                          HasContent(y[i]) /\ ~item(i) /\ y[i].indent <= indent}, Len(y) + 1)
  IN {i \in (line + 1)..(end - 1) : item(i)}

InsertLines(y, at, lines) == SubSeq(y, 1, at - 1) \o lines \o SubSeq(y, at, Len(y))

\* The empty last line stands for the file's final newline.
AppendBlock(y, lines) ==
  LET ends == Last(y).kind = "blank"
      body == IF ends THEN Front(y) ELSE y
      gap  == IF body # <<>> /\ Last(body).kind # "blank" THEN <<BlankLine>> ELSE <<>>
  IN body \o gap \o lines \o <<BlankLine>>

-----------------------------------------------------------------------------
(* setHermesPluginListMember and setHermesPluginMembership.                 *)

Same(y) == [ok |-> TRUE, doc |-> y]
Became(y) == [ok |-> TRUE, doc |-> y]
Refused == [ok |-> FALSE, doc |-> Nothing]

\* Mutant: taking the observer out empties a flow list.
FlowMemberAlone(y, line, want) ==
  IF y[line].form # "flow" THEN Refused
  ELSE IF (Observer \in ToSet(y[line].items)) = want THEN Same(y)
  ELSE Became([y EXCEPT ![line].items = IF want THEN Append(@, Observer) ELSE <<>>])

TheirNames(names) ==
  FlattenSeq([i \in DOMAIN names |-> IF names[i] = Observer THEN <<>> ELSE <<names[i]>>])

FlowMember(y, line, want) ==
  LET others == TheirNames(y[line].items)
      found  == Observer \in ToSet(y[line].items)
  IN IF y[line].form # "flow" THEN Refused
     ELSE IF found = want THEN Same(y)
     ELSE Became([y EXCEPT ![line].items =
                   IF want THEN Append(others, Observer) ELSE others])

BlockMember(y, line, indent, want) ==
  LET items    == SequenceItems(y, line, indent)
      existing == Least({i \in items : y[i].name = Observer}, 0)
      last     == Greatest(items, 0)
  IN IF items = {} /\ LastContent(y, line + 1, BlockEnd(y, indent, line + 1)) > line
     THEN Refused
     ELSE IF want = (existing # 0) THEN Same(y)
     ELSE IF ~want THEN Became(RemoveAt(y, existing))
     ELSE IF items = {} THEN Became(InsertLines(y, line + 1, <<ItemLine(indent + 2, Observer)>>))
     ELSE Became(InsertLines(y, LastContent(y, last, BlockEnd(y, y[last].indent, last + 1)) + 1,
                             <<ItemLine(y[last].indent, Observer)>>))

ListMember(y, key, want) ==
  LET plugins == FindMappingKey(y, "plugins", 0, 1, Len(y) + 1)
      end     == BlockEnd(y, 0, plugins + 1)
      indent  == ChildIndent(y, plugins, 0, end)
      line    == FindMappingKey(y, key, indent, plugins + 1, end)
  IN IF plugins = 0
     THEN IF want THEN Became(AppendBlock(y, <<KeyLine(0, "plugins"), KeyLine(2, key),
                                               ItemLine(4, Observer)>>))
          ELSE Same(y)
     ELSE IF y[plugins].form # "block" THEN Refused
     ELSE IF line = 0
     THEN IF want THEN Became(InsertLines(y, LastContent(y, plugins + 1, end) + 1,
                               <<KeyLine(indent, key), ItemLine(indent + 2, Observer)>>))
          ELSE Same(y)
     ELSE IF y[line].form # "block" THEN FlowMember(y, line, want)
     ELSE BlockMember(y, line, indent, want)

\* Enabling also drops the observer from plugins.disabled, which would win.
SetMembership(y, want) ==
  LET first == ListMember(y, "enabled", want)
  IN IF first.ok /\ want THEN ListMember(first.doc, "disabled", FALSE) ELSE first

-----------------------------------------------------------------------------
(* What the YAML parser reads (external): the items at a list's own level.  *)

Members(y, key) ==
  LET plugins == FindMappingKey(y, "plugins", 0, 1, Len(y) + 1)
      end     == BlockEnd(y, 0, plugins + 1)
      indent  == ChildIndent(y, plugins, 0, end)
      line    == FindMappingKey(y, key, indent, plugins + 1, end)
      items   == SequenceItems(y, line, indent)
  IN IF plugins = 0 \/ line = 0 THEN {}
     ELSE IF y[line].form = "flow" THEN ToSet(y[line].items)
     ELSE {y[i].name : i \in {j \in items : y[j].indent = y[Least(items, 0)].indent}}

Readable(y) == y # TornYaml
Listed(y) == Readable(y) /\ Observer \in Members(y, "enabled")
Barred(y) == Readable(y) /\ Observer \in Members(y, "disabled")
Verifies(y, want) == Listed(y) = want /\ (want => ~Barred(y))

\* Mutant: the new document is not read back.
CanEditUnverified(y, want) == Readable(y) /\ SetMembership(y, want).ok

\* An edit ends in the new document, in no change, or in an error.
CanEdit(y, want) ==
  LET edit == SetMembership(y, want)
  IN Readable(y) /\ edit.ok /\ (edit.doc # y => Verifies(edit.doc, want))

-----------------------------------------------------------------------------
(* The operations.                                                          *)

HermesFault == hermesFaults < MaxHermesFaults /\ hermesFaults' = hermesFaults + 1 /\ outcome' = "none"

\* A plugin directory must be absent or carry aiguard's journal and marker.
Patch ==
  /\ patching = NotPatching
  /\ plugin = "absent" \/ (journal /\ plugin = "ours")
  /\ patching' = [stage |-> "apply", began |-> rewrites]
  /\ outcome' = "none"
  /\ UNCHANGED <<yaml, plugin, journal, rewrites, hermesFaults>>

ApplyPlugin ==
  /\ patching.stage = "apply"
  /\ plugin' = "ours" /\ journal' = TRUE
  /\ patching' = [stage |-> "read", want |-> TRUE, began |-> patching.began]
  /\ UNCHANGED <<yaml, outcome, rewrites, hermesFaults>>

\* Apply undid the patch before it, then failed and rolled back.
ApplyPluginFails ==
  /\ HermesFault
  /\ patching.stage = "apply"
  /\ plugin' = "absent" /\ journal' = FALSE
  /\ patching' = NotPatching
  /\ UNCHANGED <<yaml, rewrites>>

Unpatch ==
  /\ patching = NotPatching
  /\ patching' = [stage |-> "read", want |-> FALSE, began |-> rewrites]
  /\ outcome' = "none"
  /\ UNCHANGED <<yaml, plugin, journal, rewrites, hermesFaults>>

Succeeded(want) ==
  /\ patching' = NotPatching
  /\ outcome' = IF patching.began # rewrites THEN "none"
                ELSE IF want THEN "patched" ELSE "unpatched"

ToRevert ==
  /\ patching' = [stage |-> "revert", want |-> FALSE, began |-> patching.began]
  /\ UNCHANGED outcome

ReadYaml ==
  /\ patching.stage = "read"
  /\ CanEdit(yaml, patching.want)
  /\ LET doc == SetMembership(yaml, patching.want).doc
     IN IF doc # yaml
        THEN /\ patching' = [stage |-> "write", want |-> patching.want, began |-> patching.began,
                             seen |-> yaml, doc |-> doc]
             /\ UNCHANGED outcome
        ELSE IF patching.want THEN Succeeded(TRUE)
        ELSE ToRevert
  /\ UNCHANGED <<yaml, plugin, journal, rewrites, hermesFaults>>

\* A failed Patch reverts the plugin; a failed Unpatch stops before it.
GiveUp ==
  /\ patching' = NotPatching
  /\ IF patching.want /\ journal
     THEN plugin' = "absent" /\ journal' = FALSE
     ELSE UNCHANGED <<plugin, journal>>

CannotEdit ==
  /\ patching.stage = "read"
  /\ ~CanEdit(yaml, patching.want)
  /\ GiveUp
  /\ UNCHANGED <<yaml, outcome, rewrites, hermesFaults>>

WriteYaml ==
  /\ patching.stage = "write"
  /\ yaml' = patching.doc
  /\ IF patching.want THEN Succeeded(TRUE) ELSE ToRevert
  /\ UNCHANGED <<plugin, journal, rewrites, hermesFaults>>

\* os.WriteFile truncates first: a failure may leave a part of the file.
WriteYamlFails ==
  /\ HermesFault
  /\ patching.stage = "write"
  /\ yaml' \in {yaml, TornYaml}
  /\ GiveUp
  /\ UNCHANGED rewrites

RevertPlugin ==
  /\ patching.stage = "revert"
  /\ plugin' = IF journal THEN "absent" ELSE plugin
  /\ journal' = FALSE
  /\ Succeeded(FALSE)
  /\ UNCHANGED <<yaml, rewrites, hermesFaults>>

\* The marker goes first; the manifest stays for a later Revert.
RevertPluginFails ==
  /\ HermesFault
  /\ patching.stage = "revert" /\ journal
  /\ plugin' \in {plugin, "partial"}
  /\ patching' = NotPatching
  /\ UNCHANGED <<yaml, journal, rewrites>>

\* aiguard is killed: while the plugin is written (its journal is saved last),
\* or while config.yaml is.
Killed ==
  /\ HermesFault
  /\ patching.stage \in {"apply", "read", "write", "revert"}
  /\ patching' = NotPatching
  /\ IF patching.stage = "apply"
     THEN /\ plugin' \in {"absent", "partial", "ours"} /\ journal' = FALSE
     ELSE UNCHANGED <<plugin, journal>>
  /\ yaml' \in {yaml} \cup (IF patching.stage = "write" THEN {TornYaml, patching.doc} ELSE {})
  /\ UNCHANGED rewrites

\* The user writes config.yaml, between any two steps.
UserRewrites(y) ==
  /\ rewrites < MaxRewrites /\ rewrites' = rewrites + 1
  /\ yaml' = y
  /\ outcome' = "none"
  /\ UNCHANGED <<plugin, journal, patching, hermesFaults>>

HermesInit ==
  /\ yaml \in HermesDocuments
  /\ plugin \in {"absent", "foreign"}
  /\ journal = FALSE
  /\ patching = NotPatching
  /\ outcome = "none"
  /\ rewrites = 0 /\ hermesFaults = 0

HermesNext ==
  \/ Patch \/ ApplyPlugin \/ ApplyPluginFails
  \/ Unpatch \/ RevertPlugin \/ RevertPluginFails
  \/ ReadYaml \/ CannotEdit \/ WriteYaml \/ WriteYamlFails
  \/ Killed
  \/ \E y \in HermesDocuments : UserRewrites(y)

HermesSpec == HermesInit /\ [][HermesNext]_hermesVars

-----------------------------------------------------------------------------
\* The types of the variables; aiguard leaves a file torn only where a write
\* was cut short, never a document it cannot edit again.
HermesTypeOK ==
  /\ plugin \in {"absent", "foreign", "ours", "partial"}
  /\ journal \in BOOLEAN
  /\ patching.stage \in {"idle", "apply", "read", "write", "revert"}
  /\ outcome \in {"none", "patched", "unpatched"}
  /\ rewrites \in 0..MaxRewrites /\ hermesFaults \in 0..MaxHermesFaults
  /\ yaml = TornYaml => hermesFaults > 0

\* The user's text: every line but the observer's entries, in its order.
Theirs(line) ==
  IF line.kind = "item" /\ line.name = Observer THEN <<>>
  ELSE IF line.kind = "key" THEN <<[line EXCEPT !.items = TheirNames(@)]>> ELSE <<line>>
UserText(y) == FlattenSeq([i \in DOMAIN y |-> Theirs(y[i])])

\* after is before with lines added in one place.
AddsTo(before, after) ==
  \E i \in 0..Len(after) : \E j \in i..Len(after) :
    before = SubSeq(after, 1, i) \o SubSeq(after, j + 1, Len(after))

\* Enabling the observer adds lines of its own in one place, and disabling it
\* takes nothing but its entry: nested items, remarks and flow lists stay as
\* they were (hermes_config.go:17-22).
UserLinesStay ==
  patching.stage = "write" =>
    LET before == UserText(patching.seen)
        after  == UserText(patching.doc)
    IN IF patching.want THEN AddsTo(before, after) ELSE after = before

\* A Patch that succeeded has Hermes load the observer, in both lists and on
\* disk, whatever failed or was cut short before it.
PatchLoads ==
  outcome = "patched" => Listed(yaml) /\ ~Barred(yaml) /\ plugin = "ours" /\ journal

\* An Unpatch that succeeded leaves no entry and no plugin of ours.
UnpatchClears ==
  outcome = "unpatched" => ~Listed(yaml) /\ ~journal

OutcomeHolds == PatchLoads /\ UnpatchClears

\* Documents closed under edits, of which the YAML parser reads what the
\* editor saw in them when it finds nothing to do: that case is not read back.
ReadBack(D) ==
  \A y \in D, want \in BOOLEAN :
    LET edit == SetMembership(y, want)
    IN edit.ok => edit.doc \in D /\ (edit.doc = y => Verifies(y, want))
=============================================================================
