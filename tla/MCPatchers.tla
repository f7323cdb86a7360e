----------------------------- MODULE MCPatchers -----------------------------
(* The journal and the three patchers of an agent's own files.  Each edits  *)
(* other files, so a behaviour is one of any of them, and the others stand  *)
(* still; part says which.                                                  *)
EXTENDS PatchJournal, CodexSwitch, HermesPatch, ClaudeHooks, TLC

CONSTANTS openclawJson, handler, hookDir

VARIABLE part

MCVars == <<part, vars, codexVars, hermesVars, hookVars>>

-----------------------------------------------------------------------------
\* Two OpenClaw installations of one owner, which share openclaw.json and the
\* hook directory.  They have the same layout.
MCInDir == [f \in Files |-> IF f = handler THEN hookDir ELSE NoDir]
MCHookDir == [t \in Targets |-> hookDir]
MCLayout == [t \in Targets |-> <<handler, openclawJson>>]
MCSymmetry == Permutations(Targets)

-----------------------------------------------------------------------------
NL == "\n"
MCRelays == {[key |-> "k1", model |-> "m1", url |-> "u1"], [key |-> "k2", model |-> "m2", url |-> "u2"]}

MCDocuments ==
 { <<>>,
   \* a model of the user's, values over several lines that look like
   \* structure, the next table's comment, an unterminated last line
   << <<"#", "mine", NL>>, <<"\"", "model", "\"", "=", "o3", "#", "why", NL>>,
      <<"notify", "=", "[", NL>>, <<"[", "1", "]", NL>>, <<"#", "]", NL>>, <<"]", NL>>,
      <<"text", "=", "\"\"\"", NL>>, <<"model", "=", "y", NL>>, <<"\"\"\"", NL>>, <<NL>>,
      <<"#", "servers", NL>>, <<"[", "mcp", "]", NL>>, <<"cmd", "=", "x">> >>,
   \* no top-level keys at all
   << <<"[", "mcp", "]", NL>>, <<"model", "=", "x", NL>> >>,
   \* a value of a managed key over several lines
   << <<"model", "=", "'''", NL>>, <<"z", "'''", NL>>, <<"[", "mcp", "]", NL>> >>,
   \* the managed table by hand, plainly and under other spellings
   << <<"[", "model_providers", ".", "\"", "aiguard", "\"", "]", NL>>, <<"name", "=", "x", NL>> >>,
   << <<"[", "[", "model_providers", ".", "aiguard", "]", "]", NL>>, <<"name", "=", "x", NL>> >>,
   << <<"model", "=", "o3", NL>>, <<"[", "model_providers", ".", "aiguard", "]", NL>>,
      <<"base_url", "=", "old", "#", "mine", NL>>, <<NL>>, <<"[", "mcp", "]", NL>>, <<"a", "=", "{", "b", "}", NL>>, <<NL>> >>,
   \* and before a last line that does not end
   << <<"[", "model_providers", ".", "aiguard", "]", NL>>, <<"[", "mcp", "]", NL>>, <<"a", "=", "x">> >> }

\* What the operator appends: a table.
MCParagraphs == { << <<"[", "tools", "]", NL>>, <<"model", "=", "t", NL>> >> }

-----------------------------------------------------------------------------
MCYamlNames == {"plugins", "enabled", "disabled", "model", "ui", "x", "y", Observer}
MCHermesDocuments ==
 { <<BlankLine>>,
   << RemarkLine, KeyLine(0, "model"), TextLine(2), RemarkLine >>,
   << KeyLine(0, "plugins"), RemarkLine, KeyLine(4, "enabled"), ItemLine(6, "x"), TextLine(8), RemarkLine,
      KeyLine(4, "disabled"), ItemLine(4, Observer), KeyLine(0, "ui"), BlankLine >>,
   << KeyLine(0, "plugins"), FlowLine(2, "enabled", <<"x">>), FlowLine(2, "disabled", <<Observer, "y">>), BlankLine >>,
   << KeyLine(0, "plugins"), KeyLine(2, "enabled"), ItemLine(2, Observer), ItemLine(2, Observer), BlankLine >>,
   << KeyLine(0, "plugins"), TextLine(2), BlankLine >>,
   << ScalarLine(0, "plugins"), BlankLine >>,
   << KeyLine(0, "plugins"), KeyLine(2, "enabled"), KeyLine(2, "ui"), BlankLine >> }

\* The documents and what edits make of them are read back as edited.
WithEdits(D) ==
  D \cup {SetMembership(p[1], p[2]).doc : p \in {q \in D \X BOOLEAN : SetMembership(q[1], q[2]).ok}}
ASSUME MCReadBack == ReadBack(WithEdits(WithEdits(WithEdits(MCHermesDocuments))))

\* Not so with the observer's name in a list nested below an entry: a patch
\* finds it there and changes nothing, and Hermes does not load the observer.
MCNested == << KeyLine(0, "plugins"), KeyLine(2, "enabled"), ItemLine(4, "x"), ItemLine(8, Observer), BlankLine >>
ASSUME MCNestedMisleads ==
  SetMembership(MCNested, TRUE) = Same(MCNested) /\ ~Verifies(MCNested, TRUE)

-----------------------------------------------------------------------------
\* No hooks, hooks that are no object, the user's handlers in one group or
\* with an event that is no list, and handlers of an earlier aiguard's twice.
MCHooks(first, second) ==
  [shape |-> "object", events |-> [e \in HookEvents |-> IF e = "PreToolUse" THEN first ELSE second]]
MCHookFiles ==
  { [shape |-> "none", events |-> [e \in HookEvents |-> NoEvent]],
    [shape |-> "odd", events |-> [e \in HookEvents |-> NoEvent]],
    MCHooks(Listing(<< <<Users("a"), Users("b")>>, <<Users("c")>> >>), NoEvent),
    MCHooks([shape |-> "odd", groups |-> << <<Users("a")>> >>], NoEvent),
    MCHooks(Listing(<< <<Users("a"), Own({}, FALSE), Users("b")>>, <<Own({}, FALSE)>> >>),
            Listing(<< <<Own({}, FALSE)>> >>)) }

-----------------------------------------------------------------------------
\* The variables of a patcher that stands still.
JournalAside ==
  /\ file = [f \in Files |-> Absent] /\ dirs = {} /\ op = Idle
  /\ manifest = [t \in Targets |-> NoManifest] /\ backups = [t \in Targets |-> NoBackups]
  /\ base = [t \in Targets |-> file] /\ touched = [t \in Targets |-> {}]
  /\ result = NoResult /\ mishaps = 0
CodexAside ==
  CodexInit /\ codexAuth.mode = "chatgpt" /\ config = <<>>
HermesAside ==
  HermesInit /\ yaml = <<BlankLine>> /\ plugin = "absent"
HooksAside ==
  HooksInit /\ hooks.shape = "none"

MCInit ==
  \/ part = "journal" /\ Init /\ CodexAside /\ HermesAside /\ HooksAside
  \/ part = "codex" /\ CodexInit /\ JournalAside /\ HermesAside /\ HooksAside
  \/ part = "hermes" /\ HermesInit /\ JournalAside /\ CodexAside /\ HooksAside
  \/ part = "hooks" /\ HooksInit /\ JournalAside /\ CodexAside /\ HermesAside

MCNext ==
  /\ UNCHANGED part
  /\ \/ part = "journal" /\ Next /\ UNCHANGED <<codexVars, hermesVars, hookVars>>
     \/ part = "codex" /\ CodexNext /\ UNCHANGED <<vars, hermesVars, hookVars>>
     \/ part = "hermes" /\ HermesNext /\ UNCHANGED <<vars, codexVars, hookVars>>
     \/ part = "hooks" /\ HooksNext /\ UNCHANGED <<vars, codexVars, hermesVars>>

MCSpec == MCInit /\ [][MCNext]_MCVars
=============================================================================
