------------------------------- MODULE LogTail -------------------------------
(***************************************************************************)
(* What a log-tailing monitor promises, without lines, cursors or a state  *)
(* file: it keeps one position in each file; while a file is followed the  *)
(* position only moves over text it reads; it jumps over text only in a    *)
(* file it does not follow; and it resumes exactly where it last saved.    *)
(***************************************************************************)
EXTENDS Integers

CONSTANTS Files

VARIABLES
  size,      \* size[f]: how much text file f holds
  pos,       \* pos[f]: how much of it has been read or skipped
  followed,  \* the files whose new text is read
  saved,     \* the position and the followed files that survive a restart
  running

tail == <<size, pos, followed, saved, running>>

Nowhere == [f \in Files |-> 0]
NothingSaved == [pos |-> Nowhere, followed |-> {}]

\* A save succeeds, fails leaving the old state, or destroys it.
SaveOutcomes(p, fs) == {[pos |-> p, followed |-> fs], saved, NothingSaved}

Write(f) ==
  /\ size' = [size EXCEPT ![f] = @ + 1]
  /\ UNCHANGED <<pos, followed, saved, running>>

Truncate(f) ==
  /\ size' = [size EXCEPT ![f] = 0]
  /\ UNCHANGED <<pos, followed, saved, running>>

Read(f) ==
  /\ running /\ f \in followed
  /\ \E p \in pos[f] + 1 .. size[f] : pos' = [pos EXCEPT ![f] = p]
  /\ UNCHANGED <<size, followed, saved, running>>

Rewind(f) ==
  /\ running /\ f \in followed /\ size[f] < pos[f]
  /\ pos' = [pos EXCEPT ![f] = 0]
  /\ UNCHANGED <<size, followed, saved, running>>

\* Skip to the end of files that are not followed, and follow them - or not,
\* when that could not be saved.
Follow ==
  /\ running
  /\ \E fs \in SUBSET (Files \ followed) :
       pos' = [f \in Files |-> IF f \in fs THEN size[f] ELSE pos[f]]
  /\ \/ /\ followed \subseteq followed' /\ followed' \subseteq Files
        /\ saved' = [pos |-> pos', followed |-> followed']
     \/ followed' = followed /\ saved' \in {saved, NothingSaved}
  /\ UNCHANGED <<size, running>>

Unfollow ==
  /\ running
  /\ \/ /\ followed' \subseteq followed
        /\ saved' = [pos |-> pos, followed |-> followed']
     \/ followed' = followed /\ saved' \in {saved, NothingSaved}
  /\ UNCHANGED <<size, pos, running>>

Save ==
  /\ running
  /\ saved' \in SaveOutcomes(pos, followed)
  /\ UNCHANGED <<size, pos, followed, running>>

Stop ==
  /\ running' = FALSE
  /\ pos' = Nowhere /\ followed' = {}
  /\ saved' \in {saved, NothingSaved}
  /\ UNCHANGED size

Restart ==
  /\ ~ running
  /\ running' = TRUE
  /\ pos' = saved.pos /\ followed' = saved.followed
  /\ UNCHANGED <<size, saved>>

Init ==
  /\ size = Nowhere /\ pos = Nowhere /\ followed = {}
  /\ saved = NothingSaved
  /\ running \in BOOLEAN

Next ==
  \/ \E f \in Files : Write(f) \/ Truncate(f) \/ Read(f) \/ Rewind(f)
  \/ Follow \/ Unfollow \/ Save \/ Stop \/ Restart

Spec == Init /\ [][Next]_tail
=============================================================================
