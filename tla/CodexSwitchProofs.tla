------------------------- MODULE CodexSwitchProofs -------------------------
(***************************************************************************)
(* Codex's switch, for any config.toml, relays, tokens and bounds.  Two    *)
(* files are scanned side by side: one, and the same without the lines of  *)
(* some entries and of one table.  Whatever the second is found to say the *)
(* first says as well, so a switch back cannot bring to light a provider   *)
(* that a value over several lines had hidden, and every line that is left *)
(* belongs to whom it did.  The file a switch to a relay makes is built    *)
(* line by line beside the one it is made of.  The inductive invariants    *)
(* then follow what is in force, and the operator's lines, through the two *)
(* writes of a switch, their failures, and what others write in between.   *)
(***************************************************************************)
EXTENDS CodexSwitch, PatchersProofs

-----------------------------------------------------------------------------
(* The scan of config.toml, line by line                                    *)

Start == [lines |-> <<>>, table |-> <<>>, tables |-> <<>>, entries |-> <<>>, scan |-> Fresh]

\* st[k] is what the scan has found in the first k lines.
Scans(lines, st) ==
  st = [k \in 0..Len(lines) |-> IF k = 0 THEN Start ELSE Locate(st[k-1], lines[k])]

\* The fold of the library, unfolded on the sets of line numbers.
LEMMA FoldExists ==
  ASSUME NEW lines, NEW n \in Nat
  PROVE  \E g : g = [s \in SUBSET (1..n) |->
                       IF s = {} THEN Start ELSE Locate(g[s \ {Max(s)}], lines[Max(s)])]
<1> DEFINE Sets(m) == {s \in SUBSET (1..n) : s \subseteq 1..m}
           Step(g, s) == IF s = {} THEN Start ELSE Locate(g[s \ {Max(s)}], lines[Max(s)])
           On(m, g) == g = [s \in Sets(m) |-> Step(g, s)]
           Bad == {m \in 0..n : ~ \E g : On(m, g)}
<1>1. Sets(0) = {{}}
  OBVIOUS
<1>2. On(0, [s \in Sets(0) |-> Start])
  BY <1>1
<1>3. ASSUME NEW m \in 0..n, NEW s \in Sets(m), s # {}
      PROVE  Max(s) \in s /\ \A y \in s : y <= Max(s)
  <2>1. s \subseteq Int /\ s \subseteq 1..m /\ m \in Int
    BY <1>3
  <2>2. \E x \in s : \A y \in s : x >= y
    <3> DEFINE T == {m - x : x \in s}
    <3>1. T \subseteq Nat /\ T # {}
      <4>1. \A x \in s : x \in 1..m
        BY <2>1
      <4>2. \A x \in 1..m : m - x \in Nat
        BY <2>1
      <4> QED
        BY <1>3, <4>1, <4>2
    <3>2. PICK t \in T : \A u \in T : t <= u
      BY <3>1, LeastOf
    <3>3. PICK x \in s : t = m - x
      OBVIOUS
    <3>4. ASSUME NEW y \in s PROVE x >= y
      <4>1. m - y \in T
        OBVIOUS
      <4>2. m - x <= m - y
        BY <3>2, <3>3, <4>1
      <4> QED
        BY <4>2, <2>1
    <3> QED
      BY <3>4
  <2> QED
    BY <2>1, <2>2 DEF Max
<1>4. ASSUME NEW m \in 0..n, m # n, NEW g, On(m, g)
      PROVE  \E f : On(m+1, f)
  <2> DEFINE f == [s \in Sets(m+1) |-> IF s \in Sets(m) THEN g[s] ELSE Step(g, s)]
  <2>1. ASSUME NEW s \in Sets(m+1), s # {} PROVE s \ {Max(s)} \in Sets(m) /\ s \ {Max(s)} \in Sets(m+1)
    <3>1. m + 1 \in 0..n
      BY <1>4
    <3>2. Max(s) \in s /\ \A y \in s : y <= Max(s)
      BY <1>3, <2>1, <3>1
    <3>3. ASSUME NEW y \in s \ {Max(s)} PROVE y \in 1..m
      <4>1. y \in 1..m+1 /\ Max(s) \in 1..m+1 /\ y <= Max(s) /\ y # Max(s)
        BY <3>2
      <4> QED
        BY <4>1, <1>4
    <3> QED
      BY <3>3
  <2>2. ASSUME NEW s \in Sets(m+1) PROVE f[s] = Step(f, s)
    <3>1. CASE s = {}
      <4>1. s \in Sets(m)
        BY <3>1
      <4>2. g[s] = Step(g, s)
        BY <1>4, <4>1
      <4> QED
        BY <3>1, <4>1, <4>2
    <3>2. CASE s # {}
      <4>1. s \ {Max(s)} \in Sets(m) /\ s \ {Max(s)} \in Sets(m+1)
        BY <2>1, <3>2
      <4>2. f[s \ {Max(s)}] = g[s \ {Max(s)}]
        BY <4>1
      <4>3. s \in Sets(m) => g[s] = Step(g, s)
        BY <1>4
      <4>4. f[s] = Step(g, s)
        BY <4>3
      <4> QED
        BY <3>2, <4>2, <4>4
    <3> QED
      BY <3>1, <3>2
  <2> HIDE DEF f
  <2>3. f = [s \in Sets(m+1) |-> f[s]]
    BY DEF f
  <2>4. f = [s \in Sets(m+1) |-> Step(f, s)]
    BY <2>2, <2>3, Zenon
  <2> QED
    BY <2>4
<1>5. ASSUME Bad # {} PROVE FALSE
  <2>1. Bad \subseteq Nat
    OBVIOUS
  <2>2. PICK m \in Bad : \A k \in Bad : m <= k
    BY <1>5, <2>1, LeastOf
  <2> HIDE DEF On
  <2>3. m # 0
    BY <1>2
  <2>4. m - 1 \in 0..n /\ m - 1 # n /\ m - 1 + 1 = m /\ ~ m <= m - 1
    BY <2>3
  <2>5. PICK g : On(m-1, g)
    BY <2>2, <2>4
  <2>6. \E f : On(m-1+1, f)
    BY <1>4, <2>4, <2>5
  <2> QED
    BY <2>2, <2>4, <2>6
<1>6. PICK g : On(n, g)
  <2>1. n \in 0..n
    OBVIOUS
  <2> QED
    BY <1>5, <2>1
<1>7. Sets(n) = SUBSET (1..n)
  OBVIOUS
<1> QED
  BY <1>6, <1>7, Zenon

LEMMA ParseIs ==
  ASSUME NEW X, NEW lines \in Seq(X)
  PROVE  \E st : Scans(lines, st) /\ Parse(lines) = st[Len(lines)]
<1> DEFINE n == Len(lines)
           Fold(g) == g = [s \in SUBSET (1..n) |->
                             IF s = {} THEN Start ELSE Locate(g[s \ {Max(s)}], lines[Max(s)])]
           g == CHOOSE h : Fold(h)
<1>1. n \in Nat /\ DOMAIN lines = 1..n
  OBVIOUS
<1>2. Fold(g)
  BY <1>1, FoldExists, Zenon
<1>3. Parse(lines) = g[1..n]
  BY <1>1 DEF Parse, FoldLeft, MapThenFoldSet, Start
<1> HIDE DEF g
<1> DEFINE st == [k \in 0..n |-> g[1..k]]
<1>4. ASSUME NEW k \in 0..n
      PROVE  st[k] = IF k = 0 THEN Start ELSE Locate(st[k-1], lines[k])
  <2>1. CASE k = 0
    BY <1>2, <2>1
  <2>2. CASE k # 0
    <3>1. k \in 1..n /\ k-1 \in 0..n /\ 1..k # {} /\ 1..k \in SUBSET (1..n)
      <4>1. k \in Nat /\ k # 0 /\ k <= n
        BY <2>2, <1>1
      <4>2. \A i \in 1..k : i \in 1..n
        BY <4>1, <1>1
      <4>3. k \in 1..k
        BY <4>1
      <4>4. 1..k # {} /\ 1..k \in SUBSET (1..n)
        BY <4>2, <4>3
      <4> QED
        BY <4>1, <4>2, <4>3, <4>4, <1>1
    <3>2. Max(1..k) = k
      BY <3>1 DEF Max
    <3>3. (1..k) \ {k} = 1..(k-1)
      BY <3>1
    <3>4. g[1..k] = Locate(g[1..(k-1)], lines[k])
      BY <1>2, <3>1, <3>2, <3>3
    <3> QED
      BY <2>2, <3>1, <3>4
  <2> QED
    BY <2>1, <2>2
<1>5. st[n] = Parse(lines)
  BY <1>1, <1>3
<1>6. st = [k \in 0..n |-> st[k]]
  OBVIOUS
<1> HIDE DEF st
<1>7. st = [k \in 0..n |-> IF k = 0 THEN Start ELSE Locate(st[k-1], lines[k])]
  BY <1>4, <1>6, Zenon
<1> QED
  BY <1>5, <1>7 DEF Scans

LEMMA ScansUnique ==
  ASSUME NEW X, NEW lines \in Seq(X), NEW line \in X, NEW f, NEW g,
         Scans(lines, f), Scans(Append(lines, line), g), NEW k \in 0..Len(lines)
  PROVE  f[k] = g[k]
<1> DEFINE n == Len(lines)
           more == Append(lines, line)
           Bad == {j \in 0..n : f[j] # g[j]}
<1>1. SUFFICES ASSUME Bad # {} PROVE FALSE
  OBVIOUS
<1>a. Bad \subseteq Nat
  OBVIOUS
<1>2. PICK j \in Bad : \A m \in Bad : j <= m
  BY <1>1, <1>a, LeastOf
<1>3. n \in Nat /\ j \in 0..n /\ f[j] # g[j]
  OBVIOUS
<1>4. Len(more) = n + 1 /\ (j # 0 => more[j] = lines[j]) /\ j \in 0..Len(more)
  BY <1>3
<1> HIDE DEF more
<1>5. f[j] = IF j = 0 THEN Start ELSE Locate(f[j-1], lines[j])
  BY <1>3 DEF Scans
<1>6. g[j] = IF j = 0 THEN Start ELSE Locate(g[j-1], more[j])
  <2>1. g = [i \in 0..Len(more) |-> IF i = 0 THEN Start ELSE Locate(g[i-1], more[i])]
    BY DEF Scans, more
  <2> QED
    BY <1>4, <2>1
<1>7. j # 0 => f[j-1] = g[j-1]
  BY <1>2, <1>3
<1> QED
  BY <1>3, <1>4, <1>5, <1>6, <1>7

LEMMA ParseAppend ==
  ASSUME NEW X, NEW lines \in Seq(X), NEW line \in X
  PROVE  Parse(Append(lines, line)) = Locate(Parse(lines), line)
<1> DEFINE n == Len(lines)
           more == Append(lines, line)
<1>1. n \in Nat /\ more \in Seq(X) /\ Len(more) = n + 1 /\ more[n+1] = line
  OBVIOUS
<1>2. PICK f : Scans(lines, f) /\ Parse(lines) = f[n]
  BY ParseIs
<1>3. PICK g : Scans(more, g) /\ Parse(more) = g[n+1]
  BY <1>1, ParseIs
<1>4. f[n] = g[n]
  <2>1. n \in 0..n
    BY <1>1
  <2> QED
    BY <1>2, <1>3, <2>1, ScansUnique
<1>5. g[n+1] = Locate(g[n], line)
  <2>1. g = [i \in 0..Len(more) |-> IF i = 0 THEN Start ELSE Locate(g[i-1], more[i])]
    BY <1>3 DEF Scans
  <2>2. n + 1 \in 0..Len(more) /\ n + 1 # 0 /\ n + 1 - 1 = n
    BY <1>1
  <2> HIDE DEF more, n
  <2> QED
    BY <1>1, <2>1, <2>2
<1> QED
  BY <1>2, <1>3, <1>4, <1>5

LEMMA ParseEmpty == Parse(<<>>) = Start
<1>1. <<>> \in Seq({}) /\ Len(<<>>) = 0
  OBVIOUS
<1>2. PICK f : Scans(<<>>, f) /\ Parse(<<>>) = f[0]
  BY <1>1, ParseIs
<1> QED
  BY <1>1, <1>2 DEF Scans

-----------------------------------------------------------------------------
(* What one line adds                                                       *)

IsSeq(s) == s \in Seq(ToSet(s))

LEMMA SeqFacts ==
  ASSUME NEW s, IsSeq(s), NEW x
  PROVE  /\ Len(s) \in Nat /\ DOMAIN s = 1..Len(s)
         /\ IsSeq(Append(s, x)) /\ Len(Append(s, x)) = Len(s) + 1
         /\ \A i \in 1..Len(s) : Append(s, x)[i] = s[i]
         /\ Append(s, x)[Len(s) + 1] = x
<1> DEFINE X == ToSet(s) \cup {x}
<1>1. s \in Seq(X) /\ x \in X
  BY DEF IsSeq
<1> HIDE DEF X
<1>2. /\ Append(s, x) \in Seq(X) /\ Len(Append(s, x)) = Len(s) + 1
      /\ \A i \in 1..Len(s) : Append(s, x)[i] = s[i]
      /\ Append(s, x)[Len(s) + 1] = x
      /\ Len(s) \in Nat /\ DOMAIN s = 1..Len(s)
  BY <1>1
<1>3. \A t \in Seq(X) : IsSeq(t)
  <2> TAKE t \in Seq(X)
  <2>1. \A i \in 1..Len(t) : t[i] \in ToSet(t)
    BY DEF ToSet
  <2> QED
    BY <2>1 DEF IsSeq
<1> QED
  BY <1>2, <1>3

LEMMA TypedIsSeq ==
  ASSUME NEW X, NEW s \in Seq(X)
  PROVE  IsSeq(s)
<1>1. \A i \in 1..Len(s) : s[i] \in ToSet(s)
  BY DEF ToSet
<1> QED
  BY <1>1 DEF IsSeq

Heads(line) == ~Blank(line) /\ ~Remark(line) /\ Header(line).ok
Sets(line) == ~Blank(line) /\ ~Remark(line) /\ ~Header(line).ok /\ Assigns(line) # 0

ValueOf(line) == SubSeq(Body(line), Assigns(line) + 1, Len(Body(line)))
NewTable(line, n) == [name |-> Header(line).name, array |-> Header(line).array, start |-> n]
NewEntry(table, line, n) ==
  [table |-> table, key |-> KeyOf(line), path |-> SubSeq(line, 1, Assigns(line) - 1),
   start |-> n, end |-> n + 1, value |-> Uncommented(ValueOf(line))]
TableNamed(line) ==
  (IF Header(line).array THEN <<"[[">> ELSE <<>>) \o Header(line).name

DocFields == {"lines", "table", "tables", "entries", "scan"}

LEMMA LocateIs ==
  ASSUME NEW d, DOMAIN d = DocFields, NEW line
  PROVE  LET n == Len(d.lines) + 1
             e == Locate(d, line)
         IN /\ DOMAIN e = DocFields
            /\ e.lines = Append(d.lines, line)
            /\ Continuing(d.scan) =>
                 /\ e.table = d.table /\ e.tables = d.tables
                 /\ e.scan = ScanLine(d.scan, Body(line))
                 /\ e.entries = [d.entries EXCEPT ![Len(d.entries)] = Continued(@, n, Body(line))]
            /\ ~Continuing(d.scan) /\ Heads(line) =>
                 /\ e.table = TableNamed(line)
                 /\ e.tables = Append(d.tables, NewTable(line, n))
                 /\ e.scan = d.scan /\ e.entries = d.entries
            /\ ~Continuing(d.scan) /\ Sets(line) =>
                 /\ e.table = d.table /\ e.tables = d.tables
                 /\ e.scan = ScanLine(Fresh, ValueOf(line))
                 /\ e.entries = Append(d.entries, NewEntry(d.table, line, n))
            /\ ~Continuing(d.scan) /\ ~Heads(line) /\ ~Sets(line) =>
                 /\ e.table = d.table /\ e.tables = d.tables
                 /\ e.scan = d.scan /\ e.entries = d.entries
<1>1. CASE Continuing(d.scan)
  BY <1>1 DEF Locate, DocFields
<1>2. CASE ~Continuing(d.scan) /\ Heads(line)
  BY <1>2 DEF Locate, DocFields, Heads, Sets, NewTable, TableNamed
<1>3. CASE ~Continuing(d.scan) /\ Sets(line)
  BY <1>3 DEF Locate, DocFields, Heads, Sets, NewEntry, ValueOf
<1>4. CASE ~Continuing(d.scan) /\ ~Heads(line) /\ ~Sets(line)
  BY <1>4 DEF Locate, DocFields, Heads, Sets
<1> QED
  BY <1>1, <1>2, <1>3, <1>4

EntryFields == {"table", "key", "path", "start", "end", "value"}

\* What every step of the scan keeps: the entries follow one another, and a
\* value that goes on is the last one's and reaches the last line.
ScanOK(d) ==
  /\ DOMAIN d = DocFields
  /\ IsSeq(d.lines) /\ IsSeq(d.tables) /\ IsSeq(d.entries)
  /\ \A i \in 1..Len(d.entries) :
       /\ DOMAIN d.entries[i] = EntryFields
       /\ d.entries[i].start \in Nat /\ d.entries[i].end \in Nat
       /\ 1 <= d.entries[i].start /\ d.entries[i].start < d.entries[i].end
       /\ d.entries[i].end <= Len(d.lines) + 1
  /\ \A i, j \in 1..Len(d.entries) : i < j => d.entries[i].end <= d.entries[j].start
  /\ Continuing(d.scan) =>
       Len(d.entries) > 0 /\ d.entries[Len(d.entries)].end = Len(d.lines) + 1
  /\ \A i \in 1..Len(d.tables) : d.tables[i].start \in 1..Len(d.lines)

LEMMA StartOK == ScanOK(Start)
<1>1. IsSeq(<<>>) /\ Len(<<>>) = 0
  BY DEF IsSeq
<1>2. ~Continuing(Fresh)
  BY DEF Continuing, Fresh
<1> QED
  BY <1>1, <1>2 DEF ScanOK, Start, DocFields

LEMMA ExceptFacts ==
  ASSUME NEW s, IsSeq(s), Len(s) > 0, NEW x
  PROVE  LET t == [s EXCEPT ![Len(s)] = x]
         IN /\ IsSeq(t) /\ Len(t) = Len(s) /\ t[Len(s)] = x
            /\ \A i \in 1..Len(s) : i # Len(s) => t[i] = s[i]
<1> DEFINE X == ToSet(s) \cup {x}
           t == [s EXCEPT ![Len(s)] = x]
<1>1. s \in Seq(X) /\ x \in X
  BY DEF IsSeq
<1> HIDE DEF X
<1>2. t \in Seq(X) /\ Len(t) = Len(s) /\ t[Len(s)] = x
      /\ \A i \in 1..Len(s) : i # Len(s) => t[i] = s[i]
  BY <1>1
<1>3. IsSeq(t)
  BY <1>2, TypedIsSeq
<1> QED
  BY <1>2, <1>3

\* The four things a line can be to a scan that is in order.
Steps(d, line, e) ==
  LET n == Len(d.lines) + 1
      m == Len(d.entries)
  IN /\ DOMAIN e = DocFields
     /\ IsSeq(e.lines) /\ Len(e.lines) = n
     /\ IsSeq(e.tables) /\ IsSeq(e.entries)
     /\ \/ /\ Continuing(d.scan) /\ m > 0
           /\ e.table = d.table /\ e.tables = d.tables
           /\ e.scan = ScanLine(d.scan, Body(line))
           /\ Len(e.entries) = m
           /\ \A i \in 1..m : i # m => e.entries[i] = d.entries[i]
           /\ e.entries[m] = Continued(d.entries[m], n, Body(line))
        \/ /\ ~Continuing(d.scan) /\ Heads(line)
           /\ e.table = TableNamed(line)
           /\ Len(e.tables) = Len(d.tables) + 1
           /\ \A i \in 1..Len(d.tables) : e.tables[i] = d.tables[i]
           /\ e.tables[Len(d.tables) + 1] = NewTable(line, n)
           /\ e.scan = d.scan /\ e.entries = d.entries
        \/ /\ ~Continuing(d.scan) /\ Sets(line)
           /\ e.table = d.table /\ e.tables = d.tables
           /\ e.scan = ScanLine(Fresh, ValueOf(line))
           /\ Len(e.entries) = m + 1
           /\ \A i \in 1..m : e.entries[i] = d.entries[i]
           /\ e.entries[m + 1] = NewEntry(d.table, line, n)
        \/ /\ ~Continuing(d.scan) /\ ~Heads(line) /\ ~Sets(line)
           /\ e.table = d.table /\ e.tables = d.tables
           /\ e.scan = d.scan /\ e.entries = d.entries

LEMMA HeadsOrSets == \A line : ~ (Heads(line) /\ Sets(line))
BY DEF Heads, Sets

LEMMA LocateSteps ==
  ASSUME NEW d, ScanOK(d), NEW line
  PROVE  Steps(d, line, Locate(d, line))
<1> DEFINE n == Len(d.lines) + 1
           m == Len(d.entries)
           e == Locate(d, line)
<1>2. DOMAIN d = DocFields /\ IsSeq(d.lines) /\ IsSeq(d.tables) /\ IsSeq(d.entries)
  BY DEF ScanOK
<1>3. /\ DOMAIN e = DocFields
      /\ e.lines = Append(d.lines, line)
      /\ Continuing(d.scan) =>
           /\ e.table = d.table /\ e.tables = d.tables
           /\ e.scan = ScanLine(d.scan, Body(line))
           /\ e.entries = [d.entries EXCEPT ![m] = Continued(@, n, Body(line))]
      /\ ~Continuing(d.scan) /\ Heads(line) =>
           /\ e.table = TableNamed(line)
           /\ e.tables = Append(d.tables, NewTable(line, n))
           /\ e.scan = d.scan /\ e.entries = d.entries
      /\ ~Continuing(d.scan) /\ Sets(line) =>
           /\ e.table = d.table /\ e.tables = d.tables
           /\ e.scan = ScanLine(Fresh, ValueOf(line))
           /\ e.entries = Append(d.entries, NewEntry(d.table, line, n))
      /\ ~Continuing(d.scan) /\ ~Heads(line) /\ ~Sets(line) =>
           /\ e.table = d.table /\ e.tables = d.tables
           /\ e.scan = d.scan /\ e.entries = d.entries
  BY <1>2, LocateIs
<1> HIDE DEF e
<1>4. IsSeq(e.lines) /\ Len(e.lines) = n
  BY <1>2, <1>3, SeqFacts
<1> SUFFICES Steps(d, line, e)
  BY DEF e
<1>5. CASE Continuing(d.scan)
  <2>1. m > 0
    BY <1>5 DEF ScanOK
  <2>2. e.entries = [d.entries EXCEPT ![m] = Continued(d.entries[m], n, Body(line))]
    BY <1>3, <1>5
  <2>3. /\ IsSeq(e.entries) /\ Len(e.entries) = m
        /\ e.entries[m] = Continued(d.entries[m], n, Body(line))
        /\ \A i \in 1..m : i # m => e.entries[i] = d.entries[i]
    <3>1. PICK s : s = d.entries
      OBVIOUS
    <3>2. PICK x : x = Continued(d.entries[m], n, Body(line))
      OBVIOUS
    <3>3. IsSeq(s) /\ Len(s) > 0 /\ e.entries = [s EXCEPT ![Len(s)] = x]
      BY <1>2, <2>1, <2>2, <3>1, <3>2
    <3>4. LET t == [s EXCEPT ![Len(s)] = x]
          IN /\ IsSeq(t) /\ Len(t) = Len(s) /\ t[Len(s)] = x
             /\ \A i \in 1..Len(s) : i # Len(s) => t[i] = s[i]
      BY <3>3, ExceptFacts
    <3> HIDE DEF m
    <3> QED
      BY <3>1, <3>2, <3>3, <3>4 DEF m
  <2> QED
    BY <1>2, <1>3, <1>4, <1>5, <2>1, <2>3 DEF Steps
<1>6. CASE ~Continuing(d.scan) /\ Heads(line)
  <2>1. /\ IsSeq(e.tables) /\ Len(e.tables) = Len(d.tables) + 1
        /\ \A i \in 1..Len(d.tables) : e.tables[i] = d.tables[i]
        /\ e.tables[Len(d.tables) + 1] = NewTable(line, n)
    <3>1. PICK s : s = d.tables
      OBVIOUS
    <3>2. PICK x : x = NewTable(line, n)
      OBVIOUS
    <3>3. IsSeq(s) /\ e.tables = Append(s, x)
      BY <1>2, <1>3, <1>6, <3>1, <3>2
    <3>4. /\ IsSeq(Append(s, x)) /\ Len(Append(s, x)) = Len(s) + 1
          /\ \A i \in 1..Len(s) : Append(s, x)[i] = s[i]
          /\ Append(s, x)[Len(s) + 1] = x
      BY <3>3, SeqFacts
    <3> QED
      BY <3>1, <3>2, <3>3, <3>4
  <2> QED
    BY <1>2, <1>3, <1>4, <1>6, <2>1 DEF Steps
<1>7. CASE ~Continuing(d.scan) /\ Sets(line)
  <2>1. /\ IsSeq(e.entries) /\ Len(e.entries) = m + 1
        /\ \A i \in 1..m : e.entries[i] = d.entries[i]
        /\ e.entries[m + 1] = NewEntry(d.table, line, n)
    <3>1. PICK s : s = d.entries
      OBVIOUS
    <3>2. PICK x : x = NewEntry(d.table, line, n)
      OBVIOUS
    <3>3. IsSeq(s) /\ e.entries = Append(s, x)
      BY <1>2, <1>3, <1>7, <3>1, <3>2
    <3>4. /\ IsSeq(Append(s, x)) /\ Len(Append(s, x)) = Len(s) + 1
          /\ \A i \in 1..Len(s) : Append(s, x)[i] = s[i]
          /\ Append(s, x)[Len(s) + 1] = x
      BY <3>3, SeqFacts
    <3> QED
      BY <3>1, <3>2, <3>3, <3>4
  <2> QED
    BY <1>2, <1>3, <1>4, <1>7, <2>1 DEF Steps
<1>8. CASE ~Continuing(d.scan) /\ ~Heads(line) /\ ~Sets(line)
  BY <1>2, <1>3, <1>4, <1>8 DEF Steps
<1> QED
  BY <1>5, <1>6, <1>7, <1>8

LEMMA ContinuedIs ==
  ASSUME NEW x, DOMAIN x = EntryFields, NEW n, NEW body
  PROVE  /\ DOMAIN Continued(x, n, body) = EntryFields
         /\ Continued(x, n, body).end = n + 1
         /\ Continued(x, n, body).value = x.value \o body
         /\ Continued(x, n, body).table = x.table /\ Continued(x, n, body).key = x.key
         /\ Continued(x, n, body).path = x.path /\ Continued(x, n, body).start = x.start
BY DEF Continued, EntryFields

LEMMA NewEntryIs ==
  ASSUME NEW table, NEW line, NEW n
  PROVE  /\ DOMAIN NewEntry(table, line, n) = EntryFields
         /\ NewEntry(table, line, n).start = n /\ NewEntry(table, line, n).end = n + 1
         /\ NewEntry(table, line, n).table = table /\ NewEntry(table, line, n).key = KeyOf(line)
         /\ NewEntry(table, line, n).path = SubSeq(line, 1, Assigns(line) - 1)
         /\ NewEntry(table, line, n).value = Uncommented(ValueOf(line))
BY DEF NewEntry, EntryFields

LEMMA LocateOK ==
  ASSUME NEW d, ScanOK(d), NEW line
  PROVE  ScanOK(Locate(d, line))
<1> DEFINE n == Len(d.lines) + 1
           m == Len(d.entries)
           e == Locate(d, line)
<1>1. Steps(d, line, e)
  BY LocateSteps
<1> HIDE DEF e
<1>2. /\ DOMAIN d = DocFields
      /\ IsSeq(d.lines) /\ IsSeq(d.tables) /\ IsSeq(d.entries)
      /\ \A i \in 1..Len(d.entries) :
           /\ DOMAIN d.entries[i] = EntryFields
           /\ d.entries[i].start \in Nat /\ d.entries[i].end \in Nat
           /\ 1 <= d.entries[i].start /\ d.entries[i].start < d.entries[i].end
           /\ d.entries[i].end <= n
      /\ \A i, j \in 1..Len(d.entries) : i < j => d.entries[i].end <= d.entries[j].start
      /\ Continuing(d.scan) => m > 0 /\ d.entries[m].end = n
      /\ \A i \in 1..Len(d.tables) : d.tables[i].start \in 1..Len(d.lines)
  BY DEF ScanOK
<1>3. n \in Nat /\ n > 0 /\ m \in Nat /\ Len(d.tables) \in Nat /\ n = Len(d.lines) + 1 /\ Len(d.lines) \in Nat
  BY <1>2, SeqFacts
<1>4. DOMAIN e = DocFields /\ IsSeq(e.lines) /\ Len(e.lines) = n /\ IsSeq(e.tables) /\ IsSeq(e.entries)
  BY <1>1 DEF Steps
<1> SUFFICES ScanOK(e)
  BY DEF e
<1>5. CASE Continuing(d.scan)
  <2>1. /\ m > 0
        /\ e.tables = d.tables /\ Len(e.entries) = m
        /\ \A i \in 1..m : i # m => e.entries[i] = d.entries[i]
        /\ e.entries[m] = Continued(d.entries[m], n, Body(line))
    BY <1>1, <1>5 DEF Steps
  <2>2. /\ DOMAIN e.entries[m] = EntryFields
        /\ e.entries[m].end = n + 1 /\ e.entries[m].start = d.entries[m].start
    BY <1>2, <1>3, <2>1, ContinuedIs
  <2> HIDE DEF n, m
  <2>3. \A i \in 1..m : /\ DOMAIN e.entries[i] = EntryFields
                        /\ e.entries[i].start \in Nat /\ e.entries[i].end \in Nat
                        /\ 1 <= e.entries[i].start /\ e.entries[i].start < e.entries[i].end
                        /\ e.entries[i].end <= n + 1
    <3> TAKE i \in 1..m
    <3>1. /\ DOMAIN d.entries[i] = EntryFields
          /\ d.entries[i].start \in Nat /\ d.entries[i].end \in Nat
          /\ 1 <= d.entries[i].start /\ d.entries[i].start < d.entries[i].end
          /\ d.entries[i].end <= n
      BY <1>2 DEF m
    <3>2. CASE i # m
      <4>1. e.entries[i] = d.entries[i]
        BY <2>1, <3>2
      <4> QED
        BY <1>3, <3>1, <4>1
    <3>3. CASE i = m
      BY SMTT(40), <1>3, <2>2, <3>1, <3>3
    <3> QED
      BY <3>2, <3>3
  <2>4. \A i, j \in 1..m : i < j => e.entries[i].end <= e.entries[j].start
    <3> TAKE i, j \in 1..m
    <3>1. HAVE i < j
    <3>2. d.entries[i].end <= d.entries[j].start /\ i # m
      BY <1>2, <1>3, <3>1 DEF m
    <3>3. e.entries[i] = d.entries[i]
      BY <2>1, <3>2
    <3>4. e.entries[j].start = d.entries[j].start
      BY <2>1, <2>2
    <3> QED
      BY <3>2, <3>3, <3>4
  <2>5. \A i \in 1..Len(e.tables) : e.tables[i].start \in 1..n
    BY <1>2, <1>3, <2>1
  <2> QED
    BY <1>3, <1>4, <2>1, <2>2, <2>3, <2>4, <2>5 DEF ScanOK
<1>6. CASE ~Continuing(d.scan) /\ Heads(line)
  <2>1. /\ Len(e.tables) = Len(d.tables) + 1
        /\ \A i \in 1..Len(d.tables) : e.tables[i] = d.tables[i]
        /\ e.tables[Len(d.tables) + 1] = NewTable(line, n)
        /\ e.scan = d.scan /\ e.entries = d.entries
    BY <1>1, <1>6, HeadsOrSets DEF Steps
  <2>2. \A i \in 1..Len(e.tables) : e.tables[i].start \in 1..n
    <3> TAKE i \in 1..Len(e.tables)
    <3>1. CASE i = Len(d.tables) + 1
      <4>1. e.tables[i].start = n
        BY <2>1, <3>1 DEF NewTable
      <4> QED
        BY <1>3, <4>1
    <3>2. CASE i # Len(d.tables) + 1
      <4>1. i \in 1..Len(d.tables)
        BY <1>3, <2>1, <3>2
      <4>2. e.tables[i] = d.tables[i] /\ d.tables[i].start \in 1..Len(d.lines)
        BY <1>2, <2>1, <4>1
      <4> QED
        BY <1>3, <4>2
    <3> QED
      BY <3>1, <3>2
  <2> QED
    BY <1>2, <1>3, <1>4, <1>6, <2>1, <2>2 DEF ScanOK
<1>7. CASE ~Continuing(d.scan) /\ Sets(line)
  <2>1. /\ e.tables = d.tables /\ Len(e.entries) = m + 1
        /\ \A i \in 1..m : e.entries[i] = d.entries[i]
        /\ e.entries[m + 1] = NewEntry(d.table, line, n)
    BY <1>1, <1>7, HeadsOrSets DEF Steps
  <2>2. /\ DOMAIN e.entries[m + 1] = EntryFields
        /\ e.entries[m + 1].start = n /\ e.entries[m + 1].end = n + 1
    BY <2>1, NewEntryIs
  <2> HIDE DEF n, m
  <2>3. \A i \in 1..(m+1) : /\ DOMAIN e.entries[i] = EntryFields
                        /\ e.entries[i].start \in Nat /\ e.entries[i].end \in Nat
                        /\ 1 <= e.entries[i].start /\ e.entries[i].start < e.entries[i].end
                        /\ e.entries[i].end <= n + 1
    <3> TAKE i \in 1..(m+1)
    <3>1. CASE i = m + 1
      BY <1>3, <2>2, <3>1
    <3>2. CASE i # m + 1
      <4>0. i \in 1..m
        BY <1>3, <3>2
      <4>1. /\ DOMAIN d.entries[i] = EntryFields
            /\ d.entries[i].start \in Nat /\ d.entries[i].end \in Nat
            /\ 1 <= d.entries[i].start /\ d.entries[i].start < d.entries[i].end
            /\ d.entries[i].end <= n
        BY <1>2, <4>0 DEF m
      <4>2. e.entries[i] = d.entries[i]
        BY <2>1, <4>0
      <4> QED
        BY <1>3, <4>1, <4>2
    <3> QED
      BY <3>1, <3>2
  <2>4. \A i, j \in 1..(m+1) : i < j => e.entries[i].end <= e.entries[j].start
    <3> TAKE i, j \in 1..(m+1)
    <3>1. HAVE i < j
    <3>2. i \in 1..m /\ e.entries[i] = d.entries[i]
      BY <1>3, <2>1, <3>1
    <3>3. CASE j = m + 1
      <4>1. d.entries[i].end <= n
        BY <1>2, <3>2 DEF m
      <4> QED
        BY <2>2, <3>2, <3>3, <4>1
    <3>4. CASE j # m + 1
      <4>1. j \in 1..m /\ e.entries[j] = d.entries[j]
        BY <1>3, <2>1, <3>4
      <4> QED
        BY <1>2, <3>1, <3>2, <4>1 DEF m
    <3> QED
      BY <3>3, <3>4
  <2>5. \A i \in 1..Len(e.tables) : e.tables[i].start \in 1..n
    BY <1>2, <1>3, <2>1
  <2>6. Len(e.entries) > 0 /\ e.entries[Len(e.entries)].end = Len(e.lines) + 1
    BY <1>3, <1>4, <2>1, <2>2
  <2> QED
    BY <1>3, <1>4, <2>1, <2>3, <2>4, <2>5, <2>6 DEF ScanOK
<1>8. CASE ~Continuing(d.scan) /\ ~Heads(line) /\ ~Sets(line)
  <2>1. e.tables = d.tables /\ e.scan = d.scan /\ e.entries = d.entries
    BY <1>1, <1>8, HeadsOrSets DEF Steps
  <2> QED
    BY SMTT(40), <1>2, <1>3, <1>4, <1>8, <2>1 DEF ScanOK
<1> QED
  BY <1>5, <1>6, <1>7, <1>8

-----------------------------------------------------------------------------
(* What the rest of the file leaves of what the scan has found              *)

SameEntry(x, y) == x.start = y.start /\ x.table = y.table /\ x.key = y.key /\ x.path = y.path

\* x is what was found first, y what has become of it.
Grows(x, y) ==
  /\ Len(x.lines) <= Len(y.lines)
  /\ Len(x.entries) <= Len(y.entries)
  /\ \A i \in 1..Len(x.entries) : SameEntry(x.entries[i], y.entries[i])
                                   /\ x.entries[i].end <= y.entries[i].end
  /\ \A i \in 1..Len(x.entries) :
       i < Len(x.entries) \/ ~Continuing(x.scan) => x.entries[i] = y.entries[i]
  /\ \A i \in (Len(x.entries) + 1)..Len(y.entries) : y.entries[i].start > Len(x.lines)
  /\ Len(y.entries) = Len(x.entries) /\ ~Continuing(x.scan) => ~Continuing(y.scan)
  /\ Len(x.tables) <= Len(y.tables)
  /\ \A i \in 1..Len(x.tables) : x.tables[i] = y.tables[i]
  /\ \A i \in (Len(x.tables) + 1)..Len(y.tables) : y.tables[i].start > Len(x.lines)

LEMMA GrowsSelf ==
  ASSUME NEW x, ScanOK(x)
  PROVE  Grows(x, x)
<1>1. /\ Len(x.lines) \in Nat /\ Len(x.entries) \in Nat /\ Len(x.tables) \in Nat
      /\ \A i \in 1..Len(x.entries) : x.entries[i].end \in Nat
  BY SeqFacts DEF ScanOK
<1> QED
  BY <1>1 DEF Grows, SameEntry

LEMMA GrowsOn ==
  ASSUME NEW x, NEW y, ScanOK(x), ScanOK(y), Grows(x, y), NEW line
  PROVE  Grows(x, Locate(y, line))
<1> DEFINE n == Len(y.lines) + 1
           m == Len(y.entries)
           k == Len(x.entries)
           e == Locate(y, line)
<1>1. Steps(y, line, e)
  BY LocateSteps
<1> HIDE DEF e
<1>2. /\ Len(x.lines) \in Nat /\ k \in Nat /\ Len(x.tables) \in Nat
      /\ Len(y.lines) \in Nat /\ m \in Nat /\ Len(y.tables) \in Nat
  BY SeqFacts DEF ScanOK
<1>3. /\ \A i \in 1..m : /\ DOMAIN y.entries[i] = EntryFields
                         /\ y.entries[i].end \in Nat /\ y.entries[i].end <= n
      /\ \A i \in 1..k : x.entries[i].end \in Nat
  BY DEF ScanOK
<1>4. /\ Len(x.lines) <= Len(y.lines) /\ k <= m
      /\ \A i \in 1..k : SameEntry(x.entries[i], y.entries[i])
                         /\ x.entries[i].end <= y.entries[i].end
      /\ \A i \in 1..k : i < k \/ ~Continuing(x.scan) => x.entries[i] = y.entries[i]
      /\ \A i \in (k + 1)..m : y.entries[i].start > Len(x.lines)
      /\ m = k /\ ~Continuing(x.scan) => ~Continuing(y.scan)
      /\ Len(x.tables) <= Len(y.tables)
      /\ \A i \in 1..Len(x.tables) : x.tables[i] = y.tables[i]
      /\ \A i \in (Len(x.tables) + 1)..Len(y.tables) : y.tables[i].start > Len(x.lines)
  BY DEF Grows
<1>5. Len(e.lines) = n
  BY <1>1 DEF Steps
<1> SUFFICES Grows(x, e)
  BY DEF e
<1>6. CASE Continuing(y.scan)
  <2>1. /\ m > 0
        /\ e.tables = y.tables /\ Len(e.entries) = m
        /\ \A i \in 1..m : i # m => e.entries[i] = y.entries[i]
        /\ e.entries[m] = Continued(y.entries[m], n, Body(line))
    BY <1>1, <1>6, HeadsOrSets DEF Steps
  <2>2. SameEntry(y.entries[m], e.entries[m]) /\ e.entries[m].end = n + 1
    BY <1>2, <1>3, <2>1, ContinuedIs DEF SameEntry
  <2> HIDE DEF n, m, k
  <2>3. \A i \in 1..k : SameEntry(x.entries[i], e.entries[i]) /\ x.entries[i].end <= e.entries[i].end
    <3> TAKE i \in 1..k
    <3>1. i \in 1..m
      BY <1>2, <1>4
    <3>2. CASE i # m
      BY <1>4, <2>1, <3>1, <3>2
    <3>3. CASE i = m
      BY SMTT(40), <1>2, <1>3, <1>4, <2>2, <3>1, <3>3 DEF SameEntry, n
    <3> QED
      BY <3>2, <3>3
  <2>4. \A i \in 1..k : i < k \/ ~Continuing(x.scan) => x.entries[i] = e.entries[i]
    BY <1>2, <1>4, <1>6, <2>1
  <2>5. \A i \in (k + 1)..m : e.entries[i].start > Len(x.lines)
    BY <1>2, <1>4, <2>1, <2>2 DEF SameEntry
  <2> QED
    BY <1>2, <1>4, <1>5, <1>6, <2>1, <2>3, <2>4, <2>5 DEF Grows, n, m, k
<1>7. CASE ~Continuing(y.scan) /\ Heads(line)
  <2>1. /\ Len(e.tables) = Len(y.tables) + 1
        /\ \A i \in 1..Len(y.tables) : e.tables[i] = y.tables[i]
        /\ e.tables[Len(y.tables) + 1] = NewTable(line, n)
        /\ e.scan = y.scan /\ e.entries = y.entries
    BY <1>1, <1>7, HeadsOrSets DEF Steps
  <2>2. NewTable(line, n).start = n
    BY DEF NewTable
  <2>3. \A i \in (Len(x.tables) + 1)..Len(e.tables) : e.tables[i].start > Len(x.lines)
    <3> TAKE i \in (Len(x.tables) + 1)..Len(e.tables)
    <3>1. CASE i = Len(y.tables) + 1
      <4>1. e.tables[i].start = n
        BY <2>1, <2>2, <3>1
      <4> QED
        BY <1>2, <1>4, <4>1
    <3>2. CASE i # Len(y.tables) + 1
      <4>1. i \in 1..Len(y.tables) /\ i \in (Len(x.tables) + 1)..Len(y.tables)
        BY <1>2, <2>1, <3>2
      <4>2. e.tables[i] = y.tables[i] /\ y.tables[i].start > Len(x.lines)
        BY <1>4, <2>1, <4>1
      <4> QED
        BY <4>2
    <3> QED
      BY <3>1, <3>2
  <2> QED
    BY SMTT(40), <1>2, <1>4, <1>5, <1>7, <2>1, <2>3 DEF Grows
<1>8. CASE ~Continuing(y.scan) /\ Sets(line)
  <2>1. /\ e.tables = y.tables /\ Len(e.entries) = m + 1
        /\ \A i \in 1..m : e.entries[i] = y.entries[i]
        /\ e.entries[m + 1] = NewEntry(y.table, line, n)
    BY <1>1, <1>8, HeadsOrSets DEF Steps
  <2>2. e.entries[m + 1].start = n
    BY <2>1, NewEntryIs
  <2> HIDE DEF m, k
  <2>3. \A i \in (k + 1)..Len(e.entries) : e.entries[i].start > Len(x.lines)
    <3> TAKE i \in (k + 1)..Len(e.entries)
    <3>1. CASE i = m + 1
      BY <1>2, <1>4, <2>2, <3>1
    <3>2. CASE i # m + 1
      <4>1. i \in 1..m /\ i \in (k + 1)..m
        BY <1>2, <2>1, <3>2
      <4> QED
        BY <1>4, <2>1, <4>1
    <3> QED
      BY <3>1, <3>2
  <2>4. \A i \in 1..k : i \in 1..m /\ e.entries[i] = y.entries[i]
    BY <1>2, <1>4, <2>1
  <2>5. Len(e.entries) # k /\ k <= Len(e.entries)
    BY <1>2, <1>4, <2>1
  <2>6. \A i \in 1..k : SameEntry(x.entries[i], e.entries[i]) /\ x.entries[i].end <= e.entries[i].end
    BY <1>4, <2>4
  <2>7. \A i \in 1..k : i < k \/ ~Continuing(x.scan) => x.entries[i] = e.entries[i]
    BY <1>4, <2>4
  <2>8. Len(x.lines) <= Len(e.lines)
    BY <1>2, <1>4, <1>5
  <2> USE DEF k
  <2> QED
    BY <1>4, <2>1, <2>3, <2>5, <2>6, <2>7, <2>8 DEF Grows
<1>9. CASE ~Continuing(y.scan) /\ ~Heads(line) /\ ~Sets(line)
  <2>1. e.tables = y.tables /\ e.scan = y.scan /\ e.entries = y.entries
    BY <1>1, <1>9 DEF Steps
  <2> QED
    BY <1>2, <1>4, <1>5, <1>9, <2>1 DEF Grows
<1> QED
  BY <1>6, <1>7, <1>8, <1>9

\* The stages of a scan.
LEMMA StagesOK ==
  ASSUME NEW X, NEW lines \in Seq(X), NEW st, Scans(lines, st)
  PROVE  /\ st[0] = Start
         /\ \A k \in 1..Len(lines) : st[k] = Locate(st[k-1], lines[k])
         /\ \A k \in 0..Len(lines) : ScanOK(st[k]) /\ Len(st[k].lines) = k
         /\ \A k \in 0..Len(lines) : \A m \in k..Len(lines) : Grows(st[k], st[m])
<1> DEFINE n == Len(lines)
<1>1. n \in Nat
  OBVIOUS
<1>2. st[0] = Start /\ \A k \in 1..n : st[k] = Locate(st[k-1], lines[k])
  BY <1>1 DEF Scans
<1> HIDE DEF n
<1>3. ASSUME NEW k \in 0..n PROVE ScanOK(st[k]) /\ Len(st[k].lines) = k
  <2> DEFINE Bad == {j \in 0..n : ~ (ScanOK(st[j]) /\ Len(st[j].lines) = j)}
  <2>1. ASSUME Bad # {} PROVE FALSE
    <3>1. Bad \subseteq Nat
      BY <1>1
    <3>2. PICK j \in Bad : \A i \in Bad : j <= i
      BY <2>1, <3>1, LeastOf
    <3>3. j # 0
      <4>1. ScanOK(Start) /\ Len(Start.lines) = 0
        BY StartOK DEF Start
      <4> QED
        BY <1>2, <4>1
    <3>4. j \in 1..n /\ j - 1 \in 0..n /\ ~ j <= j - 1
      BY <1>1, <3>3
    <3>5. ScanOK(st[j-1]) /\ Len(st[j-1].lines) = j - 1
      BY <3>2, <3>4
    <3>6. st[j] = Locate(st[j-1], lines[j])
      BY <1>2, <3>4
    <3>7. ScanOK(st[j])
      BY <3>5, <3>6, LocateOK
    <3>8. Len(st[j].lines) = j
      <4>1. Steps(st[j-1], lines[j], st[j])
        BY <3>5, <3>6, LocateSteps
      <4>2. Len(st[j].lines) = Len(st[j-1].lines) + 1
        BY <4>1 DEF Steps
      <4> QED
        BY <3>4, <3>5, <4>2
    <3> QED
      BY <3>7, <3>8
  <2> QED
    BY <2>1
<1>4. ASSUME NEW k \in 0..n, NEW m \in k..n PROVE Grows(st[k], st[m])
  <2> DEFINE Bad == {j \in k..n : ~ Grows(st[k], st[j])}
  <2>1. ASSUME Bad # {} PROVE FALSE
    <3>1. Bad \subseteq Nat
      BY <1>1
    <3>2. PICK j \in Bad : \A i \in Bad : j <= i
      BY <2>1, <3>1, LeastOf
    <3>3. j # k
      BY <1>3, GrowsSelf
    <3>4. j \in 1..n /\ j - 1 \in k..n /\ j - 1 \in 0..n /\ ~ j <= j - 1
      BY <1>1, <3>3
    <3>5. Grows(st[k], st[j-1])
      BY <3>2, <3>4
    <3>6. st[j] = Locate(st[j-1], lines[j])
      BY <1>2, <3>4
    <3> QED
      BY <1>3, <3>4, <3>5, <3>6, GrowsOn
  <2> QED
    BY <2>1
<1> QED
  BY <1>2, <1>3, <1>4 DEF n

-----------------------------------------------------------------------------
(* Two scans, of a file and of the file with lines taken out                *)

Twins(x, y) == x.table = y.table /\ x.key = y.key /\ x.path = y.path /\ x.value = y.value

\* All that f has found d has found too; what is still being read is the last
\* entry of each.
Within(f, d) ==
  /\ \A i \in 1..Len(f.entries) :
       i < Len(f.entries) \/ ~Continuing(f.scan) =>
         \E j \in 1..Len(d.entries) :
           Twins(f.entries[i], d.entries[j]) /\ (Continuing(d.scan) => j < Len(d.entries))
  /\ Continuing(f.scan) =>
       /\ Continuing(d.scan) /\ f.scan = d.scan
       /\ Twins(f.entries[Len(f.entries)], d.entries[Len(d.entries)])
  /\ \A i \in 1..Len(f.tables) : \E j \in 1..Len(d.tables) :
       f.tables[i].name = d.tables[j].name /\ f.tables[i].array = d.tables[j].array

\* The next line means the same to both.
InStep(f, d) == f.table = d.table /\ (Continuing(f.scan) <=> Continuing(d.scan))

LEMMA WithinDropped ==
  ASSUME NEW f, NEW d, ScanOK(f), ScanOK(d), Within(f, d), ~Continuing(f.scan), NEW line
  PROVE  Within(f, Locate(d, line))
<1> DEFINE n == Len(d.lines) + 1
           m == Len(d.entries)
           e == Locate(d, line)
<1>1. Steps(d, line, e)
  BY LocateSteps
<1> HIDE DEF e
<1>2. m \in Nat /\ Len(d.tables) \in Nat
  BY SeqFacts DEF ScanOK
<1>3. \A i \in 1..Len(f.entries) : \E j \in 1..m :
        Twins(f.entries[i], d.entries[j]) /\ (Continuing(d.scan) => j < m)
  BY DEF Within
<1>4. /\ Len(d.tables) <= Len(e.tables) /\ Len(e.tables) \in Nat
      /\ \A j \in 1..Len(d.tables) : e.tables[j] = d.tables[j]
  BY <1>1, <1>2, HeadsOrSets DEF Steps
<1>5. ASSUME NEW j \in 1..m, Continuing(d.scan) => j < m
      PROVE  /\ j \in 1..Len(e.entries) /\ e.entries[j] = d.entries[j]
             /\ Continuing(e.scan) => j < Len(e.entries)
  <2>1. CASE Continuing(d.scan)
    <3>1. Len(e.entries) = m /\ \A i \in 1..m : i # m => e.entries[i] = d.entries[i]
      BY <1>1, <2>1 DEF Steps
    <3> QED
      BY <1>2, <1>5, <2>1, <3>1
  <2>2. CASE ~Continuing(d.scan) /\ Sets(line)
    <3>1. Len(e.entries) = m + 1 /\ \A i \in 1..m : e.entries[i] = d.entries[i]
      BY <1>1, <2>2, HeadsOrSets DEF Steps
    <3> QED
      BY <1>2, <3>1
  <2>3. CASE ~Continuing(d.scan) /\ ~Sets(line)
    <3>1. e.entries = d.entries /\ e.scan = d.scan
      BY <1>1, <2>3 DEF Steps
    <3> QED
      BY <1>2, <2>3, <3>1
  <2> QED
    BY <2>1, <2>2, <2>3
<1>6. \A i \in 1..Len(f.entries) : \E j \in 1..Len(e.entries) :
        Twins(f.entries[i], e.entries[j]) /\ (Continuing(e.scan) => j < Len(e.entries))
  <2> TAKE i \in 1..Len(f.entries)
  <2>1. PICK j \in 1..m : Twins(f.entries[i], d.entries[j]) /\ (Continuing(d.scan) => j < m)
    BY <1>3
  <2> QED
    BY <1>5, <2>1
<1>7. \A i \in 1..Len(f.tables) : \E j \in 1..Len(e.tables) :
        f.tables[i].name = e.tables[j].name /\ f.tables[i].array = e.tables[j].array
  <2> TAKE i \in 1..Len(f.tables)
  <2>1. PICK j \in 1..Len(d.tables) :
          f.tables[i].name = d.tables[j].name /\ f.tables[i].array = d.tables[j].array
    BY DEF Within
  <2>2. j \in 1..Len(e.tables) /\ e.tables[j] = d.tables[j]
    BY <1>2, <1>4
  <2> QED
    BY <2>1, <2>2
<1> QED
  BY <1>6, <1>7 DEF Within, e

LEMMA WithinHeader ==
  ASSUME NEW f, NEW d, ScanOK(f), ScanOK(d), Within(f, d),
         ~Continuing(f.scan), ~Continuing(d.scan), NEW line, Heads(line)
  PROVE  /\ Within(Locate(f, line), Locate(d, line))
         /\ InStep(Locate(f, line), Locate(d, line))
         /\ ~Continuing(Locate(d, line).scan)
<1> DEFINE e == Locate(d, line)
           g == Locate(f, line)
<1>1. Steps(d, line, e) /\ Steps(f, line, g)
  BY LocateSteps
<1> HIDE DEF e, g
<1>2. /\ e.table = TableNamed(line) /\ g.table = TableNamed(line)
      /\ e.scan = d.scan /\ e.entries = d.entries /\ g.scan = f.scan /\ g.entries = f.entries
      /\ Len(e.tables) = Len(d.tables) + 1 /\ Len(g.tables) = Len(f.tables) + 1
      /\ \A i \in 1..Len(d.tables) : e.tables[i] = d.tables[i]
      /\ \A i \in 1..Len(f.tables) : g.tables[i] = f.tables[i]
      /\ e.tables[Len(d.tables) + 1] = NewTable(line, Len(d.lines) + 1)
      /\ g.tables[Len(f.tables) + 1] = NewTable(line, Len(f.lines) + 1)
  BY <1>1, HeadsOrSets DEF Steps
<1>3. Len(d.tables) \in Nat /\ Len(f.tables) \in Nat
  BY SeqFacts DEF ScanOK
<1>4. \A i \in 1..Len(g.tables) : \E j \in 1..Len(e.tables) :
        g.tables[i].name = e.tables[j].name /\ g.tables[i].array = e.tables[j].array
  <2> TAKE i \in 1..Len(g.tables)
  <2>1. CASE i = Len(f.tables) + 1
    <3>1. /\ g.tables[i].name = e.tables[Len(d.tables) + 1].name
          /\ g.tables[i].array = e.tables[Len(d.tables) + 1].array
      BY <1>2, <2>1 DEF NewTable
    <3>2. Len(d.tables) + 1 \in 1..Len(e.tables)
      BY <1>2, <1>3
    <3> QED
      BY <3>1, <3>2
  <2>2. CASE i # Len(f.tables) + 1
    <3>1. i \in 1..Len(f.tables)
      BY <1>2, <1>3, <2>2
    <3>2. PICK j \in 1..Len(d.tables) :
            f.tables[i].name = d.tables[j].name /\ f.tables[i].array = d.tables[j].array
      BY <3>1 DEF Within
    <3>3. j \in 1..Len(e.tables) /\ e.tables[j] = d.tables[j] /\ g.tables[i] = f.tables[i]
      <4>1. j \in 1..Len(e.tables)
        BY <1>2, <1>3
      <4> QED
        BY <1>2, <3>1, <4>1
    <3> QED
      BY <3>2, <3>3
  <2> QED
    BY <2>1, <2>2
<1>5. Within(g, e)
  <2>1. \A i \in 1..Len(f.entries) : \E j \in 1..Len(d.entries) : Twins(f.entries[i], d.entries[j])
    BY DEF Within
  <2> QED
    BY <1>2, <1>4, <2>1 DEF Within
<1> QED
  BY <1>2, <1>5 DEF InStep, e, g

LEMMA WithinBoth ==
  ASSUME NEW f, NEW d, ScanOK(f), ScanOK(d), Within(f, d), InStep(f, d), NEW line
  PROVE  /\ Within(Locate(f, line), Locate(d, line))
         /\ InStep(Locate(f, line), Locate(d, line))
<1> DEFINE e == Locate(d, line)
           g == Locate(f, line)
           m == Len(d.entries)
           k == Len(f.entries)
<1>1. Steps(d, line, e) /\ Steps(f, line, g)
  BY LocateSteps
<1> HIDE DEF e, g
<1>2. m \in Nat /\ k \in Nat
  BY SeqFacts DEF ScanOK
<1>3. /\ \A i \in 1..k : DOMAIN f.entries[i] = EntryFields
      /\ \A i \in 1..m : DOMAIN d.entries[i] = EntryFields
  BY DEF ScanOK
<1>4. f.table = d.table /\ (Continuing(f.scan) <=> Continuing(d.scan))
  BY DEF InStep
<1>5. CASE Continuing(d.scan)
  <2>1. /\ e.table = d.table /\ e.tables = d.tables /\ e.scan = ScanLine(d.scan, Body(line))
        /\ Len(e.entries) = m /\ m > 0
        /\ \A i \in 1..m : i # m => e.entries[i] = d.entries[i]
        /\ e.entries[m] = Continued(d.entries[m], Len(d.lines) + 1, Body(line))
    BY <1>1, <1>5 DEF Steps
  <2>2. /\ g.table = f.table /\ g.tables = f.tables /\ g.scan = ScanLine(f.scan, Body(line))
        /\ Len(g.entries) = k /\ k > 0
        /\ \A i \in 1..k : i # k => g.entries[i] = f.entries[i]
        /\ g.entries[k] = Continued(f.entries[k], Len(f.lines) + 1, Body(line))
    BY <1>1, <1>4, <1>5 DEF Steps
  <2>3. f.scan = d.scan /\ Twins(f.entries[k], d.entries[m])
    BY <1>4, <1>5 DEF Within
  <2>4. k \in 1..k /\ m \in 1..m
    BY SMTT(40), <1>2, <2>1, <2>2
  <2>5. Twins(g.entries[k], e.entries[m])
    <3>1. DOMAIN d.entries[m] = EntryFields /\ DOMAIN f.entries[k] = EntryFields
      BY <1>3, <2>4
    <3>2. /\ e.entries[m].table = d.entries[m].table /\ e.entries[m].path = d.entries[m].path
          /\ e.entries[m].key = d.entries[m].key
          /\ e.entries[m].value = d.entries[m].value \o Body(line)
      <4>1. PICK x : x = d.entries[m]
        OBVIOUS
      <4>a. PICK y : y = e.entries[m]
        OBVIOUS
      <4>2. y = Continued(x, Len(d.lines) + 1, Body(line)) /\ DOMAIN x = EntryFields
        BY <2>1, <3>1, <4>1, <4>a
      <4>3. y.table = x.table /\ y.path = x.path /\ y.key = x.key /\ y.value = x.value \o Body(line)
        BY <4>2, ContinuedIs
      <4> QED
        BY <4>1, <4>a, <4>3
    <3>3. /\ g.entries[k].table = f.entries[k].table /\ g.entries[k].path = f.entries[k].path
          /\ g.entries[k].key = f.entries[k].key
          /\ g.entries[k].value = f.entries[k].value \o Body(line)
      <4>1. PICK x : x = f.entries[k]
        OBVIOUS
      <4>a. PICK y : y = g.entries[k]
        OBVIOUS
      <4>2. y = Continued(x, Len(f.lines) + 1, Body(line)) /\ DOMAIN x = EntryFields
        BY <2>2, <3>1, <4>1, <4>a
      <4>3. y.table = x.table /\ y.path = x.path /\ y.key = x.key /\ y.value = x.value \o Body(line)
        BY <4>2, ContinuedIs
      <4> QED
        BY <4>1, <4>a, <4>3
    <3> QED
      BY <2>3, <3>2, <3>3 DEF Twins
  <2>6. \A i \in 1..k : i < k => \E j \in 1..m : Twins(g.entries[i], e.entries[j]) /\ j < m
    <3> TAKE i \in 1..k
    <3>1. HAVE i < k
    <3>2. PICK j \in 1..m : Twins(f.entries[i], d.entries[j]) /\ j < m
      BY <1>5, <3>1 DEF Within
    <3>3. g.entries[i] = f.entries[i] /\ e.entries[j] = d.entries[j]
      BY <1>2, <2>1, <2>2, <3>1, <3>2
    <3> QED
      BY <3>2, <3>3
  <2>7. g.scan = e.scan
    BY <2>1, <2>2, <2>3
  <2>8. \A i \in 1..k : ~Continuing(g.scan) => \E j \in 1..m : Twins(g.entries[i], e.entries[j])
    <3> TAKE i \in 1..k
    <3>1. CASE i = k
      BY <2>4, <2>5, <3>1
    <3>2. CASE i # k
      BY <1>2, <2>6, <3>2
    <3> QED
      BY <3>1, <3>2
  <2>9. \A i \in 1..Len(g.tables) : \E j \in 1..Len(e.tables) :
          g.tables[i].name = e.tables[j].name /\ g.tables[i].array = e.tables[j].array
    BY <2>1, <2>2 DEF Within
  <2>10. Within(g, e)
    BY <2>1, <2>2, <2>5, <2>6, <2>7, <2>8, <2>9 DEF Within
  <2> QED
    BY <1>4, <2>1, <2>2, <2>7, <2>10 DEF InStep, e, g
<1>6. CASE ~Continuing(d.scan) /\ Heads(line)
  BY <1>4, <1>6, WithinHeader
<1>7. CASE ~Continuing(d.scan) /\ Sets(line)
  <2>1. /\ e.table = d.table /\ e.tables = d.tables /\ e.scan = ScanLine(Fresh, ValueOf(line))
        /\ Len(e.entries) = m + 1
        /\ \A i \in 1..m : e.entries[i] = d.entries[i]
        /\ e.entries[m + 1] = NewEntry(d.table, line, Len(d.lines) + 1)
    BY <1>1, <1>7, HeadsOrSets DEF Steps
  <2>2. /\ g.table = f.table /\ g.tables = f.tables /\ g.scan = ScanLine(Fresh, ValueOf(line))
        /\ Len(g.entries) = k + 1
        /\ \A i \in 1..k : g.entries[i] = f.entries[i]
        /\ g.entries[k + 1] = NewEntry(f.table, line, Len(f.lines) + 1)
    BY <1>1, <1>4, <1>7, HeadsOrSets DEF Steps
  <2>3. Twins(g.entries[k+1], e.entries[m+1])
    <3>1. /\ e.entries[m+1].table = d.table /\ g.entries[k+1].table = f.table
          /\ e.entries[m+1].key = KeyOf(line) /\ g.entries[k+1].key = KeyOf(line)
          /\ e.entries[m+1].path = SubSeq(line, 1, Assigns(line) - 1)
          /\ g.entries[k+1].path = SubSeq(line, 1, Assigns(line) - 1)
          /\ e.entries[m+1].value = Uncommented(ValueOf(line))
          /\ g.entries[k+1].value = Uncommented(ValueOf(line))
      <4>1. PICK x : x = e.entries[m+1]
        OBVIOUS
      <4>2. PICK y : y = g.entries[k+1]
        OBVIOUS
      <4>3. x = NewEntry(d.table, line, Len(d.lines) + 1) /\ y = NewEntry(f.table, line, Len(f.lines) + 1)
        BY <2>1, <2>2, <4>1, <4>2
      <4>4. /\ x.table = d.table /\ y.table = f.table
            /\ x.key = KeyOf(line) /\ y.key = KeyOf(line)
            /\ x.path = SubSeq(line, 1, Assigns(line) - 1)
            /\ y.path = SubSeq(line, 1, Assigns(line) - 1)
            /\ x.value = Uncommented(ValueOf(line)) /\ y.value = Uncommented(ValueOf(line))
        BY <4>3, NewEntryIs
      <4> QED
        BY <4>1, <4>2, <4>4
    <3> QED
      BY <1>4, <3>1 DEF Twins
  <2>4. k + 1 \in 1..(k+1) /\ m + 1 \in 1..(m+1)
    BY <1>2
  <2>6. \A i \in 1..(k+1) : i < k + 1 => \E j \in 1..(m+1) : Twins(g.entries[i], e.entries[j]) /\ j < m + 1
    <3> TAKE i \in 1..(k+1)
    <3>1. HAVE i < k + 1
    <3>a. i \in 1..k
      BY <1>2, <3>1
    <3>2. PICK j \in 1..m : Twins(f.entries[i], d.entries[j])
      BY <1>4, <1>7, <3>a DEF Within
    <3>3. g.entries[i] = f.entries[i] /\ e.entries[j] = d.entries[j] /\ j \in 1..(m+1) /\ j < m + 1
      BY SMTT(40), <1>2, <2>1, <2>2, <3>a, <3>2
    <3> QED
      BY <3>2, <3>3
  <2>7. g.scan = e.scan
    BY <2>1, <2>2
  <2>8. \A i \in 1..(k+1) : ~Continuing(g.scan) => \E j \in 1..(m+1) : Twins(g.entries[i], e.entries[j])
    <3> TAKE i \in 1..(k+1)
    <3>1. CASE i = k + 1
      BY <2>3, <2>4, <3>1
    <3>2. CASE i # k + 1
      <4>1. i < k + 1
        BY <1>2, <3>2
      <4> QED
        BY <2>6, <4>1
    <3> QED
      BY <3>1, <3>2
  <2>9. \A i \in 1..Len(g.tables) : \E j \in 1..Len(e.tables) :
          g.tables[i].name = e.tables[j].name /\ g.tables[i].array = e.tables[j].array
    BY <2>1, <2>2 DEF Within
  <2>10. Within(g, e)
    BY <2>1, <2>2, <2>3, <2>6, <2>7, <2>8, <2>9 DEF Within
  <2> QED
    BY <1>4, <2>1, <2>2, <2>7, <2>10 DEF InStep, e, g
<1>8. CASE ~Continuing(d.scan) /\ ~Heads(line) /\ ~Sets(line)
  <2>1. /\ e.table = d.table /\ e.tables = d.tables /\ e.scan = d.scan /\ e.entries = d.entries
        /\ g.table = f.table /\ g.tables = f.tables /\ g.scan = f.scan /\ g.entries = f.entries
    BY <1>1, <1>4, <1>8 DEF Steps
  <2> QED
    BY <1>4, <1>8, <2>1 DEF Within, InStep, e, g
<1> QED
  BY <1>5, <1>6, <1>7, <1>8

-----------------------------------------------------------------------------
(* Where the entries and tables of a file are, by the stages of its scan    *)

LEMMA ScanEmpty ==
  ASSUME NEW s
  PROVE  Continuing(ScanLine(s, <<>>)) <=> Continuing(s)
<1> DEFINE Iter(g) == g = [q \in SUBSET {} |->
                             IF q = {} THEN s ELSE ScanToken(g[q \ {Max(q)}], <<>>[Max(q)])]
<1>1. Iter([q \in SUBSET {} |-> s])
  OBVIOUS
<1>2. DOMAIN <<>> = {}
  OBVIOUS
<1>3. FoldLeft(ScanToken, s, <<>>) = (CHOOSE g : Iter(g))[{}]
  BY <1>2 DEF FoldLeft, MapThenFoldSet
<1>4. Iter(CHOOSE g : Iter(g))
  <2> HIDE DEF Iter
  <2> QED
    BY <1>1
<1>5. FoldLeft(ScanToken, s, <<>>) = s
  <2>1. {} \in SUBSET {}
    OBVIOUS
  <2> QED
    BY <1>3, <1>4, <2>1
<1> QED
  BY <1>5 DEF ScanLine, Continuing

LEMMA TableStarts ==
  ASSUME NEW X, NEW lines \in Seq(X), NEW st, Scans(lines, st),
         NEW t \in 1..Len(st[Len(lines)].tables), NEW k \in 1..Len(lines),
         st[Len(lines)].tables[t].start = k
  PROVE  /\ ~Continuing(st[k-1].scan) /\ Heads(lines[k])
         /\ st[Len(lines)].tables[t] = NewTable(lines[k], k)
<1> DEFINE n == Len(lines)
           D == st[n]
<1>1. n \in Nat /\ k \in 0..n /\ k - 1 \in 0..n /\ n \in k..n /\ n \in (k-1)..n
  OBVIOUS
<1>2. /\ st[k] = Locate(st[k-1], lines[k])
      /\ ScanOK(st[k-1]) /\ Len(st[k-1].lines) = k - 1
      /\ ScanOK(st[k]) /\ Len(st[k].lines) = k
      /\ Grows(st[k-1], D) /\ Grows(st[k], D)
  BY <1>1, StagesOK
<1>3. Steps(st[k-1], lines[k], st[k])
  BY <1>2, LocateSteps
<1> HIDE DEF D
<1>a. D.tables[t].start = k /\ t \in 1..Len(D.tables)
  BY DEF D
<1>b. /\ Len(st[k-1].tables) \in Nat /\ Len(st[k].tables) \in Nat /\ Len(D.tables) \in Nat
  <2>1. ScanOK(D)
    BY <1>1, StagesOK DEF D
  <2> QED
    BY <1>2, <2>1, SeqFacts DEF ScanOK
<1>4. ~ t \in 1..Len(st[k-1].tables)
  <2> SUFFICES ASSUME t \in 1..Len(st[k-1].tables) PROVE FALSE
    OBVIOUS
  <2>1. st[k-1].tables[t] = D.tables[t]
    BY <1>2 DEF Grows
  <2>2. st[k-1].tables[t].start \in 1..(k-1)
    BY <1>2 DEF ScanOK
  <2> QED
    BY <1>1, <1>a, <2>1, <2>2
<1>5. ~ t \in (Len(st[k].tables) + 1)..Len(D.tables)
  <2> SUFFICES ASSUME t \in (Len(st[k].tables) + 1)..Len(D.tables) PROVE FALSE
    OBVIOUS
  <2>1. D.tables[t].start > k
    BY <1>2 DEF Grows
  <2> QED
    BY <1>1, <1>a, <2>1
<1>6. Len(st[k].tables) # Len(st[k-1].tables)
  <2>1. t \in Nat /\ 1 <= t /\ t <= Len(D.tables)
    BY <1>a, <1>b
  <2>2. ~ t <= Len(st[k-1].tables) /\ ~ Len(st[k].tables) + 1 <= t
    BY <1>b, <1>4, <1>5, <2>1
  <2> QED
    BY <1>b, <2>1, <2>2
<1>7. ~Continuing(st[k-1].scan) /\ Heads(lines[k])
  BY <1>3, <1>6 DEF Steps
<1>8. D.tables[t] = NewTable(lines[k], k)
  <2>1. PICK m : m = Len(st[k-1].tables)
    OBVIOUS
  <2>2. /\ Len(st[k].tables) = m + 1
        /\ st[k].tables[m + 1] = NewTable(lines[k], k - 1 + 1)
    BY <1>2, <1>3, <1>7, <2>1, HeadsOrSets DEF Steps
  <2>3. t = m + 1 /\ t \in 1..Len(st[k].tables)
    BY <1>a, <1>b, <1>4, <1>5, <2>1, <2>2
  <2>4. D.tables[t] = st[k].tables[t]
    BY <1>2, <2>3 DEF Grows
  <2>5. k - 1 + 1 = k
    BY <1>1
  <2> QED
    BY <2>2, <2>3, <2>4, <2>5
<1> QED
  BY <1>7, <1>8 DEF D

\* A line of an entry either goes on with it or begins it.
LEMMA EntryLine ==
  ASSUME NEW X, NEW lines \in Seq(X), NEW st, Scans(lines, st),
         NEW i \in 1..Len(st[Len(lines)].entries), NEW k \in 1..Len(lines),
         st[Len(lines)].entries[i].start <= k, k < st[Len(lines)].entries[i].end
  PROVE  /\ Len(st[k].entries) = i
         /\ Continuing(st[k-1].scan) => Len(st[k-1].entries) = i
         /\ ~Continuing(st[k-1].scan) => Sets(lines[k])
<1> DEFINE n == Len(lines)
           D == st[n]
<1>1. n \in Nat /\ k \in 0..n /\ k - 1 \in 0..n /\ n \in k..n /\ n \in (k-1)..n /\ n \in 0..n
  OBVIOUS
<1>2. /\ st[k] = Locate(st[k-1], lines[k])
      /\ ScanOK(st[k-1]) /\ Len(st[k-1].lines) = k - 1
      /\ ScanOK(st[k]) /\ Len(st[k].lines) = k
      /\ Grows(st[k-1], D) /\ Grows(st[k], D) /\ ScanOK(D)
  BY <1>1, StagesOK
<1>3. Steps(st[k-1], lines[k], st[k])
  BY <1>2, LocateSteps
<1>4. i \in 1..Len(D.entries) /\ D.entries[i].start <= k /\ k < D.entries[i].end
  BY SMTT(40)
<1> HIDE DEF D, n
<1>5. /\ Len(st[k-1].entries) \in Nat /\ Len(st[k].entries) \in Nat /\ Len(D.entries) \in Nat
      /\ D.entries[i].start \in Nat /\ D.entries[i].end \in Nat
  BY <1>2, <1>4, SeqFacts DEF ScanOK
<1>6. ~ i \in (Len(st[k].entries) + 1)..Len(D.entries)
  <2> SUFFICES ASSUME i \in (Len(st[k].entries) + 1)..Len(D.entries) PROVE FALSE
    OBVIOUS
  <2>1. D.entries[i].start > k
    BY <1>2 DEF Grows
  <2> QED
    BY <1>1, <1>4, <1>5, <2>1
<1>7. CASE i \in 1..Len(st[k-1].entries)
  <2>1. ~ (i < Len(st[k-1].entries) \/ ~Continuing(st[k-1].scan))
    <3> SUFFICES ASSUME i < Len(st[k-1].entries) \/ ~Continuing(st[k-1].scan) PROVE FALSE
      OBVIOUS
    <3>1. st[k-1].entries[i] = D.entries[i]
      BY SMTT(40), <1>2, <1>7 DEF Grows
    <3>2. st[k-1].entries[i].end <= k - 1 + 1
      BY <1>2, <1>7 DEF ScanOK
    <3> QED
      BY <1>1, <1>4, <1>5, <3>1, <3>2
  <2>2. Continuing(st[k-1].scan) /\ i = Len(st[k-1].entries)
    BY <1>5, <1>7, <2>1
  <2>3. Len(st[k].entries) = Len(st[k-1].entries)
    BY <1>3, <2>2 DEF Steps
  <2> QED
    BY <2>2, <2>3
<1>8. CASE ~ i \in 1..Len(st[k-1].entries)
  <2>1. Len(st[k].entries) > Len(st[k-1].entries)
    <3>1. i \in Nat /\ 1 <= i /\ i <= Len(D.entries)
      BY <1>4, <1>5
    <3>2. ~ i <= Len(st[k-1].entries) /\ ~ Len(st[k].entries) + 1 <= i
      BY <1>5, <1>6, <1>8, <3>1
    <3> QED
      BY SMTT(40), <1>5, <3>1, <3>2
  <2>2. /\ ~Continuing(st[k-1].scan) /\ Sets(lines[k])
        /\ Len(st[k].entries) = Len(st[k-1].entries) + 1
    BY <1>3, <1>5, <2>1 DEF Steps
  <2> QED
    BY SMTT(40), <1>4, <1>5, <1>6, <1>8, <2>2
<1> QED
  BY <1>7, <1>8

\* The line that goes on with an entry, or begins one, is one of its lines.
LEMMA LineOfEntry ==
  ASSUME NEW X, NEW lines \in Seq(X), NEW st, Scans(lines, st), NEW k \in 1..Len(lines),
         Continuing(st[k-1].scan) \/ Sets(lines[k])
  PROVE  LET i == Len(st[k].entries)
             D == st[Len(lines)]
         IN i \in 1..Len(D.entries) /\ D.entries[i].start <= k /\ k < D.entries[i].end
<1> DEFINE n == Len(lines)
           D == st[n]
           i == Len(st[k].entries)
           m == Len(st[k-1].entries)
<1>1. n \in Nat /\ k \in Nat /\ k \in 0..n /\ k - 1 \in 0..n /\ n \in k..n /\ n \in (k-1)..n /\ n \in 0..n
  OBVIOUS
<1>2. /\ st[k] = Locate(st[k-1], lines[k])
      /\ ScanOK(st[k-1]) /\ Len(st[k-1].lines) = k - 1
      /\ ScanOK(st[k]) /\ Len(st[k].lines) = k
      /\ Grows(st[k], D) /\ ScanOK(D)
  BY SMTT(40), <1>1, StagesOK
<1>3. Steps(st[k-1], lines[k], st[k])
  BY <1>2, LocateSteps
<1>4. m \in Nat /\ i \in Nat /\ Len(D.entries) \in Nat
  BY <1>2, SeqFacts DEF ScanOK
<1> HIDE DEF D, n
<1>5. i > 0 /\ st[k].entries[i].start <= k /\ st[k].entries[i].end = k + 1
  <2>1. CASE Continuing(st[k-1].scan)
    <3>1. /\ m > 0 /\ i = m
          /\ st[k].entries[m] = Continued(st[k-1].entries[m], k - 1 + 1, Body(lines[k]))
      BY <1>2, <1>3, <2>1 DEF Steps
    <3>2. PICK x : x = st[k-1].entries[m]
      BY SMTT(40)
    <3>3. /\ DOMAIN x = EntryFields /\ x.start \in Nat /\ x.end \in Nat
          /\ x.start < x.end /\ x.end <= k - 1 + 1
      BY SMTT(40), <1>2, <1>4, <3>1, <3>2 DEF ScanOK
    <3>a. PICK y : y = st[k].entries[i]
      OBVIOUS
    <3>b. y = Continued(x, k - 1 + 1, Body(lines[k]))
      BY <3>1, <3>2, <3>a
    <3>4. y.start = x.start /\ y.end = k - 1 + 1 + 1
      BY <3>b, <3>3, ContinuedIs
    <3> QED
      <4>1. y.start <= k /\ y.end = k + 1
        BY <1>1, <3>3, <3>4
      <4> QED
        BY <1>4, <3>1, <3>a, <4>1
  <2>2. CASE ~Continuing(st[k-1].scan)
    <3>1. i = m + 1 /\ st[k].entries[m+1] = NewEntry(st[k-1].table, lines[k], k - 1 + 1)
      BY <1>2, <1>3, <2>2, HeadsOrSets DEF Steps
    <3>2. st[k].entries[i].start = k /\ st[k].entries[i].end = k + 1
      <4>1. PICK y : y = st[k].entries[i]
        OBVIOUS
      <4>2. y = NewEntry(st[k-1].table, lines[k], k)
        BY <1>1, <3>1, <4>1
      <4>3. y.start = k /\ y.end = k + 1
        BY <4>2, NewEntryIs
      <4> QED
        BY <4>1, <4>3
    <3> QED
      BY <1>1, <1>4, <3>1, <3>2
  <2> QED
    BY <2>1, <2>2
<1>6. /\ i <= Len(D.entries) /\ SameEntry(st[k].entries[i], D.entries[i])
      /\ st[k].entries[i].end <= D.entries[i].end
  <2>1. i \in 1..Len(st[k].entries)
    BY <1>4, <1>5
  <2> QED
    BY <1>2, <2>1 DEF Grows
<1>7. i \in 1..Len(D.entries) /\ D.entries[i].end \in Nat /\ D.entries[i].start \in Nat
  <2>1. i \in 1..Len(D.entries)
    BY <1>4, <1>5, <1>6
  <2> QED
    BY <1>2, <2>1 DEF ScanOK
<1>8. D.entries[i].start <= k /\ k < D.entries[i].end
  <2>1. st[k].entries[i].start = D.entries[i].start
    BY <1>6 DEF SameEntry
  <2>2. PICK v : v = D.entries[i].end
    OBVIOUS
  <2>3. k + 1 <= v /\ v \in Nat
    BY <1>5, <1>6, <1>7, <2>2
  <2>4. k < v
    BY <1>1, <2>3
  <2> QED
    BY <1>5, <2>1, <2>2, <2>4
<1> QED
  BY <1>5, <1>6, <1>7, <1>8 DEF D, n

\* No value goes on in the blank lines above a header.
LEMMA BlanksAbove ==
  ASSUME NEW X, NEW lines \in Seq(X), NEW st, Scans(lines, st),
         NEW t \in 1..Len(st[Len(lines)].tables), NEW h \in 1..Len(lines),
         st[Len(lines)].tables[t].start = h,
         NEW a \in 1..h, \A i \in a..(h-1) : Blank(lines[i]), NEW k \in a..h
  PROVE  ~Continuing(st[k-1].scan)
<1> DEFINE n == Len(lines)
           Bad == {h - j : j \in {j \in a..h : Continuing(st[j-1].scan)}}
<1>1. ASSUME Bad # {} PROVE FALSE
  <2>1. Bad \subseteq Nat
    OBVIOUS
  <2>2. PICK b \in Bad : \A c \in Bad : b <= c
    BY <1>1, <2>1, LeastOf
  <2>3. PICK j \in a..h : Continuing(st[j-1].scan) /\ b = h - j
    OBVIOUS
  <2>4. j # h
    BY <2>3, TableStarts
  <2>a. n \in Nat /\ h \in Nat /\ a \in Nat /\ j \in Nat
        /\ 1 <= a /\ a <= j /\ j < h /\ h <= n
    BY <2>4
  <2>5. j \in 1..n /\ j - 1 \in 0..n /\ j \in a..(h-1) /\ j + 1 \in a..h /\ j + 1 - 1 = j
        /\ ~ h - j <= h - (j + 1)
    BY ONLY <2>a
  <2> HIDE DEF n
  <2>6. ScanOK(st[j-1]) /\ st[j] = Locate(st[j-1], lines[j])
    BY <2>5, StagesOK DEF n
  <2>7. st[j].scan = ScanLine(st[j-1].scan, Body(lines[j]))
    BY <2>3, <2>6, LocateSteps DEF Steps
  <2>8. Body(lines[j]) = <<>>
    BY <2>5 DEF Blank
  <2>9. Continuing(st[j].scan)
    BY <2>3, <2>7, <2>8, ScanEmpty
  <2>10. h - (j + 1) \in Bad
    BY <2>5, <2>9
  <2> QED
    BY <2>2, <2>3, <2>5, <2>10
<1> QED
  BY <1>1

-----------------------------------------------------------------------------
(* A file with the lines of some entries and of one table taken out         *)

Taken(lines, R, k) == FlattenSeq([i \in 1..k |-> IF i \in R THEN <<>> ELSE <<lines[i]>>])

LEMMA TakenNext ==
  ASSUME NEW X, NEW lines \in Seq(X), NEW R, NEW k \in 1..Len(lines)
  PROVE  /\ Taken(lines, R, k-1) \in Seq(X) /\ Taken(lines, R, k) \in Seq(X)
         /\ k \in R => Taken(lines, R, k) = Taken(lines, R, k-1)
         /\ k \notin R => Taken(lines, R, k) = Append(Taken(lines, R, k-1), lines[k])
<1> DEFINE part(i) == IF i \in R THEN <<>> ELSE <<lines[i]>>
           parts(m) == [i \in 1..m |-> part(i)]
<1>1. \A i \in 1..Len(lines) : part(i) \in Seq(X)
  OBVIOUS
<1>2. k \in Nat /\ Len(lines) \in Nat /\ k <= Len(lines) /\ k - 1 \in Nat /\ k > 0
  OBVIOUS
<1> HIDE DEF part
<1>3. \A m \in 0..Len(lines) : parts(m) \in Seq(Seq(X)) /\ Len(parts(m)) = m
  <2> TAKE m \in 0..Len(lines)
  <2>1. m \in Nat /\ \A i \in 1..m : part(i) \in Seq(X)
    BY <1>1, <1>2
  <2> QED
    BY <2>1
<1>4. parts(k) = Append(parts(k-1), part(k))
  BY <1>2
<1>5. k \in 0..Len(lines) /\ k - 1 \in 0..Len(lines)
  BY <1>2
<1>6. FlattenSeq(parts(k)) = FlattenSeq(parts(k-1)) \o part(k)
  <2>1. parts(k-1) \in Seq(Seq(X)) /\ part(k) \in Seq(X)
    BY <1>1, <1>2, <1>3, <1>5
  <2> HIDE DEF parts
  <2> QED
    BY <1>4, <2>1, FlattenAppend
<1>7. FlattenSeq(parts(k)) \in Seq(X) /\ FlattenSeq(parts(k-1)) \in Seq(X)
  BY <1>3, <1>5, FlattenType
<1>8. Taken(lines, R, k) = FlattenSeq(parts(k)) /\ Taken(lines, R, k-1) = FlattenSeq(parts(k-1))
  BY DEF Taken, part
<1> HIDE DEF parts
<1>9. CASE k \in R
  <2>1. part(k) = <<>>
    BY <1>9 DEF part
  <2> QED
    BY <1>6, <1>7, <1>8, <1>9, <2>1, ConcatEmptySeq
<1>10. CASE k \notin R
  <2>1. part(k) = <<lines[k]>> /\ lines[k] \in X
    BY <1>2, <1>10 DEF part
  <2> QED
    BY <1>6, <1>7, <1>8, <1>10, <2>1, AppendIsConcat
<1> QED
  BY <1>9, <1>10

LEMMA TakenNone ==
  ASSUME NEW lines, NEW R
  PROVE  Taken(lines, R, 0) = <<>>
<1>1. [i \in 1..0 |-> IF i \in R THEN <<>> ELSE <<lines[i]>>] = <<>>
  OBVIOUS
<1> QED
  BY <1>1, FlattenEmpty DEF Taken

LEMMA ParseOK ==
  ASSUME NEW X, NEW lines \in Seq(X)
  PROVE  ScanOK(Parse(lines)) /\ Parse(lines).lines = lines
<1> DEFINE G == {s \in Seq(X) : ScanOK(Parse(s)) /\ Parse(s).lines = s}
<1>1. <<>> \in G
  BY ParseEmpty, StartOK DEF Start
<1>2. ASSUME NEW s \in Seq(X), NEW line \in X, s \in G PROVE Append(s, line) \in G
  <2>1. Parse(Append(s, line)) = Locate(Parse(s), line)
    BY ParseAppend
  <2>2. ScanOK(Parse(s)) /\ Parse(s).lines = s
    BY <1>2
  <2>3. ScanOK(Parse(Append(s, line)))
    BY <2>1, <2>2, LocateOK
  <2>4. DOMAIN Parse(s) = DocFields
    BY <2>2 DEF ScanOK
  <2>5. Parse(Append(s, line)).lines = Append(s, line)
    <3>1. PICK d : d = Parse(s)
      OBVIOUS
    <3>2. Locate(d, line).lines = Append(d.lines, line)
      BY ZenonT(60), <2>4, <3>1, LocateIs
    <3> QED
      BY <2>1, <2>2, <3>1, <3>2
  <2> QED
    BY <2>3, <2>5
<1> HIDE DEF G
<1>3. lines \in G
  BY <1>1, <1>2, SequencesAre
<1> QED
  BY <1>3 DEF G

LEMMA ScansTo ==
  ASSUME NEW X, NEW lines \in Seq(X), NEW st, Scans(lines, st)
  PROVE  st[Len(lines)] = Parse(lines)
<1> DEFINE n == Len(lines)
<1>1. n \in Nat
  OBVIOUS
<1>2. PICK g : Scans(lines, g) /\ Parse(lines) = g[n]
  BY ParseIs
<1> DEFINE Bad == {j \in 0..n : g[j] # st[j]}
<1>3. ASSUME Bad # {} PROVE FALSE
  <2>1. PICK j \in Bad : \A m \in Bad : j <= m
    BY <1>3, LeastOf, Bad \subseteq Nat
  <2>2. g[j] = (IF j = 0 THEN Start ELSE Locate(g[j-1], lines[j]))
        /\ st[j] = (IF j = 0 THEN Start ELSE Locate(st[j-1], lines[j]))
    BY <1>2 DEF Scans
  <2>3. j # 0 => g[j-1] = st[j-1]
    BY <1>1, <2>1
  <2> QED
    BY <2>2, <2>3
<1>4. n \in 0..n
  BY <1>1
<1> QED
  BY <1>2, <1>3, <1>4

EntryLines(d, E) == UNION {d.entries[i].start..(d.entries[i].end - 1) : i \in E}

\* The lines from a on that stand before line te: blank ones and a table's.
BlockAt(d, a, h, te) ==
  /\ a \in 1..(Len(d.lines) + 1) /\ h \in a..(Len(d.lines) + 1) /\ te \in h..(Len(d.lines) + 1)
  /\ h = te => a = te
  /\ h < te => \E t \in 1..Len(d.tables) : d.tables[t].start = h
  /\ te <= Len(d.lines) => \E t \in 1..Len(d.tables) : d.tables[t].start = te
  /\ \A i \in a..(h-1) : Blank(d.lines[i])

\* A scan of the rest means the same by a line as the scan of the whole, or
\* the latter is in an entry taken out.
Following(f, d, E) ==
  /\ f.table = d.table
  /\ IF Continuing(d.scan) /\ Len(d.entries) \in E THEN ~Continuing(f.scan)
     ELSE Continuing(f.scan) <=> Continuing(d.scan)

TakenOK(f, d, E, k, h, te) ==
  /\ ScanOK(f) /\ Within(f, d)
  /\ IF k \in h..(te-1) THEN ~Continuing(f.scan) ELSE Following(f, d, E)

LEMMA TakenStep ==
  ASSUME NEW X, NEW lines \in Seq(X), NEW st, Scans(lines, st),
         NEW E \in SUBSET (1..Len(st[Len(lines)].entries)),
         NEW a, NEW h, NEW te, BlockAt(st[Len(lines)], a, h, te),
         NEW R, R = EntryLines(st[Len(lines)], E) \cup (a..(te-1)),
         NEW k \in 1..Len(lines), NEW f, TakenOK(f, st[k-1], E, k-1, h, te)
  PROVE  TakenOK(IF k \in R THEN f ELSE Locate(f, lines[k]), st[k], E, k, h, te)
<1> DEFINE n == Len(lines)
           D == st[n]
           d == st[k-1]
           e == st[k]
           l == lines[k]
<1>1. n \in Nat /\ k \in Nat /\ k \in 0..n /\ k - 1 \in 0..n /\ n \in 0..n /\ 1 <= k /\ k <= n
  OBVIOUS
<1>2. e = Locate(d, l) /\ ScanOK(d) /\ ScanOK(D) /\ Len(D.lines) = n
  BY <1>1, StagesOK
<1>3. Steps(d, l, e)
  BY <1>2, LocateSteps
<1>4. ScanOK(f) /\ Within(f, d) /\ ScanOK(Locate(f, l))
      /\ IF k - 1 \in h..(te-1) THEN ~Continuing(f.scan) ELSE Following(f, d, E)
  BY LocateOK DEF TakenOK
<1>5. /\ a \in 1..(n+1) /\ h \in a..(n+1) /\ te \in h..(n+1)
      /\ h = te => a = te
      /\ a \in Nat /\ h \in Nat /\ te \in Nat
  BY <1>1, <1>2 DEF BlockAt
<1>6. \A i \in E : D.entries[i].start \in Nat /\ D.entries[i].end \in Nat
  BY <1>2 DEF ScanOK
<1>7. ASSUME k \in R, ~ k \in a..(te-1)
      PROVE  /\ Len(e.entries) \in E
             /\ Continuing(d.scan) => Len(d.entries) \in E
             /\ ~Continuing(d.scan) => Sets(l)
  <2>1. PICK i \in E : k \in D.entries[i].start..(D.entries[i].end - 1)
    BY <1>7 DEF EntryLines
  <2>2. D.entries[i].start <= k /\ k < D.entries[i].end
    BY <1>1, <1>6, <2>1
  <2>3. /\ Len(e.entries) = i /\ (Continuing(d.scan) => Len(d.entries) = i)
        /\ ~Continuing(d.scan) => Sets(l)
    BY <2>2, EntryLine
  <2> QED
    BY <2>3
<1>8. ASSUME Len(e.entries) \in E, Continuing(d.scan) \/ Sets(l)
      PROVE  k \in R
  <2> DEFINE i == Len(e.entries)
  <2>1. D.entries[i].start <= k /\ k < D.entries[i].end
    BY <1>8, LineOfEntry
  <2>2. k \in D.entries[i].start..(D.entries[i].end - 1)
    BY SMTT(40), <1>1, <1>6, <1>8, <2>1
  <2> QED
    BY <1>8, <2>2 DEF EntryLines
<1>9. \A t \in 1..Len(D.tables) : D.tables[t].start = k => ~Continuing(d.scan) /\ Heads(l)
  BY TableStarts
<1>10. ~Continuing(f.scan) => Within(f, e)
  BY <1>2, <1>4, WithinDropped
<1>11. Continuing(f.scan) => Continuing(d.scan)
  BY <1>4 DEF Within
<1>b. ASSUME k \in a..(h-1) PROVE ~Continuing(d.scan) /\ Blank(l)
  <2>1. h < te
    BY <1>1, <1>5, <1>b
  <2>2. PICK t \in 1..Len(D.tables) : D.tables[t].start = h
    BY <2>1 DEF BlockAt
  <2>3. h \in 1..n /\ a \in 1..h /\ k \in a..h
    BY <1>1, <1>5, <1>b, <2>1
  <2>4. lines = D.lines
    BY ScansTo, ParseOK
  <2>5. \A i \in a..(h-1) : Blank(lines[i])
    BY <2>4 DEF BlockAt
  <2> QED
    BY <1>b, <2>2, <2>3, <2>5, BlanksAbove
<1>12. SUFFICES /\ k \in R => Within(f, e) /\ (IF k \in h..(te-1) THEN ~Continuing(f.scan) ELSE Following(f, e, E))
                /\ k \notin R => /\ Within(Locate(f, l), e)
                                 /\ IF k \in h..(te-1) THEN ~Continuing(Locate(f, l).scan)
                                    ELSE Following(Locate(f, l), e, E)
  BY <1>4 DEF TakenOK
<1>13. CASE k - 1 \in h..(te-1) /\ k # te
  <2>1. k \in h..(te-1) /\ k \in a..(te-1)
    BY <1>1, <1>5, <1>13
  <2> QED
    BY <1>4, <1>10, <1>13, <2>1
<1>14. CASE k - 1 \in h..(te-1) /\ k = te
  <2>1. \E t \in 1..Len(D.tables) : D.tables[t].start = te
    BY <1>1, <1>2, <1>14 DEF BlockAt
  <2>2. ~Continuing(d.scan) /\ Heads(l)
    BY <1>9, <1>14, <2>1
  <2>3. ~ k \in a..(te-1) /\ ~ k \in h..(te-1)
    BY <1>1, <1>5, <1>14
  <2>4. k \notin R
    BY <1>7, <2>2, <2>3, HeadsOrSets
  <2>5. Within(Locate(f, l), e) /\ InStep(Locate(f, l), e) /\ ~Continuing(e.scan)
    BY <1>2, <1>4, <1>14, <2>2, WithinHeader
  <2> QED
    BY <2>3, <2>4, <2>5 DEF Following, InStep
<1>15. CASE ~ k - 1 \in h..(te-1) /\ k \in h..(te-1)
  <2>1. k = h /\ h < te /\ k \in a..(te-1)
    BY <1>1, <1>5, <1>15
  <2>2. \E t \in 1..Len(D.tables) : D.tables[t].start = k
    BY <2>1 DEF BlockAt
  <2>3. ~Continuing(d.scan)
    BY <1>9, <2>2
  <2> QED
    BY <1>10, <1>11, <1>15, <2>1, <2>3
<1>16. CASE ~ k - 1 \in h..(te-1) /\ ~ k \in h..(te-1)
  <2>1. Following(f, d, E)
    BY <1>4, <1>16
  <2>2. CASE k \in a..(te-1)
    <3>1. k \in a..(h-1) /\ k \in R
      BY <1>1, <1>5, <1>16, <2>2
    <3>2. ~Continuing(d.scan) /\ ~Heads(l) /\ ~Sets(l)
      BY <1>b, <3>1 DEF Heads, Sets
    <3>3. e.table = d.table /\ e.scan = d.scan /\ e.entries = d.entries
      BY <1>3, <3>2 DEF Steps
    <3> QED
      BY <1>10, <1>11, <1>16, <2>1, <3>1, <3>2, <3>3 DEF Following
  <2>3. CASE ~ k \in a..(te-1) /\ ~Continuing(d.scan)
    <3>1. CASE k \in R
      <4>1. Sets(l) /\ Len(e.entries) \in E
        BY <1>7, <2>3, <3>1
      <4>2. e.table = d.table
        BY <1>3, <2>3, <4>1, HeadsOrSets DEF Steps
      <4> QED
        BY <1>10, <1>11, <1>16, <2>1, <2>3, <3>1, <4>1, <4>2 DEF Following
    <3>2. CASE k \notin R
      <4>1. InStep(f, d)
        BY <2>1, <2>3 DEF Following, InStep
      <4>2. Within(Locate(f, l), e) /\ InStep(Locate(f, l), e)
        BY <1>2, <1>4, <4>1, WithinBoth
      <4>3. Continuing(e.scan) => Sets(l)
        BY <1>3, <2>3 DEF Steps
      <4>4. Continuing(e.scan) => Len(e.entries) \notin E
        BY <1>8, <3>2, <4>3
      <4> QED
        BY <1>16, <3>2, <4>2, <4>4 DEF Following, InStep
    <3> QED
      BY <3>1, <3>2
  <2>4. CASE ~ k \in a..(te-1) /\ Continuing(d.scan)
    <3>1. Len(e.entries) = Len(d.entries) /\ e.table = d.table
      BY <1>3, <2>4 DEF Steps
    <3>2. CASE Len(d.entries) \in E
      <4>1. k \in R
        BY <1>8, <2>4, <3>1, <3>2
      <4>2. ~Continuing(f.scan)
        BY <2>1, <2>4, <3>2 DEF Following
      <4> QED
        BY <1>10, <1>16, <2>1, <3>1, <3>2, <4>1, <4>2 DEF Following
    <3>3. CASE Len(d.entries) \notin E
      <4>1. k \notin R
        BY <1>7, <2>4, <3>3
      <4>2. InStep(f, d)
        BY <2>1, <3>3 DEF Following, InStep
      <4>3. Within(Locate(f, l), e) /\ InStep(Locate(f, l), e)
        BY <1>2, <1>4, <4>2, WithinBoth
      <4> QED
        BY <1>16, <3>1, <3>3, <4>1, <4>3 DEF Following, InStep
    <3> QED
      BY <3>2, <3>3
  <2> QED
    BY <2>2, <2>3, <2>4
<1> QED
  BY <1>13, <1>14, <1>15, <1>16

\* What a file reads without the lines of some entries and of one table, it
\* reads with them.
LEMMA TakenWithin ==
  ASSUME NEW X, NEW lines \in Seq(X),
         NEW E \in SUBSET (1..Len(Parse(lines).entries)),
         NEW a, NEW h, NEW te, BlockAt(Parse(lines), a, h, te),
         NEW R, R = EntryLines(Parse(lines), E) \cup (a..(te-1))
  PROVE  Within(Parse(Taken(lines, R, Len(lines))), Parse(lines))
<1> DEFINE n == Len(lines)
           F(k) == Parse(Taken(lines, R, k))
<1>1. n \in Nat
  OBVIOUS
<1>2. PICK st : Scans(lines, st) /\ Parse(lines) = st[n]
  BY ParseIs
<1>3. F(0) = Start
  BY TakenNone, ParseEmpty
<1>a. ASSUME NEW k \in 1..Len(lines)
      PROVE  /\ Taken(lines, R, k-1) \in Seq(X) /\ Taken(lines, R, k) \in Seq(X)
             /\ k \in R => Taken(lines, R, k) = Taken(lines, R, k-1)
             /\ k \notin R => Taken(lines, R, k) = Append(Taken(lines, R, k-1), lines[k])
  <2>1. lines \in Seq(X) /\ k \in 1..Len(lines)
    OBVIOUS
  <2> QED
    BY ONLY <2>1, TakenNext
<1>4. \A k \in 1..n : F(k) = IF k \in R THEN F(k-1) ELSE Locate(F(k-1), lines[k])
  <2> TAKE k \in 1..n
  <2>1. /\ Taken(lines, R, k-1) \in Seq(X) /\ lines[k] \in X
        /\ k \in R => Taken(lines, R, k) = Taken(lines, R, k-1)
        /\ k \notin R => Taken(lines, R, k) = Append(Taken(lines, R, k-1), lines[k])
    <3>1. k \in 1..Len(lines)
      OBVIOUS
    <3>2. lines[k] \in X
      BY <3>1
    <3>3. /\ Taken(lines, R, k-1) \in Seq(X) /\ Taken(lines, R, k) \in Seq(X)
          /\ k \in R => Taken(lines, R, k) = Taken(lines, R, k-1)
          /\ k \notin R => Taken(lines, R, k) = Append(Taken(lines, R, k-1), lines[k])
      BY <3>1, <1>a
    <3> QED
      BY <3>2, <3>3
  <2>2. PICK s : s = Taken(lines, R, k-1)
    OBVIOUS
  <2>3. Parse(Append(s, lines[k])) = Locate(Parse(s), lines[k])
    BY <2>1, <2>2, ParseAppend
  <2> QED
    BY <2>1, <2>2, <2>3
<1> HIDE DEF F, n
<1>5. \A k \in 1..n : TakenOK(F(k-1), st[k-1], E, k-1, h, te) => TakenOK(F(k), st[k], E, k, h, te)
  <2> TAKE k \in 1..n
  <2>1. HAVE TakenOK(F(k-1), st[k-1], E, k-1, h, te)
  <2>2. PICK f : f = F(k-1)
    OBVIOUS
  <2>3. TakenOK(IF k \in R THEN f ELSE Locate(f, lines[k]), st[k], E, k, h, te)
    <3> DEFINE m == Len(lines)
    <3>1. /\ Scans(lines, st) /\ k \in 1..m
          /\ E \in SUBSET (1..Len(st[m].entries)) /\ BlockAt(st[m], a, h, te)
          /\ R = EntryLines(st[m], E) \cup (a..(te-1)) /\ TakenOK(f, st[k-1], E, k-1, h, te)
      BY <1>2, <2>1, <2>2 DEF n
    <3> QED
      BY <3>1, TakenStep
  <2> QED
    BY <1>4, <2>2, <2>3
<1>6. TakenOK(F(0), st[0], E, 0, h, te)
  <2>1. st[0] = Start
    BY <1>2, StagesOK
  <2>2. ScanOK(Start) /\ ~Continuing(Start.scan) /\ Len(Start.entries) = 0 /\ Len(Start.tables) = 0
    <3>1. ScanOK(Start)
      BY StartOK
    <3>2. ~Continuing(Start.scan)
      <4>1. Start.scan = Fresh
        BY DEF Start
      <4>2. ~Continuing(Fresh)
        BY DEF Continuing, Fresh
      <4> QED
        BY <4>1, <4>2
    <3>3. Len(Start.entries) = 0 /\ Len(Start.tables) = 0
      BY DEF Start
    <3> QED
      BY <3>1, <3>2, <3>3
  <2>3. ~ 0 \in h..(te-1)
    BY DEF BlockAt
  <2>4. Within(Start, Start)
    BY <2>2 DEF Within
  <2> QED
    BY <1>3, <2>1, <2>2, <2>3, <2>4 DEF TakenOK, Following
<1> DEFINE Bad == {k \in 0..n : ~TakenOK(F(k), st[k], E, k, h, te)}
<1>7. ASSUME Bad # {} PROVE FALSE
  <2>1. PICK j \in Bad : \A m \in Bad : j <= m
    BY <1>1, <1>7, LeastOf, Bad \subseteq Nat
  <2>2. j # 0
    BY <1>6
  <2>3. j \in 1..n /\ j - 1 \in 0..n /\ ~ j <= j - 1
    BY <1>1, <2>2
  <2>4. TakenOK(F(j-1), st[j-1], E, j-1, h, te)
    BY <2>1, <2>3
  <2> QED
    BY <1>5, <2>3, <2>4
<1>8. TakenOK(F(n), st[n], E, n, h, te)
  BY <1>1, <1>7
<1> QED
  BY <1>2, <1>8 DEF TakenOK, F, n

-----------------------------------------------------------------------------
(* What the edit of a switch back takes out                                 *)

LEMMA FlattenNothing ==
  ASSUME NEW ss, IsSeq(ss), \A i \in 1..Len(ss) : ss[i] = <<>>
  PROVE  FlattenSeq(ss) = <<>>
<1>1. ss \in Seq(Seq({}))
  <2>1. ss \in Seq(ToSet(ss)) /\ Len(ss) \in Nat
    BY DEF IsSeq
  <2>2. <<>> \in Seq({})
    OBVIOUS
  <2>3. \A i \in 1..Len(ss) : ss[i] \in Seq({})
    BY <2>2
  <2> QED
    BY <2>1, <2>3
<1>2. FlattenSeq(ss) \in Seq({})
  BY <1>1, FlattenType
<1> QED
  BY <1>2

LEMMA NothingInserted ==
  ASSUME NEW d, NEW table, NEW settings, NEW X, settings \in Seq(X),
         \A i \in 1..Len(settings) : settings[i].value = Missing
  PROVE  ToInsert(d, table, settings) = <<>>
<1> DEFINE new(i) == LET s == settings[i]
                     IN IF s.value # Missing /\ EntryOf(d, table, s.key) = {}
                        THEN <<<<s.key, "=", s.value, "\n">>>> ELSE <<>>
           news == [i \in DOMAIN settings |-> new(i)]
<1>1. DOMAIN settings = 1..Len(settings) /\ Len(settings) \in Nat
  OBVIOUS
<1>2. \A i \in 1..Len(settings) : new(i) = <<>>
  OBVIOUS
<1>3. ToInsert(d, table, settings) = FlattenSeq(news)
  BY DEF ToInsert
<1> HIDE DEF new
<1>4. news \in Seq({<<>>}) /\ Len(news) = Len(settings) /\ \A i \in 1..Len(news) : news[i] = <<>>
  BY <1>1, <1>2
<1> HIDE DEF news
<1>5. IsSeq(news)
  BY <1>4, TypedIsSeq
<1> QED
  BY <1>3, <1>4, <1>5, FlattenNothing

LEMMA SmallestIs ==
  ASSUME NEW S, S \subseteq Nat, NEW none
  PROVE  /\ S = {} => Smallest(S, none) = none
         /\ S # {} => Smallest(S, none) \in S /\ \A i \in S : Smallest(S, none) <= i
<1>1. CASE S = {}
  BY <1>1 DEF Smallest
<1>2. CASE S # {}
  <2>1. \E i \in S : \A j \in S : i <= j
    BY <1>2, LeastOf
  <2> QED
    BY <1>2, <2>1 DEF Smallest
<1> QED
  BY <1>1, <1>2

LEMMA EntryOfIs ==
  ASSUME NEW d, IsSeq(d.entries), NEW table, NEW key
  PROVE  EntryOf(d, table, key) \subseteq {d.entries[i] : i \in 1..Len(d.entries)}
<1> DEFINE found == {i \in DOMAIN d.entries :
                       d.entries[i].table = table /\ d.entries[i].key = <<key>>}
<1>1. DOMAIN d.entries = 1..Len(d.entries) /\ Len(d.entries) \in Nat
  BY SeqFacts
<1>2. found \subseteq Nat /\ found \subseteq 1..Len(d.entries)
  BY <1>1
<1>3. EntryOf(d, table, key) = IF found = {} THEN {} ELSE {d.entries[Smallest(found, 0)]}
  BY DEF EntryOf
<1> HIDE DEF found
<1>4. found # {} => Smallest(found, 0) \in found
  BY <1>2, SmallestIs
<1> QED
  BY <1>2, <1>3, <1>4

LEMMA DroppedAre ==
  ASSUME NEW d, IsSeq(d.entries), NEW table, NEW settings
  PROVE  \E E \in SUBSET (1..Len(d.entries)) : Dropped(d, table, settings) = EntryLines(d, E)
<1> DEFINE K == {x \in ToSet(settings) : x.value = Missing}
           S == UNION {EntryOf(d, table, s.key) : s \in K}
           E == {i \in 1..Len(d.entries) : d.entries[i] \in S}
<1>1. S \subseteq {d.entries[i] : i \in 1..Len(d.entries)}
  BY EntryOfIs
<1>2. Dropped(d, table, settings) = UNION {e.start..(e.end - 1) : e \in S}
  BY DEF Dropped, Lines
<1> HIDE DEF S
<1>3. UNION {e.start..(e.end - 1) : e \in S} = EntryLines(d, E)
  BY <1>1 DEF EntryLines
<1> QED
  BY <1>2, <1>3

LEMMA BlanksBefore ==
  ASSUME NEW lines, NEW at \in Nat \ {0}
  PROVE  /\ Before(lines, at, Blank) \in 1..at
         /\ \A i \in Before(lines, at, Blank)..(at-1) : Blank(lines[i])
<1> DEFINE kept == {i \in 1..(at - 1) : ~Blank(lines[i])}
           b == IF kept = {} THEN 1 ELSE (CHOOSE i \in kept : \A j \in kept : j <= i) + 1
<1>1. Before(lines, at, Blank) = b
  BY DEF Before
<1>2. CASE kept = {}
  <2>1. b = 1
    BY <1>2
  <2>2. \A i \in 1..(at-1) : Blank(lines[i])
    BY <1>2
  <2> QED
    BY <1>1, <2>1, <2>2
<1>3. CASE kept # {}
  <2> DEFINE S == {at - i : i \in kept}
  <2>1. S \subseteq Nat /\ S # {}
    BY <1>3
  <2>2. PICK t \in S : \A u \in S : t <= u
    BY <2>1, LeastOf
  <2>3. PICK i \in kept : t = at - i
    OBVIOUS
  <2>4. ASSUME NEW j \in kept PROVE j <= i
    <3>1. at - j \in S
      OBVIOUS
    <3>2. at - i <= at - j
      BY <2>2, <2>3, <3>1
    <3> QED
      BY <3>2
  <2>5. PICK m \in kept : m = (CHOOSE x \in kept : \A j \in kept : j <= x) /\ \A j \in kept : j <= m
    BY <2>4
  <2>6. b = m + 1 /\ m \in 1..(at-1)
    BY <1>3, <2>5
  <2>7. \A j \in (m+1)..(at-1) : Blank(lines[j])
    <3> TAKE j \in (m+1)..(at-1)
    <3>1. j \in 1..(at-1) /\ ~ j <= m
      BY <2>6
    <3> QED
      BY <2>5, <3>1
  <2>8. b \in 1..at
    BY <2>6
  <2> HIDE DEF b
  <2> QED
    BY <1>1, <2>6, <2>7, <2>8
<1> QED
  BY <1>2, <1>3

LEMMA NoBlock ==
  ASSUME NEW d, Len(d.lines) \in Nat
  PROVE  LET m == Len(d.lines) + 1 IN BlockAt(d, m, m, m) /\ m..(m-1) = {}
<1> DEFINE m == Len(d.lines) + 1
<1>1. m \in 1..(Len(d.lines) + 1) /\ m \in m..(Len(d.lines) + 1) /\ m..(m-1) = {}
      /\ ~ m <= Len(d.lines)
  OBVIOUS
<1> QED
  BY <1>1 DEF BlockAt

LEMMA TableBlockIs ==
  ASSUME NEW d, ScanOK(d)
  PROVE  \E a, h, te : BlockAt(d, a, h, te) /\ TableBlock(d) = a..(te-1)
<1> DEFINE n == Len(d.lines)
           h == TableOf(d, ProviderTable)
           te == TableEnd(d, h)
           a == Before(d.lines, h, Blank)
           S == {t.start : t \in {x \in ToSet(d.tables) : ~x.array /\ x.name = ProviderTable}}
           L == {t.start : t \in {x \in ToSet(d.tables) : x.start > h}}
<1>1. /\ n \in Nat /\ ToSet(d.tables) = {d.tables[t] : t \in 1..Len(d.tables)}
      /\ \A t \in 1..Len(d.tables) : d.tables[t].start \in 1..n
  BY SeqFacts DEF ScanOK, ToSet
<1>2. S \subseteq Nat /\ L \subseteq Nat
  BY <1>1
<1>3. h = Smallest(S, 0) /\ te = Smallest(L, n + 1)
  BY DEF TableOf, TableEnd
<1>b. S = {t.start : t \in {x \in ToSet(d.tables) : ~x.array /\ x.name = ProviderTable}}
  OBVIOUS
<1> HIDE DEF te, h, S
<1>4. CASE h = 0
  <2>1. TableBlock(d) = {}
    BY <1>4 DEF TableBlock, h
  <2> QED
    BY <1>1, <2>1, NoBlock
<1>5. CASE h # 0
  <2>1. h \in S
    <3>1. S # {}
      BY <1>2, <1>3, <1>5, SmallestIs
    <3> QED
      BY <1>2, <1>3, <3>1, SmallestIs
  <2>2. PICK t \in 1..Len(d.tables) : d.tables[t].start = h
    BY <1>1, <1>b, <2>1
  <2>3. h \in 1..n
    BY <1>1, <2>2
  <2>4. /\ te \in (h+1)..(n+1)
        /\ te <= n => \E u \in 1..Len(d.tables) : d.tables[u].start = te
    <3>1. CASE L = {}
      <4>1. te = n + 1
        BY <1>2, <1>3, <3>1, SmallestIs
      <4> QED
        BY <1>1, <2>3, <4>1
    <3>2. CASE L # {}
      <4>1. te \in L
        BY <1>2, <1>3, <3>2, SmallestIs
      <4>2. PICK u \in 1..Len(d.tables) : d.tables[u].start = te /\ te > h
        BY <1>1, <4>1
      <4> QED
        BY <1>1, <2>3, <4>2
    <3> QED
      BY <3>1, <3>2
  <2>5. h \in Nat \ {0}
    BY <2>3
  <2>6. a \in 1..h /\ \A i \in a..(h-1) : Blank(d.lines[i])
    BY <2>5, BlanksBefore
  <2>7. TableBlock(d) = a..(te-1)
    BY <1>5 DEF TableBlock, h, te
  <2> HIDE DEF a
  <2>8. BlockAt(d, a, h, te)
    <3>1. a \in 1..(n+1) /\ h \in a..(n+1) /\ te \in h..(n+1) /\ h < te
      BY <1>1, <2>3, <2>4, <2>6
    <3> QED
      BY <2>2, <2>4, <2>6, <3>1 DEF BlockAt
  <2> QED
    BY <2>7, <2>8
<1> QED
  BY <1>4, <1>5

\* An edit that sets nothing leaves every line it does not drop as it is.
LEMMA OnlyDropped ==
  ASSUME NEW X, NEW lines \in Seq(X), NEW d, d.lines = lines,
         NEW edit, edit.provider = <<>>,
         NEW Y, edit.root \in Seq(Y), \A i \in 1..Len(edit.root) : edit.root[i].value = Missing
  PROVE  Edited(d, edit) =
           Taken(lines, Dropped(d, <<>>, edit.root)
                        \cup (IF edit.drop THEN TableBlock(d) ELSE {}), Len(lines))
<1> DEFINE n        == Len(d.lines)
           h        == TableOf(d, ProviderTable)
           root     == ToInsert(d, <<>>, edit.root)
           provider == ToInsert(d, ProviderTable, edit.provider)
           at       == RootInsertPoint(d)
           newTable == edit.provider # <<>> /\ h = 0
           removed  == Dropped(d, <<>>, edit.root)
                       \cup (IF edit.drop THEN TableBlock(d) ELSE {})
           text(i)  == LET new == Rewritten(d, <<>>, edit.root, i)
                                  \cup Rewritten(d, ProviderTable, edit.provider, i)
                       IN IF new = {} THEN d.lines[i] ELSE CHOOSE l \in new : TRUE
           gap      == IF at <= n /\ ~Blank(d.lines[at]) THEN <<<<"\n">>>> ELSE <<>>
           space    == IF (n # 0 /\ ~Blank(d.lines[n])) \/ (n = 0 /\ root # <<>>)
                       THEN <<<<"\n">>>> ELSE <<>>
           ended(i) == \/ i = h /\ provider # <<>>
                       \/ i = n /\ (newTable \/ (root # <<>> /\ at = n + 1))
           inserted(i) ==
             (IF i = h + 1 /\ h # 0 THEN provider ELSE <<>>)
             \o (IF i = at /\ root # <<>> THEN root \o gap ELSE <<>>)
             \o (IF i = n + 1 /\ newTable
                 THEN space \o <<<<"[">> \o ProviderTable \o <<"]", "\n">>>> \o provider
                 ELSE <<>>)
           kept(i)  == IF i > n \/ i \in removed THEN <<>>
                       ELSE <<IF ended(i) THEN Terminated(text(i)) ELSE text(i)>>
<1>1. Edited(d, edit) = FlattenSeq([i \in 1..(n+1) |-> inserted(i) \o kept(i)])
  BY DEF Edited
<1> HIDE DEF h, at
<1>2. n \in Nat /\ n = Len(lines)
  OBVIOUS
<1>3. root = <<>>
  BY NothingInserted
<1>4. provider = <<>>
  <2>1. <<>> \in Seq({}) /\ Len(<<>>) = 0
    OBVIOUS
  <2>2. \A i \in 1..Len(<<>>) : <<>>[i].value = Missing
    BY <2>1
  <2> QED
    BY <2>1, <2>2, NothingInserted
<1>5. newTable = FALSE
  OBVIOUS
<1>6. \A i : text(i) = lines[i]
  <2>1. \A x \in ToSet(edit.root) : x.value = Missing
    BY DEF ToSet
  <2>2. ToSet(edit.provider) = {}
    BY DEF ToSet
  <2>3. \A i : Rewritten(d, <<>>, edit.root, i) = {}
    BY <2>1 DEF Rewritten
  <2>4. \A i : Rewritten(d, ProviderTable, edit.provider, i) = {}
    BY <2>2 DEF Rewritten
  <2>5. ASSUME NEW i PROVE text(i) = lines[i]
    <3>1. Rewritten(d, <<>>, edit.root, i) \cup Rewritten(d, ProviderTable, edit.provider, i) = {}
      BY <2>3, <2>4
    <3> QED
      BY <3>1
  <2> QED
    BY <2>5
<1> HIDE DEF root, provider, text, newTable, gap, space, removed
<1>7. \A i : inserted(i) = <<>> /\ ~ended(i)
  <2>1. <<>> \o <<>> = <<>>
    OBVIOUS
  <2> QED
    BY <1>3, <1>4, <1>5, <2>1
<1> HIDE DEF inserted, ended
<1> DEFINE part(i) == IF i \in removed THEN <<>> ELSE <<lines[i]>>
           parts == [i \in 1..n |-> part(i)]
<1>8. \A i \in 1..n : inserted(i) \o kept(i) = part(i) /\ part(i) \in Seq(X)
  <2> TAKE i \in 1..n
  <2>1. kept(i) = part(i)
    BY <1>2, <1>6, <1>7
  <2>2. part(i) \in Seq(X)
    BY <1>2
  <2> HIDE DEF part, kept
  <2>3. <<>> \o part(i) = part(i)
    BY <2>2, ConcatEmptySeq
  <2> QED
    BY <1>7, <2>1, <2>2, <2>3
<1>9. inserted(n+1) \o kept(n+1) = <<>>
  <2>1. kept(n+1) = <<>> /\ <<>> \o <<>> = <<>>
    BY <1>2
  <2> QED
    BY <1>7, <2>1
<1> HIDE DEF part, kept
<1>10. parts \in Seq(Seq(X)) /\ Len(parts) = n /\ <<>> \in Seq(X)
  BY <1>2, <1>8
<1>11. [i \in 1..(n+1) |-> inserted(i) \o kept(i)] = Append(parts, <<>>)
  <2> DEFINE all == [i \in 1..(n+1) |-> inserted(i) \o kept(i)]
             app == Append(parts, <<>>)
  <2>1. DOMAIN app = 1..(n+1) /\ app[n+1] = <<>> /\ \A i \in 1..n : app[i] = part(i)
    BY <1>2, <1>10
  <2>2. \A i \in 1..(n+1) : all[i] = app[i]
    <3> TAKE i \in 1..(n+1)
    <3>1. CASE i = n + 1
      BY <1>9, <2>1, <3>1
    <3>2. CASE i # n + 1
      <4>1. i \in 1..n
        BY <1>2, <3>2
      <4> QED
        BY <1>8, <2>1, <4>1
    <3> QED
      BY <3>1, <3>2
  <2>3. app = [i \in 1..(n+1) |-> app[i]]
    <3>1. app \in Seq(Seq(X)) /\ Len(app) = n + 1
      BY <1>10
    <3> QED
      BY <3>1, <2>1
  <2>4. all = [i \in 1..(n+1) |-> all[i]]
    OBVIOUS
  <2> HIDE DEF app, all, n
  <2>5. all = app
    BY <2>2, <2>3, <2>4, Zenon
  <2> QED
    BY <2>5 DEF app, all
<1>12. FlattenSeq(Append(parts, <<>>)) = FlattenSeq(parts) \o <<>> /\ FlattenSeq(parts) \in Seq(X)
  <2> HIDE DEF parts
  <2> QED
    BY <1>10, FlattenAppend, FlattenType
<1>13. FlattenSeq(parts) \o <<>> = FlattenSeq(parts)
  BY <1>12, ConcatEmptySeq
<1>14. Taken(lines, removed, n) = FlattenSeq(parts)
  BY DEF Taken, part
<1> QED
  BY <1>1, <1>2, <1>11, <1>12, <1>13, <1>14 DEF removed

\* What is read after a switch back was read before it.
LEMMA ClearWithin ==
  ASSUME NEW X, NEW lines \in Seq(X)
  PROVE  Within(Parse(Edited(Parse(lines), ClearEdit(Parse(lines)))), Parse(lines))
<1> DEFINE d == Parse(lines)
           edit == ClearEdit(d)
           block == IF edit.drop THEN TableBlock(d) ELSE {}
<1>1. ScanOK(d) /\ d.lines = lines
  BY ParseOK
<1>2. /\ edit.provider = <<>>
      /\ edit.root = IF PointsHere(d)
                     THEN <<Setting("model_provider", Missing), Setting("model", Missing)>>
                     ELSE <<>>
  BY DEF ClearEdit
<1> HIDE DEF d, edit
<1>3. /\ edit.root \in Seq({Setting("model_provider", Missing), Setting("model", Missing)})
      /\ \A i \in 1..Len(edit.root) : edit.root[i].value = Missing
  <2>1. CASE PointsHere(d)
    BY <1>2, <2>1 DEF Setting
  <2>2. CASE ~PointsHere(d)
    BY <1>2, <2>2
  <2> QED
    BY <2>1, <2>2
<1>4. PICK E \in SUBSET (1..Len(d.entries)) : Dropped(d, <<>>, edit.root) = EntryLines(d, E)
  BY <1>1, DroppedAre DEF ScanOK
<1>5. \E a, h, te : BlockAt(d, a, h, te) /\ block = a..(te-1)
  <2>1. CASE edit.drop
    BY <1>1, <2>1, TableBlockIs
  <2>2. CASE ~edit.drop
    <3>1. Len(d.lines) \in Nat
      BY <1>1
    <3> QED
      BY <2>2, <3>1, NoBlock
  <2> QED
    BY <2>1, <2>2
<1>6. PICK a, h, te : BlockAt(d, a, h, te) /\ block = a..(te-1)
  BY <1>5
<1>7. Edited(d, edit) = Taken(lines, EntryLines(d, E) \cup (a..(te-1)), Len(lines))
  <2> DEFINE Y == {Setting("model_provider", Missing), Setting("model", Missing)}
  <2>1. edit.root \in Seq(Y)
    BY <1>3
  <2> HIDE DEF Y
  <2>2. Edited(d, edit) =
          Taken(lines, Dropped(d, <<>>, edit.root)
                       \cup (IF edit.drop THEN TableBlock(d) ELSE {}), Len(lines))
    BY ONLY <1>1, <1>2, <1>3, <2>1, lines \in Seq(X), OnlyDropped
  <2> QED
    BY <1>4, <1>6, <2>2
<1>8. Within(Parse(Taken(lines, EntryLines(d, E) \cup (a..(te-1)), Len(lines))), d)
  BY <1>6, TakenWithin DEF d
<1> QED
  BY <1>7, <1>8 DEF d, edit

-----------------------------------------------------------------------------
(* What an edit makes is a file again                                       *)

LEMMA ConcatIsSeq ==
  ASSUME NEW a, NEW b, IsSeq(a), IsSeq(b)
  PROVE  IsSeq(a \o b)
<1> DEFINE X == ToSet(a) \cup ToSet(b)
<1>1. a \in Seq(X) /\ b \in Seq(X)
  BY DEF IsSeq
<1> HIDE DEF X
<1>2. a \o b \in Seq(X)
  BY <1>1, ConcatProperties
<1> QED
  BY <1>2, TypedIsSeq

LEMMA FlattenIsSeq ==
  ASSUME NEW n \in Nat, NEW parts, DOMAIN parts = 1..n, parts = [i \in 1..n |-> parts[i]],
         \A i \in 1..n : IsSeq(parts[i])
  PROVE  IsSeq(FlattenSeq(parts))
<1> DEFINE X == UNION {ToSet(parts[i]) : i \in 1..n}
<1>1. ASSUME NEW i \in 1..n PROVE parts[i] \in Seq(X)
  <2>1. parts[i] \in Seq(ToSet(parts[i]))
    BY DEF IsSeq
  <2>2. ToSet(parts[i]) \subseteq X
    OBVIOUS
  <2> HIDE DEF X
  <2> QED
    BY <2>1, <2>2
<1> HIDE DEF X
<1>2. parts \in Seq(Seq(X))
  BY <1>1
<1>3. FlattenSeq(parts) \in Seq(X)
  BY <1>2, FlattenType
<1> QED
  BY <1>3, TypedIsSeq

LEMMA TupleIsSeq ==
  /\ IsSeq(<<>>)
  /\ \A x : IsSeq(<<x>>)
<1>1. <<>> \in Seq({})
  OBVIOUS
<1>2. IsSeq(<<>>)
  BY <1>1, TypedIsSeq
<1>3. ASSUME NEW x PROVE IsSeq(<<x>>)
  <2>1. <<x>> \in Seq({x})
    OBVIOUS
  <2> QED
    BY <2>1, TypedIsSeq
<1> QED
  BY <1>2, <1>3

LEMMA InsertIsSeq ==
  ASSUME NEW d, NEW table, NEW settings, IsSeq(settings)
  PROVE  IsSeq(ToInsert(d, table, settings))
<1> DEFINE new(i) == LET s == settings[i]
                     IN IF s.value # Missing /\ EntryOf(d, table, s.key) = {}
                        THEN <<<<s.key, "=", s.value, "\n">>>> ELSE <<>>
           news == [i \in DOMAIN settings |-> new(i)]
<1>1. DOMAIN settings = 1..Len(settings) /\ Len(settings) \in Nat
  BY SeqFacts
<1>2. ASSUME NEW i PROVE IsSeq(new(i))
  <2>1. \E x : new(i) = <<x>> \/ new(i) = <<>>
    OBVIOUS
  <2> HIDE DEF new
  <2> QED
    BY <2>1, TupleIsSeq
<1>3. ToInsert(d, table, settings) = FlattenSeq(news)
  BY DEF ToInsert
<1> HIDE DEF new
<1>4. DOMAIN news = 1..Len(settings) /\ news = [i \in 1..Len(settings) |-> news[i]]
      /\ \A i \in 1..Len(settings) : IsSeq(news[i])
  BY <1>1, <1>2
<1> HIDE DEF news
<1>5. IsSeq(FlattenSeq(news))
  BY <1>1, <1>4, FlattenIsSeq
<1> QED
  BY <1>3, <1>5

LEMMA EditedIsSeq ==
  ASSUME NEW d, Len(d.lines) \in Nat, NEW edit, IsSeq(edit.root), IsSeq(edit.provider)
  PROVE  IsSeq(Edited(d, edit))
<1> DEFINE n        == Len(d.lines)
           h        == TableOf(d, ProviderTable)
           root     == ToInsert(d, <<>>, edit.root)
           provider == ToInsert(d, ProviderTable, edit.provider)
           at       == RootInsertPoint(d)
           newTable == edit.provider # <<>> /\ h = 0
           removed  == Dropped(d, <<>>, edit.root)
                       \cup (IF edit.drop THEN TableBlock(d) ELSE {})
           text(i)  == LET new == Rewritten(d, <<>>, edit.root, i)
                                  \cup Rewritten(d, ProviderTable, edit.provider, i)
                       IN IF new = {} THEN d.lines[i] ELSE CHOOSE l \in new : TRUE
           gap      == IF at <= n /\ ~Blank(d.lines[at]) THEN <<<<"\n">>>> ELSE <<>>
           space    == IF (n # 0 /\ ~Blank(d.lines[n])) \/ (n = 0 /\ root # <<>>)
                       THEN <<<<"\n">>>> ELSE <<>>
           ended(i) == \/ i = h /\ provider # <<>>
                       \/ i = n /\ (newTable \/ (root # <<>> /\ at = n + 1))
           heading  == <<"[">> \o ProviderTable \o <<"]", "\n">>
           first(i) == IF i = h + 1 /\ h # 0 THEN provider ELSE <<>>
           second(i) == IF i = at /\ root # <<>> THEN root \o gap ELSE <<>>
           third(i) == IF i = n + 1 /\ newTable
                       THEN space \o <<heading>> \o provider ELSE <<>>
           kept(i)  == IF i > n \/ i \in removed THEN <<>>
                       ELSE <<IF ended(i) THEN Terminated(text(i)) ELSE text(i)>>
           part(i)  == first(i) \o second(i) \o third(i) \o kept(i)
           parts    == [i \in 1..(n+1) |-> part(i)]
<1>1. Edited(d, edit) = FlattenSeq(parts)
  BY DEF Edited
<1>2. IsSeq(root) /\ IsSeq(provider)
  BY InsertIsSeq
<1>3. IsSeq(gap) /\ IsSeq(space)
  BY TupleIsSeq
<1> HIDE DEF h, at, root, provider, newTable, gap, space, ended, heading, text, removed
<1>4. ASSUME NEW i PROVE IsSeq(part(i))
  <2>1. IsSeq(first(i))
    BY <1>2, TupleIsSeq
  <2>2. IsSeq(second(i))
    BY <1>2, <1>3, TupleIsSeq, ConcatIsSeq
  <2>3. IsSeq(third(i))
    <3>1. IsSeq(<<heading>>)
      BY TupleIsSeq
    <3>2. IsSeq(space \o <<heading>>)
      BY <1>3, <3>1, ConcatIsSeq
    <3>3. IsSeq(space \o <<heading>> \o provider)
      BY <1>2, <3>2, ConcatIsSeq
    <3> QED
      BY <3>3, TupleIsSeq
  <2>4. IsSeq(kept(i))
    <3>1. \E x : kept(i) = <<x>> \/ kept(i) = <<>>
      OBVIOUS
    <3> HIDE DEF kept
    <3> QED
      BY <3>1, TupleIsSeq
  <2> HIDE DEF first, second, third, kept
  <2>5. IsSeq(first(i) \o second(i))
    BY <2>1, <2>2, ConcatIsSeq
  <2>6. IsSeq(first(i) \o second(i) \o third(i))
    BY <2>3, <2>5, ConcatIsSeq
  <2> QED
    BY <2>4, <2>6, ConcatIsSeq
<1> HIDE DEF part
<1>5. n + 1 \in Nat /\ DOMAIN parts = 1..(n+1) /\ parts = [i \in 1..(n+1) |-> parts[i]]
      /\ \A i \in 1..(n+1) : IsSeq(parts[i])
  BY <1>4
<1> HIDE DEF parts
<1>6. IsSeq(FlattenSeq(parts))
  BY <1>5, FlattenIsSeq
<1> QED
  BY <1>1, <1>6

-----------------------------------------------------------------------------
(* What Codex reads of a file and of the file with less in it               *)

LEMMA NamesDiffer ==
  ASSUME NEW d, IsSeq(d.entries), Parses(d),
         NEW i \in 1..Len(d.entries), NEW j \in 1..Len(d.entries),
         FullName(d.entries[i]) = FullName(d.entries[j])
  PROVE  i = j
<1> DEFINE n == Len(d.entries)
           names == [k \in DOMAIN d.entries |-> FullName(d.entries[k])]
<1>1. n \in Nat /\ DOMAIN d.entries = 1..n
  BY SeqFacts
<1>2. Cardinality(ToSet(names)) = Len(names)
  BY DEF Parses
<1>3. names = [k \in 1..n |-> FullName(d.entries[k])]
  BY <1>1
<1> HIDE DEF names
<1>4. Len(names) = n /\ DOMAIN names = 1..n
  BY <1>1, <1>3
<1>5. names \in Surjection(1..n, ToSet(names))
  <2>1. \A k \in 1..n : names[k] \in ToSet(names)
    BY <1>4 DEF ToSet
  <2>2. \A x \in ToSet(names) : \E k \in 1..n : names[k] = x
    BY <1>4 DEF ToSet
  <2>3. names \in [1..n -> ToSet(names)]
    BY <1>3, <2>1
  <2> QED
    BY <2>2, <2>3 DEF Surjection
<1>6. IsFiniteSet(1..n) /\ Cardinality(1..n) = n
  BY <1>1, FS_Interval
<1>7. names \in Injection(1..n, ToSet(names))
  BY <1>2, <1>4, <1>5, <1>6, FS_Surjection
<1>8. names[i] = names[j]
  BY <1>3
<1> QED
  BY <1>7, <1>8 DEF Injection, IsInjective

LEMMA ReadsOne ==
  ASSUME NEW d, IsSeq(d.entries), Parses(d), NEW name, NEW v \in Reads(d, name)
  PROVE  Reads(d, name) = {v}
<1>1. ToSet(d.entries) = {d.entries[i] : i \in 1..Len(d.entries)}
  BY SeqFacts DEF ToSet
<1>2. PICK i \in 1..Len(d.entries) : FullName(d.entries[i]) = name /\ d.entries[i].value = v
  BY <1>1 DEF Reads
<1>3. ASSUME NEW w \in Reads(d, name) PROVE w = v
  <2>1. PICK j \in 1..Len(d.entries) : FullName(d.entries[j]) = name /\ d.entries[j].value = w
    BY <1>1 DEF Reads
  <2>2. i = j
    BY <1>2, <2>1, NamesDiffer
  <2> QED
    BY <1>2, <2>1, <2>2
<1> QED
  BY <1>3

LEMMA EntriesWithin ==
  ASSUME NEW f, NEW d, ScanOK(f), ScanOK(d), Within(f, d), NEW x \in ToSet(f.entries)
  PROVE  \E y \in ToSet(d.entries) : FullName(x) = FullName(y) /\ x.value = y.value
<1>1. /\ ToSet(d.entries) = {d.entries[i] : i \in 1..Len(d.entries)}
      /\ ToSet(f.entries) = {f.entries[i] : i \in 1..Len(f.entries)}
      /\ Len(f.entries) \in Nat /\ Len(d.entries) \in Nat
  BY SeqFacts DEF ToSet, ScanOK
<1>2. PICK i \in 1..Len(f.entries) : x = f.entries[i]
  BY <1>1
<1>3. \E j \in 1..Len(d.entries) : Twins(f.entries[i], d.entries[j])
  <2>1. CASE i < Len(f.entries) \/ ~Continuing(f.scan)
    BY <2>1 DEF Within
  <2>2. CASE ~ i < Len(f.entries) /\ Continuing(f.scan)
    <3>1. i = Len(f.entries) /\ Continuing(d.scan)
      BY <1>1, <2>2 DEF Within
    <3>2. Len(d.entries) \in 1..Len(d.entries)
      BY <1>1, <3>1 DEF ScanOK
    <3> QED
      BY <2>2, <3>1, <3>2 DEF Within
  <2> QED
    BY <2>1, <2>2
<1> QED
  BY <1>1, <1>2, <1>3 DEF Twins, FullName

LEMMA ReadsWithin ==
  ASSUME NEW f, NEW d, ScanOK(f), ScanOK(d), Within(f, d), NEW name
  PROVE  Reads(f, name) \subseteq Reads(d, name)
BY EntriesWithin DEF Reads

LEMMA ProviderWithin ==
  ASSUME NEW f, NEW d, ScanOK(f), ScanOK(d), Within(f, d), HasProvider(f, FALSE)
  PROVE  HasProvider(d, TRUE)
<1>1. /\ ToSet(d.tables) = {d.tables[i] : i \in 1..Len(d.tables)}
      /\ ToSet(f.tables) = {f.tables[i] : i \in 1..Len(f.tables)}
  BY SeqFacts DEF ToSet, ScanOK
<1>2. CASE \E t \in ToSet(f.tables) : Starts(ProviderTable, Plain(t.name))
  <2>1. PICK i \in 1..Len(f.tables) : Starts(ProviderTable, Plain(f.tables[i].name))
    BY <1>1, <1>2
  <2>2. PICK j \in 1..Len(d.tables) : f.tables[i].name = d.tables[j].name
    BY DEF Within
  <2> QED
    BY <1>1, <2>1, <2>2 DEF HasProvider
<1>3. CASE \E e \in ToSet(f.entries) : Starts(Append(ProviderTable, "."), FullName(e))
  <2>1. PICK x \in ToSet(f.entries) : Starts(Append(ProviderTable, "."), FullName(x))
    BY <1>3
  <2>2. PICK y \in ToSet(d.entries) : FullName(x) = FullName(y)
    BY EntriesWithin
  <2> QED
    BY <2>1, <2>2 DEF HasProvider
<1> QED
  BY <1>2, <1>3 DEF HasProvider

-----------------------------------------------------------------------------
(* Lines, with and without their ending                                     *)

Known == {"model", "model_provider", "name", "base_url", "wire_api", "requires_openai_auth",
          "aiguard", "AIGuard", "responses", "true", "model_providers", "."}
Tokens == STRING \cup Marks \cup Known
Line == Seq(Tokens)

LEMMA BodyIs ==
  ASSUME NEW line \in Line
  PROVE  /\ Body(line) \in Line /\ Len(Body(line)) <= Len(line)
         /\ \A i \in 1..Len(Body(line)) : Body(line)[i] = line[i]
         /\ SubSeq(line, Len(Body(line)) + 1, Len(line)) \in {<<>>, <<"\n">>}
         /\ SubSeq(line, Len(Body(line)) + 1, Len(line)) = <<>> =>
              Body(line) = line /\ (line # <<>> => Last(line) # "\n")
<1> USE DEF Line
<1>1. CASE line # <<>> /\ Last(line) = "\n"
  <2>1. Len(line) \in Nat /\ Len(line) > 0 /\ line[Len(line)] = "\n"
    BY <1>1 DEF Last
  <2>2. Body(line) = SubSeq(line, 1, Len(line) - 1)
    BY <1>1 DEF Body, Front
  <2>3. /\ Body(line) \in Line /\ Len(Body(line)) = Len(line) - 1
        /\ \A i \in 1..(Len(line) - 1) : Body(line)[i] = line[i]
    <3>1. PICK n : n = Len(line)
      OBVIOUS
    <3>2. /\ SubSeq(line, 1, n - 1) \in Seq(Tokens) /\ Len(SubSeq(line, 1, n - 1)) = n - 1
          /\ \A i \in 1..(n - 1) : SubSeq(line, 1, n - 1)[i] = line[i]
      BY <2>1, <3>1
    <3> QED
      BY <2>2, <3>1, <3>2
  <2>4. SubSeq(line, Len(line), Len(line)) = <<"\n">>
    <3>1. PICK n : n = Len(line)
      OBVIOUS
    <3>2. SubSeq(line, n, n) = [i \in 1..1 |-> line[n + i - 1]]
      BY <2>1, <3>1
    <3>3. \A i \in 1..1 : n + i - 1 = n
      BY <2>1, <3>1
    <3>4. SubSeq(line, n, n) = [i \in 1..1 |-> "\n"]
      BY <2>1, <3>1, <3>2, <3>3
    <3>5. [i \in 1..1 |-> "\n"] = <<"\n">>
      OBVIOUS
    <3> QED
      BY <3>1, <3>4, <3>5
  <2> HIDE DEF Line
  <2> QED
    BY <2>1, <2>3, <2>4
<1>2. CASE ~ (line # <<>> /\ Last(line) = "\n")
  <2>1. Body(line) = line
    BY <1>2 DEF Body
  <2>2. SubSeq(line, Len(line) + 1, Len(line)) = <<>>
    OBVIOUS
  <2> QED
    BY <1>2, <2>1, <2>2
<1> QED
  BY <1>1, <1>2

LEMMA BodyOf ==
  ASSUME NEW b \in Line
  PROVE  /\ Append(b, "\n") \in Line /\ Body(Append(b, "\n")) = b
         /\ b = <<>> \/ Last(b) # "\n" => Body(b) = b
<1> DEFINE l == Append(b, "\n")
<1>1. /\ l \in Line /\ l # <<>> /\ Len(l) = Len(b) + 1 /\ l[Len(l)] = "\n"
      /\ \A i \in 1..Len(b) : l[i] = b[i]
  <2>1. b \in Seq(Tokens) /\ "\n" \in Tokens
    BY DEF Line, Tokens, Marks
  <2>2. /\ Append(b, "\n") \in Seq(Tokens) /\ Len(Append(b, "\n")) = Len(b) + 1
        /\ Append(b, "\n")[Len(b) + 1] = "\n" /\ Len(Append(b, "\n")) # Len(<<>>)
        /\ \A i \in 1..Len(b) : Append(b, "\n")[i] = b[i]
    BY ONLY <2>1
  <2> QED
    BY <2>2 DEF Line
<1>2. SubSeq(l, 1, Len(l) - 1) = b
  <2>1. Len(b) \in Nat /\ Len(l) - 1 = Len(b)
    BY <1>1 DEF Line
  <2> HIDE DEF l
  <2>2. SubSeq(l, 1, Len(b)) = b
    BY <1>1, <2>1 DEF Line
  <2> QED
    BY <2>1, <2>2
<1> HIDE DEF l
<1>3. Body(l) = b
  BY <1>1, <1>2 DEF Body, Last, Front
<1>4. b = <<>> \/ Last(b) # "\n" => Body(b) = b
  BY DEF Body
<1> QED
  BY <1>1, <1>3, <1>4 DEF l

LEMMA FirstOfIs ==
  ASSUME NEW s, Len(s) \in Nat, NEW ts, NEW from \in Nat \ {0}
  PROVE  LET at == FirstOf(s, ts, from)
         IN /\ at = 0 \/ at \in from..Len(s)
            /\ at = 0 => \A i \in from..Len(s) : s[i] \notin ts
            /\ at # 0 => s[at] \in ts /\ \A i \in from..(at-1) : s[i] \notin ts
<1> DEFINE I == {i \in from..Len(s) : s[i] \in ts}
<1>1. FirstOf(s, ts, from) = IF I # {} THEN Min(I) ELSE 0
  BY DEF FirstOf, SelectInSubSeq
<1>2. CASE I = {}
  BY <1>1, <1>2
<1>3. CASE I # {}
  <2>1. \E x \in I : \A y \in I : x <= y
    BY <1>3, LeastOf, I \subseteq Nat
  <2>2. PICK x \in I : x = Min(I) /\ \A y \in I : x <= y
    BY <2>1 DEF Min
  <2>3. \A i \in from..(x-1) : i \notin I
    BY <2>2
  <2>4. \A i \in from..(x-1) : s[i] \notin ts
    BY <2>2, <2>3
  <2> QED
    BY <1>1, <1>3, <2>2, <2>4
<1> QED
  BY <1>2, <1>3

LEMMA FirstOfAt ==
  ASSUME NEW s, Len(s) \in Nat, NEW ts, NEW from \in Nat \ {0}, NEW at \in from..Len(s),
         s[at] \in ts, \A i \in from..(at-1) : s[i] \notin ts
  PROVE  FirstOf(s, ts, from) = at
<1> DEFINE x == FirstOf(s, ts, from)
<1>1. /\ x = 0 \/ x \in from..Len(s)
      /\ x = 0 => \A i \in from..Len(s) : s[i] \notin ts
      /\ x # 0 => s[x] \in ts /\ \A i \in from..(x-1) : s[i] \notin ts
  BY FirstOfIs
<1> HIDE DEF x
<1>2. x # 0
  BY <1>1
<1>3. ~ x < at /\ ~ at < x
  BY <1>1, <1>2
<1> QED
  BY <1>1, <1>2, <1>3 DEF x

\* The text of a line decides what it is.
LEMMA BodyDecides ==
  ASSUME NEW l \in Line, NEW m \in Line, Body(l) = Body(m)
  PROVE  /\ Blank(l) <=> Blank(m)
         /\ Heads(l) <=> Heads(m)
         /\ Sets(l) <=> Sets(m)
         /\ TableNamed(l) = TableNamed(m) /\ ValueOf(l) = ValueOf(m)
         /\ KeyOf(l) = KeyOf(m) /\ SubSeq(l, 1, Assigns(l) - 1) = SubSeq(m, 1, Assigns(m) - 1)
         /\ Assigns(l) = Assigns(m)
<1> DEFINE b == Body(l)
           at == FirstOf(b, {"=", "#"}, 1)
<1>1. /\ b \in Line /\ Len(b) \in Nat /\ Len(b) <= Len(l) /\ Len(b) <= Len(m)
      /\ Len(l) \in Nat /\ Len(m) \in Nat
      /\ \A i \in 1..Len(b) : l[i] = b[i] /\ m[i] = b[i]
  <2>1. b \in Line /\ Len(b) <= Len(l) /\ \A i \in 1..Len(b) : b[i] = l[i]
    BY BodyIs
  <2>2. Len(b) <= Len(m) /\ \A i \in 1..Len(b) : b[i] = m[i]
    BY BodyIs
  <2> HIDE DEF b
  <2> QED
    BY <2>1, <2>2 DEF Line
<1>2. at = 0 \/ at \in 1..Len(b)
  <2> HIDE DEF b
  <2> QED
    BY <1>1, FirstOfIs
<1>3. /\ Assigns(l) = IF at > 1 /\ l[at] = "=" THEN at ELSE 0
      /\ Assigns(m) = IF at > 1 /\ m[at] = "=" THEN at ELSE 0
  BY DEF Assigns
<1> HIDE DEF at
<1>4. Blank(l) <=> Blank(m)
  BY DEF Blank
<1>5. ~Blank(l) => (Remark(l) <=> Remark(m))
  <2> HAVE ~Blank(l)
  <2>1. b # <<>>
    BY DEF Blank
  <2> HIDE DEF b
  <2>2. 1 \in 1..Len(b)
    BY <1>1, <2>1 DEF Line
  <2> QED
    BY <1>1, <1>4, <2>2 DEF Remark
<1>6. Header(l) = Header(m)
  BY DEF Header
<1>a. Body(m) = b
  OBVIOUS
<1> HIDE DEF b
<1>7. Assigns(l) = Assigns(m) /\ (Assigns(l) = 0 \/ Assigns(l) \in 1..Len(b))
  BY <1>1, <1>2, <1>3
<1>8. SubSeq(l, 1, Assigns(l) - 1) = SubSeq(m, 1, Assigns(m) - 1)
  <2>1. PICK a : a = Assigns(l) /\ a = Assigns(m)
    BY <1>7
  <2>2. a = 0 \/ a \in 1..Len(b)
    BY <1>7, <2>1
  <2>3. SubSeq(l, 1, a - 1) = SubSeq(m, 1, a - 1)
    <3>1. /\ SubSeq(l, 1, a - 1) = [i \in 1..(a - 1) |-> l[i]]
          /\ SubSeq(m, 1, a - 1) = [i \in 1..(a - 1) |-> m[i]]
      BY <1>1, <2>2 DEF Line
    <3>2. \A i \in 1..(a-1) : l[i] = m[i]
      BY <1>1, <2>2
    <3> QED
      BY <3>1, <3>2
  <2> QED
    BY <2>1, <2>3
<1>9. KeyOf(l) = KeyOf(m)
  BY <1>8 DEF KeyOf
<1>10. ValueOf(l) = ValueOf(m)
  BY <1>7 DEF ValueOf
<1> QED
  BY <1>4, <1>5, <1>6, <1>7, <1>8, <1>9, <1>10 DEF Heads, Sets, TableNamed

-----------------------------------------------------------------------------
(* The scan of a line, token by token                                       *)

Folded(s0, tokens) == FoldLeft(ScanToken, s0, tokens)
ScanStages(s0, tokens, st) ==
  st = [k \in 0..Len(tokens) |-> IF k = 0 THEN s0 ELSE ScanToken(st[k-1], tokens[k])]

\* The fold of the library again, for the tokens of a line.
ScanFold(g, s0, tokens, n) ==
  g = [s \in SUBSET (1..n) |->
         IF s = {} THEN s0 ELSE ScanToken(g[s \ {Max(s)}], tokens[Max(s)])]

LEMMA ScanFoldExists ==
  ASSUME NEW s0, NEW tokens, NEW n \in Nat
  PROVE  \E g : ScanFold(g, s0, tokens, n)
<1> DEFINE Subsets(m) == {s \in SUBSET (1..n) : s \subseteq 1..m}
           Step(g, s) == IF s = {} THEN s0 ELSE ScanToken(g[s \ {Max(s)}], tokens[Max(s)])
           On(m, g) == g = [s \in Subsets(m) |-> Step(g, s)]
           Bad == {m \in 0..n : ~ \E g : On(m, g)}
<1>1. Subsets(0) = {{}}
  OBVIOUS
<1>2. On(0, [s \in Subsets(0) |-> s0])
  BY <1>1
<1>3. ASSUME NEW m \in 0..n, NEW s \in Subsets(m), s # {}
      PROVE  Max(s) \in s /\ \A y \in s : y <= Max(s)
  <2>1. s \subseteq Int /\ s \subseteq 1..m /\ m \in Int
    BY <1>3
  <2>2. \E x \in s : \A y \in s : x >= y
    <3> DEFINE T == {m - x : x \in s}
    <3>1. T \subseteq Nat /\ T # {}
      <4>1. \A x \in s : x \in 1..m
        BY <2>1
      <4>2. \A x \in 1..m : m - x \in Nat
        BY <2>1
      <4> QED
        BY <1>3, <4>1, <4>2
    <3>2. PICK t \in T : \A u \in T : t <= u
      BY <3>1, LeastOf
    <3>3. PICK x \in s : t = m - x
      OBVIOUS
    <3>4. ASSUME NEW y \in s PROVE x >= y
      <4>1. m - y \in T
        OBVIOUS
      <4>2. m - x <= m - y
        BY <3>2, <3>3, <4>1
      <4> QED
        BY <4>2, <2>1
    <3> QED
      BY <3>4
  <2> QED
    BY <2>1, <2>2 DEF Max
<1>4. ASSUME NEW m \in 0..n, m # n, NEW g, On(m, g)
      PROVE  \E f : On(m+1, f)
  <2> DEFINE f == [s \in Subsets(m+1) |-> IF s \in Subsets(m) THEN g[s] ELSE Step(g, s)]
  <2>1. ASSUME NEW s \in Subsets(m+1), s # {} PROVE s \ {Max(s)} \in Subsets(m) /\ s \ {Max(s)} \in Subsets(m+1)
    <3>1. m + 1 \in 0..n
      BY <1>4
    <3>2. Max(s) \in s /\ \A y \in s : y <= Max(s)
      BY <1>3, <2>1, <3>1
    <3>3. ASSUME NEW y \in s \ {Max(s)} PROVE y \in 1..m
      <4>1. y \in 1..m+1 /\ Max(s) \in 1..m+1 /\ y <= Max(s) /\ y # Max(s)
        BY <3>2
      <4> QED
        BY <4>1, <1>4
    <3> QED
      BY <3>3
  <2>2. ASSUME NEW s \in Subsets(m+1) PROVE f[s] = Step(f, s)
    <3>1. CASE s = {}
      <4>1. s \in Subsets(m)
        BY <3>1
      <4>2. g[s] = Step(g, s)
        BY <1>4, <4>1
      <4> QED
        BY <3>1, <4>1, <4>2
    <3>2. CASE s # {}
      <4>1. s \ {Max(s)} \in Subsets(m) /\ s \ {Max(s)} \in Subsets(m+1)
        BY <2>1, <3>2
      <4>2. f[s \ {Max(s)}] = g[s \ {Max(s)}]
        BY <4>1
      <4>3. s \in Subsets(m) => g[s] = Step(g, s)
        BY <1>4
      <4>4. f[s] = Step(g, s)
        BY <4>3
      <4> QED
        BY <3>2, <4>2, <4>4
    <3> QED
      BY <3>1, <3>2
  <2> HIDE DEF f
  <2>3. f = [s \in Subsets(m+1) |-> f[s]]
    BY DEF f
  <2>4. f = [s \in Subsets(m+1) |-> Step(f, s)]
    BY <2>2, <2>3, Zenon
  <2> QED
    BY <2>4
<1>5. ASSUME Bad # {} PROVE FALSE
  <2>1. Bad \subseteq Nat
    OBVIOUS
  <2>2. PICK m \in Bad : \A k \in Bad : m <= k
    BY <1>5, <2>1, LeastOf
  <2> HIDE DEF On
  <2>3. m # 0
    BY <1>2
  <2>4. m - 1 \in 0..n /\ m - 1 # n /\ m - 1 + 1 = m /\ ~ m <= m - 1
    BY <2>3
  <2>5. PICK g : On(m-1, g)
    BY <2>2, <2>4
  <2>6. \E f : On(m-1+1, f)
    BY <1>4, <2>4, <2>5
  <2> QED
    BY <2>2, <2>4, <2>6
<1>6. PICK g : On(n, g)
  <2>1. n \in 0..n
    OBVIOUS
  <2> QED
    BY <1>5, <2>1
<1>7. Subsets(n) = SUBSET (1..n)
  OBVIOUS
<1> QED
  BY <1>6, <1>7, Zenon DEF ScanFold

LEMMA ScanFoldIs ==
  ASSUME NEW s0, NEW X, NEW tokens \in Seq(X)
  PROVE  \E st : ScanStages(s0, tokens, st) /\ Folded(s0, tokens) = st[Len(tokens)]
<1> DEFINE n == Len(tokens)
           g == CHOOSE h : ScanFold(h, s0, tokens, n)
<1>1. n \in Nat /\ DOMAIN tokens = 1..n
  OBVIOUS
<1>2. g = [s \in SUBSET (1..n) |->
             IF s = {} THEN s0 ELSE ScanToken(g[s \ {Max(s)}], tokens[Max(s)])]
  <2>1. \E h : ScanFold(h, s0, tokens, n)
    BY <1>1, ScanFoldExists, Zenon
  <2>2. ScanFold(g, s0, tokens, n)
    BY <2>1, Zenon
  <2> HIDE DEF g
  <2> QED
    BY <2>2 DEF ScanFold
<1>3. Folded(s0, tokens) = g[1..n]
  BY <1>1 DEF Folded, FoldLeft, MapThenFoldSet, ScanFold
<1> HIDE DEF g
<1> DEFINE st == [k \in 0..n |-> g[1..k]]
<1>4. ASSUME NEW k \in 0..n
      PROVE  st[k] = IF k = 0 THEN s0 ELSE ScanToken(st[k-1], tokens[k])
  <2>1. CASE k = 0
    BY <1>2, <2>1
  <2>2. CASE k # 0
    <3>1. k \in 1..n /\ k-1 \in 0..n /\ 1..k # {} /\ 1..k \in SUBSET (1..n)
      <4>1. k \in Nat /\ k # 0 /\ k <= n
        BY <2>2, <1>1
      <4>2. \A i \in 1..k : i \in 1..n
        BY <4>1, <1>1
      <4>3. k \in 1..k
        BY <4>1
      <4>4. 1..k # {} /\ 1..k \in SUBSET (1..n)
        BY <4>2, <4>3
      <4> QED
        BY <4>1, <4>2, <4>3, <4>4, <1>1
    <3>2. Max(1..k) = k
      BY <3>1 DEF Max
    <3>3. (1..k) \ {k} = 1..(k-1)
      BY <3>1
    <3>4. g[1..k] = ScanToken(g[1..(k-1)], tokens[k])
      BY <1>2, <3>1, <3>2, <3>3
    <3> QED
      BY <2>2, <3>1, <3>4
  <2> QED
    BY <2>1, <2>2
<1>5. st[n] = Folded(s0, tokens)
  BY <1>1, <1>3
<1>6. st = [k \in 0..n |-> st[k]]
  OBVIOUS
<1> HIDE DEF st
<1>7. st = [k \in 0..n |-> IF k = 0 THEN s0 ELSE ScanToken(st[k-1], tokens[k])]
  BY <1>4, <1>6, Zenon
<1> QED
  BY <1>5, <1>7 DEF ScanStages
Nil == ""
Quotes == {"\"\"\"", "'''"}
Opens == {"[", "{"}
Closes == {"]", "}"}
Opening == Quotes \cup Opens \cup Closes \cup {"#"}

\* The state of the scan between two lines and in a line, and after a "#".
State(m, k) == [multiline |-> m, depth |-> k, remark |-> FALSE]
Remarked(m, k) == [multiline |-> m, depth |-> k, remark |-> TRUE]
Settled(s) == \E m \in Quotes \cup {Nil}, k \in Nat : s = State(m, k)

LEMMA StateIs ==
  \A m, k : /\ State(m, k).multiline = m /\ State(m, k).depth = k
            /\ Remarked(m, k).multiline = m /\ Remarked(m, k).depth = k
BY DEF State, Remarked

LEMMA StateRemark == \A m, k : ~State(m, k).remark /\ Remarked(m, k).remark
BY Zenon DEF State, Remarked

LEMMA StateExcept ==
  \A m, k, x : /\ [State(m, k) EXCEPT !.multiline = x] = State(x, k)
               /\ [State(m, k) EXCEPT !.depth = x] = State(m, x)
               /\ [State(m, k) EXCEPT !.remark = TRUE] = Remarked(m, k)
<1> SUFFICES ASSUME NEW m, NEW k, NEW x
             PROVE  /\ [State(m, k) EXCEPT !.multiline = x] = State(x, k)
                    /\ [State(m, k) EXCEPT !.depth = x] = State(m, x)
                    /\ [State(m, k) EXCEPT !.remark = TRUE] = Remarked(m, k)
  OBVIOUS
<1>1. \A f, t : [[multiline |-> m, depth |-> k, remark |-> f] EXCEPT !.remark = t]
                = [multiline |-> m, depth |-> k, remark |-> t]
  OBVIOUS
<1>2. \A f : [[multiline |-> m, depth |-> k, remark |-> f] EXCEPT !.multiline = x]
             = [multiline |-> x, depth |-> k, remark |-> f]
  OBVIOUS
<1>3. \A f : [[multiline |-> m, depth |-> k, remark |-> f] EXCEPT !.depth = x]
             = [multiline |-> m, depth |-> x, remark |-> f]
  OBVIOUS
<1>4. [State(m, k) EXCEPT !.remark = TRUE] = Remarked(m, k)
  BY <1>1, Zenon DEF State, Remarked
<1>5. [State(m, k) EXCEPT !.multiline = x] = State(x, k)
  BY <1>2, Zenon DEF State
<1>6. [State(m, k) EXCEPT !.depth = x] = State(m, x)
  BY <1>3, Zenon DEF State
<1> QED
  BY <1>4, <1>5, <1>6, Zenon

LEMMA FreshState == State(Nil, 0) = Fresh
<1>1. Fresh = [multiline |-> Nil, depth |-> 0, remark |-> FALSE]
  BY Zenon DEF Fresh, Nil
<1>2. State(Nil, 0) = Fresh
  BY <1>1 DEF State
<1> QED
  BY <1>2

LEMMA ContinuingIs == \A s : Continuing(s) <=> s.multiline # Nil \/ s.depth > 0
BY Zenon DEF Continuing, Nil

LEMMA ScanLineIs ==
  \A s, X : ScanLine(s, X) = State(Folded(s, X).multiline, Folded(s, X).depth)
BY Zenon DEF ScanLine, State, Folded

LEMMA ScanTokenIs ==
  ASSUME NEW s, NEW t
  PROVE  /\ s.remark => ScanToken(s, t) = s
         /\ ~s.remark /\ s.multiline # Nil =>
              ScanToken(s, t) = IF t = s.multiline THEN [s EXCEPT !.multiline = Nil] ELSE s
         /\ ~s.remark /\ s.multiline = Nil =>
              /\ t \in Quotes => ScanToken(s, t) = [s EXCEPT !.multiline = t]
              /\ t = "#" => ScanToken(s, t) = [s EXCEPT !.remark = TRUE]
              /\ t \in Opens => ScanToken(s, t) = [s EXCEPT !.depth = @ + 1]
              /\ t \in Closes /\ s.depth > 0 => ScanToken(s, t) = [s EXCEPT !.depth = @ - 1]
              /\ t \in Closes /\ ~ s.depth > 0 => ScanToken(s, t) = s
              /\ t \notin Opening => ScanToken(s, t) = s
<1>1. CASE s.remark
  BY <1>1, Zenon DEF ScanToken
<1>2. CASE ~s.remark /\ s.multiline # Nil
  BY <1>2, Zenon DEF ScanToken, Nil
<1>3. CASE ~s.remark /\ s.multiline = Nil
  <2>1. ScanToken(s, t) =
          CASE t \in {"\"\"\"", "'''"} -> [s EXCEPT !.multiline = t]
            [] t = "#" -> [s EXCEPT !.remark = TRUE]
            [] t \in {"[", "{"} -> [s EXCEPT !.depth = @ + 1]
            [] t \in {"]", "}"} /\ s.depth > 0 -> [s EXCEPT !.depth = @ - 1]
            [] OTHER -> s
    BY <1>3, Zenon DEF ScanToken, Nil
  <2>2. t \in Quotes => ScanToken(s, t) = [s EXCEPT !.multiline = t]
    BY <2>1, Zenon DEF Quotes
  <2>3. t = "#" => ScanToken(s, t) = [s EXCEPT !.remark = TRUE]
    BY <2>1, Zenon
  <2>4. t \in Opens => ScanToken(s, t) = [s EXCEPT !.depth = @ + 1]
    BY <2>1, Zenon DEF Opens
  <2>5. t \in Closes /\ s.depth > 0 => ScanToken(s, t) = [s EXCEPT !.depth = @ - 1]
    BY <2>1, Zenon DEF Closes
  <2>6. t \in Closes /\ ~ s.depth > 0 => ScanToken(s, t) = s
    BY <2>1, Zenon DEF Closes
  <2>7. t \notin Opening => ScanToken(s, t) = s
    BY <2>1, Zenon DEF Opening, Opens, Closes, Quotes
  <2> QED
    BY <1>3, <2>2, <2>3, <2>4, <2>5, <2>6, <2>7
<1> QED
  BY <1>1, <1>2, <1>3

LEMMA MarksApart ==
  /\ "#" \notin Quotes \cup Opens \cup Closes
  /\ Nil \notin Opening
  /\ \A t \in Opens : t \notin Quotes \cup Closes
  /\ \A t \in Closes : t \notin Quotes
BY Zenon DEF Nil, Opening, Opens, Closes, Quotes

LEMMA TokenSettles ==
  ASSUME NEW m \in Quotes \cup {Nil}, NEW k \in Nat, NEW t
  PROVE  /\ ScanToken(Remarked(m, k), t) = Remarked(m, k)
         /\ t \notin Opening => ScanToken(State(m, k), t) = State(m, k)
         /\ m = Nil /\ t = "#" => ScanToken(State(m, k), t) = Remarked(m, k)
         /\ \E x \in Quotes \cup {Nil}, j \in Nat :
              ScanToken(State(m, k), t) \in {State(x, j), Remarked(x, j)}
<1>1. PICK s : s = State(m, k)
  OBVIOUS
<1>2. /\ s.multiline = m /\ s.depth = k /\ ~s.remark
      /\ \A x : [s EXCEPT !.multiline = x] = State(x, k)
      /\ \A x : [s EXCEPT !.depth = x] = State(m, x)
      /\ [s EXCEPT !.remark = TRUE] = Remarked(m, k)
  <2>1. s.multiline = m /\ s.depth = k
    BY <1>1, StateIs
  <2>2. ~s.remark
    BY <1>1, StateRemark, Zenon
  <2>3. \A x : [s EXCEPT !.multiline = x] = State(x, k)
    <3>1. \A x : [State(m, k) EXCEPT !.multiline = x] = State(x, k)
      BY StateExcept, Zenon
    <3> QED
      BY <1>1, <3>1, Zenon
  <2>4. \A x : [s EXCEPT !.depth = x] = State(m, x)
    <3>1. \A x : [State(m, k) EXCEPT !.depth = x] = State(m, x)
      BY StateExcept, Zenon
    <3> QED
      BY <1>1, <3>1, Zenon
  <2>5. [s EXCEPT !.remark = TRUE] = Remarked(m, k)
    BY <1>1, StateExcept, Zenon
  <2> QED
    BY <2>1, <2>2, <2>3, <2>4, <2>5, Zenon
<1>a. k + 1 \in Nat /\ (k > 0 => k - 1 \in Nat)
  OBVIOUS
<1>3. ScanToken(Remarked(m, k), t) = Remarked(m, k)
  BY StateRemark, ScanTokenIs, Zenon
<1>4. CASE m # Nil
  <2>1. ScanToken(s, t) = IF t = m THEN State(Nil, k) ELSE s
    BY <1>2, <1>4, ScanTokenIs, Zenon
  <2>2. m \in Opening
    BY <1>4 DEF Opening
  <2> QED
    BY <1>1, <1>3, <1>4, <2>1, <2>2, Zenon
<1>5. CASE m = Nil
  <2> DEFINE y == ScanToken(s, t)
  <2>1. /\ t \in Quotes => y = State(t, k)
        /\ t = "#" => y = Remarked(m, k)
        /\ t \in Opens => y = State(m, k + 1)
        /\ t \in Closes /\ k > 0 => y = State(m, k - 1)
        /\ t \in Closes /\ ~ k > 0 => y = s
        /\ t \notin Opening => y = s
    <3>1. /\ t \in Quotes => y = [s EXCEPT !.multiline = t]
          /\ t = "#" => y = [s EXCEPT !.remark = TRUE]
          /\ t \in Opens => y = [s EXCEPT !.depth = @ + 1]
          /\ t \in Closes /\ s.depth > 0 => y = [s EXCEPT !.depth = @ - 1]
          /\ t \in Closes /\ ~ s.depth > 0 => y = s
          /\ t \notin Opening => y = s
      BY <1>2, <1>5, ScanTokenIs, Zenon
    <3> HIDE DEF y
    <3>2. [s EXCEPT !.depth = @ + 1] = State(m, k + 1)
          /\ [s EXCEPT !.depth = @ - 1] = State(m, k - 1)
      BY <1>2
    <3> QED
      BY <1>2, <3>1, <3>2, Zenon
  <2> HIDE DEF y
  <2>2. \E x \in Quotes \cup {Nil}, j \in Nat : y \in {State(x, j), Remarked(x, j)}
    BY <1>1, <1>5, <1>a, <2>1, Zenon DEF Opening
  <2> QED
    BY <1>1, <1>3, <1>5, <2>1, <2>2, Zenon DEF y
<1> QED
  BY <1>4, <1>5

LEMMA LineSettles ==
  ASSUME NEW s, Settled(s), NEW X, NEW tokens \in Seq(X)
  PROVE  /\ Settled(ScanLine(s, tokens))
         /\ (\A i \in 1..Len(tokens) : tokens[i] \notin Opening) => ScanLine(s, tokens) = s
<1> DEFINE n == Len(tokens)
           OK(x) == \E m \in Quotes \cup {Nil}, k \in Nat : x \in {State(m, k), Remarked(m, k)}
<1>1. n \in Nat
  OBVIOUS
<1>2. PICK st : ScanStages(s, tokens, st) /\ Folded(s, tokens) = st[n]
  BY ScanFoldIs
<1>3. st[0] = s /\ \A k \in 1..n : st[k] = ScanToken(st[k-1], tokens[k])
  BY <1>1, <1>2 DEF ScanStages
<1>4. OK(s)
  BY Zenon DEF Settled
<1> HIDE DEF n
<1>a. ASSUME NEW x, NEW t, OK(x) PROVE OK(ScanToken(x, t))
  <2>1. PICK m \in Quotes \cup {Nil}, k \in Nat : x \in {State(m, k), Remarked(m, k)}
    BY <1>a, Zenon
  <2>2. CASE x = State(m, k)
    <3>1. \E y \in Quotes \cup {Nil}, j \in Nat :
             ScanToken(State(m, k), t) \in {State(y, j), Remarked(y, j)}
      BY TokenSettles, Zenon
    <3> QED
      BY <2>2, <3>1, Zenon
  <2>3. CASE x = Remarked(m, k)
    <3>1. ScanToken(Remarked(m, k), t) = Remarked(m, k)
      BY TokenSettles, Zenon
    <3> QED
      BY <2>3, <3>1, Zenon
  <2> QED
    BY <2>1, <2>2, <2>3, Zenon
<1> HIDE DEF OK
<1>5. \A k \in 0..n : OK(st[k])
  <2> DEFINE Bad == {k \in 0..n : ~OK(st[k])}
  <2>1. ASSUME Bad # {} PROVE FALSE
    <3>1. PICK j \in Bad : \A m \in Bad : j <= m
      BY <1>1, <2>1, LeastOf, Bad \subseteq Nat
    <3>2. j # 0
      BY <1>3, <1>4
    <3>3. j \in 1..n /\ j - 1 \in 0..n /\ ~ j <= j - 1
      BY <1>1, <3>2
    <3>4. OK(st[j-1])
      BY <3>1, <3>3
    <3> QED
      BY <1>3, <1>a, <3>3, <3>4
  <2> QED
    BY <2>1
<1>6. Settled(ScanLine(s, tokens))
  <2>1. n \in 0..n
    BY <1>1
  <2>2. PICK m \in Quotes \cup {Nil}, k \in Nat : st[n] \in {State(m, k), Remarked(m, k)}
    BY <1>5, <2>1 DEF OK
  <2>3. Folded(s, tokens).multiline = m /\ Folded(s, tokens).depth = k
    <3>1. Folded(s, tokens) = State(m, k) \/ Folded(s, tokens) = Remarked(m, k)
      BY <1>2, <2>2, Zenon
    <3>2. /\ State(m, k).multiline = m /\ State(m, k).depth = k
          /\ Remarked(m, k).multiline = m /\ Remarked(m, k).depth = k
      BY StateIs
    <3> QED
      BY <3>1, <3>2, Zenon
  <2>4. ScanLine(s, tokens) = State(m, k)
    BY <2>3, ScanLineIs, Zenon
  <2> QED
    BY <2>4, Zenon DEF Settled
<1>7. ASSUME \A i \in 1..n : tokens[i] \notin Opening PROVE ScanLine(s, tokens) = s
  <2>0. PICK m \in Quotes \cup {Nil}, k \in Nat : s = State(m, k)
    BY Zenon DEF Settled
  <2>a. \A t : t \notin Opening => ScanToken(s, t) = s
    BY <2>0, TokenSettles, Zenon
  <2> DEFINE Bad == {j \in 0..n : st[j] # s}
  <2>1. ASSUME Bad # {} PROVE FALSE
    <3>1. PICK j \in Bad : \A i \in Bad : j <= i
      BY <1>1, <2>1, LeastOf, Bad \subseteq Nat
    <3>2. j # 0
      BY <1>3
    <3>3. j \in 1..n /\ j - 1 \in 0..n /\ ~ j <= j - 1
      BY <1>1, <3>2
    <3>4. st[j-1] = s
      BY <3>1, <3>3
    <3> QED
      BY <1>3, <1>7, <2>a, <3>3, <3>4
  <2>2. st[n] = s
    BY <1>1, <2>1
  <2>3. Folded(s, tokens).multiline = m /\ Folded(s, tokens).depth = k
    <3>1. Folded(s, tokens) = State(m, k)
      BY <1>2, <2>0, <2>2, Zenon
    <3>2. State(m, k).multiline = m /\ State(m, k).depth = k
      BY StateIs
    <3> QED
      BY <3>1, <3>2, Zenon
  <2>4. ScanLine(s, tokens) = State(m, k)
    BY <2>3, ScanLineIs, Zenon
  <2> QED
    BY <2>0, <2>4
<1> QED
  BY <1>6, <1>7 DEF n

\* A value of one token, and what may be remarked after it.
LEMMA ValueScan ==
  ASSUME NEW X, NEW tokens \in Seq(X), Len(tokens) > 0, tokens[1] \notin Opening,
         Len(tokens) > 1 => tokens[2] = "#"
  PROVE  ScanLine(Fresh, tokens) = Fresh
<1> DEFINE n == Len(tokens)
           A == State(Nil, 0)
           B == Remarked(Nil, 0)
           On(k) == IF k > 1 THEN B ELSE A
<1>0. Fresh = A
  BY FreshState
<1>1. n \in Nat /\ n > 0 /\ Fresh = A
  <2> HIDE DEF A
  <2> QED
    BY <1>0
<1>2. PICK st : ScanStages(Fresh, tokens, st) /\ Folded(Fresh, tokens) = st[n]
  BY ScanFoldIs
<1>3. st[0] = A /\ \A k \in 1..n : st[k] = ScanToken(st[k-1], tokens[k])
  <2> HIDE DEF A
  <2> QED
    BY <1>1, <1>2 DEF ScanStages
<1>4. n > 1 => tokens[2] = "#"
  OBVIOUS
<1> HIDE DEF n
<1>a. /\ ScanToken(A, tokens[1]) = A
      /\ n > 1 => ScanToken(A, tokens[2]) = B
      /\ \A t : ScanToken(B, t) = B
  <2>1. Nil \in Quotes \cup {Nil} /\ 0 \in Nat
    OBVIOUS
  <2> QED
    BY <1>4, <2>1, TokenSettles, Zenon
<1> HIDE DEF A, B
<1> DEFINE Bad == {k \in 0..n : st[k] # On(k)}
<1>5. ASSUME Bad # {} PROVE FALSE
  <2>1. PICK j \in Bad : \A m \in Bad : j <= m
    BY <1>1, <1>5, LeastOf, Bad \subseteq Nat
  <2>2. j # 0
    BY <1>1, <1>3
  <2>3. j \in 1..n /\ j - 1 \in 0..n /\ ~ j <= j - 1 /\ j \in Nat
    BY <1>1, <2>2
  <2>4. st[j-1] = On(j-1)
    BY <2>1, <2>3
  <2>6. CASE j = 1
    BY <1>1, <1>3, <1>a, <2>3, <2>4, <2>6
  <2>7. CASE j = 2
    BY <1>1, <1>3, <1>a, <2>3, <2>4, <2>7
  <2>8. CASE j > 2
    BY <1>1, <1>3, <1>a, <2>3, <2>4, <2>8
  <2> QED
    BY <2>3, <2>6, <2>7, <2>8
<1>6. st[n] = A \/ st[n] = B
  BY <1>1, <1>5
<1>7. Folded(Fresh, tokens).multiline = Nil /\ Folded(Fresh, tokens).depth = 0
  <2>1. Folded(Fresh, tokens) = A \/ Folded(Fresh, tokens) = B
    BY <1>2, <1>6, Zenon
  <2>2. A.multiline = Nil /\ A.depth = 0 /\ B.multiline = Nil /\ B.depth = 0
    BY StateIs DEF A, B
  <2> QED
    BY <2>1, <2>2, Zenon
<1>8. ScanLine(Fresh, tokens) = A
  BY <1>7, ScanLineIs, Zenon DEF A
<1> QED
  BY <1>1, <1>8

-----------------------------------------------------------------------------
(* Whose lines are whose                                                    *)

Managed == {<<"model">>, <<"model_provider">>}
OwnEntry(e, n) == e.end > n /\ e.table = <<>> /\ e.key \in Managed

LEMMA OwnedIs ==
  ASSUME NEW d, IsSeq(d.entries)
  PROVE  IsOwn(d) <=> \/ d.table = ProviderTable
                      \/ Len(d.entries) > 0 /\ OwnEntry(d.entries[Len(d.entries)], Len(d.lines))
<1>1. d.entries # <<>> <=> Len(d.entries) > 0
  <2>1. d.entries \in Seq(ToSet(d.entries))
    BY DEF IsSeq
  <2> QED
    BY <2>1
<1>2. Last(d.entries) = d.entries[Len(d.entries)]
  BY DEF Last
<1> QED
  BY <1>1, <1>2, Zenon DEF IsOwn, OwnEntry, Managed

LEMMA PrefixNext ==
  ASSUME NEW X, NEW s \in Seq(X), NEW k \in 1..Len(s)
  PROVE  /\ SubSeq(s, 1, k-1) \in Seq(X) /\ SubSeq(s, 1, k) \in Seq(X) /\ s[k] \in X
         /\ SubSeq(s, 1, k) = Append(SubSeq(s, 1, k-1), s[k])
<1>1. Len(s) \in Nat /\ k \in Nat /\ k <= Len(s) /\ k > 0 /\ \A i \in 1..Len(s) : s[i] \in X
  OBVIOUS
<1>2. SubSeq(s, 1, k-1) \in Seq(X) /\ SubSeq(s, 1, k) \in Seq(X)
  <2>1. 1 \in Int /\ k \in Int /\ k-1 \in Int /\ (\A i \in 1..k : s[i] \in X) /\ \A i \in 1..(k-1) : s[i] \in X
    BY <1>1
  <2> QED
    BY <2>1, SubSeqProperties
<1>3. SubSeq(s, 1, k) = SubSeq(s, 1, k-1) \o <<s[k]>>
  <2>1. 1 \in 1..Len(s) /\ k \in 1..Len(s)
    BY <1>1
  <2> QED
    BY <2>1, SubSeqRecursiveSecond
<1> QED
  BY <1>1, <1>2, <1>3, AppendIsConcat

LEMMA PrefixEnds ==
  ASSUME NEW X, NEW s \in Seq(X)
  PROVE  SubSeq(s, 1, 0) = <<>> /\ SubSeq(s, 1, Len(s)) = s
BY SubSeqEmpty, SubSeqFull

LEMMA PrefixStage ==
  ASSUME NEW X, NEW lines \in Seq(X), NEW st, Scans(lines, st), NEW k \in 0..Len(lines)
  PROVE  Parse(SubSeq(lines, 1, k)) = st[k]
<1> DEFINE n == Len(lines)
           P(j) == Parse(SubSeq(lines, 1, j))
           Bad == {j \in 0..n : P(j) # st[j]}
<1>1. n \in Nat
  OBVIOUS
<1>2. st[0] = Start /\ \A j \in 1..n : st[j] = Locate(st[j-1], lines[j])
  BY StagesOK
<1>3. P(0) = Start
  BY PrefixEnds, ParseEmpty
<1>4. ASSUME NEW j \in 1..n PROVE P(j) = Locate(P(j-1), lines[j])
  <2>1. PICK s : s = SubSeq(lines, 1, j-1)
    OBVIOUS
  <2>2. s \in Seq(X) /\ lines[j] \in X /\ SubSeq(lines, 1, j) = Append(s, lines[j])
    BY <2>1, PrefixNext
  <2> QED
    BY <2>1, <2>2, ParseAppend
<1> HIDE DEF P
<1>5. ASSUME Bad # {} PROVE FALSE
  <2>1. PICK j \in Bad : \A m \in Bad : j <= m
    BY <1>1, <1>5, LeastOf, Bad \subseteq Nat
  <2>2. j # 0
    BY <1>2, <1>3
  <2>3. j \in 1..n /\ j - 1 \in 0..n /\ ~ j <= j - 1
    BY <1>1, <2>2
  <2>4. P(j-1) = st[j-1]
    BY <2>1, <2>3
  <2> QED
    BY <1>2, <1>4, <2>3, <2>4
<1>6. P(k) = st[k]
  BY <1>5
<1> QED
  BY <1>6 DEF P

\* The operator's lines of a file and one line more.
LEMMA OperatorAppend ==
  ASSUME NEW s \in Seq(Line), NEW l \in Line
  PROVE  /\ OperatorLines(s) \in Seq(Line)
         /\ Blank(l) \/ IsOwn(Parse(Append(s, l))) =>
              OperatorLines(Append(s, l)) = OperatorLines(s)
         /\ ~ (Blank(l) \/ IsOwn(Parse(Append(s, l)))) =>
              OperatorLines(Append(s, l)) = Append(OperatorLines(s), Body(l))
<1> DEFINE n == Len(s)
           t == Append(s, l)
           part(q, i) == IF Blank(q[i]) \/ IsOwn(Parse(SubSeq(q, 1, i))) THEN <<>> ELSE <<Body(q[i])>>
           parts(q) == [i \in DOMAIN q |-> part(q, i)]
<1>1. n \in Nat /\ DOMAIN s = 1..n /\ \A i \in 1..n : s[i] \in Line
  OBVIOUS
<1>2. t \in Seq(Line) /\ Len(t) = n + 1 /\ DOMAIN t = 1..(n+1) /\ t[n+1] = l
      /\ \A i \in 1..n : t[i] = s[i]
  OBVIOUS
<1>3. \A i \in 1..n : SubSeq(t, 1, i) = SubSeq(s, 1, i)
  <2> TAKE i \in 1..n
  <2>1. SubSeq(t, 1, i) = [j \in 1..i |-> t[j]] /\ SubSeq(s, 1, i) = [j \in 1..i |-> s[j]]
    BY <1>1, <1>2
  <2>2. \A j \in 1..i : t[j] = s[j]
    BY <1>1, <1>2
  <2> QED
    BY <2>1, <2>2
<1>4. SubSeq(t, 1, n+1) = t
  BY <1>2, PrefixEnds
<1>a. OperatorLines(s) = FlattenSeq(parts(s)) /\ OperatorLines(t) = FlattenSeq(parts(t))
  BY DEF OperatorLines
<1>b. \A i \in 1..n : part(t, i) = part(s, i)
  BY <1>2, <1>3
<1>c. part(t, n+1) = IF Blank(l) \/ IsOwn(Parse(t)) THEN <<>> ELSE <<Body(l)>>
  BY <1>2, <1>4
<1>d. \A q, i : q[i] \in Line => part(q, i) \in Seq(Line)
  BY BodyIs
<1> HIDE DEF t, part
<1>5. parts(s) \in Seq(Seq(Line)) /\ Len(parts(s)) = n
  BY <1>1, <1>d
<1>6. part(t, n+1) \in Seq(Line)
  BY <1>2, <1>d
<1>7. parts(t) = Append(parts(s), part(t, n+1))
  BY <1>1, <1>2, <1>5, <1>6, <1>b
<1> HIDE DEF parts
<1>8. FlattenSeq(parts(t)) = FlattenSeq(parts(s)) \o part(t, n+1) /\ FlattenSeq(parts(s)) \in Seq(Line)
  BY <1>5, <1>6, <1>7, FlattenAppend, FlattenType
<1>9. CASE Blank(l) \/ IsOwn(Parse(t))
  BY <1>8, <1>9, <1>a, <1>c, ConcatEmptySeq DEF t
<1>10. CASE ~ (Blank(l) \/ IsOwn(Parse(t)))
  <2>1. Body(l) \in Line
    BY BodyIs
  <2> QED
    BY <1>8, <1>10, <1>a, <1>c, <2>1, AppendIsConcat DEF t
<1> QED
  BY <1>8, <1>9, <1>10, <1>a DEF t

LEMMA OperatorEmpty == OperatorLines(<<>>) = <<>>
<1>1. [i \in DOMAIN <<>> |-> IF Blank(<<>>[i]) \/ IsOwn(Parse(SubSeq(<<>>, 1, i))) THEN <<>>
                             ELSE <<Body(<<>>[i])>>] = <<>>
  OBVIOUS
<1> QED
  BY <1>1, FlattenEmpty DEF OperatorLines

-----------------------------------------------------------------------------
(* Two scans that take the next line for the same                           *)

Kin(x, y) == x.table = y.table /\ x.key = y.key
LastKin(f, d) == Kin(f.entries[Len(f.entries)], d.entries[Len(d.entries)])

\* Where the last line of an entry is, and whose.
LEMMA LineOwner ==
  ASSUME NEW d, ScanOK(d), NEW line
  PROVE  LET e == Locate(d, line)
             x == e.entries[Len(e.entries)]
             n == Len(e.lines)
         IN /\ Continuing(d.scan) =>
                 /\ Len(e.entries) > 0 /\ x.end > n /\ e.table = d.table
                 /\ Kin(x, d.entries[Len(d.entries)])
            /\ ~Continuing(d.scan) /\ Sets(line) =>
                 /\ Len(e.entries) > 0 /\ x.end > n /\ e.table = d.table
                 /\ x.table = d.table /\ x.key = KeyOf(line)
            /\ ~Continuing(d.scan) /\ ~Sets(line) =>
                 /\ Len(e.entries) > 0 => ~ x.end > n
                 /\ e.table = IF Heads(line) THEN TableNamed(line) ELSE d.table
<1> DEFINE e == Locate(d, line)
           m == Len(d.entries)
           n == Len(d.lines) + 1
<1>1. Steps(d, line, e)
  BY LocateSteps
<1>2. m \in Nat /\ n \in Nat /\ Len(d.lines) \in Nat
  BY SeqFacts DEF ScanOK
<1> HIDE DEF e
<1>3. Len(e.lines) = n
  BY <1>1 DEF Steps
<1>4. CASE Continuing(d.scan)
  <2>1. /\ m > 0 /\ e.table = d.table /\ Len(e.entries) = m
        /\ e.entries[m] = Continued(d.entries[m], n, Body(line))
    BY <1>1, <1>4 DEF Steps
  <2>2. PICK x : x = d.entries[m]
    OBVIOUS
  <2>3. DOMAIN x = EntryFields
    <3>1. m \in 1..Len(d.entries)
      BY <1>2, <2>1
    <3> QED
      BY <2>2, <3>1 DEF ScanOK
  <2>4. PICK y : y = e.entries[m]
    OBVIOUS
  <2>a. y = Continued(x, n, Body(line))
    BY <2>1, <2>2, <2>4
  <2>5. y.end = n + 1 /\ y.table = x.table /\ y.key = x.key
    BY <2>a, <2>3, ContinuedIs
  <2>6. y.end > n
    BY <1>2, <2>5
  <2> QED
    BY <1>3, <1>4, <2>1, <2>2, <2>4, <2>5, <2>6 DEF Kin, e
<1>5. CASE ~Continuing(d.scan) /\ Sets(line)
  <2>1. /\ e.table = d.table /\ Len(e.entries) = m + 1
        /\ e.entries[m + 1] = NewEntry(d.table, line, n)
    BY <1>1, <1>5, HeadsOrSets DEF Steps
  <2>2. PICK y : y = e.entries[m+1]
    OBVIOUS
  <2>3. y.end = n + 1 /\ y.table = d.table /\ y.key = KeyOf(line)
    BY <2>1, <2>2, NewEntryIs
  <2>4. y.end > n /\ m + 1 > 0
    BY <1>2, <2>3
  <2> QED
    BY <1>3, <1>5, <2>1, <2>2, <2>3, <2>4 DEF e
<1>6. CASE ~Continuing(d.scan) /\ ~Sets(line)
  <2>1. /\ e.entries = d.entries
        /\ e.table = IF Heads(line) THEN TableNamed(line) ELSE d.table
    BY <1>1, <1>6 DEF Steps
  <2>2. ASSUME m > 0 PROVE ~ d.entries[m].end > n
    <3>1. m \in 1..Len(d.entries)
      BY <1>2, <2>2
    <3>2. PICK v : v = d.entries[m].end
      OBVIOUS
    <3>3. v \in Nat /\ v <= Len(d.lines) + 1
      BY <3>1, <3>2 DEF ScanOK
    <3>4. ~ v > n
      BY <1>2, <3>3
    <3> QED
      BY <3>2, <3>4
  <2> QED
    BY <1>3, <1>6, <2>1, <2>2 DEF e
<1> QED
  BY <1>4, <1>5, <1>6

\* Lines of the same text have the same owner, in two scans of which either
\* both are reading the value of one key, or neither a value.
LEMMA SameOwner ==
  ASSUME NEW f, NEW d, ScanOK(f), ScanOK(d), NEW m \in Line, NEW l \in Line, Body(m) = Body(l),
         Continuing(f.scan) <=> Continuing(d.scan),
         Continuing(d.scan) => LastKin(f, d),
         f.table = d.table \/ (~Continuing(d.scan) /\ Heads(l))
  PROVE  /\ IsOwn(Locate(f, m)) <=> IsOwn(Locate(d, l))
         /\ Locate(f, m).table = Locate(d, l).table
         /\ Continuing(Locate(d, l).scan) => LastKin(Locate(f, m), Locate(d, l))
<1> DEFINE f1 == Locate(f, m)
           d1 == Locate(d, l)
           x == f1.entries[Len(f1.entries)]
           y == d1.entries[Len(d1.entries)]
<1>1. /\ ScanOK(f1) /\ ScanOK(d1)
      /\ IsSeq(f1.entries) /\ IsSeq(d1.entries)
  <2>1. ScanOK(f1) /\ ScanOK(d1)
    BY LocateOK
  <2> QED
    BY <2>1 DEF ScanOK
<1>2. /\ Sets(m) <=> Sets(l)
      /\ Heads(m) <=> Heads(l)
      /\ TableNamed(m) = TableNamed(l) /\ KeyOf(m) = KeyOf(l)
  BY BodyDecides
<1>3. /\ Continuing(f.scan) =>
           /\ Len(f1.entries) > 0 /\ x.end > Len(f1.lines) /\ f1.table = f.table
           /\ Kin(x, f.entries[Len(f.entries)])
      /\ ~Continuing(f.scan) /\ Sets(m) =>
           /\ Len(f1.entries) > 0 /\ x.end > Len(f1.lines) /\ f1.table = f.table
           /\ x.table = f.table /\ x.key = KeyOf(m)
      /\ ~Continuing(f.scan) /\ ~Sets(m) =>
           /\ Len(f1.entries) > 0 => ~ x.end > Len(f1.lines)
           /\ f1.table = IF Heads(m) THEN TableNamed(m) ELSE f.table
  BY LineOwner
<1>4. /\ Continuing(d.scan) =>
           /\ Len(d1.entries) > 0 /\ y.end > Len(d1.lines) /\ d1.table = d.table
           /\ Kin(y, d.entries[Len(d.entries)])
      /\ ~Continuing(d.scan) /\ Sets(l) =>
           /\ Len(d1.entries) > 0 /\ y.end > Len(d1.lines) /\ d1.table = d.table
           /\ y.table = d.table /\ y.key = KeyOf(l)
      /\ ~Continuing(d.scan) /\ ~Sets(l) =>
           /\ Len(d1.entries) > 0 => ~ y.end > Len(d1.lines)
           /\ d1.table = IF Heads(l) THEN TableNamed(l) ELSE d.table
  BY LineOwner
<1>5. ~Continuing(d.scan) /\ ~Sets(l) => Continuing(d1.scan) = Continuing(d.scan)
  <2>1. Steps(d, l, d1)
    BY LocateSteps
  <2> QED
    BY <2>1 DEF Steps
<1>6. /\ IsOwn(f1) <=> (f1.table = ProviderTable \/ (Len(f1.entries) > 0 /\ OwnEntry(x, Len(f1.lines))))
      /\ IsOwn(d1) <=> (d1.table = ProviderTable \/ (Len(d1.entries) > 0 /\ OwnEntry(y, Len(d1.lines))))
  BY <1>1, OwnedIs
<1> HIDE DEF f1, d1, x, y
<1>7. CASE Continuing(d.scan)
  <2>1. Kin(x, y) /\ f1.table = d1.table
    BY <1>3, <1>4, <1>7 DEF Kin, LastKin
  <2>2. IsOwn(f1) <=> IsOwn(d1)
    BY <1>3, <1>4, <1>6, <1>7, <2>1 DEF Kin, OwnEntry
  <2> QED
    BY <2>1, <2>2 DEF f1, d1, x, y, LastKin
<1>8. CASE ~Continuing(d.scan) /\ Sets(l)
  <2>1. ~Heads(l)
    BY <1>8, HeadsOrSets
  <2>2. Kin(x, y) /\ f1.table = d1.table
    BY <1>2, <1>3, <1>4, <1>8, <2>1 DEF Kin
  <2>3. IsOwn(f1) <=> IsOwn(d1)
    BY <1>2, <1>3, <1>4, <1>6, <1>8, <2>2 DEF Kin, OwnEntry
  <2> QED
    BY <2>2, <2>3 DEF f1, d1, x, y, LastKin
<1>9. CASE ~Continuing(d.scan) /\ ~Sets(l)
  <2>1. f1.table = d1.table
    BY <1>2, <1>3, <1>4, <1>9
  <2>2. IsOwn(f1) <=> IsOwn(d1)
    BY <1>2, <1>3, <1>4, <1>6, <1>9, <2>1 DEF OwnEntry
  <2> QED
    BY <1>5, <1>9, <2>1, <2>2 DEF f1, d1
<1> QED
  BY <1>7, <1>8, <1>9

-----------------------------------------------------------------------------
(* What a switch back takes out is AIGuard's                                *)

LEMMA HeaderHasTable ==
  ASSUME NEW X, NEW lines \in Seq(X), NEW st, Scans(lines, st), NEW k \in 1..Len(lines),
         ~Continuing(st[k-1].scan), Heads(lines[k])
  PROVE  \E t \in 1..Len(st[Len(lines)].tables) : st[Len(lines)].tables[t].start = k
<1> DEFINE n == Len(lines)
           D == st[n]
           m == Len(st[k-1].tables)
<1>1. n \in Nat /\ k \in Nat /\ k \in 0..n /\ k - 1 \in 0..n /\ n \in k..n /\ n \in 0..n
  OBVIOUS
<1>2. /\ st[k] = Locate(st[k-1], lines[k])
      /\ ScanOK(st[k-1]) /\ Len(st[k-1].lines) = k - 1
      /\ Grows(st[k], D)
  BY <1>1, StagesOK
<1>3. Steps(st[k-1], lines[k], st[k])
  BY <1>2, LocateSteps
<1>4. m \in Nat
  BY <1>2, SeqFacts DEF ScanOK
<1> HIDE DEF D, n
<1>5. /\ Len(st[k].tables) = m + 1
      /\ st[k].tables[m + 1] = NewTable(lines[k], k - 1 + 1)
  BY <1>2, <1>3, HeadsOrSets DEF Steps
<1>6. m + 1 \in 1..Len(st[k].tables) /\ k - 1 + 1 = k
  BY <1>1, <1>4, <1>5
<1>7. /\ D.tables[m + 1] = st[k].tables[m + 1] /\ Len(st[k].tables) <= Len(D.tables)
      /\ Len(D.tables) \in Nat
  <2>1. ScanOK(D)
    BY <1>1, StagesOK DEF D, n
  <2> QED
    BY <1>2, <1>6, <2>1, SeqFacts DEF Grows, ScanOK
<1>8. m + 1 \in 1..Len(D.tables)
  BY <1>4, <1>5, <1>7
<1>9. D.tables[m + 1].start = k
  BY <1>5, <1>6, <1>7 DEF NewTable
<1> QED
  BY <1>8, <1>9 DEF D, n

LEMMA TableStays ==
  ASSUME NEW X, NEW lines \in Seq(X), NEW st, Scans(lines, st),
         NEW j \in 0..Len(lines), NEW k \in j..Len(lines),
         \A t \in 1..Len(st[Len(lines)].tables) : st[Len(lines)].tables[t].start \notin (j+1)..k
  PROVE  st[k].table = st[j].table
<1> DEFINE n == Len(lines)
           Bad == {i \in j..k : st[i].table # st[j].table}
<1>1. n \in Nat /\ j \in Nat /\ k \in Nat /\ k <= n
  OBVIOUS
<1>2. ASSUME NEW i \in (j+1)..k PROVE st[i].table = st[i-1].table
  <2>1. i \in 1..n /\ i - 1 \in 0..n
    BY <1>1
  <2>2. ~ (~Continuing(st[i-1].scan) /\ Heads(lines[i]))
    <3> SUFFICES ASSUME ~Continuing(st[i-1].scan), Heads(lines[i]) PROVE FALSE
      OBVIOUS
    <3>1. \E t \in 1..Len(st[Len(lines)].tables) : st[Len(lines)].tables[t].start = i
      BY <2>1, HeaderHasTable
    <3> QED
      BY <3>1
  <2>3. ScanOK(st[i-1]) /\ st[i] = Locate(st[i-1], lines[i])
    BY <2>1, StagesOK
  <2>4. Steps(st[i-1], lines[i], st[i])
    BY <2>3, LocateSteps
  <2> QED
    BY <2>2, <2>4 DEF Steps
<1>3. ASSUME Bad # {} PROVE FALSE
  <2>1. PICK i \in Bad : \A m \in Bad : i <= m
    BY <1>1, <1>3, LeastOf, Bad \subseteq Nat
  <2>2. i # j
    OBVIOUS
  <2>3. i \in (j+1)..k /\ i - 1 \in j..k /\ ~ i <= i - 1
    BY <1>1, <2>2
  <2>4. st[i-1].table = st[j].table
    BY <2>1, <2>3
  <2> QED
    BY <1>2, <2>3, <2>4
<1>4. k \in j..k
  BY <1>1
<1> QED
  BY <1>3, <1>4

LEMMA EndIs ==
  ASSUME NEW d, ScanOK(d), NEW h \in Nat
  PROVE  /\ TableEnd(d, h) \in (h+1)..(Len(d.lines)+1) \/ TableEnd(d, h) = Len(d.lines) + 1
         /\ \A t \in 1..Len(d.tables) : d.tables[t].start > h => TableEnd(d, h) <= d.tables[t].start
         /\ TableEnd(d, h) <= Len(d.lines) =>
              \E t \in 1..Len(d.tables) : d.tables[t].start = TableEnd(d, h)
<1> DEFINE n == Len(d.lines)
           L == {t.start : t \in {x \in ToSet(d.tables) : x.start > h}}
<1>1. /\ n \in Nat /\ ToSet(d.tables) = {d.tables[t] : t \in 1..Len(d.tables)}
      /\ \A t \in 1..Len(d.tables) : d.tables[t].start \in 1..n
  BY SeqFacts DEF ScanOK, ToSet
<1>2. L \subseteq Nat
  BY <1>1
<1>3. TableEnd(d, h) = Smallest(L, n + 1)
  BY DEF TableEnd
<1>4. \A t \in 1..Len(d.tables) : d.tables[t].start > h => d.tables[t].start \in L
  BY <1>1
<1>5. \A x \in L : x > h /\ x \in 1..n /\ \E t \in 1..Len(d.tables) : d.tables[t].start = x
  BY <1>1
<1> HIDE DEF L
<1>6. PICK te : te = TableEnd(d, h)
  OBVIOUS
<1>7. CASE L = {}
  <2>1. te = n + 1
    BY <1>2, <1>3, <1>6, <1>7, SmallestIs
  <2> QED
    BY <1>1, <1>4, <1>6, <1>7, <2>1
<1>8. CASE L # {}
  <2>1. te \in L /\ \A x \in L : te <= x
    <3>1. Smallest(L, n + 1) \in L /\ \A x \in L : Smallest(L, n + 1) <= x
      BY <1>2, <1>8, SmallestIs, Zenon
    <3> QED
      BY <1>3, <1>6, <3>1
  <2>2. te \in (h+1)..(n+1) /\ \E t \in 1..Len(d.tables) : d.tables[t].start = te
    BY <1>1, <1>5, <2>1
  <2> QED
    BY <1>4, <1>6, <2>1, <2>2
<1> QED
  BY <1>7, <1>8

\* The lines from the provider table's header to the next one are in it.
LEMMA ProviderLines ==
  ASSUME NEW X, NEW lines \in Seq(X), NEW st, Scans(lines, st),
         NEW h, h = TableOf(st[Len(lines)], ProviderTable), h # 0
  PROVE  /\ h \in 1..Len(lines) /\ Heads(lines[h])
         /\ ~Continuing(st[h-1].scan) /\ ~Continuing(st[h].scan)
         /\ \A k \in h..(TableEnd(st[Len(lines)], h) - 1) :
              k \in 1..Len(lines) /\ st[k].table = ProviderTable
         /\ \E t \in 1..Len(st[Len(lines)].tables) : st[Len(lines)].tables[t].start = h
<1> DEFINE n == Len(lines)
           D == st[n]
           S == {t.start : t \in {x \in ToSet(D.tables) : ~x.array /\ x.name = ProviderTable}}
<1>1. n \in Nat /\ n \in 0..n
  OBVIOUS
<1>2. ScanOK(D) /\ Len(D.lines) = n
  BY <1>1, StagesOK
<1>3. /\ ToSet(D.tables) = {D.tables[t] : t \in 1..Len(D.tables)}
      /\ \A t \in 1..Len(D.tables) : D.tables[t].start \in 1..n
  <2> HIDE DEF D
  <2> QED
    BY <1>2, SeqFacts DEF ScanOK, ToSet
<1>4. h = Smallest(S, 0)
  BY Zenon DEF TableOf
<1>5. S \subseteq Nat
  <2>1. \A x \in ToSet(D.tables) : x.start \in Nat
    BY <1>3
  <2> HIDE DEF D
  <2> QED
    BY <2>1
<1>6. h \in S
  <2> HIDE DEF S
  <2>1. S # {}
    BY <1>4, <1>5, SmallestIs
  <2>2. Smallest(S, 0) \in S
    BY <1>5, <2>1, SmallestIs, Zenon
  <2> QED
    BY <1>4, <2>2
<1>7. PICK x \in ToSet(D.tables) : ~x.array /\ x.name = ProviderTable /\ x.start = h
  BY <1>6, Zenon
<1> HIDE DEF S
<1>8. PICK t \in 1..Len(D.tables) : x = D.tables[t]
  BY <1>3
<1>9. h \in 1..n /\ D.tables[t].start = h
  BY <1>3, <1>7, <1>8
<1>10. ~Continuing(st[h-1].scan) /\ Heads(lines[h]) /\ D.tables[t] = NewTable(lines[h], h)
  BY <1>9, TableStarts
<1>11. ~Header(lines[h]).array /\ Header(lines[h]).name = ProviderTable
  <2>1. x = NewTable(lines[h], h)
    BY <1>8, <1>10
  <2>2. NewTable(lines[h], h).name = Header(lines[h]).name
    BY DEF NewTable
  <2>3. NewTable(lines[h], h).array = Header(lines[h]).array
    BY Zenon DEF NewTable
  <2> QED
    BY <1>7, <2>1, <2>2, <2>3, Zenon
<1>12. TableNamed(lines[h]) = ProviderTable
  <2>1. TableNamed(lines[h]) = <<>> \o ProviderTable
    BY <1>11, Zenon DEF TableNamed
  <2>2. <<>> \o ProviderTable = ProviderTable
    <3>1. ProviderTable \in Seq({"model_providers", ".", "aiguard"})
      BY DEF ProviderTable
    <3> QED
      BY <3>1, ConcatEmptySeq
  <2> QED
    BY <2>1, <2>2
<1>13. /\ st[h] = Locate(st[h-1], lines[h]) /\ ScanOK(st[h-1])
  <2>1. h - 1 \in 0..n
    BY <1>1, <1>9
  <2> QED
    BY <1>9, <2>1, StagesOK
<1>14. Steps(st[h-1], lines[h], st[h])
  BY <1>13, LocateSteps
<1> HIDE DEF D
<1>15. st[h].table = ProviderTable /\ st[h].scan = st[h-1].scan
  BY <1>10, <1>12, <1>14, HeadsOrSets DEF Steps
<1>16. ASSUME NEW k \in h..(TableEnd(D, h) - 1)
       PROVE  k \in 1..n /\ st[k].table = ProviderTable
  <2>1. PICK te : te = TableEnd(D, h)
    OBVIOUS
  <2>2. /\ te \in (h+1)..(n+1) \/ te = n + 1
        /\ \A u \in 1..Len(D.tables) : D.tables[u].start > h => te <= D.tables[u].start
    <3>1. h \in Nat
      BY <1>1, <1>9
    <3> QED
      BY <1>2, <2>1, <3>1, EndIs
  <2>3. k \in h..(te-1) /\ k \in h..n /\ h \in 0..n /\ k \in 1..n
    BY <1>1, <1>9, <2>1, <2>2
  <2>4. \A u \in 1..Len(D.tables) : D.tables[u].start \notin (h+1)..k
    <3> SUFFICES ASSUME NEW u \in 1..Len(D.tables), D.tables[u].start \in (h+1)..k PROVE FALSE
      OBVIOUS
    <3>1. PICK v : v = D.tables[u].start
      OBVIOUS
    <3>2. v > h => te <= v
      BY <2>2, <3>1
    <3>3. v \in (h+1)..k
      BY <3>1
    <3> QED
      BY <1>9, <2>2, <2>3, <3>2, <3>3
  <2>5. st[k].table = st[h].table
    BY <2>3, <2>4, TableStays DEF D
  <2> QED
    BY <1>15, <2>3, <2>5
<1> QED
  BY <1>9, <1>10, <1>15, <1>16 DEF D

\* The lines of an entry, in the scan as far as each of them.
LEMMA EntryOwner ==
  ASSUME NEW X, NEW lines \in Seq(X), NEW st, Scans(lines, st),
         NEW i \in 1..Len(st[Len(lines)].entries), NEW k \in 1..Len(lines),
         st[Len(lines)].entries[i].start <= k, k < st[Len(lines)].entries[i].end
  PROVE  LET x == st[k].entries[Len(st[k].entries)]
         IN /\ Len(st[k].entries) > 0 /\ x.end > Len(st[k].lines)
            /\ Kin(x, st[Len(lines)].entries[i])
            /\ SameEntry(x, st[Len(lines)].entries[i])
            /\ st[k].table = st[k-1].table
<1> DEFINE n == Len(lines)
           D == st[n]
<1>1. n \in Nat /\ k \in 0..n /\ k - 1 \in 0..n /\ n \in k..n /\ n \in 0..n
  OBVIOUS
<1>2. /\ st[k] = Locate(st[k-1], lines[k]) /\ ScanOK(st[k-1])
      /\ Grows(st[k], D)
  BY <1>1, StagesOK
<1>3. /\ Len(st[k].entries) = i
      /\ Continuing(st[k-1].scan) => Len(st[k-1].entries) = i
      /\ ~Continuing(st[k-1].scan) => Sets(lines[k])
  BY EntryLine
<1> HIDE DEF D
<1>4. /\ Len(st[k].entries) > 0 /\ st[k].entries[i].end > Len(st[k].lines)
      /\ st[k].table = st[k-1].table
  BY <1>2, <1>3, LineOwner
<1>5. SameEntry(st[k].entries[i], D.entries[i])
  <2>1. i \in 1..Len(st[k].entries)
    BY <1>3
  <2> QED
    BY <1>2, <2>1 DEF Grows
<1> QED
  BY <1>3, <1>4, <1>5 DEF D, n, Kin, SameEntry

LEMMA EntryOfHas ==
  ASSUME NEW d, IsSeq(d.entries), NEW table, NEW key, NEW e \in EntryOf(d, table, key)
  PROVE  \E i \in 1..Len(d.entries) : d.entries[i] = e /\ e.table = table /\ e.key = <<key>>
<1> DEFINE found == {i \in DOMAIN d.entries : d.entries[i].table = table /\ d.entries[i].key = <<key>>}
<1>1. DOMAIN d.entries = 1..Len(d.entries) /\ Len(d.entries) \in Nat
  BY SeqFacts
<1>2. found # {} /\ e = d.entries[Smallest(found, 0)]
  BY DEF EntryOf
<1>3. found \subseteq Nat
  BY <1>1
<1> HIDE DEF found
<1>4. Smallest(found, 0) \in found
  BY <1>2, <1>3, SmallestIs
<1> QED
  BY <1>1, <1>2, <1>4 DEF found

\* The lines of a managed key at the top.
LEMMA DroppedOwned ==
  ASSUME NEW X, NEW lines \in Seq(X), NEW st, Scans(lines, st),
         NEW settings, \A s \in ToSet(settings) : <<s.key>> \in Managed,
         NEW k \in Dropped(st[Len(lines)], <<>>, settings)
  PROVE  k \in 1..Len(lines) /\ IsOwn(st[k])
<1> DEFINE n == Len(lines)
           D == st[n]
<1>1. n \in Nat /\ n \in 0..n
  OBVIOUS
<1>2. ScanOK(D) /\ Len(D.lines) = n
  BY <1>1, StagesOK
<1> HIDE DEF D
<1>a. k \in Dropped(D, <<>>, settings)
  BY DEF D
<1>b. PICK s \in ToSet(settings) : \E e \in EntryOf(D, <<>>, s.key) : k \in e.start..(e.end - 1)
  BY <1>a DEF Dropped, Lines
<1>3. PICK e \in EntryOf(D, <<>>, s.key) : k \in e.start..(e.end - 1)
  BY <1>b
<1>4. PICK i \in 1..Len(D.entries) : D.entries[i] = e /\ e.table = <<>> /\ e.key = <<s.key>>
  BY <1>2, <1>3, EntryOfHas DEF ScanOK
<1>5. /\ e.start \in Nat /\ e.end \in Nat /\ 1 <= e.start /\ e.end <= n + 1
  BY <1>2, <1>4 DEF ScanOK
<1>6. k \in 1..n /\ e.start <= k /\ k < e.end
  <2>1. PICK x, y : x = e.start /\ y = e.end
    OBVIOUS
  <2>2. x \in Nat /\ y \in Nat /\ 1 <= x /\ y <= n + 1 /\ k \in x..(y-1)
    BY <1>3, <1>5, <2>1
  <2>3. k \in 1..n /\ x <= k /\ k < y
    BY <1>1, <2>2
  <2> QED
    BY <2>1, <2>3
<1>7. LET x == st[k].entries[Len(st[k].entries)]
      IN Len(st[k].entries) > 0 /\ x.end > Len(st[k].lines) /\ Kin(x, D.entries[i])
  BY <1>4, <1>6, EntryOwner DEF D
<1>8. IsSeq(st[k].entries)
  <2>1. k \in 0..n
    BY <1>1, <1>6
  <2>2. ScanOK(st[k])
    BY <2>1, StagesOK
  <2> QED
    BY <2>2 DEF ScanOK
<1>9. OwnEntry(st[k].entries[Len(st[k].entries)], Len(st[k].lines))
  <2>1. e.table = <<>> /\ e.key \in Managed
    BY <1>4
  <2> QED
    BY <1>4, <1>7, <2>1 DEF Kin, OwnEntry
<1> QED
  BY <1>6, <1>7, <1>8, <1>9, OwnedIs

\* The lines of the provider table and the blank ones above it.
LEMMA BlockOwned ==
  ASSUME NEW X, NEW lines \in Seq(X), NEW st, Scans(lines, st),
         NEW k \in TableBlock(st[Len(lines)])
  PROVE  k \in 1..Len(lines) /\ (Blank(lines[k]) \/ IsOwn(st[k]))
<1> DEFINE n == Len(lines)
           D == st[n]
           h == TableOf(D, ProviderTable)
           a == Before(D.lines, h, Blank)
           te == TableEnd(D, h)
<1>1. n \in Nat /\ n \in 0..n
  OBVIOUS
<1>2. ScanOK(D) /\ Len(D.lines) = n
  BY <1>1, StagesOK
<1>b. D.lines = lines
  <2>1. D = Parse(lines)
    BY ScansTo
  <2>2. Parse(lines).lines = lines
    BY ParseOK
  <2> QED
    BY <2>1, <2>2
<1>a. h # 0 /\ k \in a..(te-1)
  <2> HIDE DEF D
  <2>1. k \in TableBlock(D)
    BY DEF D
  <2> QED
    BY <2>1 DEF TableBlock
<1>3. /\ h \in 1..n
      /\ \A j \in h..(te - 1) : j \in 1..n /\ st[j].table = ProviderTable
  BY <1>a, ProviderLines
<1>4. te \in (h+1)..(n+1) \/ te = n + 1
  <2> HIDE DEF h, D
  <2>1. h \in Nat
    BY <1>1, <1>3
  <2> QED
    BY <1>2, <2>1, EndIs
<1> HIDE DEF te
<1>5. a \in 1..h /\ \A j \in a..(h-1) : Blank(lines[j])
  <2> HIDE DEF h
  <2>1. h \in Nat \ {0}
    BY <1>1, <1>3
  <2> QED
    BY <1>b, <2>1, BlanksBefore
<1> HIDE DEF a, h
<1>6. CASE k < h
  <2>1. k \in a..(h-1) /\ k \in 1..n
    BY <1>1, <1>3, <1>5, <1>6, <1>a, <1>4
  <2> QED
    BY <1>5, <2>1
<1>7. CASE ~ k < h
  <2>1. k \in h..(te-1)
    BY <1>1, <1>3, <1>4, <1>5, <1>7, <1>a
  <2>2. k \in 1..n /\ st[k].table = ProviderTable
    BY <1>3, <2>1
  <2>3. k \in 0..n
    BY <1>1, <2>2
  <2>4. IsSeq(st[k].entries)
    BY <2>3, StagesOK DEF ScanOK
  <2> QED
    BY <2>2, <2>4, OwnedIs
<1> QED
  BY <1>6, <1>7

-----------------------------------------------------------------------------
(* The operator's lines of a file with lines of AIGuard's taken out         *)

LEMMA TakenOwner ==
  ASSUME NEW lines \in Seq(Line), NEW st, Scans(lines, st),
         NEW E \in SUBSET (1..Len(st[Len(lines)].entries)),
         NEW a, NEW h, NEW te, BlockAt(st[Len(lines)], a, h, te),
         NEW R, R = EntryLines(st[Len(lines)], E) \cup (a..(te-1)),
         NEW k \in 1..Len(lines), NEW f, TakenOK(f, st[k-1], E, k-1, h, te),
         k \notin R
  PROVE  IsOwn(Locate(f, lines[k])) <=> IsOwn(st[k])
<1> DEFINE n == Len(lines)
           D == st[n]
           d == st[k-1]
           e == st[k]
           l == lines[k]
<1>1. n \in Nat /\ k \in Nat /\ k \in 0..n /\ k - 1 \in 0..n /\ n \in 0..n /\ 1 <= k /\ k <= n
      /\ l \in Line
  OBVIOUS
<1>2. e = Locate(d, l) /\ ScanOK(d) /\ ScanOK(D) /\ Len(D.lines) = n
  BY <1>1, StagesOK
<1>3. Steps(d, l, e)
  BY <1>2, LocateSteps
<1>4. ScanOK(f) /\ Within(f, d)
      /\ IF k - 1 \in h..(te-1) THEN ~Continuing(f.scan) ELSE Following(f, d, E)
  BY DEF TakenOK
<1>5. /\ a \in 1..(n+1) /\ h \in a..(n+1) /\ te \in h..(n+1)
      /\ a \in Nat /\ h \in Nat /\ te \in Nat
  BY <1>1, <1>2 DEF BlockAt
<1>6. \A i \in E : D.entries[i].start \in Nat /\ D.entries[i].end \in Nat
  BY <1>2 DEF ScanOK
<1>7. /\ Continuing(f.scan) <=> Continuing(d.scan)
      /\ f.table = d.table \/ (~Continuing(d.scan) /\ Heads(l))
  <2>1. CASE k - 1 \in h..(te-1)
    <3>1. k = te
      BY <1>1, <1>5, <2>1
    <3>2. \E t \in 1..Len(D.tables) : D.tables[t].start = k
      BY <1>1, <1>2, <3>1 DEF BlockAt
    <3>3. ~Continuing(d.scan) /\ Heads(l)
      BY <3>2, TableStarts
    <3> QED
      BY <1>4, <2>1, <3>3
  <2>2. CASE ~ k - 1 \in h..(te-1)
    <3>1. Following(f, d, E)
      BY <1>4, <2>2
    <3>2. ~ (Continuing(d.scan) /\ Len(d.entries) \in E)
      <4> SUFFICES ASSUME Continuing(d.scan), Len(d.entries) \in E PROVE FALSE
        OBVIOUS
      <4> DEFINE i == Len(e.entries)
      <4>1. i \in E
        BY <1>3 DEF Steps
      <4>2. D.entries[i].start <= k /\ k < D.entries[i].end
        BY LineOfEntry
      <4>3. k \in D.entries[i].start..(D.entries[i].end - 1)
        BY SMTT(40), <1>1, <1>6, <4>1, <4>2
      <4> QED
        BY <4>1, <4>3 DEF EntryLines
    <3> QED
      BY <3>1, <3>2 DEF Following
  <2> QED
    BY <2>1, <2>2
<1>8. Continuing(d.scan) => LastKin(f, d)
  BY <1>4, <1>7 DEF Within, Twins, LastKin, Kin
<1> HIDE DEF d, e, l
<1>9. IsOwn(Locate(f, l)) <=> IsOwn(Locate(d, l))
  BY <1>1, <1>2, <1>4, <1>7, <1>8, SameOwner
<1> QED
  BY <1>2, <1>9 DEF e, l

LEMMA TakenKeeps ==
  ASSUME NEW lines \in Seq(Line),
         NEW E \in SUBSET (1..Len(Parse(lines).entries)),
         NEW a, NEW h, NEW te, BlockAt(Parse(lines), a, h, te),
         NEW R, R = EntryLines(Parse(lines), E) \cup (a..(te-1)),
         \A k \in 1..Len(lines) :
           k \in R => Blank(lines[k]) \/ IsOwn(Parse(SubSeq(lines, 1, k)))
  PROVE  OperatorLines(Taken(lines, R, Len(lines))) = OperatorLines(lines)
<1> DEFINE n == Len(lines)
           T(k) == Taken(lines, R, k)
           P(k) == SubSeq(lines, 1, k)
           F(k) == Parse(T(k))
<1>1. n \in Nat
  OBVIOUS
<1>2. PICK st : Scans(lines, st) /\ Parse(lines) = st[n]
  BY ParseIs
<1>3. T(0) = <<>> /\ F(0) = Start /\ P(0) = <<>> /\ P(n) = lines
  BY TakenNone, ParseEmpty, PrefixEnds
<1>a. ASSUME NEW k \in 1..Len(lines)
      PROVE  /\ T(k-1) \in Seq(Line) /\ T(k) \in Seq(Line)
             /\ k \in R => T(k) = T(k-1)
             /\ k \notin R => T(k) = Append(T(k-1), lines[k])
  <2>1. lines \in Seq(Line) /\ k \in 1..Len(lines)
    OBVIOUS
  <2> QED
    BY ONLY <2>1, TakenNext
<1>b. ASSUME NEW k \in 1..Len(lines)
      PROVE  /\ P(k-1) \in Seq(Line) /\ lines[k] \in Line
             /\ P(k) = Append(P(k-1), lines[k])
  BY PrefixNext
<1>c. \A k \in 1..n : Parse(P(k)) = st[k]
  <2> TAKE k \in 1..n
  <2>1. k \in 0..Len(lines)
    OBVIOUS
  <2> QED
    BY <1>2, <2>1, PrefixStage
<1>d. \A k \in 1..n : k \in R => Blank(lines[k]) \/ IsOwn(st[k])
  BY <1>c
<1> HIDE DEF T, P
<1>4. \A k \in 1..n : F(k) = IF k \in R THEN F(k-1) ELSE Locate(F(k-1), lines[k])
  <2> TAKE k \in 1..n
  <2>2. PICK s : s = T(k-1)
    OBVIOUS
  <2>3. Parse(Append(s, lines[k])) = Locate(Parse(s), lines[k])
    BY <1>a, <1>b, <2>2, ParseAppend
  <2> QED
    BY <1>a, <2>2, <2>3
<1> DEFINE Good(k) == /\ TakenOK(F(k), st[k], E, k, h, te)
                      /\ OperatorLines(T(k)) = OperatorLines(P(k))
<1> HIDE DEF n
<1>5. \A k \in 1..n : Good(k-1) => Good(k)
  <2> TAKE k \in 1..n
  <2>1. HAVE Good(k-1)
  <2>2. PICK f : f = F(k-1)
    OBVIOUS
  <2> DEFINE m == Len(lines)
  <2>3. /\ Scans(lines, st) /\ k \in 1..m
        /\ E \in SUBSET (1..Len(st[m].entries)) /\ BlockAt(st[m], a, h, te)
        /\ R = EntryLines(st[m], E) \cup (a..(te-1)) /\ TakenOK(f, st[k-1], E, k-1, h, te)
    BY <1>2, <2>1, <2>2 DEF n
  <2>4. TakenOK(IF k \in R THEN f ELSE Locate(f, lines[k]), st[k], E, k, h, te)
    BY <2>3, TakenStep
  <2>5. k \notin R => (IsOwn(Locate(f, lines[k])) <=> IsOwn(st[k]))
    <3> SUFFICES ASSUME k \notin R PROVE IsOwn(Locate(f, lines[k])) <=> IsOwn(st[k])
      OBVIOUS
    <3> QED
      BY <2>3, TakenOwner
  <2>6. TakenOK(F(k), st[k], E, k, h, te)
    BY <1>4, <2>2, <2>4
  <2>7. PICK s, p, l : s = T(k-1) /\ p = P(k-1) /\ l = lines[k]
    OBVIOUS
  <2>8. /\ s \in Seq(Line) /\ p \in Seq(Line) /\ l \in Line
        /\ OperatorLines(s) = OperatorLines(p)
        /\ k \in R => T(k) = s
        /\ k \notin R => T(k) = Append(s, l)
        /\ P(k) = Append(p, l)
    BY <1>a, <1>b, <2>1, <2>7 DEF n
  <2>9. /\ Parse(P(k)) = st[k]
        /\ k \notin R => Parse(T(k)) = Locate(f, l)
        /\ k \in R => Blank(l) \/ IsOwn(st[k])
    BY <1>4, <1>c, <1>d, <2>2, <2>7
  <2> HIDE DEF Good, F
  <2>10. /\ Blank(l) \/ IsOwn(Parse(Append(p, l))) => OperatorLines(Append(p, l)) = OperatorLines(p)
         /\ ~ (Blank(l) \/ IsOwn(Parse(Append(p, l)))) =>
              OperatorLines(Append(p, l)) = Append(OperatorLines(p), Body(l))
    BY <2>8, OperatorAppend
  <2>11. /\ Blank(l) \/ IsOwn(Parse(Append(s, l))) => OperatorLines(Append(s, l)) = OperatorLines(s)
         /\ ~ (Blank(l) \/ IsOwn(Parse(Append(s, l)))) =>
              OperatorLines(Append(s, l)) = Append(OperatorLines(s), Body(l))
    BY <2>8, OperatorAppend
  <2>12. OperatorLines(T(k)) = OperatorLines(P(k))
    <3>1. CASE k \in R
      <4>1. OperatorLines(Append(p, l)) = OperatorLines(p)
        BY <2>8, <2>9, <2>10, <3>1
      <4> QED
        BY <2>8, <3>1, <4>1
    <3>2. CASE k \notin R
      <4>1. IsOwn(Parse(Append(s, l))) <=> IsOwn(Parse(Append(p, l)))
        BY <2>5, <2>7, <2>8, <2>9, <3>2
      <4>2. OperatorLines(Append(s, l)) = OperatorLines(Append(p, l))
        BY <2>8, <2>10, <2>11, <4>1
      <4> QED
        BY <2>8, <3>2, <4>2
    <3> QED
      BY <3>1, <3>2
  <2> QED
    BY <2>6, <2>12 DEF Good
<1>6. Good(0)
  <2>1. st[0] = Start
    BY <1>2, StagesOK
  <2>2. ScanOK(Start) /\ ~Continuing(Start.scan) /\ Len(Start.entries) = 0 /\ Len(Start.tables) = 0
    <3>1. ScanOK(Start)
      BY StartOK
    <3>2. ~Continuing(Start.scan)
      <4>1. Start.scan = Fresh
        BY DEF Start
      <4>2. ~Continuing(Fresh)
        BY DEF Continuing, Fresh
      <4> QED
        BY <4>1, <4>2
    <3>3. Len(Start.entries) = 0 /\ Len(Start.tables) = 0
      BY DEF Start
    <3> QED
      BY <3>1, <3>2, <3>3
  <2>3. ~ 0 \in h..(te-1)
    BY DEF BlockAt
  <2>4. Within(Start, Start)
    BY <2>2 DEF Within
  <2>5. TakenOK(Start, Start, E, 0, h, te)
    BY <2>2, <2>3, <2>4 DEF TakenOK, Following
  <2> QED
    BY <1>3, <2>1, <2>5
<1> HIDE DEF Good, F
<1> DEFINE Bad == {k \in 0..n : ~Good(k)}
<1>7. ASSUME Bad # {} PROVE FALSE
  <2>1. PICK j \in Bad : \A m \in Bad : j <= m
    BY <1>1, <1>7, LeastOf, Bad \subseteq Nat DEF n
  <2>2. j # 0
    BY <1>6
  <2>3. j \in 1..n /\ j - 1 \in 0..n /\ ~ j <= j - 1
    BY <1>1, <2>2 DEF n
  <2>4. Good(j-1)
    BY <2>1, <2>3
  <2> QED
    BY <1>5, <2>3, <2>4
<1>8. Good(n)
  BY <1>1, <1>7 DEF n
<1> QED
  BY <1>3, <1>8 DEF Good, T, n

LEMMA TakenType ==
  ASSUME NEW X, NEW lines \in Seq(X), NEW R
  PROVE  Taken(lines, R, Len(lines)) \in Seq(X)
<1>1. CASE Len(lines) = 0
  <2>1. Taken(lines, R, 0) = <<>> /\ <<>> \in Seq(X)
    BY TakenNone
  <2> QED
    BY <1>1, <2>1
<1>2. CASE Len(lines) # 0
  <2>1. Len(lines) \in 1..Len(lines)
    BY <1>2
  <2>2. lines \in Seq(X) /\ \E k : k = Len(lines) /\ k \in 1..Len(lines)
    BY <2>1
  <2>3. PICK k \in 1..Len(lines) : k = Len(lines)
    BY <2>2
  <2>4. lines \in Seq(X) /\ k \in 1..Len(lines)
    OBVIOUS
  <2>5. Taken(lines, R, k) \in Seq(X)
    BY ONLY <2>4, TakenNext
  <2> QED
    BY <2>3, <2>5
<1> QED
  BY <1>1, <1>2

\* A switch back takes out AIGuard's lines, and blank ones, only.
LEMMA ClearKeeps ==
  ASSUME NEW lines \in Seq(Line)
  PROVE  /\ Edited(Parse(lines), ClearEdit(Parse(lines))) \in Seq(Line)
         /\ OperatorLines(Edited(Parse(lines), ClearEdit(Parse(lines)))) = OperatorLines(lines)
<1> DEFINE d == Parse(lines)
           edit == ClearEdit(d)
           block == IF edit.drop THEN TableBlock(d) ELSE {}
<1>1. ScanOK(d) /\ d.lines = lines
  BY ParseOK
<1>2. /\ edit.provider = <<>>
      /\ edit.root = IF PointsHere(d)
                     THEN <<Setting("model_provider", Missing), Setting("model", Missing)>>
                     ELSE <<>>
  BY DEF ClearEdit
<1> HIDE DEF d, edit
<1> DEFINE Y == {Setting("model_provider", Missing), Setting("model", Missing)}
<1>3. /\ edit.root \in Seq(Y)
      /\ \A i \in 1..Len(edit.root) : edit.root[i].value = Missing
  <2>1. CASE PointsHere(d)
    BY <1>2, <2>1 DEF Setting
  <2>2. CASE ~PointsHere(d)
    BY <1>2, <2>2
  <2> QED
    BY <2>1, <2>2
<1>a. \A s \in Y : <<s.key>> \in Managed
  BY DEF Setting, Managed
<1>b. \A s \in ToSet(edit.root) : <<s.key>> \in Managed
  <2> HIDE DEF Y
  <2>1. \A s \in ToSet(edit.root) : s \in Y
    BY <1>3 DEF ToSet
  <2> QED
    BY <1>a, <2>1
<1> HIDE DEF Y
<1>4. PICK E \in SUBSET (1..Len(d.entries)) : Dropped(d, <<>>, edit.root) = EntryLines(d, E)
  BY <1>1, DroppedAre DEF ScanOK
<1>6. PICK a, h, te : BlockAt(d, a, h, te) /\ block = a..(te-1)
  <2>1. CASE edit.drop
    BY <1>1, <2>1, TableBlockIs
  <2>2. CASE ~edit.drop
    <3>1. Len(d.lines) \in Nat
      BY <1>1
    <3> QED
      BY <2>2, <3>1, NoBlock
  <2> QED
    BY <2>1, <2>2
<1> DEFINE R == EntryLines(d, E) \cup (a..(te-1))
<1>7. Edited(d, edit) = Taken(lines, R, Len(lines))
  <2>2. Edited(d, edit) =
          Taken(lines, Dropped(d, <<>>, edit.root)
                       \cup (IF edit.drop THEN TableBlock(d) ELSE {}), Len(lines))
    BY ONLY <1>1, <1>2, <1>3, lines \in Seq(Line), OnlyDropped
  <2> QED
    BY <1>4, <1>6, <2>2
<1>8. ASSUME NEW k \in 1..Len(lines), k \in R
      PROVE  Blank(lines[k]) \/ IsOwn(Parse(SubSeq(lines, 1, k)))
  <2>1. PICK st : Scans(lines, st) /\ d = st[Len(lines)]
    BY ParseIs DEF d
  <2>2. k \in 0..Len(lines)
    OBVIOUS
  <2>3. Parse(SubSeq(lines, 1, k)) = st[k]
    BY <2>1, <2>2, PrefixStage
  <2>4. k \in Dropped(d, <<>>, edit.root) \/ k \in TableBlock(d)
    BY <1>4, <1>6, <1>8
  <2>5. CASE k \in Dropped(d, <<>>, edit.root)
    <3>1. k \in Dropped(st[Len(lines)], <<>>, edit.root)
      BY <2>1, <2>5
    <3>2. IsOwn(st[k])
      BY <1>b, <2>1, <3>1, DroppedOwned
    <3> QED
      BY <2>3, <3>2
  <2>6. CASE k \in TableBlock(d)
    <3>1. k \in TableBlock(st[Len(lines)])
      BY <2>1, <2>6
    <3>2. Blank(lines[k]) \/ IsOwn(st[k])
      BY <2>1, <3>1, BlockOwned
    <3> QED
      BY <2>3, <3>2
  <2> QED
    BY <2>4, <2>5, <2>6
<1>9. OperatorLines(Taken(lines, R, Len(lines))) = OperatorLines(lines)
  <2> DEFINE x == R
  <2>1. x = EntryLines(Parse(lines), E) \cup (a..(te-1)) /\ BlockAt(Parse(lines), a, h, te)
        /\ E \in SUBSET (1..Len(Parse(lines).entries))
    BY <1>6 DEF d
  <2>2. \A k \in 1..Len(lines) :
           k \in x => Blank(lines[k]) \/ IsOwn(Parse(SubSeq(lines, 1, k)))
    BY <1>8
  <2> HIDE DEF x
  <2>3. OperatorLines(Taken(lines, x, Len(lines))) = OperatorLines(lines)
    BY <2>1, <2>2, TakenKeeps
  <2> QED
    BY <2>3 DEF x
<1>10. Taken(lines, R, Len(lines)) \in Seq(Line)
  BY TakenType
<1> QED
  BY <1>7, <1>9, <1>10 DEF d, edit

-----------------------------------------------------------------------------
(* Two files line by line, of which one is the other with AIGuard's lines   *)

\* The keys above the first table.
RootKeys(d) ==
  {d.entries[i].key : i \in {j \in 1..Len(d.entries) : d.entries[j].table = <<>>}}

LEMMA RootKeysNext ==
  ASSUME NEW d, ScanOK(d), NEW line
  PROVE  RootKeys(Locate(d, line)) =
           RootKeys(d) \cup (IF ~Continuing(d.scan) /\ Sets(line) /\ d.table = <<>>
                             THEN {KeyOf(line)} ELSE {})
<1> DEFINE e == Locate(d, line)
           m == Len(d.entries)
           n == Len(d.lines) + 1
<1>1. Steps(d, line, e)
  BY LocateSteps
<1>2. m \in Nat /\ \A i \in 1..m : DOMAIN d.entries[i] = EntryFields
  BY SeqFacts DEF ScanOK
<1> HIDE DEF e
<1>3. CASE Continuing(d.scan)
  <2>1. /\ m > 0 /\ Len(e.entries) = m
        /\ \A i \in 1..m : i # m => e.entries[i] = d.entries[i]
        /\ e.entries[m] = Continued(d.entries[m], n, Body(line))
    BY <1>1, <1>3 DEF Steps
  <2>2. PICK x : x = d.entries[m]
    OBVIOUS
  <2>3. PICK y : y = e.entries[m]
    OBVIOUS
  <2>4. DOMAIN x = EntryFields /\ y = Continued(x, n, Body(line))
    BY <1>2, <2>1, <2>2, <2>3
  <2>5. y.table = x.table /\ y.key = x.key
    BY <2>4, ContinuedIs
  <2>6. \A i \in 1..m : Kin(e.entries[i], d.entries[i])
    BY <2>1, <2>2, <2>3, <2>5 DEF Kin
  <2>7. RootKeys(e) = RootKeys(d)
    BY <2>1, <2>6 DEF RootKeys, Kin
  <2> QED
    BY <1>3, <2>7 DEF e
<1>4. CASE ~Continuing(d.scan) /\ Sets(line)
  <2>1. /\ Len(e.entries) = m + 1
        /\ \A i \in 1..m : e.entries[i] = d.entries[i]
        /\ e.entries[m + 1] = NewEntry(d.table, line, n)
    BY <1>1, <1>4, HeadsOrSets DEF Steps
  <2>2. PICK y : y = e.entries[m+1]
    OBVIOUS
  <2>3. y.table = d.table /\ y.key = KeyOf(line)
    BY <2>1, <2>2, NewEntryIs
  <2>4. 1..(m+1) = 1..m \cup {m+1}
    BY <1>2
  <2>5. RootKeys(e) = RootKeys(d) \cup (IF d.table = <<>> THEN {KeyOf(line)} ELSE {})
    BY <2>1, <2>2, <2>3, <2>4 DEF RootKeys
  <2> QED
    BY <1>4, <2>5 DEF e
<1>5. CASE ~Continuing(d.scan) /\ ~Sets(line)
  <2>1. e.entries = d.entries
    BY <1>1, <1>5 DEF Steps
  <2> QED
    BY <1>5, <2>1 DEF e, RootKeys
<1> QED
  BY <1>3, <1>4, <1>5

\* Between two lines a scan is not in a remark.
LEMMA ParseSettles ==
  ASSUME NEW lines \in Seq(Line)
  PROVE  Settled(Parse(lines).scan) /\ (~Continuing(Parse(lines).scan) => Parse(lines).scan = Fresh)
<1> DEFINE G == {s \in Seq(Line) : Settled(Parse(s).scan)}
<1>0. Settled(Fresh)
  <2>1. Nil \in Quotes \cup {Nil} /\ 0 \in Nat /\ Fresh = State(Nil, 0)
    BY FreshState
  <2> QED
    BY <2>1, Zenon DEF Settled
<1>1. <<>> \in G
  <2>1. Start.scan = Fresh
    BY DEF Start
  <2> QED
    BY <1>0, <2>1, ParseEmpty
<1>2. ASSUME NEW s \in Seq(Line), NEW line \in Line, s \in G PROVE Append(s, line) \in G
  <2>1. PICK d : d = Parse(s)
    OBVIOUS
  <2>2. Parse(Append(s, line)) = Locate(d, line) /\ ScanOK(d) /\ Settled(d.scan)
    BY <1>2, <2>1, ParseAppend, ParseOK
  <2>3. Steps(d, line, Locate(d, line))
    BY <2>2, LocateSteps
  <2>4. Body(line) \in Seq(Tokens) /\ ValueOf(line) \in Seq(Tokens)
    <3>1. Body(line) \in Seq(Tokens)
      BY BodyIs DEF Line
    <3>2. FirstOf(Body(line), {"=", "#"}, 1) \in Nat
      <4>1. Len(Body(line)) \in Nat
        BY <3>1
      <4> QED
        BY <4>1, FirstOfIs
    <3>3. Assigns(line) \in Nat
      BY <3>2 DEF Assigns
    <3> QED
      BY <3>1, <3>3 DEF ValueOf
  <2>5. Settled(ScanLine(d.scan, Body(line))) /\ Settled(ScanLine(Fresh, ValueOf(line)))
    BY <1>0, <2>2, <2>4, LineSettles
  <2>6. Settled(Locate(d, line).scan)
    BY <2>2, <2>3, <2>5 DEF Steps
  <2> QED
    BY <2>2, <2>6
<1> HIDE DEF G
<1>3. lines \in G
  BY <1>1, <1>2, SequencesAre
<1>4. Settled(Parse(lines).scan)
  BY <1>3 DEF G
<1>5. ASSUME ~Continuing(Parse(lines).scan) PROVE Parse(lines).scan = Fresh
  <2>1. PICK m \in Quotes \cup {Nil}, k \in Nat : Parse(lines).scan = State(m, k)
    BY <1>4 DEF Settled
  <2>2. State(m, k).multiline = m /\ State(m, k).depth = k
    BY StateIs
  <2>3. m = Nil /\ k = 0
    BY <1>5, <2>1, <2>2, ContinuingIs
  <2> QED
    BY <2>1, <2>3, FreshState
<1> QED
  BY <1>4, <1>5

Alike(f, d) == f.table = d.table /\ f.scan = d.scan /\ (Continuing(d.scan) => LastKin(f, d))

\* What is left to show of file s, made of file p: the operator's lines, or
\* where an edit is lost in a value, that s has no key at the top that p lacks.
Rest(s, p, lost) ==
  IF lost THEN RootKeys(Parse(s)) \subseteq RootKeys(Parse(p))
  ELSE OperatorLines(s) = OperatorLines(p)

Stays(s, p, lost) ==
  /\ s \in Seq(Line) /\ p \in Seq(Line)
  /\ Alike(Parse(s), Parse(p)) /\ Rest(s, p, lost)

LEMMA KeepStep ==
  ASSUME NEW s, NEW p, NEW lost \in BOOLEAN, Stays(s, p, lost),
         NEW m \in Line, NEW l \in Line, Body(m) = Body(l)
  PROVE  Stays(Append(s, m), Append(p, l), lost)
<1>1. s \in Seq(Line) /\ p \in Seq(Line) /\ Append(s, m) \in Seq(Line) /\ Append(p, l) \in Seq(Line)
  BY DEF Stays
<1>2. PICK f : f = Parse(s)
  OBVIOUS
<1>3. PICK d : d = Parse(p)
  OBVIOUS
<1>4. /\ Parse(Append(s, m)) = Locate(f, m) /\ ScanOK(f)
      /\ Parse(Append(p, l)) = Locate(d, l) /\ ScanOK(d)
  BY <1>1, <1>2, <1>3, ParseAppend, ParseOK
<1>5. Alike(f, d) /\ Rest(s, p, lost)
  BY <1>2, <1>3 DEF Stays
<1>6. /\ IsOwn(Locate(f, m)) <=> IsOwn(Locate(d, l))
      /\ Locate(f, m).table = Locate(d, l).table
      /\ Continuing(Locate(d, l).scan) => LastKin(Locate(f, m), Locate(d, l))
  BY <1>4, <1>5, SameOwner DEF Alike
<1>7. /\ Blank(m) <=> Blank(l)
      /\ Sets(m) <=> Sets(l)
      /\ Heads(m) <=> Heads(l)
      /\ ValueOf(m) = ValueOf(l) /\ KeyOf(m) = KeyOf(l)
  BY BodyDecides
<1>8. Locate(f, m).scan = Locate(d, l).scan
  <2>1. Steps(f, m, Locate(f, m)) /\ Steps(d, l, Locate(d, l))
    BY <1>4, LocateSteps
  <2>2. PICK f1 : f1 = Locate(f, m)
    OBVIOUS
  <2>3. PICK d1 : d1 = Locate(d, l)
    OBVIOUS
  <2>4. /\ Continuing(f.scan) => f1.scan = ScanLine(f.scan, Body(m))
        /\ ~Continuing(f.scan) /\ Sets(m) => f1.scan = ScanLine(Fresh, ValueOf(m))
        /\ ~Continuing(f.scan) /\ ~Sets(m) => f1.scan = f.scan
    BY <2>1, <2>2, HeadsOrSets DEF Steps
  <2>5. /\ Continuing(d.scan) => d1.scan = ScanLine(d.scan, Body(l))
        /\ ~Continuing(d.scan) /\ Sets(l) => d1.scan = ScanLine(Fresh, ValueOf(l))
        /\ ~Continuing(d.scan) /\ ~Sets(l) => d1.scan = d.scan
    BY <2>1, <2>3, HeadsOrSets DEF Steps
  <2> QED
    BY <1>5, <1>7, <2>2, <2>3, <2>4, <2>5 DEF Alike
<1>9. Alike(Parse(Append(s, m)), Parse(Append(p, l)))
  BY <1>4, <1>6, <1>8 DEF Alike
<1>10. Rest(Append(s, m), Append(p, l), lost)
  <2>1. CASE lost
    <3>1. RootKeys(f) \subseteq RootKeys(d)
      BY <1>2, <1>3, <1>5, <2>1 DEF Rest
    <3>2. /\ RootKeys(Locate(f, m)) =
               RootKeys(f) \cup (IF ~Continuing(f.scan) /\ Sets(m) /\ f.table = <<>>
                                 THEN {KeyOf(m)} ELSE {})
          /\ RootKeys(Locate(d, l)) =
               RootKeys(d) \cup (IF ~Continuing(d.scan) /\ Sets(l) /\ d.table = <<>>
                                 THEN {KeyOf(l)} ELSE {})
      BY <1>4, RootKeysNext
    <3>3. RootKeys(Locate(f, m)) \subseteq RootKeys(Locate(d, l))
      BY <1>5, <1>7, <3>1, <3>2 DEF Alike
    <3> QED
      BY <1>4, <2>1, <3>3 DEF Rest
  <2>2. CASE ~lost
    <3>1. OperatorLines(s) = OperatorLines(p)
      BY <1>5, <2>2 DEF Rest
    <3>2. IsOwn(Parse(Append(s, m))) <=> IsOwn(Parse(Append(p, l)))
      BY <1>4, <1>6
    <3>3. /\ Blank(l) \/ IsOwn(Parse(Append(p, l))) => OperatorLines(Append(p, l)) = OperatorLines(p)
          /\ ~ (Blank(l) \/ IsOwn(Parse(Append(p, l)))) =>
               OperatorLines(Append(p, l)) = Append(OperatorLines(p), Body(l))
      BY <1>1, OperatorAppend
    <3>4. /\ Blank(m) \/ IsOwn(Parse(Append(s, m))) => OperatorLines(Append(s, m)) = OperatorLines(s)
          /\ ~ (Blank(m) \/ IsOwn(Parse(Append(s, m)))) =>
               OperatorLines(Append(s, m)) = Append(OperatorLines(s), Body(m))
      BY <1>1, OperatorAppend
    <3>5. OperatorLines(Append(s, m)) = OperatorLines(Append(p, l))
      BY <1>7, <3>1, <3>2, <3>3, <3>4
    <3> QED
      BY <2>2, <3>5 DEF Rest
  <2> QED
    BY <2>1, <2>2
<1> QED
  BY <1>1, <1>9, <1>10 DEF Stays

\* A line an edit inserts: a key and a value on one line, or nothing.
AddsKey(m) == Sets(m) /\ \A i \in 1..Len(Body(m)) : Body(m)[i] \notin Opening
Fits(m, d, lost) ==
  \/ Blank(m)
  \/ /\ AddsKey(m)
     /\ IF Continuing(d.scan) THEN lost
        ELSE d.table = ProviderTable \/ (~lost /\ d.table = <<>> /\ KeyOf(m) \in Managed)

LEMMA FreshEnds == ~Continuing(Fresh)
BY DEF Continuing, Fresh

LEMMA ValueIs ==
  ASSUME NEW m \in Line
  PROVE  /\ Body(m) \in Seq(Tokens) /\ ValueOf(m) \in Seq(Tokens)
         /\ (\A i \in 1..Len(Body(m)) : Body(m)[i] \notin Opening) =>
              \A i \in 1..Len(ValueOf(m)) : ValueOf(m)[i] \notin Opening
<1>1. Body(m) \in Seq(Tokens)
  BY BodyIs DEF Line
<1>2. FirstOf(Body(m), {"=", "#"}, 1) \in Nat
  <2>1. Len(Body(m)) \in Nat
    BY <1>1
  <2> QED
    BY <2>1, FirstOfIs
<1>3. Assigns(m) \in Nat
  BY <1>2 DEF Assigns
<1>4. PICK b : b = Body(m)
  OBVIOUS
<1>5. PICK at : at = Assigns(m)
  OBVIOUS
<1>6. /\ SubSeq(b, at + 1, Len(b)) \in Seq(Tokens)
      /\ \A i \in 1..Len(SubSeq(b, at + 1, Len(b))) :
           SubSeq(b, at + 1, Len(b))[i] = b[at + i] /\ at + i \in 1..Len(b)
  BY <1>1, <1>3, <1>4, <1>5
<1> QED
  BY <1>1, <1>4, <1>5, <1>6 DEF ValueOf

LEMMA FitKeeps ==
  ASSUME NEW s \in Seq(Line), NEW p, NEW lost \in BOOLEAN, Rest(s, p, lost),
         NEW m \in Line, Fits(m, Parse(s), lost)
  PROVE  LET f == Parse(s)
             f1 == Parse(Append(s, m))
         IN /\ Append(s, m) \in Seq(Line) /\ Rest(Append(s, m), p, lost)
            /\ f1.table = f.table /\ f1.scan = f.scan
            /\ Continuing(f.scan) => Kin(f1.entries[Len(f1.entries)], f.entries[Len(f.entries)])
<1>1. Append(s, m) \in Seq(Line)
  OBVIOUS
<1>2. PICK f : f = Parse(s)
  OBVIOUS
<1>3. PICK f1 : f1 = Parse(Append(s, m))
  OBVIOUS
<1>4. f1 = Locate(f, m) /\ ScanOK(f)
  BY <1>2, <1>3, ParseAppend, ParseOK
<1>5. Steps(f, m, f1)
  BY <1>4, LocateSteps
<1>6. ScanOK(f1)
  BY <1>4, LocateOK
<1>7. Settled(f.scan) /\ (~Continuing(f.scan) => f.scan = Fresh)
  BY <1>2, ParseSettles
<1>8. /\ RootKeys(f1) = RootKeys(f) \cup (IF ~Continuing(f.scan) /\ Sets(m) /\ f.table = <<>>
                                          THEN {KeyOf(m)} ELSE {})
  BY <1>4, RootKeysNext
<1>9. /\ Continuing(f.scan) =>
           /\ Len(f1.entries) > 0 /\ f1.table = f.table
           /\ Kin(f1.entries[Len(f1.entries)], f.entries[Len(f.entries)])
      /\ ~Continuing(f.scan) /\ Sets(m) =>
           /\ Len(f1.entries) > 0 /\ f1.entries[Len(f1.entries)].end > Len(f1.lines)
           /\ f1.table = f.table
           /\ f1.entries[Len(f1.entries)].table = f.table
           /\ f1.entries[Len(f1.entries)].key = KeyOf(m)
      /\ ~Continuing(f.scan) /\ ~Sets(m) =>
           f1.table = IF Heads(m) THEN TableNamed(m) ELSE f.table
  BY <1>4, LineOwner
<1>10. /\ Body(m) \in Seq(Tokens) /\ ValueOf(m) \in Seq(Tokens)
       /\ (\A i \in 1..Len(Body(m)) : Body(m)[i] \notin Opening) =>
            \A i \in 1..Len(ValueOf(m)) : ValueOf(m)[i] \notin Opening
  BY ValueIs
<1>11. /\ Continuing(f.scan) => f1.scan = ScanLine(f.scan, Body(m))
       /\ ~Continuing(f.scan) /\ Sets(m) => f1.scan = ScanLine(Fresh, ValueOf(m))
       /\ ~Continuing(f.scan) /\ ~Sets(m) => f1.scan = f.scan
  BY <1>5, HeadsOrSets DEF Steps
<1>12. /\ Blank(m) \/ IsOwn(f1) => OperatorLines(Append(s, m)) = OperatorLines(s)
  BY <1>3, OperatorAppend
<1>13. Fits(m, f, lost)
  BY <1>2
<1>a. \A i \in 1..Len(Body(m)) : Body(m)[i] \notin Opening
  <2>1. CASE Blank(m)
    BY <2>1 DEF Blank
  <2>2. CASE ~Blank(m)
    BY <1>13, <2>2 DEF Fits, AddsKey
  <2> QED
    BY <2>1, <2>2
<1>b. f1.scan = f.scan
  <2>1. ScanLine(f.scan, Body(m)) = f.scan
    BY <1>7, <1>10, <1>a, LineSettles
  <2>2. ~Continuing(f.scan) => ScanLine(f.scan, ValueOf(m)) = f.scan
    BY <1>7, <1>10, <1>a, LineSettles
  <2> QED
    BY <1>7, <1>11, <2>1, <2>2
<1>c. f1.table = f.table
  <2>1. Blank(m) => ~Heads(m) /\ ~Sets(m)
    BY DEF Heads, Sets
  <2> QED
    BY <1>9, <1>13, <2>1 DEF Fits, AddsKey
<1>d. Rest(Append(s, m), p, lost)
  <2>1. CASE lost
    <3>1. ~ (~Continuing(f.scan) /\ Sets(m) /\ f.table = <<>>)
      <4>1. ProviderTable # <<>>
        BY DEF ProviderTable
      <4> QED
        BY <1>13, <2>1, <4>1 DEF Fits, Sets
    <3> QED
      BY <1>2, <1>3, <1>8, <2>1, <3>1 DEF Rest
  <2>2. CASE ~lost
    <3>1. CASE Blank(m)
      BY <1>12, <2>2, <3>1 DEF Rest
    <3>2. CASE ~Blank(m)
      <4>1. /\ ~Continuing(f.scan) /\ Sets(m)
            /\ f.table = ProviderTable \/ (f.table = <<>> /\ KeyOf(m) \in Managed)
        BY <1>13, <2>2, <3>2 DEF Fits, AddsKey
      <4>2. IsOwn(f1)
        <5>1. IsSeq(f1.entries)
          BY <1>6 DEF ScanOK
        <5>2. f1.table = ProviderTable
              \/ (Len(f1.entries) > 0 /\ OwnEntry(f1.entries[Len(f1.entries)], Len(f1.lines)))
          BY <1>9, <4>1 DEF OwnEntry
        <5> QED
          BY <5>1, <5>2, OwnedIs
      <4> QED
        BY <1>12, <2>2, <4>2 DEF Rest
    <3> QED
      BY <3>1, <3>2
  <2> QED
    BY <2>1, <2>2
<1> QED
  BY <1>1, <1>2, <1>3, <1>9, <1>b, <1>c, <1>d

LEMMA FitStep ==
  ASSUME NEW s, NEW p, NEW lost \in BOOLEAN, Stays(s, p, lost),
         NEW m \in Line, Fits(m, Parse(p), lost)
  PROVE  Stays(Append(s, m), p, lost)
<1>1. PICK f : f = Parse(s)
  OBVIOUS
<1>2. PICK d : d = Parse(p)
  OBVIOUS
<1>3. s \in Seq(Line) /\ p \in Seq(Line) /\ Alike(f, d) /\ Rest(s, p, lost)
  BY <1>1, <1>2 DEF Stays
<1>4. Fits(m, f, lost)
  BY <1>2, <1>3 DEF Fits, Alike
<1>5. PICK f1 : f1 = Parse(Append(s, m))
  OBVIOUS
<1>6. /\ Append(s, m) \in Seq(Line) /\ Rest(Append(s, m), p, lost)
      /\ f1.table = f.table /\ f1.scan = f.scan
      /\ Continuing(f.scan) => Kin(f1.entries[Len(f1.entries)], f.entries[Len(f.entries)])
  BY <1>1, <1>3, <1>4, <1>5, FitKeeps
<1>7. Alike(f1, d)
  BY <1>3, <1>6 DEF Alike, LastKin, Kin
<1> QED
  BY <1>2, <1>3, <1>5, <1>6, <1>7 DEF Stays

\* A set of files that one line of any of ms does not lead out of.
LEMMA AppendAll ==
  ASSUME NEW G, G \subseteq Seq(Line), NEW ms, ms \subseteq Line,
         \A t \in G, m \in ms : Append(t, m) \in G,
         NEW s \in G, NEW q \in Seq(ms)
  PROVE  s \o q \in G
<1> DEFINE H == {t \in Seq(ms) : s \o t \in G}
<1>1. s \in Seq(Line)
  OBVIOUS
<1>2. <<>> \in H
  BY <1>1, ConcatEmptySeq
<1>3. ASSUME NEW t \in Seq(ms), NEW m \in ms, t \in H PROVE Append(t, m) \in H
  <2>1. t \in Seq(Line) /\ m \in Line /\ s \o t \in G
    BY <1>3
  <2>2. s \o Append(t, m) = Append(s \o t, m)
    <3>1. s \in Seq(Line) /\ t \in Seq(Line) /\ m \in Line
      BY <1>1, <2>1
    <3> QED
      BY ONLY <3>1, ConcatAppend
  <2>3. Append(s \o t, m) \in G
    BY <2>1
  <2>4. Append(t, m) \in Seq(ms)
    OBVIOUS
  <2> QED
    BY <2>2, <2>3, <2>4
<1> HIDE DEF H
<1>4. q \in H
  BY <1>2, <1>3, SequencesAre
<1> QED
  BY <1>4 DEF H

LEMMA FitAll ==
  ASSUME NEW s, NEW p, NEW lost \in BOOLEAN, Stays(s, p, lost),
         NEW q \in Seq({m \in Line : Fits(m, Parse(p), lost)})
  PROVE  Stays(s \o q, p, lost)
<1> DEFINE G == {t \in Seq(Line) : Stays(t, p, lost)}
           ms == {m \in Line : Fits(m, Parse(p), lost)}
<1>1. s \in G
  BY DEF Stays
<1>2. ASSUME NEW t \in G, NEW m \in ms PROVE Append(t, m) \in G
  <2>1. Stays(Append(t, m), p, lost)
    BY <1>2, FitStep
  <2> QED
    BY <2>1 DEF Stays
<1>3. G \subseteq Seq(Line) /\ ms \subseteq Line /\ q \in Seq(ms)
  OBVIOUS
<1> HIDE DEF G, ms
<1>4. s \o q \in G
  BY <1>1, <1>2, <1>3, AppendAll
<1> QED
  BY <1>4 DEF G

\* After the header of a provider table at the end.
Trails(s, p, lost) ==
  /\ s \in Seq(Line) /\ Rest(s, p, lost)
  /\ Parse(s).table = ProviderTable /\ ~Continuing(Parse(s).scan)

LEMMA TrailAll ==
  ASSUME NEW s, NEW p, NEW lost \in BOOLEAN, Trails(s, p, lost),
         NEW q \in Seq({m \in Line : AddsKey(m)})
  PROVE  Trails(s \o q, p, lost)
<1> DEFINE G == {t \in Seq(Line) : Trails(t, p, lost)}
           ms == {m \in Line : AddsKey(m)}
<1>1. s \in G
  BY DEF Trails
<1>2. ASSUME NEW t \in G, NEW m \in ms PROVE Append(t, m) \in G
  <2>1. t \in Seq(Line) /\ Rest(t, p, lost) /\ m \in Line /\ Fits(m, Parse(t), lost)
    BY DEF Trails, Fits
  <2>2. LET f == Parse(t)
            f1 == Parse(Append(t, m))
        IN /\ Append(t, m) \in Seq(Line) /\ Rest(Append(t, m), p, lost)
           /\ f1.table = f.table /\ f1.scan = f.scan
    BY <2>1, FitKeeps
  <2>3. Trails(t, p, lost)
    OBVIOUS
  <2> QED
    BY <2>2, <2>3 DEF Trails
<1>3. G \subseteq Seq(Line) /\ ms \subseteq Line /\ q \in Seq(ms)
  OBVIOUS
<1> HIDE DEF G, ms
<1>4. s \o q \in G
  BY <1>1, <1>2, <1>3, AppendAll
<1> QED
  BY <1>4 DEF G

LEMMA HeadStep ==
  ASSUME NEW s, NEW p, NEW lost \in BOOLEAN, Stays(s, p, lost), ~Continuing(Parse(p).scan),
         NEW m \in Line, Heads(m), TableNamed(m) = ProviderTable
  PROVE  Trails(Append(s, m), p, lost)
<1>1. PICK f : f = Parse(s)
  OBVIOUS
<1>2. /\ s \in Seq(Line) /\ Append(s, m) \in Seq(Line) /\ Rest(s, p, lost)
      /\ ~Continuing(f.scan) /\ ~Sets(m)
  BY <1>1, HeadsOrSets DEF Stays, Alike
<1>3. PICK f1 : f1 = Parse(Append(s, m))
  OBVIOUS
<1>4. f1 = Locate(f, m) /\ ScanOK(f)
  BY <1>1, <1>2, <1>3, ParseAppend, ParseOK
<1>5. Steps(f, m, f1) /\ ScanOK(f1)
  BY <1>4, LocateSteps, LocateOK
<1>6. f1.table = ProviderTable /\ f1.scan = f.scan
  BY <1>2, <1>5 DEF Steps
<1>7. IsOwn(f1)
  BY <1>5, <1>6, OwnedIs DEF ScanOK
<1>8. OperatorLines(Append(s, m)) = OperatorLines(s)
  BY <1>2, <1>3, <1>7, OperatorAppend
<1>9. RootKeys(f1) = RootKeys(f)
  BY <1>2, <1>4, RootKeysNext
<1>10. Rest(Append(s, m), p, lost)
  BY <1>1, <1>2, <1>3, <1>8, <1>9 DEF Rest
<1> QED
  BY <1>2, <1>3, <1>6, <1>10 DEF Trails

\* A managed key on one line gets another value.
LEMMA ReplaceStep ==
  ASSUME NEW s, NEW p, NEW lost \in BOOLEAN, Stays(s, p, lost),
         NEW m \in Line, NEW l \in Line, Sets(m), Sets(l), KeyOf(m) = KeyOf(l),
         ~Continuing(Parse(p).scan), IsOwn(Parse(Append(p, l))),
         ScanLine(Fresh, ValueOf(m)) = Fresh, ScanLine(Fresh, ValueOf(l)) = Fresh
  PROVE  Stays(Append(s, m), Append(p, l), lost)
<1>1. s \in Seq(Line) /\ p \in Seq(Line) /\ Append(s, m) \in Seq(Line) /\ Append(p, l) \in Seq(Line)
  BY DEF Stays
<1>2. PICK f : f = Parse(s)
  OBVIOUS
<1>3. PICK d : d = Parse(p)
  OBVIOUS
<1>4. PICK f1 : f1 = Parse(Append(s, m))
  OBVIOUS
<1>5. PICK d1 : d1 = Parse(Append(p, l))
  OBVIOUS
<1>6. f1 = Locate(f, m) /\ ScanOK(f) /\ d1 = Locate(d, l) /\ ScanOK(d)
  BY <1>1, <1>2, <1>3, <1>4, <1>5, ParseAppend, ParseOK
<1>7. Alike(f, d) /\ Rest(s, p, lost) /\ ~Continuing(d.scan) /\ ~Continuing(f.scan)
  BY <1>2, <1>3 DEF Stays, Alike
<1>8. Steps(f, m, f1) /\ Steps(d, l, d1) /\ ScanOK(f1) /\ ScanOK(d1)
  BY <1>6, LocateSteps, LocateOK
<1>9. f1.scan = Fresh /\ d1.scan = Fresh
  BY <1>7, <1>8, HeadsOrSets DEF Steps
<1>10. ~Continuing(Fresh)
  BY FreshEnds
<1>11. /\ Len(f1.entries) > 0 /\ f1.entries[Len(f1.entries)].end > Len(f1.lines)
       /\ f1.table = f.table
       /\ f1.entries[Len(f1.entries)].table = f.table
       /\ f1.entries[Len(f1.entries)].key = KeyOf(m)
  BY <1>6, <1>7, LineOwner
<1>12. /\ Len(d1.entries) > 0 /\ d1.entries[Len(d1.entries)].end > Len(d1.lines)
       /\ d1.table = d.table
       /\ d1.entries[Len(d1.entries)].table = d.table
       /\ d1.entries[Len(d1.entries)].key = KeyOf(l)
  BY <1>6, <1>7, LineOwner
<1>13. Alike(f1, d1)
  BY <1>7, <1>9, <1>10, <1>11, <1>12 DEF Alike
<1>14. IsOwn(f1)
  <2>1. IsSeq(f1.entries) /\ IsSeq(d1.entries)
    BY <1>8 DEF ScanOK
  <2>2. d1.table = ProviderTable
        \/ (Len(d1.entries) > 0 /\ OwnEntry(d1.entries[Len(d1.entries)], Len(d1.lines)))
    BY <1>5, <2>1, OwnedIs
  <2>3. f1.table = ProviderTable
        \/ (Len(f1.entries) > 0 /\ OwnEntry(f1.entries[Len(f1.entries)], Len(f1.lines)))
    BY <1>7, <1>11, <1>12, <2>2 DEF OwnEntry, Alike
  <2> QED
    BY <2>1, <2>3, OwnedIs
<1>15. Rest(Append(s, m), Append(p, l), lost)
  <2>1. CASE lost
    <3>1. RootKeys(f) \subseteq RootKeys(d)
      BY <1>2, <1>3, <1>7, <2>1 DEF Rest
    <3>2. /\ RootKeys(f1) = RootKeys(f) \cup (IF f.table = <<>> THEN {KeyOf(m)} ELSE {})
          /\ RootKeys(d1) = RootKeys(d) \cup (IF d.table = <<>> THEN {KeyOf(l)} ELSE {})
      BY <1>6, <1>7, RootKeysNext
    <3>3. RootKeys(f1) \subseteq RootKeys(d1)
      BY <1>7, <3>1, <3>2 DEF Alike
    <3> QED
      BY <1>4, <1>5, <2>1, <3>3 DEF Rest
  <2>2. CASE ~lost
    <3>1. OperatorLines(Append(s, m)) = OperatorLines(s)
      BY <1>1, <1>4, <1>14, OperatorAppend
    <3>2. OperatorLines(Append(p, l)) = OperatorLines(p)
      BY <1>1, OperatorAppend
    <3> QED
      BY <1>7, <2>2, <3>1, <3>2 DEF Rest
  <2> QED
    BY <2>1, <2>2
<1> QED
  BY <1>1, <1>4, <1>5, <1>13, <1>15 DEF Stays

-----------------------------------------------------------------------------
(* The lines an edit writes                                                 *)

LEMMA OpeningMarks ==
  /\ Opening \subseteq Marks
  /\ "\n" \in Marks /\ "=" \in Marks /\ "#" \in Marks /\ "[" \in Marks
BY Zenon DEF Opening, Quotes, Opens, Closes, Marks

LEMMA KnownApart == \A k \in Known : k \notin Marks
BY Zenon DEF Known, Marks

LEMMA KnownTokens == Known \subseteq Tokens /\ Marks \subseteq Tokens /\ Tokens \ Marks \subseteq Tokens
BY DEF Tokens

LEMMA NoHeader ==
  ASSUME NEW m, Body(m)[1] # "["
  PROVE  ~Header(m).ok
BY Zenon DEF Header

LEMMA TerminatedIs ==
  ASSUME NEW l \in Line
  PROVE  Terminated(l) \in Line /\ Body(Terminated(l)) = Body(l)
<1>1. CASE Last(l) = "\n"
  BY <1>1 DEF Terminated
<1>2. CASE Last(l) # "\n"
  BY <1>2, BodyOf DEF Terminated, Body
<1> QED
  BY <1>1, <1>2

LEMMA NewLine ==
  ASSUME NEW k \in Known, NEW v \in Tokens, v \notin Marks
  PROVE  LET m == <<k, "=", v, "\n">>
         IN m \in Line /\ AddsKey(m) /\ KeyOf(m) = <<k>>
<1> DEFINE b == <<k, "=", v>>
           m == <<k, "=", v, "\n">>
<1>1. k \in Tokens /\ v \in Tokens /\ "=" \in Tokens /\ "\n" \in Tokens
  BY OpeningMarks, KnownTokens
<1>2. /\ k # "=" /\ k # "#" /\ k # "[" /\ k \notin Opening
      /\ v \notin Opening /\ v # "\n" /\ "=" \notin Opening
  <2>1. k \notin Marks
    BY KnownApart
  <2>2. "=" \notin Opening
    BY Zenon DEF Opening, Quotes, Opens, Closes
  <2> QED
    BY <2>1, <2>2, OpeningMarks, Zenon
<1>3. b \in Seq(Tokens) /\ m \in Seq(Tokens) /\ m = Append(b, "\n") /\ Len(b) = 3
  BY <1>1
<1>4. b[1] = k /\ b[2] = "=" /\ b[3] = v /\ m[1] = k /\ m[2] = "="
  OBVIOUS
<1>5. SubSeq(m, 1, 1) = <<k>>
  <2>1. SubSeq(m, 1, 1) = [i \in 1..1 |-> m[i]]
    BY <1>3
  <2>2. [i \in 1..1 |-> m[i]] = [i \in 1..1 |-> k]
    BY <1>4
  <2>3. [i \in 1..1 |-> k] = <<k>>
    OBVIOUS
  <2> QED
    BY <2>1, <2>2, <2>3
<1> HIDE DEF b, m
<1>6. Body(m) = b /\ m \in Line
  BY <1>3, BodyOf DEF Line
<1>7. ~Blank(m) /\ ~Remark(m) /\ ~Header(m).ok
  <2>1. b # <<>>
    BY <1>3
  <2>2. ~Blank(m) /\ ~Remark(m)
    BY <1>2, <1>4, <1>6, <2>1 DEF Blank, Remark
  <2>3. ~Header(m).ok
    BY <1>2, <1>4, <1>6, NoHeader
  <2> QED
    BY <2>2, <2>3
<1>8. FirstOf(b, {"=", "#"}, 1) = 2
  <2>1. 2 \in 1..Len(b) /\ b[2] \in {"=", "#"} /\ Len(b) \in Nat /\ 1 \in Nat \ {0}
    BY <1>3, <1>4
  <2>2. \A i \in 1..(2-1) : b[i] \notin {"=", "#"}
    BY <1>2, <1>4
  <2> QED
    BY <2>1, <2>2, FirstOfAt
<1>9. Assigns(m) = 2
  BY <1>4, <1>6, <1>8 DEF Assigns
<1>10. KeyOf(m) = <<k>>
  <2>1. SubSeq(m, 1, Assigns(m) - 1) = <<k>>
    BY <1>5, <1>9
  <2>2. Len(<<k>>) # 3
    OBVIOUS
  <2> QED
    BY <2>1, <2>2, Zenon DEF KeyOf
<1>11. Sets(m)
  <2>1. Assigns(m) # 0
    BY <1>9
  <2> QED
    BY <1>7, <2>1 DEF Sets
<1>12. \A i \in 1..Len(Body(m)) : Body(m)[i] \notin Opening
  <2>1. 1..Len(b) = {1, 2, 3}
    BY <1>3
  <2> QED
    BY <1>2, <1>4, <1>6, <2>1
<1> QED
  BY <1>6, <1>10, <1>11, <1>12 DEF AddsKey, m

LEMMA SixTokens ==
  \A v, w, x, y, z, t : (<<v>> \o <<w, x, y>>) \o <<z, t>> = <<v, w, x, y, z, t>>
<1> TAKE v, w, x, y, z, t
<1> DEFINE X == {v, w, x, y, z, t}
           a == <<v>>
           b == <<w, x, y>>
           c == <<z, t>>
           d == <<v, w, x, y, z, t>>
<1>1. /\ a \in Seq(X) /\ Len(a) = 1 /\ a[1] = v
      /\ b \in Seq(X) /\ Len(b) = 3 /\ b[1] = w /\ b[2] = x /\ b[3] = y
      /\ c \in Seq(X) /\ Len(c) = 2 /\ c[1] = z /\ c[2] = t
      /\ d \in Seq(X) /\ Len(d) = 6
      /\ d[1] = v /\ d[2] = w /\ d[3] = x /\ d[4] = y /\ d[5] = z /\ d[6] = t
  OBVIOUS
<1> HIDE DEF a, b, c, d, X
<1>2. /\ a \o b \in Seq(X) /\ Len(a \o b) = 4
      /\ (a \o b)[1] = v /\ (a \o b)[2] = w /\ (a \o b)[3] = x /\ (a \o b)[4] = y
  <2>1. /\ a \o b \in Seq(X) /\ Len(a \o b) = Len(a) + Len(b)
        /\ \A i \in 1..(Len(a) + Len(b)) :
             (a \o b)[i] = IF i <= Len(a) THEN a[i] ELSE b[i - Len(a)]
    BY <1>1, ConcatProperties
  <2> QED
    BY <1>1, <2>1
<1>3. PICK e : e = a \o b
  OBVIOUS
<1>4. /\ e \o c \in Seq(X) /\ Len(e \o c) = 6
      /\ (e \o c)[1] = v /\ (e \o c)[2] = w /\ (e \o c)[3] = x /\ (e \o c)[4] = y
      /\ (e \o c)[5] = z /\ (e \o c)[6] = t
  <2>1. /\ e \o c \in Seq(X) /\ Len(e \o c) = Len(e) + Len(c)
        /\ \A i \in 1..(Len(e) + Len(c)) :
             (e \o c)[i] = IF i <= Len(e) THEN e[i] ELSE c[i - Len(e)]
    BY <1>1, <1>2, <1>3, ConcatProperties
  <2> QED
    BY <1>1, <1>2, <1>3, <2>1
<1>5. e \o c = d
  <2>1. \A i \in 1..6 : (e \o c)[i] = d[i]
    <3>1. 1..6 = {1, 2, 3, 4, 5, 6}
      OBVIOUS
    <3> QED
      BY <1>1, <1>4, <3>1
  <2>2. PICK g : g = e \o c
    OBVIOUS
  <2>3. g \in Seq(X) /\ Len(g) = 6 /\ \A i \in 1..6 : g[i] = d[i]
    BY <1>4, <2>1, <2>2
  <2>4. g = d
    <3>1. g \in Seq(X) /\ d \in Seq(X) /\ Len(g) = Len(d)
      BY <1>1, <2>3
    <3>2. \A i \in 1..Len(g) : g[i] = d[i]
      BY <2>3
    <3> QED
      BY ONLY <3>1, <3>2, SeqEqual
  <2> QED
    BY <2>2, <2>4
<1> QED
  BY <1>3, <1>5 DEF a, b, c, d

Heading == <<"[">> \o ProviderTable \o <<"]", "\n">>

LEMMA HeadingIs ==
  Heading \in Line /\ Heads(Heading) /\ TableNamed(Heading) = ProviderTable
<1> DEFINE b == <<"[", "model_providers", ".", "aiguard", "]">>
           m == <<"[", "model_providers", ".", "aiguard", "]", "\n">>
<1>1. Heading = m /\ ProviderTable = <<"model_providers", ".", "aiguard">>
  <2>1. (<<"[">> \o <<"model_providers", ".", "aiguard">>) \o <<"]", "\n">> = m
    BY SixTokens
  <2>2. Heading = (<<"[">> \o <<"model_providers", ".", "aiguard">>) \o <<"]", "\n">>
    BY Zenon DEF Heading, ProviderTable
  <2> HIDE DEF m
  <2>3. Heading = m
    BY <2>1, <2>2, Zenon
  <2> QED
    BY <2>3, Zenon DEF ProviderTable
<1>2. /\ "[" \in Tokens /\ "model_providers" \in Tokens /\ "." \in Tokens /\ "aiguard" \in Tokens
      /\ "]" \in Tokens /\ "\n" \in Tokens
  <2>1. "]" \in Marks
    BY Zenon DEF Marks
  <2>2. "model_providers" \in Known /\ "." \in Known /\ "aiguard" \in Known
    BY Zenon DEF Known
  <2> QED
    BY <2>1, <2>2, OpeningMarks, KnownTokens
<1>3. b \in Seq(Tokens) /\ m \in Seq(Tokens) /\ m = Append(b, "\n") /\ Len(b) = 5
  BY <1>2
<1>4. /\ b[1] = "[" /\ b[2] = "model_providers" /\ b[3] = "." /\ b[4] = "aiguard" /\ b[5] = "]"
      /\ m[1] = "["
  OBVIOUS
<1>5. SubSeq(b, 2, 4) = ProviderTable
  <2>1. SubSeq(b, 2, 4) = <<b[2], b[3], b[4]>>
    <3>1. SubSeq(b, 2, 4) = [i \in 1..3 |-> b[i + 1]]
      BY <1>3
    <3>2. [i \in 1..3 |-> b[i + 1]] = <<b[2], b[3], b[4]>>
      OBVIOUS
    <3> QED
      BY <3>1, <3>2
  <2> QED
    BY <1>1, <1>4, <2>1
<1> HIDE DEF b, m
<1>6. Body(m) = b /\ m \in Line
  BY <1>3, BodyOf DEF Line
<1>7. ~Blank(m) /\ ~Remark(m) /\ b # <<>>
  <2>1. b # <<>>
    BY <1>3
  <2>2. "[" # "#"
    BY Zenon
  <2> QED
    BY <1>4, <1>6, <2>1, <2>2 DEF Blank, Remark
<1>8. FirstOf(b, {"]"}, 2) = 5
  <2>1. 5 \in 2..Len(b) /\ b[5] \in {"]"} /\ Len(b) \in Nat /\ 2 \in Nat \ {0}
    BY <1>3, <1>4
  <2>2. \A i \in 2..(5-1) : b[i] \notin {"]"}
    <3>1. 2..(5-1) = {2, 3, 4}
      OBVIOUS
    <3>2. "model_providers" # "]" /\ "." # "]" /\ "aiguard" # "]"
      BY Zenon
    <3> QED
      BY <1>4, <3>1, <3>2
  <2> QED
    BY <2>1, <2>2, FirstOfAt
<1>9. ~ (Len(b) > 1 /\ b[2] = "[")
  <2>1. "model_providers" # "["
    BY Zenon
  <2> QED
    BY <1>4, <2>1
<1>10. Header(m).ok /\ Header(m).name = ProviderTable /\ ~Header(m).array
  <2> DEFINE array == Len(b) > 1 /\ b[2] = "["
             open == IF array THEN 3 ELSE 2
             end == FirstOf(b, {"]"}, open)
             close == IF array THEN end + 1 ELSE end
             ok == /\ b # <<>> /\ b[1] = "[" /\ end # 0
                   /\ array => close <= Len(b) /\ b[close] = "]"
                   /\ close < Len(b) => b[close + 1] = "#"
  <2>1. ~array /\ open = 2
    BY <1>9
  <2>2. end = 5 /\ close = 5
    BY <1>8, <2>1
  <2>3. ok
    BY <1>3, <1>4, <1>7, <2>1, <2>2
  <2>4. SubSeq(b, open, end - 1) = ProviderTable
    BY <1>5, <2>1, <2>2
  <2>5. Header(m) = [ok |-> ok, name |-> SubSeq(b, open, end - 1), array |-> array]
    BY <1>6 DEF Header
  <2> HIDE DEF ok, open, end, close, array
  <2>6. Header(m).name = ProviderTable
    BY <2>4, <2>5
  <2>7. Header(m).ok /\ ~Header(m).array
    <3> DEFINE N == SubSeq(b, open, end - 1)
    <3>a. Header(m) = [ok |-> ok, name |-> N, array |-> array]
      BY <2>5
    <3> HIDE DEF N
    <3>b. \A x, y : [ok |-> x, name |-> N, array |-> y].ok = x
                    /\ [ok |-> x, name |-> N, array |-> y].array = y
      BY Zenon
    <3>1. Header(m).ok = ok
      BY <3>a, <3>b, Zenon
    <3>2. Header(m).array = array
      BY <3>a, <3>b, Zenon
    <3> QED
      BY <2>1, <2>3, <3>1, <3>2, Zenon
  <2> QED
    BY <2>6, <2>7
<1>11. Heads(m)
  BY <1>7, <1>10 DEF Heads
<1>12. TableNamed(m) = ProviderTable
  <2>1. TableNamed(m) = <<>> \o ProviderTable
    BY <1>10, Zenon DEF TableNamed
  <2>2. <<>> \o ProviderTable = ProviderTable
    <3>1. ProviderTable \in Seq({"model_providers", ".", "aiguard"})
      BY DEF ProviderTable
    <3> QED
      BY <3>1, ConcatEmptySeq
  <2> QED
    BY <2>1, <2>2
<1> QED
  BY <1>1, <1>6, <1>11, <1>12

Quoted == "\""

LEMMA KeyOfIs ==
  ASSUME NEW line
  PROVE  LET key == SubSeq(line, 1, Assigns(line) - 1)
         IN KeyOf(line) = IF Len(key) = 3 /\ key[1] = Quoted /\ key[3] = Quoted THEN <<key[2]>> ELSE key
BY Zenon DEF KeyOf, Quoted

LEMMA QuotedIs == Quoted # "["
BY Zenon DEF Quoted

\* A line that sets a managed key, with another value.
LEMMA ReplacedIs ==
  ASSUME NEW l \in Line, Sets(l), NEW key \in Known, KeyOf(l) = <<key>>,
         NEW v \in Tokens, v \notin Marks
  PROVE  LET m == Replaced(l, v)
         IN /\ m \in Line /\ Sets(m) /\ KeyOf(m) = KeyOf(l)
            /\ ScanLine(Fresh, ValueOf(m)) = Fresh
<1>1. PICK b : b = Body(l)
  OBVIOUS
<1>2. PICK at : at = Assigns(l)
  OBVIOUS
<1>3. PICK E : E = SubSeq(l, Len(b) + 1, Len(l))
  OBVIOUS
<1>4. /\ b \in Seq(Tokens) /\ Len(b) \in Nat /\ Len(b) <= Len(l) /\ l \in Seq(Tokens)
      /\ \A i \in 1..Len(b) : b[i] = l[i]
      /\ E \in {<<>>, <<"\n">>}
      /\ E = <<>> => b = l /\ (l # <<>> => Last(l) # "\n")
  <2>1. /\ b \in Line /\ Len(b) <= Len(l) /\ \A i \in 1..Len(b) : b[i] = l[i]
        /\ E \in {<<>>, <<"\n">>} /\ (E = <<>> => b = l /\ (l # <<>> => Last(l) # "\n"))
    BY <1>1, <1>3, BodyIs
  <2> QED
    BY <2>1 DEF Line
<1>5. /\ at \in 1..Len(b) /\ at > 1 /\ b[at] = "="
      /\ \A i \in 1..(at-1) : b[i] \notin {"=", "#"}
  <2>1. PICK x : x = FirstOf(b, {"=", "#"}, 1)
    OBVIOUS
  <2>2. /\ x = 0 \/ x \in 1..Len(b)
        /\ x # 0 => b[x] \in {"=", "#"} /\ \A i \in 1..(x-1) : b[i] \notin {"=", "#"}
    BY <1>4, <2>1, FirstOfIs
  <2>3. Assigns(l) = IF x > 1 /\ l[x] = "=" THEN x ELSE 0
    BY <1>1, <2>1 DEF Assigns
  <2>4. at # 0
    BY <1>2 DEF Sets
  <2> QED
    BY <1>2, <1>4, <2>2, <2>3, <2>4
<1>6. FirstOf(b, {"="}, 1) = at
  <2>1. b[at] \in {"="} /\ \A i \in 1..(at-1) : b[i] \notin {"="}
    BY <1>5
  <2> QED
    BY <1>4, <1>5, <2>1, FirstOfAt
<1>7. PICK c : c = FirstOf(b, {"#"}, at)
  OBVIOUS
<1>8. c = 0 \/ (c \in at..Len(b) /\ b[c] = "#")
  <2>1. at \in Nat \ {0}
    BY <1>4, <1>5
  <2>2. c = 0 \/ c \in at..Len(b)
    BY <1>4, <1>7, <2>1, FirstOfIs
  <2>3. c # 0 => b[c] \in {"#"}
    BY <1>4, <1>7, <2>1, FirstOfIs
  <2> QED
    BY <2>2, <2>3
<1>9. b[1] # "["
  <2>1. PICK q : q = SubSeq(l, 1, at - 1)
    OBVIOUS
  <2>2. q[1] = b[1]
    <3>1. at - 1 >= 1 /\ at - 1 <= Len(l) /\ at \in Nat /\ Len(l) \in Nat
      BY <1>4, <1>5
    <3>2. SubSeq(l, 1, at - 1)[1] = l[1]
      BY <1>4, <3>1
    <3>3. 1 \in 1..Len(b)
      BY <1>4, <1>5
    <3> QED
      BY <1>4, <2>1, <3>2, <3>3
  <2>3. q[1] = Quoted \/ KeyOf(l) = q
    BY <1>2, <2>1, KeyOfIs
  <2>4. CASE q[1] = Quoted
    BY <2>2, <2>4, QuotedIs
  <2>5. CASE KeyOf(l) = q
    <3>1. b[1] = key
      BY <2>2, <2>5
    <3>2. key \notin Marks
      BY KnownApart
    <3> QED
      BY <3>1, <3>2, OpeningMarks, Zenon
  <2> QED
    BY <2>3, <2>4, <2>5
<1> DEFINE head == SubSeq(b, 1, at)
           tail == IF c = 0 THEN <<>> ELSE SubSeq(b, c, Len(b))
           B == head \o <<v>> \o tail
           m == Replaced(l, v)
<1>10. m = B \o E
  BY <1>1, <1>3, <1>6, <1>7 DEF Replaced
<1>11. /\ head \in Seq(Tokens) /\ Len(head) = at /\ \A i \in 1..at : head[i] = b[i]
  <2>1. 1 <= at /\ at <= Len(b) /\ at \in Nat
    BY <1>4, <1>5
  <2> QED
    BY <1>4, <2>1
<1>12. /\ tail \in Seq(Tokens) /\ Len(tail) \in Nat
       /\ Len(tail) > 0 => tail[1] = "#" /\ tail[Len(tail)] = b[Len(b)] /\ b # <<>>
  <2>1. CASE c = 0
    <3>1. tail = <<>>
      BY <2>1
    <3>2. <<>> \in Seq(Tokens) /\ Len(<<>>) = 0
      OBVIOUS
    <3> HIDE DEF tail
    <3> QED
      BY <3>1, <3>2
  <2>2. CASE c # 0
    <3>1. c \in 1..Len(b) /\ c \in Nat /\ b[c] = "#" /\ c <= Len(b)
      BY <1>4, <1>5, <1>8, <2>2
    <3>2. PICK t : t = SubSeq(b, c, Len(b))
      OBVIOUS
    <3>3. /\ t \in Seq(Tokens) /\ Len(t) = Len(b) - c + 1
          /\ \A i \in 1..(Len(b) - c + 1) : t[i] = b[c + i - 1]
      BY <1>4, <3>1, <3>2
    <3>4. 1 \in 1..(Len(b) - c + 1) /\ Len(b) - c + 1 \in 1..(Len(b) - c + 1)
          /\ c + 1 - 1 = c /\ c + (Len(b) - c + 1) - 1 = Len(b)
      BY <1>4, <3>1
    <3>5. t[1] = b[c] /\ t[Len(t)] = b[Len(b)]
      BY <3>3, <3>4
    <3>6. tail = t /\ b # <<>>
      BY <1>4, <2>2, <3>1, <3>2
    <3> QED
      BY <3>1, <3>3, <3>4, <3>5, <3>6
  <2> QED
    BY <2>1, <2>2
<1> HIDE DEF head, tail, m
<1>13. /\ B \in Seq(Tokens) /\ Len(B) = at + 1 + Len(tail)
       /\ \A i \in 1..at : B[i] = b[i]
       /\ B[at + 1] = v
       /\ \A i \in 1..Len(tail) : B[at + 1 + i] = tail[i]
  <2>1. <<v>> \in Seq(Tokens) /\ Len(<<v>>) = 1 /\ <<v>>[1] = v
    OBVIOUS
  <2>2. PICK w : w = <<v>>
    OBVIOUS
  <2>3. PICK x : x = head \o w
    OBVIOUS
  <2>4. /\ x \in Seq(Tokens) /\ Len(x) = at + 1
        /\ (\A i \in 1..at : x[i] = b[i]) /\ x[at + 1] = v
    <3>1. /\ x \in Seq(Tokens) /\ Len(x) = Len(head) + Len(w)
          /\ \A i \in 1..(Len(head) + Len(w)) :
               x[i] = IF i <= Len(head) THEN head[i] ELSE w[i - Len(head)]
      BY <1>11, <2>1, <2>2, <2>3, ConcatProperties
    <3>2. at \in Nat /\ at > 1
      BY <1>4, <1>5
    <3>3. Len(w) = 1 /\ w[1] = v
      BY <2>1, <2>2
    <3>4. \A i \in 1..at : x[i] = b[i]
      BY <1>11, <3>1, <3>2, <3>3
    <3>5. x[at + 1] = w[at + 1 - at]
      BY <1>11, <3>1, <3>2, <3>3
    <3>6. at + 1 - at = 1
      BY <3>2
    <3> QED
      BY <1>11, <3>1, <3>3, <3>4, <3>5, <3>6
  <2>5. PICK y : y = x \o tail
    OBVIOUS
  <2>6. /\ y \in Seq(Tokens) /\ Len(y) = Len(x) + Len(tail)
        /\ \A i \in 1..(Len(x) + Len(tail)) :
             y[i] = IF i <= Len(x) THEN x[i] ELSE tail[i - Len(x)]
    BY <1>12, <2>4, <2>5, ConcatProperties
  <2>7. /\ y \in Seq(Tokens) /\ Len(y) = at + 1 + Len(tail)
        /\ \A i \in 1..at : y[i] = b[i]
        /\ y[at + 1] = v
        /\ \A i \in 1..Len(tail) : y[at + 1 + i] = tail[i]
    <3>2. at \in Nat /\ Len(tail) \in Nat /\ at > 1
      BY <1>4, <1>5, <1>12
    <3>3. \A i \in 1..at : y[i] = b[i]
      BY <2>4, <2>6, <3>2
    <3>4. y[at + 1] = v
      BY <2>4, <2>6, <3>2
    <3>5. ASSUME NEW i \in 1..Len(tail) PROVE y[at + 1 + i] = tail[i]
      <4>1. y[at + 1 + i] = tail[at + 1 + i - (at + 1)]
        BY <2>4, <2>6, <3>2
      <4>2. at + 1 + i - (at + 1) = i
        BY <3>2
      <4> QED
        BY <4>1, <4>2
    <3> QED
      BY <2>4, <2>6, <3>3, <3>4, <3>5
  <2>8. B = y
    BY <2>2, <2>3, <2>5
  <2> HIDE DEF B
  <2> QED
    BY <2>7, <2>8
<1> HIDE DEF B
<1>14. m \in Line /\ Body(m) = B
  <2>1. CASE E = <<"\n">>
    <3>1. m = Append(B, "\n")
      <4>1. "\n" \in Tokens
        BY OpeningMarks, KnownTokens
      <4> QED
        BY <1>10, <1>13, <2>1, <4>1, AppendIsConcat
    <3> QED
      BY <1>13, <3>1, BodyOf DEF Line
  <2>2. CASE E = <<>>
    <3>1. m = B
      BY <1>10, <1>13, <2>2, ConcatEmptySeq
    <3>2. Last(B) # "\n"
      <4>1. Last(B) = B[at + 1 + Len(tail)]
        BY <1>13 DEF Last
      <4>2. CASE Len(tail) = 0
        <5>1. at + 1 + Len(tail) = at + 1
          BY <1>4, <1>5, <4>2
        <5>2. v # "\n"
          BY OpeningMarks
        <5> QED
          BY <1>13, <4>1, <5>1, <5>2
      <4>3. CASE Len(tail) # 0
        <5>1. Len(tail) \in 1..Len(tail) /\ Len(tail) > 0
          BY <1>12, <4>3
        <5>2. B[at + 1 + Len(tail)] = b[Len(b)] /\ b # <<>>
          BY <1>12, <1>13, <5>1
        <5>3. Last(b) # "\n"
          BY <1>4, <2>2, <5>2
        <5> QED
          BY <4>1, <5>2, <5>3 DEF Last
      <4> QED
        BY <4>2, <4>3
    <3> QED
      BY <1>13, <3>1, <3>2, BodyOf DEF Line
  <2> QED
    BY <1>4, <2>1, <2>2
<1>15. /\ m \in Seq(Tokens) /\ Len(m) \in Nat /\ Len(B) <= Len(m)
       /\ \A i \in 1..at : m[i] = b[i] /\ m[i] = l[i]
  <2>1. Len(B) <= Len(m) /\ \A i \in 1..Len(B) : B[i] = m[i]
    BY <1>14, BodyIs
  <2>2. \A i \in 1..at : i \in 1..Len(B) /\ i \in 1..Len(b)
    BY <1>4, <1>5, <1>12, <1>13
  <2>3. m \in Seq(Tokens)
    BY <1>14 DEF Line
  <2>4. \A i \in 1..at : m[i] = b[i] /\ m[i] = l[i]
    BY <1>4, <1>13, <2>1, <2>2
  <2> QED
    BY <2>1, <2>3, <2>4
<1>16. ~Blank(m) /\ ~Remark(m) /\ ~Header(m).ok
  <2>1. 1 \in 1..at /\ 1 \in 1..(at-1) /\ Len(B) # 0
    BY <1>4, <1>5, <1>12, <1>13
  <2>2. B # <<>>
    BY <2>1
  <2>3. ~Blank(m) /\ ~Remark(m)
    BY <1>5, <1>14, <1>15, <2>1, <2>2 DEF Blank, Remark
  <2>4. Body(m)[1] # "["
    BY <1>9, <1>13, <1>14, <2>1
  <2> QED
    BY <2>3, <2>4, NoHeader
<1>17. Assigns(m) = at
  <2>1. /\ at \in 1..Len(B) /\ B[at] \in {"=", "#"} /\ Len(B) \in Nat /\ 1 \in Nat \ {0}
        /\ at \in 1..at /\ at > 1
    BY <1>4, <1>5, <1>12, <1>13
  <2>2. \A i \in 1..(at-1) : B[i] \notin {"=", "#"}
    BY <1>4, <1>5, <1>13
  <2>3. FirstOf(B, {"=", "#"}, 1) = at
    BY <2>1, <2>2, FirstOfAt
  <2>4. m[at] = "="
    BY <1>5, <1>15, <2>1
  <2> QED
    BY <1>14, <2>1, <2>3, <2>4 DEF Assigns
<1>18. KeyOf(m) = KeyOf(l)
  <2>1. SubSeq(m, 1, at - 1) = SubSeq(l, 1, at - 1)
    <3>1. PICK k : k = at - 1
      OBVIOUS
    <3>2. k \in Nat /\ k <= Len(m) /\ k <= Len(l) /\ \A i \in 1..k : m[i] = l[i]
      BY <1>4, <1>5, <1>12, <1>13, <1>15, <3>1
    <3>3. SubSeq(m, 1, k) = [i \in 1..k |-> m[i]] /\ SubSeq(l, 1, k) = [i \in 1..k |-> l[i]]
      BY <1>4, <1>15, <3>2
    <3> QED
      BY <3>1, <3>2, <3>3
  <2> QED
    BY <1>2, <1>17, <2>1, KeyOfIs, Zenon
<1>19. ScanLine(Fresh, ValueOf(m)) = Fresh
  <2>1. PICK t : t = SubSeq(B, at + 1, Len(B))
    OBVIOUS
  <2>2. /\ t \in Seq(Tokens) /\ Len(t) = Len(tail) + 1
        /\ \A i \in 1..(Len(tail) + 1) : t[i] = B[at + i]
    <3>1. at + 1 \in Nat /\ 1 <= at + 1 /\ at + 1 <= Len(B) /\ Len(B) \in Nat
          /\ Len(B) - (at + 1) + 1 = Len(tail) + 1
      BY <1>4, <1>5, <1>12, <1>13
    <3>2. /\ t \in Seq(Tokens) /\ Len(t) = Len(B) - (at + 1) + 1
          /\ \A i \in 1..(Len(B) - (at + 1) + 1) : t[i] = B[at + 1 + i - 1]
      BY <1>13, <2>1, <3>1
    <3>3. \A i \in 1..(Len(tail) + 1) : at + 1 + i - 1 = at + i
      BY <1>4, <1>5
    <3> QED
      BY <3>1, <3>2, <3>3
  <2>3. t[1] = v /\ (Len(t) > 1 => t[2] = "#") /\ Len(t) > 0
    <3>1. 1 \in 1..(Len(tail) + 1) /\ (Len(t) > 1 => 2 \in 1..(Len(tail) + 1) /\ 1 \in 1..Len(tail)
                                                     /\ Len(tail) > 0)
          /\ at + 2 = at + 1 + 1
      BY <1>4, <1>5, <1>12, <2>2
    <3> QED
      BY <1>12, <1>13, <2>2, <3>1
  <2>4. t[1] \notin Opening
    BY <2>3, OpeningMarks
  <2>5. ScanLine(Fresh, t) = Fresh
    BY <2>2, <2>3, <2>4, ValueScan
  <2>6. ValueOf(m) = t
    BY <1>14, <1>17, <2>1 DEF ValueOf
  <2> QED
    BY <2>5, <2>6
<1>20. Sets(m)
  <2>1. Assigns(m) # 0
    BY <1>4, <1>5, <1>17
  <2> QED
    BY <1>16, <2>1 DEF Sets
<1> QED
  BY <1>14, <1>18, <1>19, <1>20 DEF m

-----------------------------------------------------------------------------
(* A key that is on one line                                                *)

LEMMA EntryOfOne ==
  ASSUME NEW d, NEW table, NEW key, NEW e \in EntryOf(d, table, key)
  PROVE  EntryOf(d, table, key) = {e}
<1> DEFINE found == {i \in DOMAIN d.entries : d.entries[i].table = table /\ d.entries[i].key = <<key>>}
           x == d.entries[Smallest(found, 0)]
<1>1. EntryOf(d, table, key) = IF found = {} THEN {} ELSE {x}
  BY DEF EntryOf
<1> HIDE DEF found, x
<1> QED
  BY <1>1

LEMMA EntryOfSome ==
  ASSUME NEW d, IsSeq(d.entries), NEW table, NEW key, NEW i \in 1..Len(d.entries),
         d.entries[i].table = table, d.entries[i].key = <<key>>
  PROVE  EntryOf(d, table, key) # {}
<1> DEFINE found == {j \in DOMAIN d.entries : d.entries[j].table = table /\ d.entries[j].key = <<key>>}
           x == d.entries[Smallest(found, 0)]
<1>1. EntryOf(d, table, key) = IF found = {} THEN {} ELSE {x}
  BY DEF EntryOf
<1>2. i \in found
  <2>1. DOMAIN d.entries = 1..Len(d.entries)
    BY SeqFacts
  <2> QED
    BY <2>1
<1> HIDE DEF found, x
<1> QED
  BY <1>1, <1>2

LEMMA OneLine ==
  ASSUME NEW X, NEW lines \in Seq(X), NEW st, Scans(lines, st), ~Continuing(st[Len(lines)].scan),
         NEW table, NEW key, NEW i \in Lines(EntryOf(st[Len(lines)], table, key)),
         Cardinality(Lines(EntryOf(st[Len(lines)], table, key))) <= 1
  PROVE  /\ i \in 1..Len(lines) /\ Sets(lines[i]) /\ KeyOf(lines[i]) = <<key>>
         /\ ~Continuing(st[i-1].scan) /\ ~Continuing(st[i].scan)
         /\ table = ProviderTable \/ (table = <<>> /\ <<key>> \in Managed) => IsOwn(st[i])
<1> DEFINE n == Len(lines)
           D == st[n]
<1>1. n \in Nat /\ n \in 0..n
  OBVIOUS
<1>2. ScanOK(D) /\ Len(D.lines) = n /\ ~Continuing(D.scan)
  BY <1>1, StagesOK
<1> HIDE DEF D
<1>3. /\ i \in Lines(EntryOf(D, table, key))
      /\ Cardinality(Lines(EntryOf(D, table, key))) <= 1
  BY DEF D
<1>4. PICK e \in EntryOf(D, table, key) : i \in e.start..(e.end - 1)
  BY <1>3 DEF Lines
<1>5. PICK x \in 1..Len(D.entries) : D.entries[x] = e /\ e.table = table /\ e.key = <<key>>
  BY <1>2, <1>4, EntryOfHas DEF ScanOK
<1>6. PICK a, b : a = e.start /\ b = e.end
  OBVIOUS
<1>7. a \in Nat /\ b \in Nat /\ 1 <= a /\ a < b /\ b <= n + 1
  BY <1>2, <1>5, <1>6 DEF ScanOK
<1>8. i = a /\ b = a + 1
  <2>1. Lines(EntryOf(D, table, key)) = a..(b-1)
    <3>1. EntryOf(D, table, key) = {e}
      BY <1>4, EntryOfOne
    <3> QED
      BY <1>6, <3>1 DEF Lines
  <2>2. Cardinality(a..(b-1)) = (b - 1) - a + 1
    BY <1>7, FS_Interval
  <2>3. b - a <= 1
    BY <1>3, <1>7, <2>1, <2>2
  <2> QED
    BY <1>4, <1>6, <1>7, <2>3
<1>9. i \in 1..n /\ i - 1 \in 0..n /\ i \in 0..n /\ n \in (i-1)..n /\ n \in i..n
  BY <1>1, <1>7, <1>8
<1>10. D.entries[x].start <= i /\ i < D.entries[x].end
  BY <1>5, <1>6, <1>7, <1>8
<1>11. /\ Len(st[i].entries) = x
       /\ Continuing(st[i-1].scan) => Len(st[i-1].entries) = x
       /\ ~Continuing(st[i-1].scan) => Sets(lines[i])
  BY <1>9, <1>10, EntryLine DEF D
<1>12. /\ st[i] = Locate(st[i-1], lines[i]) /\ ScanOK(st[i-1]) /\ Len(st[i-1].lines) = i - 1
       /\ Grows(st[i-1], D) /\ ScanOK(st[i]) /\ Len(st[i].lines) = i
  BY <1>9, StagesOK DEF D
<1>13. ASSUME Continuing(st[i-1].scan) PROVE FALSE
  <2>1. x \in 1..Len(st[i-1].entries)
    BY <1>5, <1>11, <1>13
  <2>2. PICK y, z : y = st[i-1].entries[x].start /\ z = st[i-1].entries[x].end
    OBVIOUS
  <2>3. y \in Nat /\ z \in Nat /\ y < z /\ z <= i - 1 + 1
    BY <1>12, <2>1, <2>2 DEF ScanOK
  <2>4. y = a
    BY <1>5, <1>6, <1>12, <2>1, <2>2 DEF Grows, SameEntry
  <2> QED
    BY <1>7, <1>8, <2>3, <2>4
<1>14. ASSUME Continuing(st[i].scan) PROVE FALSE
  <2>1. CASE i = n
    BY <1>2, <1>14, <2>1 DEF D
  <2>2. CASE i # n
    <3>1. i + 1 \in 1..n /\ i + 1 - 1 = i
      BY <1>1, <1>9, <2>2
    <3>a. PICK j : j = i + 1
      OBVIOUS
    <3>b. j \in 1..n /\ j - 1 = i
      BY <1>1, <1>9, <2>2, <3>a
    <3>2. PICK k \in 1..Len(lines) : k = i + 1 /\ k - 1 = i
      BY <3>a, <3>b
    <3>3. PICK u : u = Len(st[k].entries)
      OBVIOUS
    <3>4. u \in 1..Len(D.entries) /\ D.entries[u].start <= k /\ k < D.entries[u].end
      BY <1>14, <3>2, <3>3, LineOfEntry DEF D
    <3>5. u = x
      <4>1. k \in 1..n /\ k - 1 \in 0..n
        BY <1>9, <3>2
      <4>2. st[k] = Locate(st[k-1], lines[k]) /\ ScanOK(st[k-1])
        BY <4>1, StagesOK
      <4>3. Steps(st[k-1], lines[k], st[k])
        BY <4>2, LocateSteps
      <4>4. Len(st[k].entries) = Len(st[k-1].entries)
        BY <1>14, <3>2, <4>3 DEF Steps
      <4> QED
        BY <1>11, <3>2, <3>3, <4>4
    <3>6. k < b
      BY <1>5, <1>6, <3>4, <3>5
    <3> QED
      BY <1>7, <1>8, <3>2, <3>6
  <2> QED
    BY <2>1, <2>2
<1>15. Sets(lines[i])
  BY <1>11, <1>13
<1>16. /\ Len(st[i].entries) > 0
       /\ st[i].entries[Len(st[i].entries)].end > Len(st[i].lines)
       /\ st[i].table = st[i-1].table
       /\ st[i].entries[Len(st[i].entries)].table = st[i-1].table
       /\ st[i].entries[Len(st[i].entries)].key = KeyOf(lines[i])
  BY <1>12, <1>13, <1>15, LineOwner
<1>17. Kin(st[i].entries[Len(st[i].entries)], D.entries[x])
  BY <1>9, <1>10, EntryOwner DEF D
<1>18. KeyOf(lines[i]) = <<key>> /\ st[i].table = table
  BY <1>5, <1>16, <1>17 DEF Kin
<1>19. table = ProviderTable \/ (table = <<>> /\ <<key>> \in Managed) => IsOwn(st[i])
  <2>1. IsSeq(st[i].entries)
    BY <1>12 DEF ScanOK
  <2>2. table = ProviderTable \/ (table = <<>> /\ <<key>> \in Managed)
          => st[i].table = ProviderTable
             \/ (Len(st[i].entries) > 0
                 /\ OwnEntry(st[i].entries[Len(st[i].entries)], Len(st[i].lines)))
    BY <1>16, <1>18 DEF OwnEntry
  <2> QED
    BY <2>1, <2>2, OwnedIs
<1> QED
  BY <1>9, <1>13, <1>14, <1>15, <1>18, <1>19

-----------------------------------------------------------------------------
(* The lines an edit inserts                                                *)

Writes(settings) ==
  /\ IsSeq(settings)
  /\ \A s \in ToSet(settings) : s.key \in Known /\ s.value \in Tokens /\ s.value \notin Marks

LEMMA InsertAre ==
  ASSUME NEW d, NEW table, NEW settings, Writes(settings)
  PROVE  ToInsert(d, table, settings) \in
           Seq({m \in Line : AddsKey(m) /\ \E s \in ToSet(settings) : KeyOf(m) = <<s.key>>})
<1> DEFINE M == {m \in Line : AddsKey(m) /\ \E s \in ToSet(settings) : KeyOf(m) = <<s.key>>}
           new(s) == IF s.value # Missing /\ EntryOf(d, table, s.key) = {}
                     THEN <<<<s.key, "=", s.value, "\n">>>> ELSE <<>>
           news == [i \in DOMAIN settings |-> new(settings[i])]
<1>1. DOMAIN settings = 1..Len(settings) /\ Len(settings) \in Nat
      /\ \A i \in 1..Len(settings) : settings[i] \in ToSet(settings)
  <2>1. DOMAIN settings = 1..Len(settings) /\ Len(settings) \in Nat
    BY SeqFacts DEF Writes
  <2> QED
    BY <2>1 DEF ToSet
<1>2. ASSUME NEW s \in ToSet(settings) PROVE new(s) \in Seq(M)
  <2>1. PICK k \in Known : k = s.key
    BY DEF Writes
  <2>2. PICK v \in Tokens : v = s.value /\ v \notin Marks
    BY DEF Writes
  <2>3. PICK m : m = <<k, "=", v, "\n">>
    OBVIOUS
  <2>4. m \in Line /\ AddsKey(m) /\ KeyOf(m) = <<k>>
    BY <2>2, <2>3, NewLine
  <2>5. m \in M
    BY <2>1, <2>4
  <2>6. new(s) = <<m>> \/ new(s) = <<>>
    BY <2>1, <2>2, <2>3
  <2> HIDE DEF M, new
  <2>7. <<m>> \in Seq(M) /\ <<>> \in Seq(M)
    BY <2>5
  <2> QED
    BY <2>6, <2>7, Zenon
<1>3. ToInsert(d, table, settings) = FlattenSeq(news)
  BY DEF ToInsert
<1> HIDE DEF new, M
<1>4. news \in Seq(Seq(M))
  BY <1>1, <1>2
<1>5. FlattenSeq(news) \in Seq(M)
  BY <1>4, FlattenType
<1> QED
  BY <1>3, <1>5 DEF M

LEMMA InsertNone ==
  ASSUME NEW d, NEW table, NEW settings, IsSeq(settings),
         \A s \in ToSet(settings) : EntryOf(d, table, s.key) # {}
  PROVE  ToInsert(d, table, settings) = <<>>
<1> DEFINE new(s) == IF s.value # Missing /\ EntryOf(d, table, s.key) = {}
                     THEN <<<<s.key, "=", s.value, "\n">>>> ELSE <<>>
           news == [i \in DOMAIN settings |-> new(settings[i])]
<1>1. DOMAIN settings = 1..Len(settings) /\ Len(settings) \in Nat
      /\ \A i \in 1..Len(settings) : settings[i] \in ToSet(settings)
  <2>1. DOMAIN settings = 1..Len(settings) /\ Len(settings) \in Nat
    BY SeqFacts
  <2> QED
    BY <2>1 DEF ToSet
<1>2. \A s \in ToSet(settings) : new(s) = <<>>
  OBVIOUS
<1>3. ToInsert(d, table, settings) = FlattenSeq(news)
  BY DEF ToInsert
<1> HIDE DEF new
<1>4. news \in Seq({<<>>}) /\ Len(news) = Len(settings) /\ \A i \in 1..Len(news) : news[i] = <<>>
  BY <1>1, <1>2
<1> HIDE DEF news
<1>5. IsSeq(news)
  BY <1>4, TypedIsSeq
<1> QED
  BY <1>3, <1>4, <1>5, FlattenNothing

-----------------------------------------------------------------------------
(* Where an edit inserts, and what it rewrites                              *)

LEMMA RootPointIs ==
  ASSUME NEW X, NEW lines \in Seq(X), NEW st, Scans(lines, st)
  PROVE  LET at == RootInsertPoint(st[Len(lines)])
         IN at \in 1..(Len(lines) + 1) /\ st[at-1].table = <<>>
<1> DEFINE n == Len(lines)
           D == st[n]
           te == TableEnd(D, 0)
           kept == {i \in 1..(te - 1) : ~(Blank(D.lines[i]) \/ Remark(D.lines[i]))}
           at == RootInsertPoint(D)
<1>1. n \in Nat /\ n \in 0..n
  OBVIOUS
<1>2. ScanOK(D) /\ Len(D.lines) = n
  BY <1>1, StagesOK
<1>3. /\ te \in 1..(n+1)
      /\ \A t \in 1..Len(D.tables) : D.tables[t].start > 0 => te <= D.tables[t].start
  <2> HIDE DEF D
  <2>1. PICK x : x = te
    OBVIOUS
  <2>2. /\ x \in (0+1)..(n+1) \/ x = n + 1
        /\ \A t \in 1..Len(D.tables) : D.tables[t].start > 0 => x <= D.tables[t].start
    BY <1>2, <2>1, EndIs
  <2>3. x \in 1..(n+1)
    BY <1>1, <2>2
  <2> QED
    BY <2>1, <2>2, <2>3
<1>4. at = IF kept = {} THEN 1 ELSE (CHOOSE i \in kept : \A j \in kept : j <= i) + 1
  BY DEF RootInsertPoint, Before
<1> HIDE DEF D, te
<1>5. at \in 1..te
  <2>1. CASE kept = {}
    BY <1>1, <1>3, <1>4, <2>1
  <2>2. CASE kept # {}
    <3>1. \E i \in kept : \A j \in kept : j <= i
      <4> DEFINE U == {te - i : i \in kept}
      <4>1. U \subseteq Nat /\ U # {}
        BY <1>3, <2>2
      <4>2. PICK u \in U : \A w \in U : u <= w
        BY <4>1, LeastOf
      <4>3. PICK i \in kept : u = te - i
        OBVIOUS
      <4>4. ASSUME NEW j \in kept PROVE j <= i
        <5>1. te - j \in U
          OBVIOUS
        <5>2. te - i <= te - j
          BY <4>2, <4>3, <5>1
        <5>3. i \in Nat /\ j \in Nat /\ te \in Nat
          BY <1>3
        <5> QED
          BY <5>2, <5>3
      <4> QED
        BY <4>4
    <3>2. PICK x \in kept : x = (CHOOSE i \in kept : \A j \in kept : j <= i)
      BY <3>1
    <3> QED
      BY <1>3, <1>4, <2>2, <3>2
  <2> QED
    BY <2>1, <2>2
<1> HIDE DEF at, kept
<1>6. at \in 1..(n+1)
  BY <1>1, <1>3, <1>5
<1>7. st[at-1].table = <<>>
  <2>1. PICK k : k = at - 1
    OBVIOUS
  <2>2. k \in 0..n /\ k < te /\ 0 \in 0..n
    BY <1>1, <1>3, <1>5, <1>6, <2>1
  <2>3. \A t \in 1..Len(D.tables) : D.tables[t].start \notin (0+1)..k
    <3> SUFFICES ASSUME NEW t \in 1..Len(D.tables), D.tables[t].start \in (0+1)..k PROVE FALSE
      OBVIOUS
    <3>1. PICK v : v = D.tables[t].start
      OBVIOUS
    <3>2. v > 0 => te <= v
      BY <1>3, <3>1
    <3>3. v \in (0+1)..k
      BY <3>1
    <3> QED
      BY <1>1, <1>3, <2>2, <3>2, <3>3
  <2>4. k \in 0..Len(lines) /\ 0 \in 0..Len(lines)
    BY <2>2
  <2>5. st[k].table = st[0].table
    BY <2>3, <2>4, TableStays DEF D
  <2>6. st[0].table = <<>>
    <3>1. st[0] = Start
      BY StagesOK
    <3> QED
      BY <3>1 DEF Start
  <2> QED
    BY <2>1, <2>5, <2>6
<1> QED
  BY <1>6, <1>7 DEF at, D

LEMMA NewlineIs == <<"\n">> \in Line /\ Blank(<<"\n">>)
<1>1. <<>> \in Line /\ Append(<<>>, "\n") = <<"\n">>
  BY DEF Line
<1> QED
  BY <1>1, BodyOf DEF Blank

\* The text of line i after the edit, whether or not its ending is added.
Text(d, edit, i) ==
  LET new == Rewritten(d, <<>>, edit.root, i)
             \cup Rewritten(d, ProviderTable, edit.provider, i)
  IN IF new = {} THEN d.lines[i] ELSE CHOOSE l \in new : TRUE

\* What a switch to a relay writes: no key is removed.
Additive(edit) ==
  /\ Writes(edit.root) /\ Writes(edit.provider) /\ ~edit.drop
  /\ \A s \in ToSet(edit.root) : <<s.key>> \in Managed /\ s.value # Missing

LEMMA TextIs ==
  ASSUME NEW d, NEW edit, Additive(edit), Resolvable(d, <<>>, edit.root),
         Resolvable(d, ProviderTable, edit.provider), NEW i
  PROVE  \/ Text(d, edit, i) = d.lines[i]
         \/ \E table \in {<<>>, ProviderTable}, key \in Known, v \in Tokens :
              /\ v \notin Marks /\ Text(d, edit, i) = Replaced(d.lines[i], v)
              /\ table = ProviderTable \/ (table = <<>> /\ <<key>> \in Managed)
              /\ i \in Lines(EntryOf(d, table, key))
              /\ Cardinality(Lines(EntryOf(d, table, key))) <= 1
<1> DEFINE new == Rewritten(d, <<>>, edit.root, i)
                  \cup Rewritten(d, ProviderTable, edit.provider, i)
<1>1. Text(d, edit, i) = IF new = {} THEN d.lines[i] ELSE CHOOSE l \in new : TRUE
  BY DEF Text
<1>2. ASSUME NEW table, NEW settings, Writes(settings), Resolvable(d, table, settings),
             NEW l \in Rewritten(d, table, settings, i)
      PROVE  \E s \in ToSet(settings) :
               /\ s.key \in Known /\ s.value \in Tokens /\ s.value \notin Marks
               /\ l = Replaced(d.lines[i], s.value)
               /\ i \in Lines(EntryOf(d, table, s.key))
               /\ Cardinality(Lines(EntryOf(d, table, s.key))) <= 1
  <2>1. PICK s \in ToSet(settings) :
          /\ s.value # Missing /\ i \in Lines(EntryOf(d, table, s.key))
          /\ l = Replaced(d.lines[i], s.value)
    BY DEF Rewritten
  <2>2. Cardinality(Lines(EntryOf(d, table, s.key))) <= 1
    BY <1>2, <2>1 DEF Resolvable
  <2>3. s.key \in Known /\ s.value \in Tokens /\ s.value \notin Marks
    BY <1>2 DEF Writes
  <2> QED
    BY <2>1, <2>2, <2>3
<1>a. ASSUME NEW table, NEW key \in Known, NEW v \in Tokens,
             v \notin Marks, Text(d, edit, i) = Replaced(d.lines[i], v),
             table = ProviderTable \/ (table = <<>> /\ <<key>> \in Managed),
             i \in Lines(EntryOf(d, table, key)),
             Cardinality(Lines(EntryOf(d, table, key))) <= 1
      PROVE  \E t \in {<<>>, ProviderTable}, k \in Known, w \in Tokens :
               /\ w \notin Marks /\ Text(d, edit, i) = Replaced(d.lines[i], w)
               /\ t = ProviderTable \/ (t = <<>> /\ <<k>> \in Managed)
               /\ i \in Lines(EntryOf(d, t, k))
               /\ Cardinality(Lines(EntryOf(d, t, k))) <= 1
  BY <1>a, Zenon
<1>3. CASE new = {}
  BY <1>1, <1>3
<1>4. CASE new # {}
  <2> HIDE DEF new
  <2>1. PICK l : l \in new /\ l = Text(d, edit, i)
    BY <1>1, <1>4
  <2>2. CASE l \in Rewritten(d, <<>>, edit.root, i)
    <3>1. PICK s \in ToSet(edit.root) :
               /\ s.key \in Known /\ s.value \in Tokens /\ s.value \notin Marks
               /\ l = Replaced(d.lines[i], s.value)
               /\ i \in Lines(EntryOf(d, <<>>, s.key))
               /\ Cardinality(Lines(EntryOf(d, <<>>, s.key))) <= 1
      BY <1>2, <2>2 DEF Additive
    <3>2. PICK key, v : key = s.key /\ v = s.value
      OBVIOUS
    <3>3. key \in Known /\ v \in Tokens /\ <<key>> \in Managed
      BY <3>1, <3>2 DEF Additive
    <3>4. /\ v \notin Marks /\ Text(d, edit, i) = Replaced(d.lines[i], v)
          /\ i \in Lines(EntryOf(d, <<>>, key))
          /\ Cardinality(Lines(EntryOf(d, <<>>, key))) <= 1
      BY <2>1, <3>1, <3>2
    <3> QED
      BY ONLY <3>3, <3>4, <1>a
  <2>3. CASE l \in Rewritten(d, ProviderTable, edit.provider, i)
    <3>1. PICK s \in ToSet(edit.provider) :
               /\ s.key \in Known /\ s.value \in Tokens /\ s.value \notin Marks
               /\ l = Replaced(d.lines[i], s.value)
               /\ i \in Lines(EntryOf(d, ProviderTable, s.key))
               /\ Cardinality(Lines(EntryOf(d, ProviderTable, s.key))) <= 1
      BY <1>2, <2>3 DEF Additive
    <3>2. PICK key, v : key = s.key /\ v = s.value
      OBVIOUS
    <3>3. key \in Known /\ v \in Tokens
      BY <3>1, <3>2
    <3>4. /\ v \notin Marks /\ Text(d, edit, i) = Replaced(d.lines[i], v)
          /\ i \in Lines(EntryOf(d, ProviderTable, key))
          /\ Cardinality(Lines(EntryOf(d, ProviderTable, key))) <= 1
      BY <2>1, <3>1, <3>2
    <3> QED
      BY ONLY <3>3, <3>4, <1>a
  <2> QED
    BY <2>1, <2>2, <2>3 DEF new
<1> QED
  BY <1>3, <1>4

\* Line i, rewritten or not, keeps the files together.
LEMMA TextStep ==
  ASSUME NEW lines \in Seq(Line), NEW st, Scans(lines, st), ~Continuing(st[Len(lines)].scan),
         NEW edit, Additive(edit), Resolvable(st[Len(lines)], <<>>, edit.root),
         Resolvable(st[Len(lines)], ProviderTable, edit.provider),
         NEW i \in 1..Len(lines), NEW lost \in BOOLEAN,
         NEW s, Stays(s, SubSeq(lines, 1, i-1), lost),
         NEW m \in {Text(st[Len(lines)], edit, i), Terminated(Text(st[Len(lines)], edit, i))}
  PROVE  m \in Line /\ Stays(Append(s, m), SubSeq(lines, 1, i), lost)
<1> DEFINE n == Len(lines)
           D == st[n]
<1>1. PICK p, l, x : p = SubSeq(lines, 1, i-1) /\ l = lines[i] /\ x = Text(D, edit, i)
  OBVIOUS
<1>2. p \in Seq(Line) /\ l \in Line /\ SubSeq(lines, 1, i) = Append(p, l)
  BY <1>1, PrefixNext
<1>3. D.lines = lines
  <2>1. D = Parse(lines)
    BY ScansTo
  <2>2. Parse(lines).lines = lines
    BY ParseOK
  <2> QED
    BY <2>1, <2>2
<1>4. Parse(p) = st[i-1] /\ Parse(Append(p, l)) = st[i]
  <2>1. i - 1 \in 0..Len(lines) /\ i \in 0..Len(lines)
    OBVIOUS
  <2>2. Parse(SubSeq(lines, 1, i-1)) = st[i-1] /\ Parse(SubSeq(lines, 1, i)) = st[i]
    BY <2>1, PrefixStage
  <2> QED
    BY <1>1, <1>2, <2>2
<1>5. Stays(s, p, lost) /\ m \in {x, Terminated(x)}
  BY <1>1
<1>6. ASSUME x \in Line PROVE m \in Line /\ Body(m) = Body(x)
  <2>1. Terminated(x) \in Line /\ Body(Terminated(x)) = Body(x)
    BY <1>6, TerminatedIs
  <2> QED
    BY <1>5, <1>6, <2>1
<1>7. CASE x = l
  <2>1. m \in Line /\ Body(m) = Body(l)
    BY <1>2, <1>6, <1>7
  <2>2. Stays(Append(s, m), Append(p, l), lost)
    BY <1>2, <1>5, <2>1, KeepStep
  <2> QED
    BY <1>2, <2>1, <2>2
<1>8. CASE x # l
  <2>a. \E table \in {<<>>, ProviderTable}, key \in Known, v \in Tokens :
            /\ v \notin Marks /\ x = Replaced(l, v)
            /\ table = ProviderTable \/ (table = <<>> /\ <<key>> \in Managed)
            /\ i \in Lines(EntryOf(D, table, key))
            /\ Cardinality(Lines(EntryOf(D, table, key))) <= 1
    <3> HIDE DEF D
    <3>1. Resolvable(D, <<>>, edit.root) /\ Resolvable(D, ProviderTable, edit.provider)
      BY DEF D
    <3>2. \/ Text(D, edit, i) = D.lines[i]
          \/ \E table \in {<<>>, ProviderTable}, key \in Known, v \in Tokens :
               /\ v \notin Marks /\ Text(D, edit, i) = Replaced(D.lines[i], v)
               /\ table = ProviderTable \/ (table = <<>> /\ <<key>> \in Managed)
               /\ i \in Lines(EntryOf(D, table, key))
               /\ Cardinality(Lines(EntryOf(D, table, key))) <= 1
      BY <3>1, TextIs
    <3> QED
      BY <1>1, <1>3, <1>8, <3>2
  <2>1. PICK table \in {<<>>, ProviderTable}, key \in Known, v \in Tokens :
            /\ v \notin Marks /\ x = Replaced(l, v)
            /\ table = ProviderTable \/ (table = <<>> /\ <<key>> \in Managed)
            /\ i \in Lines(EntryOf(D, table, key))
            /\ Cardinality(Lines(EntryOf(D, table, key))) <= 1
    BY <2>a
  <2>2. /\ Sets(lines[i]) /\ KeyOf(lines[i]) = <<key>>
        /\ ~Continuing(st[i-1].scan) /\ ~Continuing(st[i].scan)
        /\ table = ProviderTable \/ (table = <<>> /\ <<key>> \in Managed) => IsOwn(st[i])
    BY <2>1, OneLine
  <2>3. Sets(l) /\ KeyOf(l) = <<key>>
    BY <1>1, <2>2
  <2>4. x \in Line /\ Sets(x) /\ KeyOf(x) = KeyOf(l) /\ ScanLine(Fresh, ValueOf(x)) = Fresh
    BY <1>2, <2>1, <2>3, ReplacedIs
  <2>5. m \in Line /\ Body(m) = Body(x)
    BY <1>6, <2>4
  <2>6. Sets(m) /\ KeyOf(m) = KeyOf(l) /\ ScanLine(Fresh, ValueOf(m)) = Fresh
    BY <2>4, <2>5, BodyDecides
  <2>7. ScanLine(Fresh, ValueOf(l)) = Fresh
    <3>1. Append(p, l) \in Seq(Line)
      BY <1>2
    <3>2. st[i].scan = Fresh
      BY <1>4, <2>2, <3>1, ParseSettles
    <3>3. i - 1 \in 0..n
      OBVIOUS
    <3>4. st[i] = Locate(st[i-1], l) /\ ScanOK(st[i-1])
      BY <1>1, <3>3, StagesOK
    <3>5. Steps(st[i-1], l, st[i])
      BY <3>4, LocateSteps
    <3> QED
      BY <2>2, <2>3, <3>2, <3>5, HeadsOrSets DEF Steps
  <2>8. ~Continuing(Parse(p).scan) /\ IsOwn(Parse(Append(p, l)))
    BY <1>4, <2>1, <2>2
  <2>9. Stays(Append(s, m), Append(p, l), lost)
    BY <1>2, <1>5, <2>3, <2>5, <2>6, <2>7, <2>8, ReplaceStep
  <2> QED
    BY <1>2, <2>5, <2>9
<1> QED
  BY <1>7, <1>8

-----------------------------------------------------------------------------
(* A file with AIGuard's lines put in                                       *)

LEMMA FlattenNext ==
  ASSUME NEW X, NEW ss \in Seq(Seq(X)), NEW k \in 1..Len(ss)
  PROVE  /\ FlattenSeq(SubSeq(ss, 1, k)) = FlattenSeq(SubSeq(ss, 1, k-1)) \o ss[k]
         /\ FlattenSeq(SubSeq(ss, 1, k-1)) \in Seq(X)
<1> DEFINE Y == Seq(X)
<1>1. /\ SubSeq(ss, 1, k-1) \in Seq(Y) /\ ss[k] \in Y
      /\ SubSeq(ss, 1, k) = Append(SubSeq(ss, 1, k-1), ss[k])
  <2> HIDE DEF Y
  <2>1. ss \in Seq(Y) /\ k \in 1..Len(ss)
    BY DEF Y
  <2> QED
    BY ONLY <2>1, PrefixNext
<1>2. PICK a, b, c : a = SubSeq(ss, 1, k-1) /\ b = ss[k] /\ c = SubSeq(ss, 1, k)
  OBVIOUS
<1>3. a \in Seq(Seq(X)) /\ b \in Seq(X) /\ c = Append(a, b)
  BY <1>1, <1>2
<1>4. FlattenSeq(c) = FlattenSeq(a) \o b /\ FlattenSeq(a) \in Seq(X)
  BY ONLY <1>3, FlattenAppend, FlattenType
<1> QED
  BY <1>2, <1>4

LEMMA StaysSelf ==
  ASSUME NEW p \in Seq(Line), NEW lost \in BOOLEAN
  PROVE  Stays(p, p, lost)
BY DEF Stays, Alike, Rest, LastKin, Kin

\* The lines put in before line i.
LEMMA PutStays ==
  ASSUME NEW p \in Seq(Line), NEW lost \in BOOLEAN, NEW s, Stays(s, p, lost),
         NEW M, M = {m \in Line : Fits(m, Parse(p), lost)},
         NEW a \in Seq(M), NEW b \in Seq(M)
  PROVE  Stays(s \o (a \o b), p, lost) /\ a \o b \in Seq(Line)
<1>1. M \subseteq Line
  OBVIOUS
<1>3. Seq(M) \subseteq Seq(Line)
  BY <1>1
<1>4. a \o b \in Seq(M)
  BY ConcatProperties
<1>5. Stays(s \o (a \o b), p, lost)
  <2>1. PICK q : q = a \o b
    OBVIOUS
  <2>2. q \in Seq({m \in Line : Fits(m, Parse(p), lost)})
    BY <1>4, <2>1
  <2>3. Stays(s \o q, p, lost)
    BY ONLY <2>2, FitAll, Stays(s, p, lost), lost \in BOOLEAN
  <2> QED
    BY <2>1, <2>3
<1> QED
  BY <1>3, <1>4, <1>5

LEMMA BlanksFit ==
  ASSUME NEW q \in {<<>>, <<<<"\n">>>>}, NEW d, NEW lost
  PROVE  q \in Seq({m \in Line : Fits(m, d, lost)})
<1> DEFINE M == {m \in Line : Fits(m, d, lost)}
<1>1. PICK x : x = <<"\n">>
  OBVIOUS
<1>2. x \in M
  BY <1>1, NewlineIs DEF Fits
<1>3. q = <<>> \/ q = <<x>>
  BY <1>1
<1> HIDE DEF M
<1>4. <<>> \in Seq(M) /\ <<x>> \in Seq(M)
  BY ONLY <1>2
<1>5. q \in Seq(M)
  BY <1>3, <1>4, Zenon
<1> QED
  BY <1>5 DEF M

\* The keys of the provider, under its header.
LEMMA ProviderFits ==
  ASSUME NEW lines \in Seq(Line), NEW st, Scans(lines, st), NEW lost \in BOOLEAN,
         NEW h, h = TableOf(st[Len(lines)], ProviderTable), h # 0,
         NEW q \in Seq({m \in Line : AddsKey(m)})
  PROVE  h \in 1..Len(lines) /\ q \in Seq({m \in Line : Fits(m, st[h], lost)})
<1> DEFINE n == Len(lines)
           D == st[n]
           te == TableEnd(D, h)
           A == {m \in Line : AddsKey(m)}
           M == {m \in Line : Fits(m, st[h], lost)}
<1>1. /\ h \in 1..n /\ ~Continuing(st[h].scan)
      /\ \A k \in h..(te - 1) : k \in 1..n /\ st[k].table = ProviderTable
  BY ProviderLines
<1>2. n \in Nat /\ n \in 0..n
  OBVIOUS
<1>3. ScanOK(D) /\ Len(D.lines) = n
  BY <1>2, StagesOK
<1>4. h \in Nat
  BY <1>1
<1>5. te \in (h+1)..(n+1) \/ te = n + 1
  BY <1>3, <1>4, EndIs
<1>6. h \in h..(te - 1)
  <2> HIDE DEF te, D
  <2> QED
    BY <1>1, <1>2, <1>5
<1>7. st[h].table = ProviderTable
  BY <1>1, <1>6
<1>8. A \subseteq M
  BY <1>1, <1>7 DEF Fits
<1>9. q \in Seq(M)
  <2>1. q \in Seq(A)
    OBVIOUS
  <2> HIDE DEF A, M
  <2> QED
    BY <1>8, <2>1
<1> QED
  BY <1>1, <1>9

\* The keys of the top, above the first table.
LEMMA RootFits ==
  ASSUME NEW lines \in Seq(Line), NEW st, Scans(lines, st), NEW lost \in BOOLEAN,
         NEW at, at = RootInsertPoint(st[Len(lines)]),
         lost <=> Continuing(st[at-1].scan),
         NEW q \in Seq({m \in Line : AddsKey(m) /\ KeyOf(m) \in Managed})
  PROVE  q \in Seq({m \in Line : Fits(m, st[at-1], lost)})
<1> DEFINE A == {m \in Line : AddsKey(m) /\ KeyOf(m) \in Managed}
           M == {m \in Line : Fits(m, st[at-1], lost)}
<1>1. st[at-1].table = <<>>
  BY RootPointIs
<1>2. A \subseteq M
  BY <1>1 DEF Fits
<1>3. q \in Seq(A)
  OBVIOUS
<1> HIDE DEF A, M
<1>4. q \in Seq(M)
  BY <1>2, <1>3
<1> QED
  BY <1>4 DEF M

\* A line of the file and what is put in before it.
LEMMA PartStays ==
  ASSUME NEW lines \in Seq(Line), NEW st, Scans(lines, st), ~Continuing(st[Len(lines)].scan),
         NEW edit, Additive(edit), Resolvable(st[Len(lines)], <<>>, edit.root),
         Resolvable(st[Len(lines)], ProviderTable, edit.provider),
         NEW i \in 1..Len(lines), NEW lost \in BOOLEAN,
         NEW a \in Seq({m \in Line : Fits(m, st[i-1], lost)}),
         NEW b \in Seq({m \in Line : Fits(m, st[i-1], lost)}),
         NEW m \in {Text(st[Len(lines)], edit, i), Terminated(Text(st[Len(lines)], edit, i))}
  PROVE  /\ (a \o b) \o <<m>> \in Seq(Line)
         /\ \A s : Stays(s, SubSeq(lines, 1, i-1), lost) =>
              Stays(s \o ((a \o b) \o <<m>>), SubSeq(lines, 1, i), lost)
<1> DEFINE p == SubSeq(lines, 1, i-1)
<1>1. p \in Seq(Line) /\ i - 1 \in 0..Len(lines)
  BY PrefixNext
<1>2. st[i-1] = Parse(p)
  BY <1>1, PrefixStage
<1> HIDE DEF p
<1>3. ASSUME NEW s, Stays(s, p, lost)
      PROVE  /\ Stays(s \o (a \o b), p, lost) /\ a \o b \in Seq(Line) /\ s \in Seq(Line)
             /\ m \in Line
             /\ Stays(Append(s \o (a \o b), m), SubSeq(lines, 1, i), lost)
  <2>1. Stays(s \o (a \o b), p, lost) /\ a \o b \in Seq(Line)
    <3> DEFINE M == {k \in Line : Fits(k, Parse(p), lost)}
    <3>1. a \in Seq(M) /\ b \in Seq(M)
      BY <1>2
    <3>2. \E N : N = M /\ a \in Seq(N) /\ b \in Seq(N)
      BY <3>1
    <3> QED
      BY <1>1, <1>3, <3>2, PutStays
  <2>2. PICK t : t = s \o (a \o b)
    OBVIOUS
  <2>3. Stays(t, SubSeq(lines, 1, i-1), lost)
    BY <2>1, <2>2 DEF p
  <2>4. m \in Line /\ Stays(Append(t, m), SubSeq(lines, 1, i), lost)
    BY <2>3, TextStep
  <2> QED
    BY <1>3, <2>1, <2>2, <2>4 DEF Stays
<1>4. a \o b \in Seq(Line) /\ m \in Line
  <2>1. Stays(p, p, lost)
    BY <1>1, StaysSelf
  <2> QED
    BY <1>3, <2>1
<1>5. (a \o b) \o <<m>> \in Seq(Line)
  <2>1. <<m>> \in Seq(Line)
    BY <1>4
  <2> QED
    BY <1>4, <2>1, ConcatProperties
<1>6. ASSUME NEW s, Stays(s, p, lost)
      PROVE  Stays(s \o ((a \o b) \o <<m>>), SubSeq(lines, 1, i), lost)
  <2>1. PICK c, t : c = a \o b /\ t = s \o c
    OBVIOUS
  <2>2. c \in Seq(Line) /\ s \in Seq(Line) /\ m \in Line
    BY <1>3, <1>6, <2>1
  <2>3. s \o (c \o <<m>>) = Append(t, m)
    <3>1. Append(c, m) = c \o <<m>>
      BY ONLY <2>2, AppendIsConcat
    <3>2. s \o Append(c, m) = Append(s \o c, m)
      BY ONLY <2>2, ConcatAppend
    <3> QED
      BY <2>1, <3>1, <3>2
  <2>4. Stays(Append(t, m), SubSeq(lines, 1, i), lost)
    BY <1>3, <1>6, <2>1
  <2> QED
    BY <2>1, <2>3, <2>4
<1> QED
  BY <1>5, <1>6 DEF p

\* What is put in at the end: nothing, or the provider table.
LEMMA EndStays ==
  ASSUME NEW p \in Seq(Line), ~Continuing(Parse(p).scan), NEW lost \in BOOLEAN,
         NEW s, Stays(s, p, lost),
         NEW a \in Seq({m \in Line : Fits(m, Parse(p), lost)}),
         NEW b \in Seq({m \in Line : Fits(m, Parse(p), lost)}),
         NEW space \in {<<>>, <<<<"\n">>>>},
         NEW q \in Seq({m \in Line : AddsKey(m)}),
         NEW c \in {<<>>, (space \o <<Heading>>) \o q}
  PROVE  /\ (a \o b) \o c \in Seq(Line)
         /\ s \o ((a \o b) \o c) \in Seq(Line) /\ Rest(s \o ((a \o b) \o c), p, lost)
<1> DEFINE M == {m \in Line : Fits(m, Parse(p), lost)}
           A == {m \in Line : AddsKey(m)}
<1>1. Stays(s \o (a \o b), p, lost) /\ a \o b \in Seq(Line)
  <2>1. \E N : N = M /\ a \in Seq(N) /\ b \in Seq(N)
    OBVIOUS
  <2>2. PICK N : N = {m \in Line : Fits(m, Parse(p), lost)} /\ a \in Seq(N) /\ b \in Seq(N)
    BY <2>1
  <2>3. p \in Seq(Line) /\ lost \in BOOLEAN /\ Stays(s, p, lost)
    OBVIOUS
  <2> QED
    BY ONLY <2>2, <2>3, PutStays
<1>2. PICK e, t : e = a \o b /\ t = s \o e
  OBVIOUS
<1>3. e \in Seq(Line) /\ s \in Seq(Line) /\ Stays(t, p, lost) /\ t \in Seq(Line) /\ Rest(t, p, lost)
  BY <1>1, <1>2 DEF Stays
<1>4. CASE c = <<>>
  <2>1. e \o c = e
    BY <1>3, <1>4, ConcatEmptySeq
  <2> QED
    BY <1>2, <1>3, <2>1
<1>5. CASE c = (space \o <<Heading>>) \o q
  <2>1. space \in Seq(M) /\ space \in Seq(Line)
    <3>1. space \in Seq(M)
      BY BlanksFit
    <3>2. M \subseteq Line
      OBVIOUS
    <3> HIDE DEF M
    <3> QED
      BY <3>1, <3>2
  <2>2. q \in Seq(Line)
    <3>1. q \in Seq(A) /\ A \subseteq Line
      OBVIOUS
    <3> HIDE DEF A
    <3> QED
      BY <3>1
  <2>3. PICK g : g = Heading
    OBVIOUS
  <2>4. g \in Line /\ Heads(g) /\ TableNamed(g) = ProviderTable
    BY <2>3, HeadingIs
  <2>5. Stays(t \o space, p, lost)
    BY <1>3, <2>1, FitAll
  <2>6. Trails(Append(t \o space, g), p, lost)
    BY <2>4, <2>5, HeadStep
  <2>7. Trails(Append(t \o space, g) \o q, p, lost)
    BY <2>6, TrailAll
  <2>8. s \o (e \o c) = Append(t \o space, g) \o q /\ e \o c \in Seq(Line)
    <3>b. PICK u : u = space \o <<g>>
      OBVIOUS
    <3>1. c = u \o q
      BY <1>5, <2>3, <3>b
    <3>a. <<g>> \in Seq(Line)
      BY <2>4
    <3>2. u \in Seq(Line) /\ u = Append(space, g)
      BY <2>1, <2>4, <3>a, <3>b, ConcatProperties, AppendIsConcat
    <3>3. u \o q \in Seq(Line) /\ e \o c \in Seq(Line)
      BY <1>3, <2>2, <3>1, <3>2, ConcatProperties
    <3>4. s \o (e \o c) = t \o (u \o q)
      <4>1. PICK v : v = u \o q
        OBVIOUS
      <4>2. s \in Seq(Line) /\ e \in Seq(Line) /\ v \in Seq(Line)
        BY <1>3, <3>3, <4>1
      <4>3. (s \o e) \o v = s \o (e \o v)
        BY ONLY <4>2, ConcatThree, SMTT(40)
      <4> QED
        BY <1>2, <3>1, <4>1, <4>3
    <3>5. t \o (u \o q) = (t \o u) \o q
      <4>1. t \in Seq(Line) /\ u \in Seq(Line) /\ q \in Seq(Line)
        BY <1>3, <2>2, <3>2
      <4> QED
        BY ONLY <4>1, ConcatThree, SMTT(40)
    <3>6. t \o u = Append(t \o space, g)
      <4>1. t \o Append(space, g) = Append(t \o space, g)
        BY ONLY <1>3, <2>1, <2>4, ConcatAppend
      <4> QED
        BY <3>2, <4>1
    <3> QED
      BY <3>3, <3>4, <3>5, <3>6
  <2> QED
    BY <1>2, <2>7, <2>8 DEF Trails
<1> QED
  BY <1>4, <1>5

\* Where the keys for the top are lost: in a value that goes on.
Lost(lines, edit) ==
  LET d == Parse(lines)
  IN /\ ToInsert(d, <<>>, edit.root) # <<>>
     /\ Continuing(Parse(SubSeq(lines, 1, RootInsertPoint(d) - 1)).scan)

LEMMA ApplyStays ==
  ASSUME NEW lines \in Seq(Line), ~Continuing(Parse(lines).scan),
         NEW edit, Additive(edit), Resolvable(Parse(lines), <<>>, edit.root),
         Resolvable(Parse(lines), ProviderTable, edit.provider)
  PROVE  /\ Edited(Parse(lines), edit) \in Seq(Line)
         /\ Rest(Edited(Parse(lines), edit), lines, Lost(lines, edit))
<1> DEFINE d        == Parse(lines)
           n        == Len(d.lines)
           h        == TableOf(d, ProviderTable)
           root     == ToInsert(d, <<>>, edit.root)
           provider == ToInsert(d, ProviderTable, edit.provider)
           at       == RootInsertPoint(d)
           newTable == edit.provider # <<>> /\ h = 0
           removed  == Dropped(d, <<>>, edit.root)
                       \cup (IF edit.drop THEN TableBlock(d) ELSE {})
           text(i)  == LET new == Rewritten(d, <<>>, edit.root, i)
                                  \cup Rewritten(d, ProviderTable, edit.provider, i)
                       IN IF new = {} THEN d.lines[i] ELSE CHOOSE l \in new : TRUE
           gap      == IF at <= n /\ ~Blank(d.lines[at]) THEN <<<<"\n">>>> ELSE <<>>
           space    == IF (n # 0 /\ ~Blank(d.lines[n])) \/ (n = 0 /\ root # <<>>)
                       THEN <<<<"\n">>>> ELSE <<>>
           ended(i) == \/ i = h /\ provider # <<>>
                       \/ i = n /\ (newTable \/ (root # <<>> /\ at = n + 1))
           heading  == <<"[">> \o ProviderTable \o <<"]", "\n">>
           first(i) == IF i = h + 1 /\ h # 0 THEN provider ELSE <<>>
           second(i) == IF i = at /\ root # <<>> THEN root \o gap ELSE <<>>
           third(i) == IF i = n + 1 /\ newTable
                       THEN space \o <<heading>> \o provider ELSE <<>>
           kept(i)  == IF i > n \/ i \in removed THEN <<>>
                       ELSE <<IF ended(i) THEN Terminated(text(i)) ELSE text(i)>>
           part(i)  == first(i) \o second(i) \o third(i) \o kept(i)
           parts    == [i \in 1..(n+1) |-> part(i)]
           lost     == Lost(lines, edit)
           F(k)     == FlattenSeq(SubSeq(parts, 1, k))
<1>1. Edited(d, edit) = FlattenSeq(parts)
  BY DEF Edited
<1>2. PICK st : Scans(lines, st) /\ d = st[Len(lines)]
  BY ParseIs
<1>3. d.lines = lines /\ n = Len(lines) /\ n \in Nat
  <2>1. d.lines = lines
    BY ParseOK
  <2> QED
    BY <2>1
<1>4. removed = {}
  <2>1. {x \in ToSet(edit.root) : x.value = Missing} = {}
    BY DEF Additive
  <2>2. Dropped(d, <<>>, edit.root) = {}
    <3> HIDE DEF d
    <3> QED
      BY <2>1 DEF Dropped, Lines
  <2>3. ~edit.drop
    BY DEF Additive
  <2> HIDE DEF d
  <2> QED
    BY <2>2, <2>3
<1>5. \A i : text(i) = Text(d, edit, i)
  BY DEF Text
<1>6. /\ provider \in Seq({m \in Line : AddsKey(m)})
      /\ root \in Seq({m \in Line : AddsKey(m) /\ KeyOf(m) \in Managed})
  <2> DEFINE A(T) == {m \in Line : AddsKey(m) /\ \E s \in ToSet(T) : KeyOf(m) = <<s.key>>}
             P == {m \in Line : AddsKey(m)}
             R == {m \in Line : AddsKey(m) /\ KeyOf(m) \in Managed}
  <2>1. provider \in Seq(A(edit.provider)) /\ root \in Seq(A(edit.root))
    <3>1. Writes(edit.provider) /\ Writes(edit.root)
      BY DEF Additive
    <3> QED
      BY ONLY <3>1, InsertAre
  <2>2. A(edit.provider) \subseteq P
    OBVIOUS
  <2>3. A(edit.root) \subseteq R
    BY DEF Additive
  <2> HIDE DEF A, P, R, provider, root
  <2>4. provider \in Seq(P) /\ root \in Seq(R)
    BY <2>1, <2>2, <2>3
  <2> QED
    BY <2>4 DEF P, R
<1>7. gap \in {<<>>, <<<<"\n">>>>} /\ space \in {<<>>, <<<<"\n">>>>} /\ heading = Heading
  <2>1. gap \in {<<>>, <<<<"\n">>>>}
    BY Zenon
  <2>2. space \in {<<>>, <<<<"\n">>>>}
    BY Zenon
  <2>3. heading = Heading
    BY DEF Heading
  <2> QED
    BY <2>1, <2>2, <2>3
<1>8. at \in 1..(n+1) /\ lost \in BOOLEAN
      /\ (root # <<>> => (lost <=> Continuing(st[at-1].scan)))
  <2>1. at \in 1..(n+1)
    BY <1>2, <1>3, RootPointIs
  <2>2. lost <=> root # <<>> /\ Continuing(Parse(SubSeq(lines, 1, at - 1)).scan)
    BY DEF Lost
  <2>3. Parse(SubSeq(lines, 1, at - 1)) = st[at-1]
    <3> HIDE DEF at, n
    <3>1. PICK k : k = at - 1
      OBVIOUS
    <3>2. k \in 0..Len(lines)
      BY <1>3, <2>1, <3>1
    <3> QED
      BY <1>2, <3>1, <3>2, PrefixStage
  <2>4. lost \in BOOLEAN
    BY DEF Lost
  <2> QED
    BY <2>1, <2>2, <2>3, <2>4
<1>9. ~Continuing(d.scan) /\ Resolvable(d, <<>>, edit.root)
      /\ Resolvable(d, ProviderTable, edit.provider) /\ d = Parse(lines)
      /\ h = TableOf(d, ProviderTable) /\ at = RootInsertPoint(d)
  OBVIOUS
<1> HIDE DEF d, h, at, root, provider, newTable, gap, space, ended, heading, text, removed, n, lost
<1>10. ASSUME NEW i \in 1..n
       PROVE  /\ third(i) = <<>>
              /\ \E m \in {Text(d, edit, i), Terminated(Text(d, edit, i))} : kept(i) = <<m>>
  <2>1. third(i) = <<>>
    BY <1>3
  <2>2. kept(i) = <<IF ended(i) THEN Terminated(Text(d, edit, i)) ELSE Text(d, edit, i)>>
    BY <1>3, <1>4, <1>5
  <2> QED
    BY <2>1, <2>2
<1>11. kept(n+1) = <<>> /\ third(n+1) \in {<<>>, (space \o <<Heading>>) \o provider}
  BY <1>3, <1>7
<1>12. ASSUME NEW i \in 1..(n+1)
       PROVE  /\ first(i) \in Seq({m \in Line : Fits(m, st[i-1], lost)})
              /\ second(i) \in Seq({m \in Line : Fits(m, st[i-1], lost)})
  <2> DEFINE M == {m \in Line : Fits(m, st[i-1], lost)}
  <2>1. first(i) \in Seq(M)
    <3>1. CASE i = h + 1 /\ h # 0
      <4>1. h \in 1..Len(lines) /\ provider \in Seq({m \in Line : Fits(m, st[h], lost)})
        BY <1>2, <1>6, <1>8, <1>9, <3>1, ProviderFits
      <4>2. i - 1 = h
        BY <3>1, <4>1
      <4> QED
        BY <3>1, <4>1, <4>2
    <3>2. CASE ~(i = h + 1 /\ h # 0)
      <4> HIDE DEF M
      <4> QED
        BY <3>2
    <3> QED
      BY <3>1, <3>2
  <2>2. second(i) \in Seq(M)
    <3>1. CASE i = at /\ root # <<>>
      <4>1. lost <=> Continuing(st[at-1].scan)
        BY <1>8, <3>1
      <4>2. root \in Seq({m \in Line : Fits(m, st[at-1], lost)})
        BY <1>2, <1>6, <1>8, <1>9, <4>1, RootFits
      <4>3. root \in Seq(M) /\ gap \in Seq(M)
        BY <1>7, <3>1, <4>2, BlanksFit
      <4> HIDE DEF M
      <4> QED
        BY <3>1, <4>3, ConcatProperties
    <3>2. CASE ~(i = at /\ root # <<>>)
      <4> HIDE DEF M
      <4> QED
        BY <3>2
    <3> QED
      BY <3>1, <3>2
  <2> QED
    BY <2>1, <2>2
<1> HIDE DEF first, second, third, kept
<1>13. ASSUME NEW i \in 1..n
       PROVE  /\ part(i) \in Seq(Line)
              /\ \A s : Stays(s, SubSeq(lines, 1, i-1), lost) =>
                          Stays(s \o part(i), SubSeq(lines, 1, i), lost)
  <2>1. PICK a, b : a = first(i) /\ b = second(i)
    OBVIOUS
  <2>2. PICK m \in {Text(d, edit, i), Terminated(Text(d, edit, i))} : kept(i) = <<m>>
    BY <1>10
  <2>a. i \in 1..(n+1) /\ i \in 1..Len(lines)
    BY <1>3
  <2>3. /\ a \in Seq({x \in Line : Fits(x, st[i-1], lost)})
        /\ b \in Seq({x \in Line : Fits(x, st[i-1], lost)})
    BY <1>12, <2>1, <2>a
  <2>4. m \in {Text(st[Len(lines)], edit, i), Terminated(Text(st[Len(lines)], edit, i))}
        /\ ~Continuing(st[Len(lines)].scan) /\ Resolvable(st[Len(lines)], <<>>, edit.root)
        /\ Resolvable(st[Len(lines)], ProviderTable, edit.provider)
    BY <1>2, <1>9
  <2>5. /\ (a \o b) \o <<m>> \in Seq(Line)
        /\ \A s : Stays(s, SubSeq(lines, 1, i-1), lost) =>
              Stays(s \o ((a \o b) \o <<m>>), SubSeq(lines, 1, i), lost)
    BY <1>2, <1>8, <2>3, <2>4, <2>a, PartStays
  <2>6. a \o b \o <<>> = a \o b
    <3>1. a \in Seq(Line) /\ b \in Seq(Line)
      <4> DEFINE M == {x \in Line : Fits(x, st[i-1], lost)}
      <4>1. M \subseteq Line /\ a \in Seq(M) /\ b \in Seq(M)
        BY <2>3
      <4> HIDE DEF M
      <4> QED
        BY <4>1
    <3>2. a \o b \in Seq(Line)
      BY <3>1, ConcatProperties
    <3> QED
      BY <3>2, ConcatEmptySeq
  <2>7. part(i) = (a \o b) \o <<m>>
    BY <1>10, <2>1, <2>2, <2>6
  <2> QED
    BY <2>5, <2>7
<1>14. /\ part(n+1) \in Seq(Line)
       /\ \A s : Stays(s, lines, lost) =>
                   s \o part(n+1) \in Seq(Line) /\ Rest(s \o part(n+1), lines, lost)
  <2>1. PICK a, b, c : a = first(n+1) /\ b = second(n+1) /\ c = third(n+1)
    OBVIOUS
  <2>a. n + 1 \in 1..(n+1) /\ (n + 1) - 1 = Len(lines)
    BY <1>3
  <2>2. /\ a \in Seq({m \in Line : Fits(m, Parse(lines), lost)})
        /\ b \in Seq({m \in Line : Fits(m, Parse(lines), lost)})
    <3>1. st[(n+1)-1] = Parse(lines)
      BY <1>2, <1>9, <2>a
    <3> QED
      BY <1>12, <2>1, <2>a, <3>1
  <2>3. c \in {<<>>, (space \o <<Heading>>) \o provider}
    BY <1>11, <2>1
  <2>4. \A s : Stays(s, lines, lost) =>
          /\ (a \o b) \o c \in Seq(Line)
          /\ s \o ((a \o b) \o c) \in Seq(Line) /\ Rest(s \o ((a \o b) \o c), lines, lost)
    BY <1>6, <1>7, <1>8, <2>2, <2>3, EndStays
  <2>5. (a \o b) \o c \in Seq(Line)
    BY <1>8, <2>4, StaysSelf
  <2>6. part(n+1) = (a \o b) \o c
    <3>1. part(n+1) = ((a \o b) \o c) \o <<>>
      BY <1>11, <2>1
    <3>2. PICK e : e = (a \o b) \o c
      OBVIOUS
    <3>3. e \o <<>> = e
      BY <2>5, <3>2, ConcatEmptySeq
    <3> QED
      BY <3>1, <3>2, <3>3
  <2> QED
    BY <2>4, <2>5, <2>6
<1> HIDE DEF part
<1>15. parts \in Seq(Seq(Line)) /\ Len(parts) = n + 1 /\ \A i \in 1..(n+1) : parts[i] = part(i)
  <2>1. \A i \in 1..(n+1) : part(i) \in Seq(Line)
    BY <1>3, <1>13, <1>14
  <2> DEFINE Y == Seq(Line)
  <2> HIDE DEF Y
  <2>2. \A i \in 1..(n+1) : part(i) \in Y
    BY <2>1 DEF Y
  <2>3. parts \in Seq(Y) /\ Len(parts) = n + 1 /\ \A i \in 1..(n+1) : parts[i] = part(i)
    BY <1>3, <2>2
  <2> QED
    BY <2>3 DEF Y
<1> HIDE DEF parts
<1>16. F(0) = <<>> /\ F(n+1) = FlattenSeq(parts)
  <2>1. SubSeq(parts, 1, 0) = <<>> /\ SubSeq(parts, 1, Len(parts)) = parts
    BY <1>15, PrefixEnds
  <2> QED
    BY <1>15, <2>1, FlattenEmpty
<1>17. ASSUME NEW k \in 1..(n+1) PROVE F(k) = F(k-1) \o part(k)
  <2>1. k \in 1..Len(parts) /\ parts[k] = part(k)
    BY <1>15
  <2> QED
    BY <1>15, <2>1, FlattenNext
<1> HIDE DEF F
<1> DEFINE Bad == {k \in 0..n : ~Stays(F(k), SubSeq(lines, 1, k), lost)}
<1>18. Bad = {}
  <2> SUFFICES ASSUME Bad # {} PROVE FALSE
    OBVIOUS
  <2>a. 0..n \subseteq Nat
    BY <1>3
  <2>b. Bad \subseteq Nat
    BY <2>a
  <2>1. PICK k \in Bad : \A j \in Bad : k <= j
    <3> HIDE DEF Bad
    <3> QED
      BY <2>b, LeastOf
  <2>2. CASE k = 0
    <3>1. SubSeq(lines, 1, 0) = <<>> /\ <<>> \in Seq(Line)
      BY PrefixEnds
    <3>2. Stays(F(0), SubSeq(lines, 1, 0), lost)
      BY <1>8, <1>16, <3>1, StaysSelf
    <3> QED
      BY <2>1, <2>2, <3>2
  <2>3. CASE k # 0
    <3>1. k \in 1..n /\ k \in 1..(n+1) /\ k - 1 \in 0..n /\ k - 1 < k
      BY <1>3, <2>1, <2>3
    <3>2. Stays(F(k-1), SubSeq(lines, 1, k-1), lost)
      BY <2>1, <3>1
    <3>3. Stays(F(k-1) \o part(k), SubSeq(lines, 1, k), lost)
      BY <1>13, <3>1, <3>2
    <3> QED
      BY <1>17, <2>1, <3>1, <3>3
  <2> QED
    BY <2>2, <2>3
<1>19. Stays(F(n), lines, lost)
  <2>1. n \in 0..n /\ SubSeq(lines, 1, n) = lines
    BY <1>3, PrefixEnds
  <2> QED
    BY <1>18, <2>1
<1>20. F(n+1) \in Seq(Line) /\ Rest(F(n+1), lines, lost)
  <2>1. n + 1 \in 1..(n+1) /\ (n+1) - 1 = n
    BY <1>3
  <2>2. F(n+1) = F(n) \o part(n+1)
    BY <1>17, <2>1
  <2> QED
    BY <1>14, <1>19, <2>2
<1> QED
  BY <1>1, <1>16, <1>20 DEF d, lost

-----------------------------------------------------------------------------
(* A key that Codex reads at the top is written at the top                  *)

LEMMA SliceIs ==
  ASSUME NEW X, NEW s \in Seq(X), NEW a \in Nat \ {0}, NEW b \in Int, b <= Len(s)
  PROVE  SubSeq(s, a, b) \in Seq(X)
<1>1. \A i \in a..b : s[i] \in X
  OBVIOUS
<1> QED
  BY <1>1, SubSeqProperties

LEMMA HeaderTyped ==
  ASSUME NEW line \in Line
  PROVE  IsSeq(TableNamed(line))
<1> DEFINE b     == Body(line)
           array == Len(b) > 1 /\ b[2] = "["
           open  == IF array THEN 3 ELSE 2
           end   == FirstOf(b, {"]"}, open)
<1>1. b \in Seq(Tokens) /\ Len(b) \in Nat
  BY BodyIs DEF Line
<1>2. open \in Nat \ {0}
  OBVIOUS
<1>3. Header(line).name = SubSeq(b, open, end - 1)
  BY DEF Header
<1> HIDE DEF b, open
<1>4. end = 0 \/ end \in open..Len(b)
  BY <1>1, <1>2, FirstOfIs
<1> HIDE DEF end
<1>5. end - 1 \in Int /\ end - 1 <= Len(b)
  BY <1>1, <1>2, <1>4
<1>6. SubSeq(b, open, end - 1) \in Seq(Tokens)
  BY <1>1, <1>2, <1>5, SliceIs
<1>7. IsSeq(Header(line).name)
  BY <1>3, <1>6, TypedIsSeq
<1>8. IsSeq(IF Header(line).array THEN <<"[[">> ELSE <<>>)
  BY TupleIsSeq
<1> QED
  BY <1>7, <1>8, ConcatIsSeq DEF TableNamed

LEMMA PathTyped ==
  ASSUME NEW line \in Line
  PROVE  IsSeq(SubSeq(line, 1, Assigns(line) - 1))
<1> DEFINE b  == Body(line)
           at == FirstOf(b, {"=", "#"}, 1)
<1>1. b \in Seq(Tokens) /\ Len(b) \in Nat /\ line \in Seq(Tokens) /\ Len(b) <= Len(line)
  BY BodyIs DEF Line
<1>2. at = 0 \/ at \in 1..Len(b)
  BY <1>1, FirstOfIs
<1>3. Assigns(line) \in {0, at}
  BY DEF Assigns
<1> HIDE DEF at, b
<1>4. Assigns(line) - 1 \in Int /\ Assigns(line) - 1 <= Len(line)
  BY <1>1, <1>2, <1>3
<1>5. SubSeq(line, 1, Assigns(line) - 1) \in Seq(Tokens)
  BY <1>1, <1>4, SliceIs
<1> QED
  BY <1>5, TypedIsSeq

\* The names a parsed file holds.
NamesTyped(d) ==
  /\ IsSeq(d.table)
  /\ \A i \in 1..Len(d.entries) : IsSeq(d.entries[i].table) /\ IsSeq(d.entries[i].path)

LEMMA NamesAreTyped ==
  ASSUME NEW lines \in Seq(Line)
  PROVE  NamesTyped(Parse(lines))
<1> DEFINE G == {s \in Seq(Line) : NamesTyped(Parse(s))}
<1>1. <<>> \in G
  <2>1. Start.table = <<>> /\ Start.entries = <<>>
    BY DEF Start
  <2>2. 1..Len(<<>>) = {}
    OBVIOUS
  <2>3. NamesTyped(Start)
    BY <2>1, <2>2, TupleIsSeq DEF NamesTyped
  <2> QED
    BY <2>3, ParseEmpty
<1>2. ASSUME NEW s \in Seq(Line), NEW line \in Line, s \in G PROVE Append(s, line) \in G
  <2>1. PICK d, e : d = Parse(s) /\ e = Parse(Append(s, line))
    OBVIOUS
  <2>2. e = Locate(d, line)
    BY <2>1, ParseAppend
  <2>3. ScanOK(d) /\ NamesTyped(d)
    BY <1>2, <2>1, ParseOK
  <2>4. Steps(d, line, e)
    BY <2>2, <2>3, LocateSteps
  <2> DEFINE m == Len(d.entries)
             n == Len(d.lines) + 1
  <2>5. m \in Nat /\ \A i \in 1..m : DOMAIN d.entries[i] = EntryFields
    BY <2>3, SeqFacts DEF ScanOK
  <2>6. NamesTyped(e)
    <3>1. CASE Continuing(d.scan)
      <4>1. /\ m > 0 /\ Len(e.entries) = m /\ e.table = d.table
            /\ \A i \in 1..m : i # m => e.entries[i] = d.entries[i]
            /\ e.entries[m] = Continued(d.entries[m], n, Body(line))
        BY <2>4, <3>1 DEF Steps
      <4>2. PICK x, y : x = d.entries[m] /\ y = e.entries[m]
        OBVIOUS
      <4>3. DOMAIN x = EntryFields /\ y = Continued(x, n, Body(line))
        BY <2>5, <4>1, <4>2
      <4>4. y.table = x.table /\ y.path = x.path
        BY <4>3, ContinuedIs
      <4>5. IsSeq(y.table) /\ IsSeq(y.path)
        BY <2>3, <2>5, <4>1, <4>2, <4>4 DEF NamesTyped
      <4> QED
        BY <2>3, <4>1, <4>2, <4>5 DEF NamesTyped
    <3>2. CASE ~Continuing(d.scan) /\ Heads(line)
      <4>1. e.table = TableNamed(line) /\ e.entries = d.entries
        BY <2>4, <3>2, HeadsOrSets DEF Steps
      <4> QED
        BY <1>2, <2>3, <4>1, HeaderTyped DEF NamesTyped
    <3>3. CASE ~Continuing(d.scan) /\ Sets(line)
      <4>1. /\ Len(e.entries) = m + 1 /\ e.table = d.table
            /\ \A i \in 1..m : e.entries[i] = d.entries[i]
            /\ e.entries[m + 1] = NewEntry(d.table, line, n)
        BY <2>4, <3>3, HeadsOrSets DEF Steps
      <4>2. PICK y : y = e.entries[m+1]
        OBVIOUS
      <4>3. y.table = d.table /\ y.path = SubSeq(line, 1, Assigns(line) - 1)
        BY <4>1, <4>2, NewEntryIs
      <4>4. IsSeq(y.table) /\ IsSeq(y.path)
        BY <1>2, <2>3, <4>3, PathTyped DEF NamesTyped
      <4>5. 1..(m+1) = 1..m \cup {m+1}
        BY <2>5
      <4>6. IsSeq(e.table) /\ \A i \in 1..m : IsSeq(e.entries[i].table) /\ IsSeq(e.entries[i].path)
        BY <2>3, <4>1 DEF NamesTyped
      <4> QED
        BY <4>1, <4>2, <4>4, <4>5, <4>6 DEF NamesTyped
    <3>4. CASE ~Continuing(d.scan) /\ ~Heads(line) /\ ~Sets(line)
      <4>1. e.table = d.table /\ e.entries = d.entries
        BY <2>4, <3>4 DEF Steps
      <4> QED
        BY <2>3, <4>1 DEF NamesTyped
    <3> QED
      BY <3>1, <3>2, <3>3, <3>4
  <2> QED
    BY <2>1, <2>6
<1> HIDE DEF G
<1>3. lines \in G
  BY <1>1, <1>2, SequencesAre
<1> QED
  BY <1>3 DEF G

LEMMA PlainTyped ==
  ASSUME NEW name, IsSeq(name)
  PROVE  IsSeq(Plain(name))
<1> DEFINE parts == [i \in DOMAIN name |-> IF name[i] = Quoted THEN <<>> ELSE <<name[i]>>]
           n == Len(name)
<1>1. n \in Nat /\ DOMAIN name = 1..n
  BY SeqFacts
<1>2. Plain(name) = FlattenSeq(parts)
  BY Zenon DEF Plain, Quoted
<1>3. \A i \in 1..n : IsSeq(parts[i])
  BY <1>1, TupleIsSeq
<1>4. DOMAIN parts = 1..n /\ parts = [i \in 1..n |-> parts[i]]
  BY <1>1
<1> HIDE DEF parts, n
<1>5. IsSeq(FlattenSeq(parts))
  BY <1>1, <1>3, <1>4, FlattenIsSeq
<1> QED
  BY <1>2, <1>5

LEMMA TopName ==
  ASSUME NEW e, IsSeq(e.table), IsSeq(e.path), NEW key, key # ".", FullName(e) = <<key>>
  PROVE  e.table = <<>> /\ Plain(e.path) = <<key>>
<1>1. PICK p, q : p = Plain(e.table) /\ q = Plain(e.path)
  OBVIOUS
<1>2. IsSeq(p) /\ IsSeq(q)
  BY <1>1, PlainTyped
<1>3. (IF e.table = <<>> THEN <<>> ELSE Append(p, ".")) \o q = <<key>>
  BY <1>1 DEF FullName
<1> DEFINE X == ToSet(p) \cup ToSet(q) \cup {"."}
<1>4. p \in Seq(X) /\ q \in Seq(X) /\ "." \in X
  BY <1>2 DEF IsSeq
<1> HIDE DEF X
<1>5. ASSUME e.table # <<>> PROVE FALSE
  <2>1. PICK a : a = Append(p, ".")
    OBVIOUS
  <2>2. a \in Seq(X) /\ Len(a) = Len(p) + 1 /\ a[Len(p) + 1] = "." /\ Len(p) \in Nat
        /\ Len(q) \in Nat
    BY <1>4, <2>1
  <2>3. a \o q = <<key>>
    BY <1>3, <1>5, <2>1
  <2>4. Len(a \o q) = Len(a) + Len(q)
        /\ \A i \in 1..(Len(a) + Len(q)) : (a \o q)[i] = IF i <= Len(a) THEN a[i] ELSE q[i - Len(a)]
    BY <1>4, <2>2, ConcatProperties
  <2>5. Len(<<key>>) = 1 /\ <<key>>[1] = key
    OBVIOUS
  <2>6. Len(a) + Len(q) = 1
    BY <2>3, <2>4, <2>5
  <2>7. Len(p) = 0 /\ Len(a) = 1 /\ a[1] = "."
    BY <2>2, <2>6
  <2>8. (a \o q)[1] = a[1]
    BY <2>4, <2>6, <2>7
  <2> QED
    BY <2>3, <2>5, <2>7, <2>8
<1>6. q = <<key>>
  BY <1>3, <1>4, <1>5, ConcatEmptySeq
<1> QED
  BY <1>1, <1>5, <1>6

LEMMA ReadAtTop ==
  ASSUME NEW lines \in Seq(Line), Parses(Parse(lines)), NEW key, key # ".",
         NEW v \in Reads(Parse(lines), <<key>>)
  PROVE  <<key>> \in RootKeys(Parse(lines))
<1>1. PICK d : d = Parse(lines)
  OBVIOUS
<1>2. ScanOK(d) /\ NamesTyped(d) /\ Parses(d) /\ v \in Reads(d, <<key>>)
  BY <1>1, ParseOK, NamesAreTyped
<1>3. ToSet(d.entries) = {d.entries[i] : i \in 1..Len(d.entries)}
  BY <1>2, SeqFacts DEF ToSet, ScanOK
<1>4. PICK i \in 1..Len(d.entries) : FullName(d.entries[i]) = <<key>>
  BY <1>2, <1>3 DEF Reads
<1>5. PICK e : e = d.entries[i]
  OBVIOUS
<1>6. e.table = <<>> /\ Plain(e.path) = <<key>>
  BY <1>2, <1>4, <1>5, TopName DEF NamesTyped
<1>7. e.key = Plain(e.path)
  <2>1. Len(<<key>>) = 1
    OBVIOUS
  <2>2. e \in ToSet(d.entries)
    BY <1>3, <1>5
  <2> QED
    BY <1>2, <1>6, <2>1, <2>2 DEF Parses
<1> QED
  BY <1>1, <1>5, <1>6, <1>7 DEF RootKeys

LEMMA ApplyAdds ==
  ASSUME NEW r \in Relays, r.url # Missing, r.model # Missing
  PROVE  Additive(ApplyEdit(r))
<1> DEFINE root == <<Setting("model_provider", "aiguard"), Setting("model", r.model)>>
           provider == <<Setting("name", "AIGuard"), Setting("base_url", r.url),
                         Setting("wire_api", "responses"),
                         Setting("requires_openai_auth", "true")>>
<1>1. /\ ApplyEdit(r).root = root /\ ApplyEdit(r).provider = provider
      /\ ApplyEdit(r).drop = FALSE
  BY Zenon DEF ApplyEdit
<1>2. PICK m, u : m = r.model /\ u = r.url
  OBVIOUS
<1>3. m \in Tokens /\ u \in Tokens /\ m \notin Marks /\ u \notin Marks /\ m # Missing
  <2>1. {m, u} \ {Missing} \subseteq STRING \ Marks
    BY <1>2, CodexAssumption
  <2>2. m \in STRING \ Marks /\ u \in STRING \ Marks
    BY <1>2, <2>1
  <2> QED
    BY <1>2, <2>2 DEF Tokens
<1>4. \A k \in Known : k \in Tokens /\ k \notin Marks
  BY KnownTokens, KnownApart
<1>5. /\ {"model", "model_provider", "name", "base_url", "wire_api", "requires_openai_auth",
          "aiguard", "AIGuard", "responses", "true"} \subseteq Known
  BY Zenon DEF Known
<1>6. ASSUME NEW k, NEW v PROVE Setting(k, v).key = k /\ Setting(k, v).value = v
  BY DEF Setting
<1>7. ToSet(root) = {Setting("model_provider", "aiguard"), Setting("model", m)}
  <2>1. DOMAIN root = {1, 2} /\ root[1] = Setting("model_provider", "aiguard")
        /\ root[2] = Setting("model", m)
    BY <1>2
  <2> HIDE DEF root
  <2> QED
    BY <2>1 DEF ToSet
<1>8. ToSet(provider) = {Setting("name", "AIGuard"), Setting("base_url", u),
                         Setting("wire_api", "responses"),
                         Setting("requires_openai_auth", "true")}
  <2>1. DOMAIN provider = {1, 2, 3, 4} /\ provider[1] = Setting("name", "AIGuard")
        /\ provider[2] = Setting("base_url", u) /\ provider[3] = Setting("wire_api", "responses")
        /\ provider[4] = Setting("requires_openai_auth", "true")
    BY <1>2
  <2> HIDE DEF provider
  <2> QED
    BY <2>1 DEF ToSet
<1>9. IsSeq(root) /\ IsSeq(provider)
  <2>1. root \in Seq({root[i] : i \in 1..2})
    OBVIOUS
  <2>2. provider \in Seq({provider[i] : i \in 1..4})
    OBVIOUS
  <2> HIDE DEF root, provider
  <2> QED
    BY <2>1, <2>2, TypedIsSeq
<1> HIDE DEF root, provider
<1>10. \A s \in ToSet(root) \cup ToSet(provider) :
         s.key \in Known /\ s.value \in Tokens /\ s.value \notin Marks
  BY ONLY <1>3, <1>4, <1>5, <1>6, <1>7, <1>8
<1>11. Writes(root) /\ Writes(provider)
  BY <1>9, <1>10 DEF Writes
<1>12. \A s \in ToSet(root) : <<s.key>> \in Managed /\ s.value # Missing
  BY <1>3, <1>6, <1>7, CodexAssumption DEF Managed
<1> QED
  BY <1>1, <1>11, <1>12 DEF Additive

\* A switch to a relay adds AIGuard's lines, and blank ones, only: where its
\* keys would be lost in a value that goes on, the file read back has not them.
LEMMA ApplyKeeps ==
  ASSUME NEW lines \in Seq(Line), Parses(Parse(lines)), NEW edit, Additive(edit),
         Editable(Parse(lines), edit, Edited(Parse(lines), edit))
  PROVE  /\ Edited(Parse(lines), edit) \in Seq(Line)
         /\ OperatorLines(Edited(Parse(lines), edit)) = OperatorLines(lines)
<1>1. PICK d, made : d = Parse(lines) /\ made = Edited(d, edit)
  OBVIOUS
<1>2. PICK f : f = Parse(made)
  OBVIOUS
<1>3. /\ Resolvable(d, <<>>, edit.root) /\ Resolvable(d, ProviderTable, edit.provider)
      /\ Verified(f, edit) /\ Parses(f) /\ ~Continuing(d.scan)
  <2>1. /\ Resolvable(d, <<>>, edit.root) /\ Resolvable(d, ProviderTable, edit.provider)
        /\ Verified(f, edit)
    BY <1>1, <1>2 DEF Editable
  <2>2. Parses(f) /\ Parses(d)
    BY <1>1, <2>1 DEF Verified
  <2>3. ~Continuing(d.scan)
    BY <2>2, Zenon DEF Parses
  <2> QED
    BY <2>1, <2>2, <2>3
<1>4. PICK lost : lost = Lost(lines, edit)
  OBVIOUS
<1>5. made \in Seq(Line) /\ Rest(made, lines, lost)
  BY <1>1, <1>3, <1>4, ApplyStays
<1>6. ASSUME lost PROVE FALSE
  <2>1. ToInsert(d, <<>>, edit.root) # <<>>
    BY <1>1, <1>4, <1>6 DEF Lost
  <2>2. RootKeys(f) \subseteq RootKeys(d)
    BY <1>1, <1>2, <1>5, <1>6 DEF Rest
  <2>3. ScanOK(d) /\ IsSeq(d.entries)
    BY <1>1, ParseOK DEF ScanOK
  <2>4. ASSUME NEW s \in ToSet(edit.root) PROVE EntryOf(d, <<>>, s.key) # {}
    <3>1. PICK key : key = s.key
      OBVIOUS
    <3>2. s.value # Missing /\ <<key>> \in Managed
      BY <3>1 DEF Additive
    <3>3. key # "."
      BY <3>2 DEF Managed
    <3>4. Reads(f, <<key>>) = {<<s.value>>}
      <4>1. SaysSetting(f, <<>>, s)
        BY <1>3 DEF Verified
      <4>2. Append(<<>>, key) = <<key>>
        OBVIOUS
      <4> QED
        BY <3>1, <3>2, <4>1, <4>2 DEF SaysSetting
    <3>5. <<s.value>> \in Reads(f, <<key>>)
      BY <3>4
    <3>6. <<key>> \in RootKeys(f)
      BY <1>2, <1>3, <1>5, <3>3, <3>5, ReadAtTop
    <3>7. PICK i \in 1..Len(d.entries) : d.entries[i].table = <<>> /\ d.entries[i].key = <<key>>
      BY <2>2, <3>6 DEF RootKeys
    <3> QED
      BY <2>3, <3>1, <3>7, EntryOfSome
  <2>5. IsSeq(edit.root)
    BY DEF Additive, Writes
  <2> QED
    BY <2>1, <2>4, <2>5, InsertNone
<1> QED
  BY <1>1, <1>5, <1>6 DEF Rest

-----------------------------------------------------------------------------
(* The two switches                                                         *)

\* What a switch asks for, of both files.
InForce(goal, auth, lines) ==
  LET d == Parse(lines)
  IN IF goal = Missing
     THEN /\ auth = [mode |-> "chatgpt", key |-> Missing]
          /\ ~PointsHere(d) /\ ~HasProvider(d, FALSE)
     ELSE /\ auth = [mode |-> "apikey", key |-> goal.key]
          /\ PointsHere(d)
          /\ Reads(d, <<"model">>) = {<<goal.model>>}
          /\ Reads(d, ProviderTable \o <<".", "base_url">>) = {<<goal.url>>}

\* The configuration StartSwitch makes.
Made(lines, edit) == IF edit = NoEdit THEN lines ELSE Edited(Parse(lines), edit)

LEMMA ClearMakes ==
  ASSUME NEW lines, IsSeq(lines), Parses(Parse(lines)),
         NEW edit, edit = ClearEdit(Parse(lines)),
         edit = NoEdit \/ Editable(Parse(lines), edit, Made(lines, edit))
  PROVE  /\ IsSeq(Made(lines, edit)) /\ Parses(Parse(Made(lines, edit)))
         /\ ~PointsHere(Parse(Made(lines, edit))) /\ ~HasProvider(Parse(Made(lines, edit)), FALSE)
<1> DEFINE X == ToSet(lines)
           d == Parse(lines)
           made == Made(lines, edit)
           f == Parse(made)
<1>1. lines \in Seq(X)
  BY DEF IsSeq
<1> HIDE DEF X
<1>2. ScanOK(d) /\ d.lines = lines /\ Len(lines) \in Nat
  BY <1>1, ParseOK
<1>3. IsSeq(edit.root) /\ edit.provider = <<>> /\ IsSeq(edit.provider)
  <2>1. <<>> \in Seq({})
        /\ <<Setting("model_provider", Missing), Setting("model", Missing)>>
             \in Seq({Setting("model_provider", Missing), Setting("model", Missing)})
    OBVIOUS
  <2>2. IsSeq(<<>>) /\ IsSeq(<<Setting("model_provider", Missing), Setting("model", Missing)>>)
    BY <2>1, TypedIsSeq
  <2> QED
    BY <2>2 DEF ClearEdit
<1>4. /\ edit.drop = HasProvider(d, TRUE)
      /\ PointsHere(d) => Setting("model_provider", Missing) \in ToSet(edit.root)
  <2>1. PointsHere(d) => edit.root = <<Setting("model_provider", Missing), Setting("model", Missing)>>
    BY DEF ClearEdit
  <2> QED
    BY <2>1 DEF ClearEdit, ToSet
<1>5. CASE edit = NoEdit
  <2>1. made = lines /\ f = d
    BY <1>5 DEF Made
  <2>2. ~edit.drop /\ ToSet(edit.root) = {}
    BY <1>5 DEF NoEdit, ToSet
  <2>3. ~PointsHere(d) /\ ~HasProvider(d, TRUE)
    BY <1>4, <2>2
  <2>4. ~HasProvider(d, FALSE)
    BY <2>3 DEF HasProvider
  <2> QED
    BY <2>1, <2>3, <2>4
<1>6. CASE edit # NoEdit
  <2>1. made = Edited(d, edit)
    BY <1>6 DEF Made
  <2>2. IsSeq(made)
    BY <1>2, <1>3, <2>1, EditedIsSeq
  <2>3. Verified(f, edit) /\ Parses(f)
    BY <1>6 DEF Editable, Verified
  <2>4. Within(f, d)
    BY <1>1, <2>1, ClearWithin
  <2>5. ScanOK(f)
    <3>1. made \in Seq(ToSet(made))
      BY <2>2 DEF IsSeq
    <3> HIDE DEF made
    <3> QED
      BY <3>1, ParseOK
  <2> HIDE DEF made, f, d
  <2>6. ~PointsHere(f)
    <3>1. CASE PointsHere(d)
      <4>1. SaysSetting(f, <<>>, Setting("model_provider", Missing))
        BY <1>4, <2>3, <3>1 DEF Verified
      <4>2. Reads(f, Append(<<>>, "model_provider")) = {}
        BY <4>1 DEF SaysSetting, Setting
      <4>3. Append(<<>>, "model_provider") = <<"model_provider">>
        OBVIOUS
      <4> QED
        BY <4>2, <4>3 DEF PointsHere
    <3>2. CASE ~PointsHere(d) /\ PointsHere(f)
      <4>1. <<"aiguard">> \in Reads(d, <<"model_provider">>)
        BY <1>2, <2>4, <2>5, <3>2, ReadsWithin DEF PointsHere
      <4>2. Reads(d, <<"model_provider">>) = {<<"aiguard">>}
        BY <1>2, <4>1, ReadsOne DEF ScanOK, d
      <4> QED
        BY <3>2, <4>2 DEF PointsHere
    <3> QED
      BY <3>1, <3>2
  <2>7. ~HasProvider(f, FALSE)
    <3>1. edit.drop => ~HasProvider(f, FALSE)
      BY <2>3 DEF Verified
    <3>2. ~HasProvider(d, TRUE) => ~HasProvider(f, FALSE)
      BY <1>2, <2>4, <2>5, ProviderWithin
    <3> QED
      BY <1>4, <3>1, <3>2
  <2> QED
    BY <2>2, <2>3, <2>6, <2>7 DEF f, made
<1> QED
  BY <1>5, <1>6

LEMMA ApplyMakes ==
  ASSUME NEW lines, IsSeq(lines), NEW r, r.url # Missing, r.model # Missing, "aiguard" # Missing,
         NEW edit, edit = ApplyEdit(r),
         edit = NoEdit \/ Editable(Parse(lines), edit, Made(lines, edit))
  PROVE  /\ IsSeq(Made(lines, edit)) /\ Parses(Parse(Made(lines, edit)))
         /\ PointsHere(Parse(Made(lines, edit)))
         /\ Reads(Parse(Made(lines, edit)), <<"model">>) = {<<r.model>>}
         /\ Reads(Parse(Made(lines, edit)), ProviderTable \o <<".", "base_url">>) = {<<r.url>>}
<1> DEFINE made == Made(lines, edit)
           f == Parse(made)
           X == ToSet(lines)
           root == <<Setting("model_provider", "aiguard"), Setting("model", r.model)>>
           provider == <<Setting("name", "AIGuard"), Setting("base_url", r.url),
                         Setting("wire_api", "responses"),
                         Setting("requires_openai_auth", "true")>>
<1>1. edit.root = root /\ edit.provider = provider
  BY DEF ApplyEdit
<1>2. edit # NoEdit
  <2>1. root # <<>> /\ NoEdit.root = <<>>
    BY DEF NoEdit
  <2> QED
    BY <1>1, <2>1
<1>3. IsSeq(root) /\ IsSeq(provider)
  <2>1. root \in Seq({root[i] : i \in 1..2})
    OBVIOUS
  <2>2. provider \in Seq({provider[i] : i \in 1..4})
    OBVIOUS
  <2> HIDE DEF root, provider
  <2> QED
    BY <2>1, <2>2, TypedIsSeq
<1>4. /\ Setting("model_provider", "aiguard") \in ToSet(root)
      /\ Setting("model", r.model) \in ToSet(root)
      /\ Setting("base_url", r.url) \in ToSet(provider)
  <2>1. DOMAIN root = {1, 2} /\ DOMAIN provider = {1, 2, 3, 4}
    OBVIOUS
  <2>2. root[1] = Setting("model_provider", "aiguard") /\ root[2] = Setting("model", r.model)
        /\ provider[2] = Setting("base_url", r.url)
    OBVIOUS
  <2> HIDE DEF root, provider
  <2> QED
    BY <2>1, <2>2 DEF ToSet
<1> HIDE DEF root, provider
<1>5. IsSeq(made)
  <2>1. lines \in Seq(X)
    BY DEF IsSeq
  <2> HIDE DEF X
  <2>2. Len(Parse(lines).lines) \in Nat
    BY <2>1, ParseOK
  <2>3. made = Edited(Parse(lines), edit)
    BY <1>2 DEF Made
  <2> QED
    BY <1>1, <1>3, <2>2, <2>3, EditedIsSeq
<1>6. Verified(f, edit)
  BY <1>2 DEF Editable
<1> HIDE DEF f
<1>7. /\ SaysSetting(f, <<>>, Setting("model_provider", "aiguard"))
      /\ SaysSetting(f, <<>>, Setting("model", r.model))
      /\ SaysSetting(f, Append(ProviderTable, "."), Setting("base_url", r.url))
      /\ Parses(f)
  BY <1>1, <1>4, <1>6 DEF Verified
<1>8. /\ Append(<<>>, "model_provider") = <<"model_provider">>
      /\ Append(<<>>, "model") = <<"model">>
      /\ Append(Append(ProviderTable, "."), "base_url") = ProviderTable \o <<".", "base_url">>
  BY DEF ProviderTable
<1>9. /\ Reads(f, <<"model_provider">>) = {<<"aiguard">>}
      /\ Reads(f, <<"model">>) = {<<r.model>>}
      /\ Reads(f, ProviderTable \o <<".", "base_url">>) = {<<r.url>>}
  BY <1>7, <1>8 DEF SaysSetting, Setting
<1> QED
  BY <1>5, <1>7, <1>9 DEF PointsHere, f, made

\* A key only in API-key mode.
AuthOK(auth) ==
  /\ auth \in [mode : {"chatgpt", "apikey", "broken"}, key : {r.key : r \in Relays} \cup {Missing}]
  /\ auth.mode # "apikey" => auth.key = Missing

\* A switch under way.  If nobody else has written since it began, the file it
\* is about is the one it read, and what it leaves will be what it is for; if
\* nobody has since the switch before, that one is in force in config.toml and
\* in the auth.json a failure puts back.
SwitchOK ==
  /\ DOMAIN switch = {"stage", "goal", "auth", "backup", "seen", "config", "writes", "began"}
  /\ switch.stage \in {"auth", "config"}
  /\ AuthOK(switch.auth) /\ AuthOK(switch.backup)
  /\ IsSeq(switch.config) /\ Parses(Parse(switch.config))
  /\ switch.began \in 0..outside
  /\ asked = Never \/ asked.at <= switch.began
  /\ asked.at = outside =>
       InForce(asked.goal, IF switch.stage = "config" THEN switch.backup ELSE codexAuth, config)
  /\ switch.began = outside =>
       /\ InForce(switch.goal, IF switch.stage = "auth" THEN switch.auth ELSE codexAuth,
                  switch.config)
       /\ switch.stage = "auth" => switch.backup = codexAuth
       /\ ~switch.writes => switch.config = config

CodexInv ==
  /\ AuthOK(codexAuth)
  /\ IsSeq(config) /\ (config \in Documents \/ Parses(Parse(config)))
  /\ outside \in 0..MaxOutside /\ faults \in 0..MaxFaults
  /\ asked = Never \/ asked.at \in 0..outside
  /\ IF switch = NoSwitch
     THEN asked.at = outside => InForce(asked.goal, codexAuth, config)
     ELSE SwitchOK

LEMMA CodexStarts == CodexInit => CodexInv
<1> SUFFICES ASSUME CodexInit PROVE CodexInv
  OBVIOUS
<1> USE DEF CodexInit
<1>1. AuthOK(codexAuth)
  BY DEF AuthOK
<1>2. IsSeq(config)
  BY CodexAssumption, TypedIsSeq
<1>3. outside \in 0..MaxOutside /\ faults \in 0..MaxFaults /\ asked.at # outside
  BY CodexAssumption DEF Never
<1> QED
  BY <1>1, <1>2, <1>3 DEF CodexInv

\* Who writes from outside ends what the switches so far have left behind.
LEMMA OutsideKeeps ==
  ASSUME CodexInv, outside < MaxOutside, outside' = outside + 1,
         UNCHANGED <<switch, asked, faults>>,
         AuthOK(codexAuth)', IsSeq(config)', (config \in Documents \/ Parses(Parse(config)))'
  PROVE  CodexInv'
<1>1. outside \in Nat /\ outside' \in 0..MaxOutside
  BY CodexAssumption DEF CodexInv
<1>2. asked = Never \/ asked.at \in 0..outside
  BY DEF CodexInv
<1>3. (asked = Never \/ asked.at \in 0..outside)'
  BY <1>1, <1>2 DEF Never
<1>4. asked'.at # outside'
  <2>1. CASE asked = Never
    <3>1. asked'.at = MaxOutside + 1
      BY <2>1 DEF Never
    <3> QED
      BY CodexAssumption, <1>1, <3>1
  <2>2. CASE asked.at \in 0..outside
    BY <1>1, <2>2
  <2> QED
    BY <1>2, <2>1, <2>2
<1>5. CASE switch = NoSwitch
  BY <1>1, <1>3, <1>4, <1>5 DEF CodexInv
<1>6. CASE switch # NoSwitch
  <2>1. SwitchOK
    BY <1>6 DEF CodexInv
  <2>2. switch'.began # outside' /\ switch'.began \in 0..outside'
    BY <1>1, <2>1 DEF SwitchOK
  <2>3. SwitchOK'
    BY <1>4, <2>1, <2>2 DEF SwitchOK, AuthOK, Never
  <2> QED
    BY <1>1, <1>3, <1>6, <2>3 DEF CodexInv
<1> QED
  BY <1>5, <1>6

LEMMA SwitchStarts ==
  ASSUME CodexInv, switch = NoSwitch, NEW goal, NEW auth, NEW edit, NEW changed,
         StartSwitch(Parse(config), goal, auth, edit, changed),
         AuthOK(auth), IsSeq(Made(config, edit)), Parses(Parse(Made(config, edit))),
         InForce(goal, auth, Made(config, edit))
  PROVE  CodexInv'
<1>1. /\ switch' = [stage |-> "auth", goal |-> goal, auth |-> auth, backup |-> codexAuth,
                    seen |-> config, config |-> Made(config, edit), writes |-> edit # NoEdit,
                    began |-> outside]
      /\ UNCHANGED <<codexAuth, config, settled, asked, outside, faults>>
  BY DEF StartSwitch, Made
<1>2. switch'.stage = "auth" /\ switch' # NoSwitch
  BY <1>1 DEF NoSwitch
<1>3. SwitchOK'
  <2>1. edit = NoEdit => Made(config, edit) = config
    BY DEF Made
  <2>2. outside \in Nat /\ asked.at = outside => InForce(asked.goal, codexAuth, config)
    BY DEF CodexInv
  <2>3. asked = Never \/ asked.at <= outside
    BY DEF CodexInv
  <2>4. outside \in 0..outside
    BY DEF CodexInv
  <2>5. AuthOK(codexAuth)
    BY DEF CodexInv
  <2> DEFINE made == Made(config, edit)
  <2> HIDE DEF made
  <2>6. /\ switch'.goal = goal /\ switch'.auth = auth /\ switch'.backup = codexAuth
        /\ switch'.config = Made(config, edit) /\ switch'.began = outside
        /\ switch'.writes = (edit # NoEdit)
        /\ DOMAIN switch' = {"stage", "goal", "auth", "backup", "seen", "config", "writes", "began"}
    BY <1>1
  <2>7. /\ AuthOK(switch.auth)' /\ AuthOK(switch.backup)'
        /\ IsSeq(switch.config)' /\ Parses(Parse(switch.config))'
    BY <1>1, <2>5, <2>6
  <2>8. (asked.at = outside => InForce(asked.goal, codexAuth, config))'
    BY <1>1, <2>2 DEF CodexInv
  <2>9. (InForce(switch.goal, switch.auth, switch.config))'
    BY <1>1, <2>6
  <2> QED
    BY <1>1, <1>2, <2>1, <2>3, <2>4, <2>6, <2>7, <2>8, <2>9 DEF SwitchOK, Never
<1> QED
  BY <1>1, <1>2, <1>3 DEF CodexInv, AuthOK, Never

\* What the variables say of the switch that returns.
LEMMA SwitchEnds ==
  ASSUME CodexInv, Succeed, SwitchOK, AuthOK(codexAuth'), IsSeq(config'),
         Parses(Parse(config')) \/ config' = config,
         switch.began = outside => InForce(switch.goal, codexAuth', config'),
         UNCHANGED <<outside, faults>>
  PROVE  CodexInv'
<1>1. switch' = NoSwitch /\ asked'.goal = switch.goal /\ asked'.at = switch.began
  BY DEF Succeed
<1>2. asked'.at \in 0..outside
  BY <1>1 DEF SwitchOK
<1>3. asked'.at = outside => InForce(asked'.goal, codexAuth', config')
  BY <1>1
<1>4. config' \in Documents \/ Parses(Parse(config'))
  BY DEF CodexInv
<1> QED
  BY <1>1, <1>2, <1>3, <1>4 DEF CodexInv, AuthOK, Never

LEMMA Underway ==
  ASSUME CodexInv, switch.stage # "idle"
  PROVE  SwitchOK /\ switch # NoSwitch
BY DEF CodexInv, NoSwitch

LEMMA CodexSteps == CodexInv /\ [CodexNext]_codexVars => CodexInv'
<1> SUFFICES ASSUME CodexInv, [CodexNext]_codexVars PROVE CodexInv'
  OBVIOUS
<1> USE CodexAssumption
<1>1. IsSeq(config) /\ AuthOK(codexAuth)
  BY DEF CodexInv
<1>2. ASSUME NEW r \in Relays, ApplyProvider(r) PROVE CodexInv'
  <2> DEFINE edit == ApplyEdit(r)
             auth == [mode |-> "apikey", key |-> r.key]
  <2>1. /\ switch = NoSwitch /\ r.url # Missing /\ r.model # Missing
        /\ StartSwitch(Parse(config), r, auth, edit, TRUE)
    BY <1>2 DEF ApplyProvider
  <2>2. edit = NoEdit \/ Editable(Parse(config), edit, Made(config, edit))
    BY <2>1 DEF StartSwitch, Made
  <2> HIDE DEF edit
  <2>3. /\ IsSeq(Made(config, edit)) /\ Parses(Parse(Made(config, edit)))
        /\ PointsHere(Parse(Made(config, edit)))
        /\ Reads(Parse(Made(config, edit)), <<"model">>) = {<<r.model>>}
        /\ Reads(Parse(Made(config, edit)), ProviderTable \o <<".", "base_url">>) = {<<r.url>>}
    BY <1>1, <2>1, <2>2, ApplyMakes DEF edit
  <2>4. InForce(r, auth, Made(config, edit))
    BY <2>3 DEF InForce
  <2>5. AuthOK(auth)
    BY DEF AuthOK
  <2> QED
    BY <2>1, <2>3, <2>4, <2>5, SwitchStarts
<1>3. ASSUME ClearProvider PROVE CodexInv'
  <2> DEFINE edit == ClearEdit(Parse(config))
             auth == ClearedAuth(codexAuth)
             changed == codexAuth.mode = "apikey" \/ edit # NoEdit
  <2>1. /\ switch = NoSwitch
        /\ StartSwitch(Parse(config), Missing, auth, edit, changed)
    BY <1>3 DEF ClearProvider
  <2>2. /\ Parses(Parse(config)) /\ codexAuth.mode # "broken"
        /\ edit = NoEdit \/ Editable(Parse(config), edit, Made(config, edit))
    BY <2>1 DEF StartSwitch, Made
  <2> HIDE DEF edit, changed
  <2>3. /\ IsSeq(Made(config, edit)) /\ Parses(Parse(Made(config, edit)))
        /\ ~PointsHere(Parse(Made(config, edit)))
        /\ ~HasProvider(Parse(Made(config, edit)), FALSE)
    BY <1>1, <2>2, ClearMakes DEF edit
  <2>4. auth = [mode |-> "chatgpt", key |-> Missing]
    <3>1. CASE codexAuth.mode = "apikey"
      BY <3>1 DEF ClearedAuth
    <3>2. CASE codexAuth.mode # "apikey"
      <4>1. codexAuth.mode = "chatgpt" /\ codexAuth.key = Missing
        BY <1>1, <2>2, <3>2 DEF AuthOK
      <4>2. codexAuth = [mode |-> codexAuth.mode, key |-> codexAuth.key]
        BY <1>1 DEF AuthOK
      <4> QED
        BY <3>2, <4>1, <4>2 DEF ClearedAuth
    <3> QED
      BY <3>1, <3>2
  <2>5. AuthOK(auth)
    BY <2>4 DEF AuthOK
  <2>6. InForce(Missing, auth, Made(config, edit))
    BY <2>3, <2>4 DEF InForce
  <2> QED
    BY <2>1, <2>3, <2>5, <2>6, SwitchStarts
<1>4. ASSUME WriteAuth PROVE CodexInv'
  <2>1. SwitchOK /\ switch.stage = "auth" /\ codexAuth' = switch.auth /\ UNCHANGED <<outside, faults>>
    BY <1>4, Underway DEF WriteAuth
  <2>2. AuthOK(codexAuth')
    BY <2>1 DEF SwitchOK
  <2>3. CASE switch.writes
    <3>1. switch' = [switch EXCEPT !.stage = "config"] /\ UNCHANGED <<asked, settled, config>>
      BY <1>4, <2>3 DEF WriteAuth
    <3>2. /\ DOMAIN switch' = DOMAIN switch /\ switch'.stage = "config"
          /\ switch'.goal = switch.goal /\ switch'.auth = switch.auth
          /\ switch'.backup = switch.backup /\ switch'.config = switch.config
          /\ switch'.writes = switch.writes /\ switch'.began = switch.began
      BY <2>1, <3>1 DEF SwitchOK
    <3>3. asked.at = outside => InForce(asked.goal, switch.backup, config)
      <4>1. HAVE asked.at = outside
      <4>2. switch.began = outside
        <5>1. asked # Never
          BY <4>1 DEF CodexInv, Never
        <5> QED
          BY <2>1, <4>1, <5>1 DEF SwitchOK, CodexInv
      <4> QED
        BY <2>1, <4>1, <4>2 DEF SwitchOK
    <3>4. switch.began = outside => InForce(switch.goal, codexAuth', switch.config)
      BY <2>1 DEF SwitchOK
    <3>5. SwitchOK'
      BY <2>1, <2>3, <3>1, <3>2, <3>3, <3>4 DEF SwitchOK, AuthOK, Never
    <3>6. switch' # NoSwitch
      BY <3>2 DEF NoSwitch
    <3> QED
      BY <2>1, <2>2, <3>1, <3>5, <3>6 DEF CodexInv, AuthOK, Never
  <2>4. CASE ~switch.writes
    <3>1. config' = config /\ Succeed
      BY <1>4, <2>4 DEF WriteAuth
    <3>2. switch.began = outside => InForce(switch.goal, codexAuth', config')
      BY <2>1, <2>4, <3>1 DEF SwitchOK
    <3> QED
      BY <1>1, <2>1, <2>2, <3>1, <3>2, SwitchEnds
  <2> QED
    BY <2>3, <2>4
<1>5. ASSUME WriteConfig PROVE CodexInv'
  <2>1. /\ SwitchOK /\ switch.stage = "config" /\ config' = switch.config /\ Succeed
        /\ UNCHANGED <<codexAuth, outside, faults>>
    BY <1>5, Underway DEF WriteConfig
  <2>2. switch.began = outside => InForce(switch.goal, codexAuth', config')
    BY <2>1 DEF SwitchOK
  <2>3. IsSeq(config') /\ Parses(Parse(config'))
    BY <2>1 DEF SwitchOK
  <2> QED
    BY <1>1, <2>1, <2>2, <2>3, SwitchEnds
<1>6. ASSUME WriteFails PROVE CodexInv'
  <2>1. /\ SwitchOK /\ switch' = NoSwitch /\ UNCHANGED <<config, settled, asked, outside>>
        /\ codexAuth' = (IF switch.stage = "config" THEN switch.backup ELSE codexAuth)
        /\ faults' = faults + 1 /\ faults < MaxFaults
    BY <1>6, Underway DEF WriteFails, Fault
  <2>2. AuthOK(codexAuth') /\ (asked.at = outside => InForce(asked.goal, codexAuth', config))
    BY <1>1, <2>1 DEF SwitchOK
  <2>3. faults' \in 0..MaxFaults
    BY <2>1 DEF CodexInv
  <2> QED
    BY <2>1, <2>2, <2>3 DEF CodexInv, AuthOK, Never
<1>7. ASSUME Interrupted PROVE CodexInv'
  <2>1. /\ switch' = NoSwitch /\ UNCHANGED <<codexAuth, config, settled, outside>>
        /\ asked' = Never /\ faults' = faults + 1 /\ faults < MaxFaults
    BY <1>7 DEF Interrupted, Fault
  <2>2. faults' \in 0..MaxFaults
    BY <2>1 DEF CodexInv
  <2>3. Never.at # outside
    BY DEF CodexInv, Never
  <2> QED
    BY <2>1, <2>2, <2>3 DEF CodexInv, AuthOK, Never
<1>8. ASSUME NEW p \in Paragraphs, OperatorEdits(p) PROVE CodexInv'
  <2> DEFINE before == IF config = <<>> THEN <<>>
                       ELSE [config EXCEPT ![Len(config)] = Terminated(config[Len(config)])]
  <2>1. /\ outside < MaxOutside /\ outside' = outside + 1
        /\ Parses(Parse(before \o p)) /\ config' = before \o p
        /\ UNCHANGED <<codexAuth, switch, asked, faults>>
    BY <1>8 DEF OperatorEdits
  <2>2. IsSeq(before)
    <3>1. CASE config = <<>>
      BY <3>1, TupleIsSeq
    <3>2. CASE config # <<>>
      <4>1. Len(config) > 0
        <5>1. config \in Seq(ToSet(config))
          BY <1>1 DEF IsSeq
        <5> QED
          BY <3>2, <5>1
      <4> QED
        BY <1>1, <3>2, <4>1, ExceptFacts
    <3> QED
      BY <3>1, <3>2
  <2>3. IsSeq(p)
    BY TypedIsSeq
  <2>4. IsSeq(config')
    BY <2>1, <2>2, <2>3, ConcatIsSeq
  <2>5. AuthOK(codexAuth)' /\ IsSeq(config)' /\ Parses(Parse(config))'
    BY <1>1, <2>1, <2>4 DEF AuthOK
  <2> QED
    BY <2>1, <2>5, OutsideKeeps
<1>9. ASSUME NEW mode \in {"chatgpt", "apikey"}, CodexLogin(mode) PROVE CodexInv'
  <2>1. /\ outside < MaxOutside /\ outside' = outside + 1
        /\ codexAuth' = [mode |-> mode, key |-> Missing]
        /\ UNCHANGED <<config, switch, asked, faults>>
    BY <1>9 DEF CodexLogin
  <2>2. AuthOK(codexAuth)'
    BY <2>1 DEF AuthOK
  <2>3. IsSeq(config)' /\ (config \in Documents \/ Parses(Parse(config)))'
    BY <1>1, <2>1 DEF CodexInv
  <2> QED
    BY <2>1, <2>2, <2>3, OutsideKeeps
<1>10. ASSUME UNCHANGED codexVars PROVE CodexInv'
  BY <1>10 DEF codexVars, CodexInv, SwitchOK, AuthOK, Never
<1> QED
  BY <1>2, <1>3, <1>4, <1>5, <1>6, <1>7, <1>8, <1>9, <1>10 DEF CodexNext

\* An operator whose config.toml Codex can read keeps one it can, and the
\* variables keep their types: whatever the line editor makes is read back
\* before it is written.
THEOREM CodexTypesHold ==
  ASSUME \A lines \in Documents : Parses(Parse(lines))
  PROVE  CodexSpec => []CodexTypeOK
<1>1. CodexInv => CodexTypeOK
  <2> SUFFICES ASSUME CodexInv PROVE CodexTypeOK
    OBVIOUS
  <2>1. switch.stage \in {"idle", "auth", "config"}
    BY DEF CodexInv, SwitchOK, NoSwitch
  <2> QED
    BY <2>1 DEF CodexInv, CodexTypeOK, AuthOK
<1> QED
  BY <1>1, CodexStarts, CodexSteps, PTL DEF CodexSpec

\* The last switch that succeeded is in force in auth.json and config.toml
\* until somebody else writes one of them (codex_llm.go:131-134).
THEOREM LastSwitchStays == CodexSpec => []LastSwitchHolds
<1>1. CodexInv => LastSwitchHolds
  BY DEF CodexInv, LastSwitchHolds, InForce
<1> QED
  BY <1>1, CodexStarts, CodexSteps, PTL DEF CodexSpec

-----------------------------------------------------------------------------
(* The operator's lines                                                     *)

LEMMA StringLines ==
  Seq(Seq(STRING)) \subseteq Seq(Line)
<1>1. STRING \subseteq Tokens
  BY DEF Tokens
<1>2. ASSUME NEW X, NEW Y, X \subseteq Y PROVE Seq(X) \subseteq Seq(Y)
  BY <1>2
<1>3. Seq(STRING) \subseteq Line
  BY <1>1, <1>2, Zenon DEF Line
<1> QED
  BY <1>2, <1>3, Zenon

\* The files are text, and what a switch is about to write has the operator's
\* lines as the switch has read them.
KeepsInv ==
  /\ config \in Seq(Line)
  /\ switch # NoSwitch =>
       /\ switch.config \in Seq(Line)
       /\ OperatorLines(switch.config) = OperatorLines(switch.seen)

LEMMA KeepsStarts == CodexInit => KeepsInv
<1> SUFFICES ASSUME CodexInit PROVE KeepsInv
  OBVIOUS
<1>1. config \in Seq(Line) /\ switch = NoSwitch
  BY CodexAssumption, StringLines DEF CodexInit
<1> QED
  BY <1>1 DEF KeepsInv

LEMMA KeepsSwitch ==
  ASSUME KeepsInv, NEW goal, NEW auth, NEW edit, NEW changed,
         StartSwitch(Parse(config), goal, auth, edit, changed),
         edit # NoEdit =>
           /\ Edited(Parse(config), edit) \in Seq(Line)
           /\ OperatorLines(Edited(Parse(config), edit)) = OperatorLines(config)
  PROVE  KeepsInv'
<1>1. PICK made : made = Made(config, edit)
  OBVIOUS
<1>2. made \in Seq(Line) /\ OperatorLines(made) = OperatorLines(config)
  BY <1>1 DEF Made, KeepsInv
<1>3. /\ switch' = [stage |-> "auth", goal |-> goal, auth |-> auth, backup |-> codexAuth,
                    seen |-> config, config |-> made, writes |-> edit # NoEdit,
                    began |-> outside]
      /\ config' = config
  BY <1>1 DEF StartSwitch, Made
<1>4. switch'.config = made /\ switch'.seen = config
  BY <1>3
<1> QED
  BY <1>2, <1>3, <1>4 DEF KeepsInv

LEMMA KeepsSteps == CodexInv /\ KeepsInv /\ [CodexNext]_codexVars => KeepsInv'
<1> SUFFICES ASSUME CodexInv, KeepsInv, [CodexNext]_codexVars PROVE KeepsInv'
  OBVIOUS
<1>1. config \in Seq(Line)
  BY DEF KeepsInv
<1>2. ASSUME NEW r \in Relays, ApplyProvider(r) PROVE KeepsInv'
  <2>1. PICK edit : edit = ApplyEdit(r)
    OBVIOUS
  <2>2. /\ r.url # Missing /\ r.model # Missing
        /\ StartSwitch(Parse(config), r, [mode |-> "apikey", key |-> r.key], edit, TRUE)
    BY <1>2, <2>1 DEF ApplyProvider
  <2>3. Additive(edit)
    BY <2>1, <2>2, ApplyAdds
  <2>4. ASSUME edit # NoEdit
        PROVE  /\ Edited(Parse(config), edit) \in Seq(Line)
               /\ OperatorLines(Edited(Parse(config), edit)) = OperatorLines(config)
    <3>1. Parses(Parse(config)) /\ Editable(Parse(config), edit, Edited(Parse(config), edit))
      BY <2>2, <2>4 DEF StartSwitch
    <3> QED
      BY <1>1, <2>3, <3>1, ApplyKeeps
  <2> QED
    BY <2>2, <2>4, KeepsSwitch
<1>3. ASSUME ClearProvider PROVE KeepsInv'
  <2> DEFINE edit == ClearEdit(Parse(config))
             changed == codexAuth.mode = "apikey" \/ edit # NoEdit
  <2>1. StartSwitch(Parse(config), Missing, ClearedAuth(codexAuth), edit, changed)
    BY <1>3 DEF ClearProvider
  <2>2. /\ Edited(Parse(config), edit) \in Seq(Line)
        /\ OperatorLines(Edited(Parse(config), edit)) = OperatorLines(config)
    BY <1>1, ClearKeeps
  <2> HIDE DEF edit, changed
  <2> QED
    BY <2>1, <2>2, KeepsSwitch
<1>4. ASSUME WriteAuth PROVE KeepsInv'
  <2>1. SwitchOK /\ switch # NoSwitch
    BY <1>4, Underway DEF WriteAuth
  <2>2. CASE switch.writes
    <3>1. switch' = [switch EXCEPT !.stage = "config"] /\ config' = config
      BY <1>4, <2>2 DEF WriteAuth
    <3>2. switch'.config = switch.config /\ switch'.seen = switch.seen
      BY <2>1, <3>1 DEF SwitchOK
    <3> QED
      BY <2>1, <3>1, <3>2 DEF KeepsInv
  <2>3. CASE ~switch.writes
    BY <1>1, <1>4, <2>3 DEF WriteAuth, Succeed, KeepsInv
  <2> QED
    BY <2>2, <2>3
<1>5. ASSUME WriteConfig PROVE KeepsInv'
  <2>1. switch # NoSwitch
    BY <1>5, Underway DEF WriteConfig
  <2> QED
    BY <1>5, <2>1 DEF WriteConfig, Succeed, KeepsInv
<1>6. ASSUME WriteFails \/ Interrupted PROVE KeepsInv'
  BY <1>1, <1>6 DEF WriteFails, Interrupted, KeepsInv
<1>7. ASSUME NEW p \in Paragraphs, OperatorEdits(p) PROVE KeepsInv'
  <2> DEFINE before == IF config = <<>> THEN <<>>
                       ELSE [config EXCEPT ![Len(config)] = Terminated(config[Len(config)])]
  <2>1. config' = before \o p /\ switch' = switch
    BY <1>7 DEF OperatorEdits
  <2>2. before \in Seq(Line)
    <3>1. CASE config = <<>>
      BY <1>1, <3>1
    <3>2. CASE config # <<>>
      <4>1. Len(config) \in 1..Len(config) /\ config[Len(config)] \in Line
        BY <1>1, <3>2
      <4>2. Terminated(config[Len(config)]) \in Line
        BY <4>1, TerminatedIs
      <4> QED
        BY <1>1, <3>2, <4>1, <4>2
    <3> QED
      BY <3>1, <3>2
  <2>3. p \in Seq(Line)
    BY CodexAssumption, StringLines
  <2>4. config' \in Seq(Line)
    BY <2>1, <2>2, <2>3, ConcatProperties
  <2> QED
    BY <2>1, <2>4 DEF KeepsInv
<1>8. ASSUME NEW mode \in {"chatgpt", "apikey"}, CodexLogin(mode) PROVE KeepsInv'
  BY <1>8 DEF CodexLogin, KeepsInv
<1>9. ASSUME UNCHANGED codexVars PROVE KeepsInv'
  BY <1>9 DEF codexVars, KeepsInv
<1> QED
  BY <1>2, <1>3, <1>4, <1>5, <1>6, <1>7, <1>8, <1>9 DEF CodexNext

\* Switching to a relay and back changes the lines of the managed keys and of
\* the provider table, and blank ones, and no other (codex_toml.go:54-63).
THEOREM OperatorsLinesAreKept == CodexSpec => []OperatorLinesStay
<1>1. CodexInv /\ KeepsInv => OperatorLinesStay
  BY DEF KeepsInv, OperatorLinesStay, NoSwitch
<1>2. CodexInit => CodexInv /\ KeepsInv
  BY CodexStarts, KeepsStarts
<1>3. CodexInv /\ KeepsInv /\ [CodexNext]_codexVars => (CodexInv /\ KeepsInv)'
  BY CodexSteps, KeepsSteps
<1> QED
  BY <1>1, <1>2, <1>3, PTL DEF CodexSpec
=============================================================================
