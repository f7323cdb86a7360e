--------------------------- MODULE PatchersProofs ---------------------------
(***************************************************************************)
(* Claude Code's hooks, for any events, files and handlers: that no update *)
(* touches a handler of the user's, and that each agent is patched or not  *)
(* as its last Patch or Unpatch says.  Hermes's config.yaml, for any       *)
(* document: that an edit leaves the user's text, and that what succeeded  *)
(* is so on disk.  What an edit does to a list of groups or of lines       *)
(* follows by the least index for which it would not.                      *)
(***************************************************************************)
EXTENDS ClaudeHooks, HermesPatch, FiniteSetTheorems, SequenceTheorems, WellFoundedInduction, TLAPS

-----------------------------------------------------------------------------
(* Flattened sequences                                                      *)

LEMMA LeastOf ==
  ASSUME NEW S, S \subseteq Nat, S # {}
  PROVE  \E n \in S : \A m \in S : n <= m
<1>1. PICK n \in S : \A m \in S : ~ (<<m, n>> \in OpToRel(<, Nat))
  BY NatLessThanWellFounded, WFMin, Zenon
<1>2. \A m \in S : n <= m
  <2> TAKE m \in S
  <2>1. <<m, n>> \notin OpToRel(<, Nat)
    BY <1>1
  <2>2. n \in Nat /\ m \in Nat
    OBVIOUS
  <2>3. ~ (m < n)
    BY <2>1, <2>2, Zenon DEF OpToRel
  <2> QED
    BY <2>2, <2>3
<1> QED
  BY <1>2

\* f[i] is the concatenation of the first i sequences.
Flattens(ss, f) ==
  f = [i \in 1..Len(ss) |-> IF i = 1 THEN ss[i] ELSE f[i-1] \o ss[i]]

LEMMA FlatteningExists ==
  ASSUME NEW X, NEW ss \in Seq(Seq(X))
  PROVE  \E f : Flattens(ss, f)
<1> DEFINE Upto(n, f) == f = [i \in 1..n |-> IF i = 1 THEN ss[i] ELSE f[i-1] \o ss[i]]
           Bad == {n \in 0..Len(ss) : ~ \E f : Upto(n, f)}
<1>0. Len(ss) \in Nat
  OBVIOUS
<1>a. \A f : Upto(Len(ss), f) => Flattens(ss, f)
  BY DEF Flattens
<1>b. Upto(0, [i \in 1..0 |-> ss[i]])
  OBVIOUS
<1>d. \A n, f : f = [i \in 1..n |-> IF i = 1 THEN ss[i] ELSE f[i-1] \o ss[i]] => Upto(n, f)
  OBVIOUS
<1> HIDE DEF Upto
<1>1. SUFFICES ASSUME Bad # {} PROVE FALSE
  BY <1>0, <1>a
<1>e. Bad \subseteq Nat
  BY <1>0
<1>2. PICK n \in Bad : \A m \in Bad : n <= m
  BY <1>1, <1>e, LeastOf
<1>3. n \in 0..Len(ss) /\ ~ \E f : Upto(n, f)
  OBVIOUS
<1>4. n # 0
  BY <1>3, <1>b
<1>5. PICK f : Upto(n - 1, f)
  <2>1. n - 1 \in 0..Len(ss) /\ ~ n <= n - 1
    BY <1>0, <1>3, <1>4
  <2> QED
    BY <1>2, <2>1
<1>f. f = [i \in 1..n-1 |-> IF i = 1 THEN ss[i] ELSE f[i-1] \o ss[i]]
  BY <1>5 DEF Upto
<1> DEFINE g == [i \in 1..n |-> IF i < n THEN f[i] ELSE IF i = 1 THEN ss[i] ELSE f[i-1] \o ss[i]]
<1>6. Upto(n, g)
  <2>1. \A i \in 1..n : g[i] = IF i = 1 THEN ss[i] ELSE g[i-1] \o ss[i]
    <3> TAKE i \in 1..n
    <3>1. CASE i < n
      <4>1. i \in 1..n-1 /\ (i # 1 => i-1 \in 1..n-1)
        BY <1>3, <3>1
      <4>2. f[i] = IF i = 1 THEN ss[i] ELSE f[i-1] \o ss[i]
        BY <1>f, <4>1
      <4>3. g[i] = f[i] /\ (i # 1 => g[i-1] = f[i-1])
        BY <1>3, <3>1, <4>1
      <4> QED
        BY <4>2, <4>3
    <3>2. CASE i = n
      <4>1. i # 1 => i-1 \in 1..n /\ i-1 < n
        BY <1>3, <3>2
      <4>2. i # 1 => g[i-1] = f[i-1]
        BY <4>1
      <4> QED
        BY <3>2, <4>2
    <3> QED
      BY <1>3, <3>1, <3>2
  <2> HIDE DEF g
  <2>2. g = [i \in 1..n |-> g[i]]
    BY DEF g
  <2> QED
    BY ZenonT(60), <1>d, <2>1, <2>2
<1> QED
  BY <1>3, <1>6

LEMMA FlattenIs ==
  ASSUME NEW X, NEW ss \in Seq(Seq(X)), ss # <<>>
  PROVE  \E f : Flattens(ss, f) /\ FlattenSeq(ss) = f[Len(ss)]
<1>1. Len(ss) # 0
  OBVIOUS
<1> DEFINE f == CHOOSE g : Flattens(ss, g)
<1>2. Flattens(ss, f)
  BY FlatteningExists
<1>3. FlattenSeq(ss) = f[Len(ss)]
  BY <1>1 DEF FlattenSeq, Flattens
<1> QED
  BY <1>2, <1>3

LEMMA FlattenEmpty == FlattenSeq(<<>>) = <<>>
BY DEF FlattenSeq

LEMMA FlatteningUnique ==
  ASSUME NEW X, NEW ss \in Seq(Seq(X)), NEW s, NEW f, NEW g,
         Flattens(ss, f), Flattens(Append(ss, s), g), NEW k \in 1..Len(ss)
  PROVE  f[k] = g[k]
<1> DEFINE n == Len(ss)
           tt == Append(ss, s)
           Bad == {j \in 1..n : f[j] # g[j]}
<1>1. SUFFICES ASSUME Bad # {} PROVE FALSE
  OBVIOUS
<1>a. Bad \subseteq Nat
  OBVIOUS
<1>2. PICK j \in Bad : \A m \in Bad : j <= m
  BY <1>1, <1>a, LeastOf
<1>3. n \in Nat /\ j \in 1..n /\ f[j] # g[j]
  OBVIOUS
<1>4. Len(tt) = n + 1 /\ tt[j] = ss[j] /\ j \in 1..Len(tt)
  BY <1>3
<1> HIDE DEF tt
<1>5. f[j] = IF j = 1 THEN ss[j] ELSE f[j-1] \o ss[j]
  BY <1>3 DEF Flattens
<1>6. g[j] = IF j = 1 THEN ss[j] ELSE g[j-1] \o ss[j]
  <2>1. g = [i \in 1..Len(tt) |-> IF i = 1 THEN tt[i] ELSE g[i-1] \o tt[i]]
    BY DEF Flattens, tt
  <2> QED
    BY <1>4, <2>1
<1>7. j # 1 => f[j-1] = g[j-1]
  BY <1>2, <1>3
<1> QED
  BY <1>3, <1>5, <1>6, <1>7

LEMMA FlattenType ==
  ASSUME NEW X, NEW ss \in Seq(Seq(X))
  PROVE  FlattenSeq(ss) \in Seq(X)
<1>1. CASE ss = <<>>
  BY <1>1, FlattenEmpty, EmptySeq
<1>2. CASE ss # <<>>
  <2>1. PICK f : Flattens(ss, f) /\ FlattenSeq(ss) = f[Len(ss)]
    BY <1>2, FlattenIs
  <2> DEFINE Bad == {i \in 1..Len(ss) : f[i] \notin Seq(X)}
  <2>2. Bad = {}
    <3>1. SUFFICES ASSUME Bad # {} PROVE FALSE
      OBVIOUS
    <3>2. PICK i \in Bad : \A m \in Bad : i <= m
      BY <3>1, LeastOf, Bad \subseteq Nat
    <3>a. ss[i] \in Seq(X)
      OBVIOUS
    <3>3. f[i] = IF i = 1 THEN ss[i] ELSE f[i-1] \o ss[i]
      BY <2>1 DEF Flattens
    <3>4. i # 1 => f[i-1] \in Seq(X)
      BY <3>2
    <3>5. i # 1 => f[i-1] \o ss[i] \in Seq(X)
      BY <3>4, <3>a, ConcatProperties
    <3> QED
      BY <3>a, <3>3, <3>5
  <2> QED
    BY <1>2, <2>1, <2>2
<1> QED
  BY <1>1, <1>2

LEMMA FlattenAppend ==
  ASSUME NEW X, NEW ss \in Seq(Seq(X)), NEW s \in Seq(X)
  PROVE  FlattenSeq(Append(ss, s)) = FlattenSeq(ss) \o s
<1> DEFINE tt == Append(ss, s)
<1>1. tt \in Seq(Seq(X)) /\ tt # <<>> /\ Len(tt) = Len(ss) + 1 /\ Len(ss) \in Nat
      /\ tt[Len(tt)] = s
  BY AppendProperties
<1> HIDE DEF tt
<1>2. PICK g : Flattens(tt, g) /\ FlattenSeq(tt) = g[Len(tt)]
  BY <1>1, FlattenIs
<1>3. g[Len(tt)] = IF Len(tt) = 1 THEN s ELSE g[Len(ss)] \o s
  <2>1. g = [i \in 1..Len(tt) |-> IF i = 1 THEN tt[i] ELSE g[i-1] \o tt[i]]
    BY <1>2 DEF Flattens
  <2>2. g[Len(tt)] = IF Len(tt) = 1 THEN tt[Len(tt)] ELSE g[Len(tt)-1] \o tt[Len(tt)]
    <3>1. Len(tt) \in 1..Len(tt)
      BY <1>1
    <3> QED
      BY <2>1, <3>1
  <2>3. Len(tt) - 1 = Len(ss)
    BY <1>1
  <2> QED
    BY <1>1, <2>2, <2>3
<1>4. CASE ss = <<>>
  BY <1>1, <1>2, <1>3, <1>4, FlattenEmpty, ConcatEmptySeq DEF tt
<1>5. CASE ss # <<>>
  <2>1. PICK f : Flattens(ss, f) /\ FlattenSeq(ss) = f[Len(ss)]
    BY <1>5, FlattenIs
  <2>2. f[Len(ss)] = g[Len(ss)]
    <3>1. Len(ss) \in 1..Len(ss)
      BY <1>1, <1>5
    <3> QED
      BY <3>1, <1>1, <1>2, <1>5, <2>1, FlatteningUnique DEF tt
  <2>3. Len(ss) # 0
    BY <1>5
  <2>4. Len(tt) # 1
    BY <1>1, <2>3
  <2>5. g[Len(ss)] = FlattenSeq(ss)
    BY <2>1, <2>2
  <2> QED
    BY <1>2, <1>3, <2>4, <2>5 DEF tt
<1> QED
  BY <1>4, <1>5 DEF tt

-----------------------------------------------------------------------------
(* Induction over the length of a sequence, and what it gives for           *)
(* flattening: the elements, concatenations, empty parts.                   *)

Upto(ss, n) == SubSeq(ss, 1, n)

\* Induction over sequences, for a set of sequences.
LEMMA SequencesAre ==
  ASSUME NEW X, NEW G, <<>> \in G,
         \A tt \in Seq(X), s \in X : tt \in G => Append(tt, s) \in G,
         NEW ss \in Seq(X)
  PROVE  ss \in G
<1> DEFINE Bad == {n \in 0..Len(ss) : Upto(ss, n) \notin G}
<1>0. Len(ss) \in Nat /\ Bad \subseteq Nat
  OBVIOUS
<1>1. Upto(ss, 0) = <<>>
  BY SubSeqEmpty DEF Upto
<1>2. Upto(ss, Len(ss)) = ss
  BY SubSeqFull DEF Upto
<1>3. ASSUME NEW n \in 0..Len(ss)
      PROVE  Upto(ss, n) \in Seq(X)
  <2>1. n \in Int /\ 1 \in Int /\ \A i \in 1..n : ss[i] \in X
    BY <1>0
  <2> QED
    BY <2>1, SubSeqProperties DEF Upto
<1>4. ASSUME Bad # {} PROVE FALSE
  <2>1. PICK n \in Bad : \A m \in Bad : n <= m
    BY <1>0, <1>4, LeastOf
  <2>2. n \in 0..Len(ss) /\ n # 0
    BY <1>1
  <2>3. /\ n - 1 \in 0..Len(ss) /\ ss[n] \in X /\ 1 \in 1..Len(ss) /\ n \in 1..Len(ss)
        /\ ~ n <= n - 1
    BY <1>0, <2>2
  <2>4. Upto(ss, n-1) \in Seq(X) /\ Upto(ss, n-1) \in G
    BY <1>3, <2>1, <2>3
  <2>5. Upto(ss, n) = Upto(ss, n-1) \o <<ss[n]>>
    BY <2>3, SubSeqRecursiveSecond DEF Upto
  <2>6. Upto(ss, n) = Append(Upto(ss, n-1), ss[n])
    BY <2>3, <2>4, <2>5, AppendIsConcat
  <2> QED
    BY <2>1, <2>3, <2>4, <2>6
<1>5. Len(ss) \in 0..Len(ss)
  BY <1>0
<1> QED
  BY <1>2, <1>4, <1>5

LEMMA AppendedAt ==
  ASSUME NEW X, NEW ss \in Seq(X), NEW s \in X
  PROVE  /\ DOMAIN Append(ss, s) = DOMAIN ss \cup {Len(ss) + 1}
         /\ Len(ss) + 1 \notin DOMAIN ss
         /\ \A i \in DOMAIN ss : Append(ss, s)[i] = ss[i]
         /\ Append(ss, s)[Len(ss) + 1] = s
OBVIOUS

LEMMA SetOfConcat ==
  ASSUME NEW X, NEW a \in Seq(X), NEW b \in Seq(X)
  PROVE  ToSet(a \o b) = ToSet(a) \cup ToSet(b)
<1>1. /\ Len(a) \in Nat /\ Len(b) \in Nat /\ DOMAIN a = 1..Len(a) /\ DOMAIN b = 1..Len(b)
      /\ DOMAIN (a \o b) = 1 .. Len(a) + Len(b)
      /\ \A i \in 1 .. Len(a) + Len(b) :
           (a \o b)[i] = IF i <= Len(a) THEN a[i] ELSE b[i - Len(a)]
  OBVIOUS
<1>2. ASSUME NEW x \in ToSet(a) \cup ToSet(b) PROVE x \in ToSet(a \o b)
  <2>1. CASE x \in ToSet(a)
    BY <1>1, <2>1 DEF ToSet
  <2>2. CASE x \in ToSet(b)
    <3>1. PICK j \in 1..Len(b) : x = b[j]
      BY <1>1, <2>2 DEF ToSet
    <3>2. j + Len(a) \in DOMAIN (a \o b) /\ ~ j + Len(a) <= Len(a) /\ j + Len(a) - Len(a) = j
      BY <1>1
    <3>3. (a \o b)[j + Len(a)] = x
      BY <1>1, <3>1, <3>2
    <3> QED
      BY <3>2, <3>3 DEF ToSet
  <2> QED
    BY <1>2, <2>1, <2>2
<1>3. ASSUME NEW x \in ToSet(a \o b) PROVE x \in ToSet(a) \cup ToSet(b)
  <2>1. PICK i \in 1 .. Len(a) + Len(b) : x = (a \o b)[i]
    BY <1>1 DEF ToSet
  <2>2. i <= Len(a) => i \in DOMAIN a
    BY <1>1
  <2>3. ~ i <= Len(a) => i - Len(a) \in DOMAIN b
    BY <1>1
  <2> QED
    BY <1>1, <2>1, <2>2, <2>3 DEF ToSet
<1> QED
  BY <1>2, <1>3

LEMMA FlattenElements ==
  ASSUME NEW X, NEW ss \in Seq(Seq(X))
  PROVE  ToSet(FlattenSeq(ss)) = UNION {ToSet(ss[i]) : i \in DOMAIN ss}
<1> DEFINE Elements(tt) == UNION {ToSet(tt[i]) : i \in DOMAIN tt}
           G == {tt \in Seq(Seq(X)) : ToSet(FlattenSeq(tt)) = Elements(tt)}
<1>1. <<>> \in G
  <2>1. ToSet(<<>>) = {} /\ DOMAIN <<>> = {} /\ <<>> \in Seq(Seq(X))
    BY DEF ToSet
  <2> QED
    BY <2>1, FlattenEmpty
<1>2. ASSUME NEW tt \in Seq(Seq(X)), NEW s \in Seq(X), tt \in G
      PROVE  Append(tt, s) \in G
  <2>1. FlattenSeq(tt) \in Seq(X) /\ FlattenSeq(Append(tt, s)) = FlattenSeq(tt) \o s
    BY FlattenType, FlattenAppend
  <2>2. ToSet(FlattenSeq(tt) \o s) = ToSet(FlattenSeq(tt)) \cup ToSet(s)
    BY <2>1, SetOfConcat
  <2>3. Elements(Append(tt, s)) = Elements(tt) \cup ToSet(s)
    <3>1. /\ DOMAIN Append(tt, s) = DOMAIN tt \cup {Len(tt) + 1}
          /\ \A i \in DOMAIN tt : Append(tt, s)[i] = tt[i]
          /\ Append(tt, s)[Len(tt) + 1] = s
      BY AppendedAt
    <3> QED
      BY <3>1
  <2>4. Append(tt, s) \in Seq(Seq(X))
    OBVIOUS
  <2> QED
    BY <1>2, <2>1, <2>2, <2>3, <2>4
<1> HIDE DEF G
<1>3. ss \in G
  BY <1>1, <1>2, SequencesAre
<1> QED
  BY <1>3 DEF G

LEMMA ConcatAppend ==
  ASSUME NEW X, NEW a \in Seq(X), NEW b \in Seq(X), NEW x \in X
  PROVE  a \o Append(b, x) = Append(a \o b, x)
<1>1. Append(b, x) = b \o <<x>> /\ <<x>> \in Seq(X) /\ a \o b \in Seq(X)
  BY AppendIsConcat, ConcatProperties
<1>2. a \o (b \o <<x>>) = (a \o b) \o <<x>>
  BY <1>1, ConcatAssociative
<1>3. (a \o b) \o <<x>> = Append(a \o b, x)
  BY <1>1, AppendIsConcat
<1> QED
  BY <1>1, <1>2, <1>3

LEMMA FlattenConcat ==
  ASSUME NEW X, NEW a \in Seq(Seq(X)), NEW b \in Seq(Seq(X))
  PROVE  FlattenSeq(a \o b) = FlattenSeq(a) \o FlattenSeq(b)
<1> DEFINE G == {tt \in Seq(Seq(X)) : FlattenSeq(a \o tt) = FlattenSeq(a) \o FlattenSeq(tt)}
<1>0. FlattenSeq(a) \in Seq(X)
  BY FlattenType
<1>1. <<>> \in G
  <2>1. a \o <<>> = a /\ FlattenSeq(a) \o <<>> = FlattenSeq(a) /\ <<>> \in Seq(Seq(X))
    BY <1>0, ConcatEmptySeq
  <2> QED
    BY <2>1, FlattenEmpty
<1>2. ASSUME NEW tt \in Seq(Seq(X)), NEW s \in Seq(X), tt \in G
      PROVE  Append(tt, s) \in G
  <2>1. FlattenSeq(tt) \in Seq(X) /\ FlattenSeq(Append(tt, s)) = FlattenSeq(tt) \o s
    BY FlattenType, FlattenAppend
  <2>2. a \o Append(tt, s) = Append(a \o tt, s) /\ a \o tt \in Seq(Seq(X))
    BY ConcatAppend, ConcatProperties
  <2>3. FlattenSeq(Append(a \o tt, s)) = FlattenSeq(a \o tt) \o s
    BY <2>2, FlattenAppend
  <2>4. (FlattenSeq(a) \o FlattenSeq(tt)) \o s = FlattenSeq(a) \o (FlattenSeq(tt) \o s)
    BY SMTT(40), <1>0, <2>1, ConcatAssociative
  <2>5. Append(tt, s) \in Seq(Seq(X))
    OBVIOUS
  <2>6. FlattenSeq(a \o tt) = FlattenSeq(a) \o FlattenSeq(tt)
    BY <1>2
  <2>7. FlattenSeq(a \o Append(tt, s)) = FlattenSeq(a) \o FlattenSeq(Append(tt, s))
    BY <2>1, <2>2, <2>3, <2>4, <2>6
  <2> QED
    BY <2>5, <2>7
<1> HIDE DEF G
<1>3. b \in G
  BY <1>1, <1>2, SequencesAre
<1> QED
  BY <1>3 DEF G

LEMMA FlattenOne ==
  ASSUME NEW X, NEW s \in Seq(X)
  PROVE  FlattenSeq(<<s>>) = s
<1>1. <<>> \in Seq(Seq(X)) /\ Append(<<>>, s) = <<s>>
  OBVIOUS
<1>2. FlattenSeq(Append(<<>>, s)) = FlattenSeq(<<>>) \o s
  BY <1>1, FlattenAppend
<1> QED
  BY <1>1, <1>2, FlattenEmpty, ConcatEmptySeq

\* A function mapped over a sequence that is one longer.
LEMMA MapAppend ==
  ASSUME NEW X, NEW Y, NEW ss \in Seq(X), NEW s \in X, NEW f \in [X -> Y]
  PROVE  /\ [i \in DOMAIN ss |-> f[ss[i]]] \in Seq(Y)
         /\ [i \in DOMAIN Append(ss, s) |-> f[Append(ss, s)[i]]]
              = Append([i \in DOMAIN ss |-> f[ss[i]]], f[s])
<1> DEFINE m == [i \in DOMAIN ss |-> f[ss[i]]]
           l == [i \in DOMAIN Append(ss, s) |-> f[Append(ss, s)[i]]]
<1>1. Len(ss) \in Nat /\ DOMAIN ss = 1..Len(ss) /\ \A i \in 1..Len(ss) : ss[i] \in X
  OBVIOUS
<1>2. m \in Seq(Y) /\ Len(m) = Len(ss) /\ DOMAIN m = 1..Len(ss) /\ f[s] \in Y
  <2>1. \A i \in 1..Len(ss) : f[ss[i]] \in Y
    BY <1>1
  <2> QED
    BY <1>1, <2>1, IsASeq
<1>3. DOMAIN Append(ss, s) = 1 .. Len(ss) + 1
  BY <1>1
<1>4. DOMAIN Append(m, f[s]) = 1 .. Len(ss) + 1
  BY <1>1, <1>2
<1>5. \A i \in 1 .. Len(ss) + 1 : l[i] = Append(m, f[s])[i]
  <2> SUFFICES ASSUME NEW i \in 1 .. Len(ss) + 1 PROVE l[i] = Append(m, f[s])[i]
    OBVIOUS
  <2>1. CASE i \in 1..Len(ss)
    BY <1>1, <1>2, <1>3, <2>1, AppendedAt
  <2>2. CASE i = Len(ss) + 1
    BY <1>1, <1>2, <1>3, <2>2, AppendedAt
  <2> QED
    BY <1>1, <2>1, <2>2
<1>6. Append(m, f[s]) = [i \in 1 .. Len(ss) + 1 |-> Append(m, f[s])[i]]
  BY <1>2, <1>4, AppendProperties
<1>7. l = [i \in 1 .. Len(ss) + 1 |-> l[i]]
  BY <1>3
<1> HIDE DEF m, l
<1>8. l = Append(m, f[s])
  BY <1>5, <1>6, <1>7
<1> QED
  BY <1>2, <1>8 DEF m, l

LEMMA FlattenFlatten ==
  ASSUME NEW X, NEW ws \in Seq(Seq(Seq(X)))
  PROVE  /\ [i \in DOMAIN ws |-> FlattenSeq(ws[i])] \in Seq(Seq(X))
         /\ FlattenSeq(FlattenSeq(ws)) = FlattenSeq([i \in DOMAIN ws |-> FlattenSeq(ws[i])])
<1>f. SUFFICES ASSUME NEW f, f = [w \in Seq(Seq(X)) |-> FlattenSeq(w)]
             PROVE  /\ [i \in DOMAIN ws |-> FlattenSeq(ws[i])] \in Seq(Seq(X))
                    /\ FlattenSeq(FlattenSeq(ws)) = FlattenSeq([i \in DOMAIN ws |-> FlattenSeq(ws[i])])
  OBVIOUS
<1> DEFINE Inner(tt) == [i \in DOMAIN tt |-> f[tt[i]]]
           G == {tt \in Seq(Seq(Seq(X))) :
                   Inner(tt) \in Seq(Seq(X)) /\ FlattenSeq(FlattenSeq(tt)) = FlattenSeq(Inner(tt))}
<1>0. f \in [Seq(Seq(X)) -> Seq(X)]
  BY <1>f, FlattenType
<1>1. <<>> \in G
  <2>1. Inner(<<>>) = <<>> /\ <<>> \in Seq(Seq(Seq(X))) /\ <<>> \in Seq(Seq(X))
    OBVIOUS
  <2> QED
    BY <2>1, FlattenEmpty
<1>2. ASSUME NEW tt \in Seq(Seq(Seq(X))), NEW s \in Seq(Seq(X)), tt \in G
      PROVE  Append(tt, s) \in G
  <2>1. FlattenSeq(tt) \in Seq(Seq(X)) /\ FlattenSeq(Append(tt, s)) = FlattenSeq(tt) \o s
    BY FlattenType, FlattenAppend
  <2>2. FlattenSeq(FlattenSeq(tt) \o s) = FlattenSeq(FlattenSeq(tt)) \o FlattenSeq(s)
    BY <2>1, FlattenConcat
  <2>3. Inner(tt) \in Seq(Seq(X)) /\ Inner(Append(tt, s)) = Append(Inner(tt), f[s])
    <3>1. PICK Y, Z : Y = Seq(Seq(X)) /\ Z = Seq(X)
      OBVIOUS
    <3>2. tt \in Seq(Y) /\ s \in Y /\ f \in [Y -> Z]
      BY <1>0, <3>1
    <3>3. [i \in DOMAIN tt |-> f[tt[i]]] \in Seq(Z)
      <4>1. Len(tt) \in Nat /\ DOMAIN tt = 1..Len(tt) /\ \A i \in 1..Len(tt) : f[tt[i]] \in Z
        BY <3>2
      <4> QED
        BY <4>1, IsASeq
    <3>4. [i \in DOMAIN Append(tt, s) |-> f[Append(tt, s)[i]]]
            = Append([i \in DOMAIN tt |-> f[tt[i]]], f[s])
      BY SMTT(40), <3>2, MapAppend
    <3> QED
      BY <3>1, <3>3, <3>4
  <2>4. f[s] = FlattenSeq(s) /\ f[s] \in Seq(X)
    BY <1>0, <1>f
  <2> HIDE DEF Inner
  <2>5. FlattenSeq(Append(Inner(tt), f[s])) = FlattenSeq(Inner(tt)) \o f[s]
    BY <2>3, <2>4, FlattenAppend
  <2>6. Append(tt, s) \in Seq(Seq(Seq(X))) /\ Append(Inner(tt), f[s]) \in Seq(Seq(X))
    BY <2>3, <2>4, AppendProperties
  <2>7. FlattenSeq(FlattenSeq(tt)) = FlattenSeq(Inner(tt))
    BY <1>2
  <2> QED
    BY <2>1, <2>2, <2>3, <2>4, <2>5, <2>6, <2>7
<1>3. ws \in G
  <2> HIDE DEF G
  <2> QED
    BY <1>1, <1>2, SequencesAre
<1>4. Inner(ws) = [i \in DOMAIN ws |-> FlattenSeq(ws[i])]
  <2>1. \A i \in DOMAIN ws : ws[i] \in Seq(Seq(X))
    OBVIOUS
  <2> QED
    BY <1>f, <2>1
<1> QED
  BY <1>3, <1>4

-----------------------------------------------------------------------------
(* The handlers of a list that are aiguard's, or the user's.                *)

LEMMA HandlersType ==
  ASSUME NEW X, NEW list \in Seq(X), NEW m
  PROVE  HandlersOf(list, m) \in Seq(X)
<1> DEFINE picks == [i \in DOMAIN list |-> IF list[i].mine = m THEN <<list[i]>> ELSE <<>>]
<1>1. Len(list) \in Nat /\ DOMAIN list = 1..Len(list)
  OBVIOUS
<1>2. \A i \in 1..Len(list) : (IF list[i].mine = m THEN <<list[i]>> ELSE <<>>) \in Seq(X)
  OBVIOUS
<1>3. picks \in Seq(Seq(X))
  BY <1>1, <1>2, IsASeq
<1> QED
  BY <1>3, FlattenType DEF HandlersOf

LEMMA HandlersAppend ==
  ASSUME NEW X, NEW list \in Seq(X), NEW h \in X, NEW m
  PROVE  HandlersOf(Append(list, h), m)
           = HandlersOf(list, m) \o (IF h.mine = m THEN <<h>> ELSE <<>>)
<1>1. PICK f : f = [x \in X |-> IF x.mine = m THEN <<x>> ELSE <<>>]
  OBVIOUS
<1>2. f \in [X -> Seq(X)] /\ f[h] = IF h.mine = m THEN <<h>> ELSE <<>>
  BY <1>1
<1> DEFINE Picks(s) == [i \in DOMAIN s |-> f[s[i]]]
<1>3. Append(list, h) \in Seq(X)
  OBVIOUS
<1>4. \A s \in Seq(X) : HandlersOf(s, m) = FlattenSeq(Picks(s))
  <2> TAKE s \in Seq(X)
  <2>1. Picks(s) = [i \in DOMAIN s |-> IF s[i].mine = m THEN <<s[i]>> ELSE <<>>]
    BY <1>1
  <2> QED
    BY <2>1 DEF HandlersOf
<1>5. Picks(Append(list, h)) = Append(Picks(list), f[h])
  <2>1. PICK Z : Z = Seq(X)
    OBVIOUS
  <2>2. f \in [X -> Z]
    BY <1>2, <2>1
  <2>3. [i \in DOMAIN Append(list, h) |-> f[Append(list, h)[i]]]
          = Append([i \in DOMAIN list |-> f[list[i]]], f[h])
    BY <2>2, MapAppend
  <2> QED
    BY <2>3
<1>6. Picks(list) \in Seq(Seq(X))
  <2>1. Len(list) \in Nat /\ DOMAIN list = 1..Len(list)
    OBVIOUS
  <2>2. \A i \in 1..Len(list) : f[list[i]] \in Seq(X)
    BY <1>2
  <2> QED
    BY <2>1, <2>2, IsASeq
<1> HIDE DEF Picks
<1>7. FlattenSeq(Append(Picks(list), f[h])) = FlattenSeq(Picks(list)) \o f[h]
  BY <1>2, <1>6, FlattenAppend
<1> QED
  BY <1>2, <1>3, <1>4, <1>5, <1>7

LEMMA HandlersEmpty ==
  ASSUME NEW m
  PROVE  HandlersOf(<<>>, m) = <<>>
<1>1. [i \in DOMAIN <<>> |-> IF <<>>[i].mine = m THEN << <<>>[i] >> ELSE <<>>] = <<>>
  OBVIOUS
<1> QED
  BY <1>1, FlattenEmpty DEF HandlersOf

LEMMA HandlersOne ==
  ASSUME NEW X, NEW h \in X, NEW m
  PROVE  HandlersOf(<<h>>, m) = IF h.mine = m THEN <<h>> ELSE <<>>
<1>1. <<>> \in Seq(X) /\ Append(<<>>, h) = <<h>>
  OBVIOUS
<1>2. HandlersOf(Append(<<>>, h), m) = HandlersOf(<<>>, m) \o (IF h.mine = m THEN <<h>> ELSE <<>>)
  BY <1>1, HandlersAppend
<1>3. (IF h.mine = m THEN <<h>> ELSE <<>>) \in Seq(X)
  OBVIOUS
<1> QED
  BY <1>1, <1>2, <1>3, HandlersEmpty, ConcatEmptySeq

LEMMA HandlersConcat ==
  ASSUME NEW X, NEW a \in Seq(X), NEW b \in Seq(X), NEW m
  PROVE  HandlersOf(a \o b, m) = HandlersOf(a, m) \o HandlersOf(b, m)
<1> DEFINE G == {s \in Seq(X) : HandlersOf(a \o s, m) = HandlersOf(a, m) \o HandlersOf(s, m)}
<1>0. HandlersOf(a, m) \in Seq(X)
  BY HandlersType
<1>1. <<>> \in G
  <2>1. a \o <<>> = a /\ HandlersOf(a, m) \o <<>> = HandlersOf(a, m) /\ <<>> \in Seq(X)
    BY <1>0, ConcatEmptySeq
  <2> QED
    BY <2>1, HandlersEmpty
<1>2. ASSUME NEW s \in Seq(X), NEW x \in X, s \in G PROVE Append(s, x) \in G
  <2>1. PICK l : l = IF x.mine = m THEN <<x>> ELSE <<>>
    OBVIOUS
  <2>2. l \in Seq(X)
    BY <2>1
  <2>3. HandlersOf(s, m) \in Seq(X) /\ HandlersOf(Append(s, x), m) = HandlersOf(s, m) \o l
    BY <2>1, HandlersType, HandlersAppend
  <2>4. a \o Append(s, x) = Append(a \o s, x) /\ a \o s \in Seq(X)
    BY ConcatAppend, ConcatProperties
  <2>5. HandlersOf(Append(a \o s, x), m) = HandlersOf(a \o s, m) \o l
    BY <2>1, <2>4, HandlersAppend
  <2>6. (HandlersOf(a, m) \o HandlersOf(s, m)) \o l = HandlersOf(a, m) \o (HandlersOf(s, m) \o l)
    <3>1. PICK p, q : p = HandlersOf(a, m) /\ q = HandlersOf(s, m)
      OBVIOUS
    <3>2. p \in Seq(X) /\ q \in Seq(X)
      BY <1>0, <2>3, <3>1
    <3>3. (p \o q) \o l = p \o (q \o l)
      BY SMTT(40), <2>2, <3>2, ConcatAssociative
    <3> QED
      BY <3>1, <3>3
  <2>7. HandlersOf(a \o s, m) = HandlersOf(a, m) \o HandlersOf(s, m)
    BY <1>2
  <2>8. Append(s, x) \in Seq(X)
    OBVIOUS
  <2> QED
    BY <2>3, <2>4, <2>5, <2>6, <2>7, <2>8
<1> HIDE DEF G
<1>3. b \in G
  BY <1>1, <1>2, SequencesAre
<1> QED
  BY <1>3 DEF G

LEMMA HandlersFlatten ==
  ASSUME NEW X, NEW ss \in Seq(Seq(X)), NEW m
  PROVE  /\ [i \in DOMAIN ss |-> HandlersOf(ss[i], m)] \in Seq(Seq(X))
         /\ HandlersOf(FlattenSeq(ss), m) = FlattenSeq([i \in DOMAIN ss |-> HandlersOf(ss[i], m)])
<1>f. SUFFICES ASSUME NEW f, f = [w \in Seq(X) |-> HandlersOf(w, m)]
               PROVE  /\ [i \in DOMAIN ss |-> HandlersOf(ss[i], m)] \in Seq(Seq(X))
                      /\ HandlersOf(FlattenSeq(ss), m)
                           = FlattenSeq([i \in DOMAIN ss |-> HandlersOf(ss[i], m)])
  OBVIOUS
<1> DEFINE Inner(tt) == [i \in DOMAIN tt |-> f[tt[i]]]
           G == {tt \in Seq(Seq(X)) :
                   Inner(tt) \in Seq(Seq(X)) /\ HandlersOf(FlattenSeq(tt), m) = FlattenSeq(Inner(tt))}
<1>0. f \in [Seq(X) -> Seq(X)]
  BY <1>f, HandlersType
<1>1. <<>> \in G
  <2>1. Inner(<<>>) = <<>> /\ <<>> \in Seq(Seq(X))
    OBVIOUS
  <2> QED
    BY <2>1, FlattenEmpty, HandlersEmpty
<1>2. ASSUME NEW tt \in Seq(Seq(X)), NEW s \in Seq(X), tt \in G
      PROVE  Append(tt, s) \in G
  <2>1. FlattenSeq(tt) \in Seq(X) /\ FlattenSeq(Append(tt, s)) = FlattenSeq(tt) \o s
    BY FlattenType, FlattenAppend
  <2>2. HandlersOf(FlattenSeq(tt) \o s, m) = HandlersOf(FlattenSeq(tt), m) \o HandlersOf(s, m)
    BY <2>1, HandlersConcat
  <2>3. Inner(tt) \in Seq(Seq(X)) /\ Inner(Append(tt, s)) = Append(Inner(tt), f[s])
    <3>1. PICK Y, Z : Y = Seq(X) /\ Z = Seq(X)
      OBVIOUS
    <3>2. tt \in Seq(Y) /\ s \in Y /\ f \in [Y -> Z]
      BY <1>0, <3>1
    <3>3. [i \in DOMAIN tt |-> f[tt[i]]] \in Seq(Z)
      <4>1. Len(tt) \in Nat /\ DOMAIN tt = 1..Len(tt) /\ \A i \in 1..Len(tt) : f[tt[i]] \in Z
        BY <3>2
      <4> QED
        BY <4>1, IsASeq
    <3>4. [i \in DOMAIN Append(tt, s) |-> f[Append(tt, s)[i]]]
            = Append([i \in DOMAIN tt |-> f[tt[i]]], f[s])
      BY SMTT(40), <3>2, MapAppend
    <3> QED
      BY <3>1, <3>3, <3>4
  <2>4. f[s] = HandlersOf(s, m) /\ f[s] \in Seq(X)
    BY <1>0, <1>f
  <2> HIDE DEF Inner
  <2>5. FlattenSeq(Append(Inner(tt), f[s])) = FlattenSeq(Inner(tt)) \o f[s]
    BY <2>3, <2>4, FlattenAppend
  <2>6. Append(tt, s) \in Seq(Seq(X)) /\ Append(Inner(tt), f[s]) \in Seq(Seq(X))
    BY <2>3, <2>4, AppendProperties
  <2>7. HandlersOf(FlattenSeq(tt), m) = FlattenSeq(Inner(tt))
    BY <1>2
  <2> QED
    BY <2>1, <2>2, <2>3, <2>4, <2>5, <2>6, <2>7
<1>3. ss \in G
  <2> HIDE DEF G
  <2> QED
    BY <1>1, <1>2, SequencesAre
<1>4. Inner(ss) = [i \in DOMAIN ss |-> HandlersOf(ss[i], m)]
  <2>1. \A i \in DOMAIN ss : ss[i] \in Seq(X)
    OBVIOUS
  <2> QED
    BY <1>f, <2>1
<1> QED
  BY <1>3, <1>4

-----------------------------------------------------------------------------
(* When a flattened sequence is empty, or has one element.                  *)

LEMMA FlattenNone ==
  ASSUME NEW X, NEW ss \in Seq(Seq(X))
  PROVE  FlattenSeq(ss) = <<>> <=> \A i \in DOMAIN ss : ss[i] = <<>>
<1>1. \A s \in Seq(X) : s = <<>> <=> ToSet(s) = {}
  <2> TAKE s \in Seq(X)
  <2>1. Len(s) \in Nat /\ DOMAIN s = 1..Len(s)
    OBVIOUS
  <2>2. s = <<>> => ToSet(s) = {}
    BY DEF ToSet
  <2>3. s # <<>> => 1 \in DOMAIN s
    BY <2>1
  <2>4. s # <<>> => s[1] \in ToSet(s)
    BY <2>3 DEF ToSet
  <2> QED
    BY <2>2, <2>4
<1>2. FlattenSeq(ss) \in Seq(X) /\ \A i \in DOMAIN ss : ss[i] \in Seq(X)
  BY FlattenType
<1>3. ToSet(FlattenSeq(ss)) = UNION {ToSet(ss[i]) : i \in DOMAIN ss}
  BY FlattenElements
<1>4. ToSet(FlattenSeq(ss)) = {} <=> \A i \in DOMAIN ss : ToSet(ss[i]) = {}
  BY <1>3
<1> QED
  BY <1>1, <1>2, <1>4

LEMMA ConcatOne ==
  ASSUME NEW X, NEW a \in Seq(X), NEW b \in Seq(X), NEW x \in X
  PROVE  a \o b = <<x>> <=> (a = <<x>> /\ b = <<>>) \/ (a = <<>> /\ b = <<x>>)
<1>1. ASSUME a \o b = <<x>> PROVE (a = <<x>> /\ b = <<>>) \/ (a = <<>> /\ b = <<x>>)
  <2>1. Len(a) \in Nat /\ Len(b) \in Nat /\ Len(a) + Len(b) = 1
    <3>1. Len(a \o b) = Len(a) + Len(b)
      BY ConcatProperties
    <3> QED
      BY <1>1, <3>1
  <2>2. CASE Len(a) = 0
    <3>1. a = <<>>
      BY <2>2
    <3> QED
      BY <1>1, <3>1, ConcatEmptySeq
  <2>3. CASE Len(b) = 0
    <3>1. b = <<>>
      BY <2>3
    <3> QED
      BY <1>1, <3>1, ConcatEmptySeq
  <2> QED
    BY <2>1, <2>2, <2>3
<1> QED
  BY <1>1, ConcatEmptySeq

\* One sequence of ss is <<x>>, and the others are empty.
OneOf(ss, x) ==
  \E k \in DOMAIN ss : ss[k] = <<x>> /\ \A j \in DOMAIN ss : j # k => ss[j] = <<>>

LEMMA FlattenOneOf ==
  ASSUME NEW X, NEW ss \in Seq(Seq(X)), NEW x \in X
  PROVE  FlattenSeq(ss) = <<x>> <=> OneOf(ss, x)
<1> DEFINE G == {tt \in Seq(Seq(X)) : FlattenSeq(tt) = <<x>> <=> OneOf(tt, x)}
<1>1. <<>> \in G
  <2>1. <<>> \in Seq(Seq(X)) /\ DOMAIN <<>> = {} /\ <<>> # <<x>>
    OBVIOUS
  <2> QED
    BY <2>1, FlattenEmpty DEF OneOf
<1>2. ASSUME NEW tt \in Seq(Seq(X)), NEW s \in Seq(X), tt \in G
      PROVE  Append(tt, s) \in G
  <2>1. FlattenSeq(tt) \in Seq(X) /\ FlattenSeq(Append(tt, s)) = FlattenSeq(tt) \o s
    BY FlattenType, FlattenAppend
  <2>2. FlattenSeq(Append(tt, s)) = <<x>>
          <=> (FlattenSeq(tt) = <<x>> /\ s = <<>>) \/ (FlattenSeq(tt) = <<>> /\ s = <<x>>)
    <3>1. PICK a : a = FlattenSeq(tt)
      OBVIOUS
    <3>2. a \in Seq(X)
      BY <2>1, <3>1
    <3>3. a \o s = <<x>> <=> (a = <<x>> /\ s = <<>>) \/ (a = <<>> /\ s = <<x>>)
      BY SMTT(40), <3>2, ConcatOne
    <3> QED
      BY <2>1, <3>1, <3>3
  <2>3. FlattenSeq(tt) = <<>> <=> \A i \in DOMAIN tt : tt[i] = <<>>
    BY FlattenNone
  <2>4. FlattenSeq(tt) = <<x>> <=> OneOf(tt, x)
    BY <1>2
  <2>5. OneOf(Append(tt, s), x)
          <=> (OneOf(tt, x) /\ s = <<>>) \/ ((\A i \in DOMAIN tt : tt[i] = <<>>) /\ s = <<x>>)
    <3>1. PICK n, u : n = Len(tt) + 1 /\ u = Append(tt, s)
      OBVIOUS
    <3>2. DOMAIN u = DOMAIN tt \cup {n} /\ n \notin DOMAIN tt /\ u[n] = s
          /\ \A i \in DOMAIN tt : u[i] = tt[i]
      BY <3>1, AppendedAt
    <3>3. <<x>> # <<>>
      OBVIOUS
    <3>4. OneOf(u, x)
            <=> (OneOf(tt, x) /\ s = <<>>) \/ ((\A i \in DOMAIN tt : tt[i] = <<>>) /\ s = <<x>>)
      <4>1. ASSUME OneOf(u, x)
            PROVE  (OneOf(tt, x) /\ s = <<>>) \/ ((\A i \in DOMAIN tt : tt[i] = <<>>) /\ s = <<x>>)
        <5>1. PICK k \in DOMAIN u : u[k] = <<x>> /\ \A j \in DOMAIN u : j # k => u[j] = <<>>
          BY <4>1 DEF OneOf
        <5>2. CASE k = n
          BY <3>2, <5>1, <5>2
        <5>3. CASE k \in DOMAIN tt
          <6>1. s = <<>>
            BY <3>2, <5>1, <5>3
          <6>2. tt[k] = <<x>> /\ \A j \in DOMAIN tt : j # k => tt[j] = <<>>
            BY <3>2, <5>1, <5>3
          <6> QED
            BY <5>3, <6>1, <6>2 DEF OneOf
        <5> QED
          BY <3>2, <5>1, <5>2, <5>3
      <4>2. ASSUME OneOf(tt, x), s = <<>> PROVE OneOf(u, x)
        <5>1. PICK k \in DOMAIN tt : tt[k] = <<x>> /\ \A j \in DOMAIN tt : j # k => tt[j] = <<>>
          BY <4>2 DEF OneOf
        <5>2. k \in DOMAIN u /\ u[k] = <<x>> /\ \A j \in DOMAIN u : j # k => u[j] = <<>>
          BY <3>2, <4>2, <5>1
        <5> QED
          BY <5>2 DEF OneOf
      <4>3. ASSUME \A i \in DOMAIN tt : tt[i] = <<>>, s = <<x>> PROVE OneOf(u, x)
        <5>1. n \in DOMAIN u /\ u[n] = <<x>> /\ \A j \in DOMAIN u : j # n => u[j] = <<>>
          BY <3>2, <4>3
        <5> QED
          BY <5>1 DEF OneOf
      <4> QED
        BY <4>1, <4>2, <4>3
    <3> QED
      BY <3>1, <3>4
  <2>6. Append(tt, s) \in Seq(Seq(X))
    OBVIOUS
  <2> QED
    BY <2>2, <2>3, <2>4, <2>5, <2>6
<1> HIDE DEF G
<1>3. ss \in G
  BY <1>1, <1>2, SequencesAre
<1> QED
  BY <1>3 DEF G

-----------------------------------------------------------------------------
(* Groups of handlers                                                       *)

Groups == Seq(Seq(Handler))

LEMMA HandlerIs ==
  ASSUME NEW h \in Handler
  PROVE  h.mine \in BOOLEAN /\ h.fresh \in BOOLEAN /\ (h.mine => h.claims \subseteq HookAgents)
<1>1. CASE h \in [mine : {TRUE}, claims : SUBSET HookAgents, fresh : BOOLEAN]
  BY <1>1
<1>2. CASE h \in {Users(name) : name \in UserNames \cup {"mine"}}
  <2>1. PICK name : h = Users(name)
    BY <1>2
  <2> QED
    BY <2>1 DEF Users
<1> QED
  BY <1>1, <1>2 DEF Handler

LEMMA OwnIs ==
  ASSUME NEW groups, NEW a
  PROVE  a \in OwnHandlers(groups)
           <=> \E g \in DOMAIN groups : \E i \in DOMAIN groups[g] :
                 a = <<g, i>> /\ groups[g][i].mine
BY DEF OwnHandlers

LEMMA ListNone ==
  ASSUME NEW list \in Seq(Handler)
  PROVE  HandlersOf(list, TRUE) = <<>> <=> \A i \in DOMAIN list : ~ list[i].mine
<1>1. PICK picks : picks = [i \in DOMAIN list |-> IF list[i].mine = TRUE THEN <<list[i]>> ELSE <<>>]
  OBVIOUS
<1>2. Len(list) \in Nat /\ DOMAIN list = 1..Len(list) /\ \A i \in DOMAIN list : list[i] \in Handler
  OBVIOUS
<1>3. \A i \in DOMAIN list : list[i].mine \in BOOLEAN
  BY <1>2, HandlerIs
<1>4. picks \in Seq(Seq(Handler)) /\ DOMAIN picks = DOMAIN list
  <2>1. \A i \in 1..Len(list) : (IF list[i].mine = TRUE THEN <<list[i]>> ELSE <<>>) \in Seq(Handler)
    BY <1>2
  <2> QED
    BY <1>1, <1>2, <2>1, IsASeq
<1>5. FlattenSeq(picks) = <<>> <=> \A i \in DOMAIN picks : picks[i] = <<>>
  BY <1>4, FlattenNone
<1>6. \A i \in DOMAIN list : picks[i] = <<>> <=> ~ list[i].mine
  BY <1>1, <1>3
<1> QED
  BY <1>1, <1>4, <1>5, <1>6 DEF HandlersOf

LEMMA ListOne ==
  ASSUME NEW list \in Seq(Handler), NEW h \in Handler
  PROVE  HandlersOf(list, TRUE) = <<h>>
           <=> \E k \in DOMAIN list :
                 list[k].mine /\ list[k] = h /\ \A j \in DOMAIN list : j # k => ~ list[j].mine
<1>1. PICK picks : picks = [i \in DOMAIN list |-> IF list[i].mine = TRUE THEN <<list[i]>> ELSE <<>>]
  OBVIOUS
<1>2. Len(list) \in Nat /\ DOMAIN list = 1..Len(list) /\ \A i \in DOMAIN list : list[i] \in Handler
  OBVIOUS
<1>3. \A i \in DOMAIN list : list[i].mine \in BOOLEAN
  BY <1>2, HandlerIs
<1>4. picks \in Seq(Seq(Handler)) /\ DOMAIN picks = DOMAIN list
  <2>1. \A i \in 1..Len(list) : (IF list[i].mine = TRUE THEN <<list[i]>> ELSE <<>>) \in Seq(Handler)
    BY <1>2
  <2> QED
    BY <1>1, <1>2, <2>1, IsASeq
<1>5. FlattenSeq(picks) = <<h>> <=> OneOf(picks, h)
  BY <1>4, FlattenOneOf
<1>6. \A i \in DOMAIN list : /\ picks[i] = <<>> <=> ~ list[i].mine
                             /\ picks[i] = <<h>> <=> list[i].mine /\ list[i] = h
  BY <1>1, <1>3
<1>7. OneOf(picks, h) <=> \E k \in DOMAIN list :
        list[k].mine /\ list[k] = h /\ \A j \in DOMAIN list : j # k => ~ list[j].mine
  BY <1>4, <1>6 DEF OneOf
<1> QED
  BY <1>1, <1>5, <1>7 DEF HandlersOf

LEMMA OwnNone ==
  ASSUME NEW groups \in Groups
  PROVE  HandlersOf(FlattenSeq(groups), TRUE) = <<>> <=> OwnHandlers(groups) = {}
<1>1. PICK owns : owns = [g \in DOMAIN groups |-> HandlersOf(groups[g], TRUE)]
  OBVIOUS
<1>2. owns \in Seq(Seq(Handler)) /\ HandlersOf(FlattenSeq(groups), TRUE) = FlattenSeq(owns)
  BY <1>1, HandlersFlatten DEF Groups
<1>3. FlattenSeq(owns) = <<>> <=> \A g \in DOMAIN owns : owns[g] = <<>>
  BY <1>2, FlattenNone
<1>4. \A g \in DOMAIN groups : groups[g] \in Seq(Handler)
  BY DEF Groups
<1>5. \A g \in DOMAIN groups : owns[g] = <<>> <=> \A i \in DOMAIN groups[g] : ~ groups[g][i].mine
  BY <1>1, <1>4, ListNone
<1>6. OwnHandlers(groups) = {} <=> \A g \in DOMAIN groups : \A i \in DOMAIN groups[g] : ~ groups[g][i].mine
  BY OwnIs
<1> QED
  BY <1>1, <1>2, <1>3, <1>5, <1>6

LEMMA OwnOne ==
  ASSUME NEW groups \in Groups, NEW h \in Handler,
         HandlersOf(FlattenSeq(groups), TRUE) = <<h>>
  PROVE  \E g \in DOMAIN groups : \E i \in DOMAIN groups[g] :
           OwnHandlers(groups) = {<<g, i>>} /\ groups[g][i] = h
<1>1. PICK owns : owns = [g \in DOMAIN groups |-> HandlersOf(groups[g], TRUE)]
  OBVIOUS
<1>2. owns \in Seq(Seq(Handler)) /\ HandlersOf(FlattenSeq(groups), TRUE) = FlattenSeq(owns)
  BY <1>1, HandlersFlatten DEF Groups
<1>3. OneOf(owns, h)
  BY <1>2, FlattenOneOf
<1>4. PICK g \in DOMAIN groups :
        owns[g] = <<h>> /\ \A j \in DOMAIN groups : j # g => owns[j] = <<>>
  BY <1>1, <1>3 DEF OneOf
<1>5. \A j \in DOMAIN groups : groups[j] \in Seq(Handler)
  BY DEF Groups
<1>6. PICK i \in DOMAIN groups[g] :
        groups[g][i].mine /\ groups[g][i] = h /\ \A j \in DOMAIN groups[g] : j # i => ~ groups[g][j].mine
  <2>1. HandlersOf(groups[g], TRUE) = <<h>> /\ groups[g] \in Seq(Handler)
    BY <1>1, <1>4, <1>5
  <2> QED
    BY <2>1, ListOne
<1>7. \A j \in DOMAIN groups : j # g => \A k \in DOMAIN groups[j] : ~ groups[j][k].mine
  <2> SUFFICES ASSUME NEW j \in DOMAIN groups, j # g
               PROVE  \A k \in DOMAIN groups[j] : ~ groups[j][k].mine
    OBVIOUS
  <2>1. HandlersOf(groups[j], TRUE) = <<>> /\ groups[j] \in Seq(Handler)
    BY <1>1, <1>4, <1>5
  <2> QED
    BY <2>1, ListNone
<1>8. OwnHandlers(groups) = {<<g, i>>}
  <2>1. \A a \in OwnHandlers(groups) : a = <<g, i>>
    BY <1>6, <1>7, OwnIs
  <2>2. <<g, i>> \in OwnHandlers(groups)
    BY <1>6, OwnIs
  <2> QED
    BY <2>1, <2>2
<1> QED
  BY <1>6, <1>8

LEMMA OwnElements ==
  ASSUME NEW groups \in Groups
  PROVE  {h \in ToSet(FlattenSeq(groups)) : h.mine} = {groups[a[1]][a[2]] : a \in OwnHandlers(groups)}
<1>1. ToSet(FlattenSeq(groups)) = UNION {ToSet(groups[g]) : g \in DOMAIN groups}
  BY FlattenElements DEF Groups
<1>2. ASSUME NEW h \in ToSet(FlattenSeq(groups)), h.mine
      PROVE  \E a \in OwnHandlers(groups) : h = groups[a[1]][a[2]]
  <2>1. PICK g \in DOMAIN groups : \E i \in DOMAIN groups[g] : h = groups[g][i]
    BY <1>1 DEF ToSet
  <2>a. PICK i \in DOMAIN groups[g] : h = groups[g][i]
    BY <2>1
  <2>2. <<g, i>> \in OwnHandlers(groups) /\ <<g, i>>[1] = g /\ <<g, i>>[2] = i
    BY <1>2, <2>a, OwnIs
  <2> QED
    BY <2>a, <2>2
<1>3. ASSUME NEW a \in OwnHandlers(groups)
      PROVE  groups[a[1]][a[2]] \in ToSet(FlattenSeq(groups)) /\ groups[a[1]][a[2]].mine
  <2>1. PICK g \in DOMAIN groups : \E i \in DOMAIN groups[g] : a = <<g, i>> /\ groups[g][i].mine
    BY OwnIs
  <2>a. PICK i \in DOMAIN groups[g] : a = <<g, i>> /\ groups[g][i].mine
    BY <2>1
  <2>2. groups[g][i] \in ToSet(groups[g])
    BY DEF ToSet
  <2> QED
    BY <1>1, <2>a, <2>2
<1> QED
  BY <1>2, <1>3

-----------------------------------------------------------------------------
(* What Filtered leaves: the handlers that are kept, in their order.        *)

\* K[g] is what is kept of each handler of group g, as in Filtered.
KeptGroups(groups, K) ==
  FlattenSeq([g \in DOMAIN groups |->
    IF FlattenSeq(K[g]) = <<>> /\ groups[g] # <<>> THEN <<>> ELSE <<FlattenSeq(K[g])>>])

LEMMA KeptHandlers ==
  ASSUME NEW groups \in Groups, NEW K,
         \A g \in DOMAIN groups : K[g] \in Groups,
         NEW m, NEW kept, kept = KeptGroups(groups, K)
  PROVE  /\ kept \in Groups
         /\ [g \in DOMAIN groups |-> HandlersOf(FlattenSeq(K[g]), m)] \in Groups
         /\ HandlersOf(FlattenSeq(kept), m)
              = FlattenSeq([g \in DOMAIN groups |-> HandlersOf(FlattenSeq(K[g]), m)])
<1>1. PICK H : H = [g \in DOMAIN groups |-> FlattenSeq(K[g])]
  OBVIOUS
<1>2. PICK W : W = [g \in DOMAIN groups |->
                     IF FlattenSeq(K[g]) = <<>> /\ groups[g] # <<>> THEN <<>> ELSE <<FlattenSeq(K[g])>>]
  OBVIOUS
<1>3. Len(groups) \in Nat /\ DOMAIN groups = 1..Len(groups)
  BY DEF Groups
<1>4. \A g \in DOMAIN groups : H[g] \in Seq(Handler)
  <2> TAKE g \in DOMAIN groups
  <2>1. K[g] \in Seq(Seq(Handler))
    BY DEF Groups
  <2> QED
    BY <1>1, <2>1, FlattenType
<1>5. H \in Seq(Seq(Handler)) /\ DOMAIN H = DOMAIN groups
  <2>1. PICK Y : Y = Seq(Handler)
    OBVIOUS
  <2>2. \A g \in 1..Len(groups) : FlattenSeq(K[g]) \in Y
    BY <1>1, <1>3, <1>4, <2>1
  <2>3. H \in Seq(Y)
    BY <1>1, <1>3, <2>2, IsASeq
  <2> QED
    BY <1>1, <2>1, <2>3
<1>6. \A g \in DOMAIN groups : W[g] \in Seq(Seq(Handler)) /\ FlattenSeq(W[g]) = H[g]
  <2> TAKE g \in DOMAIN groups
  <2>1. PICK a : a = FlattenSeq(K[g])
    OBVIOUS
  <2>2. a \in Seq(Handler) /\ a = H[g]
    BY <1>1, <1>4, <2>1
  <2>3. W[g] = IF a = <<>> /\ groups[g] # <<>> THEN <<>> ELSE <<a>>
    BY <1>2, <2>1
  <2>4. FlattenSeq(<<a>>) = a
    BY <2>2, FlattenOne
  <2> QED
    BY <2>2, <2>3, <2>4, FlattenEmpty
<1>7. W \in Seq(Seq(Seq(Handler))) /\ DOMAIN W = DOMAIN groups
  <2>1. PICK Y : Y = Seq(Seq(Handler))
    OBVIOUS
  <2>2. \A g \in 1..Len(groups) : W[g] \in Y
    BY <1>3, <1>6, <2>1
  <2>3. W = [g \in 1..Len(groups) |-> W[g]]
    BY <1>2, <1>3
  <2>4. [g \in 1..Len(groups) |-> W[g]] \in Seq(Y)
    BY <1>3, <2>2, IsASeq
  <2> QED
    BY <1>2, <2>1, <2>3, <2>4
<1>8. kept = FlattenSeq(W)
  BY <1>2 DEF KeptGroups
<1>9. kept \in Groups
  BY <1>7, <1>8, FlattenType DEF Groups
<1>10. FlattenSeq(kept) = FlattenSeq(H)
  <2>1. FlattenSeq(FlattenSeq(W)) = FlattenSeq([g \in DOMAIN W |-> FlattenSeq(W[g])])
    BY <1>7, FlattenFlatten
  <2>2. [g \in DOMAIN W |-> FlattenSeq(W[g])] = H
    <3>1. H = [g \in DOMAIN groups |-> H[g]]
      BY <1>1
    <3> QED
      BY <1>6, <1>7, <3>1
  <2> QED
    BY <1>8, <2>1, <2>2
<1>11. /\ [g \in DOMAIN H |-> HandlersOf(H[g], m)] \in Seq(Seq(Handler))
       /\ HandlersOf(FlattenSeq(H), m) = FlattenSeq([g \in DOMAIN H |-> HandlersOf(H[g], m)])
  BY <1>5, HandlersFlatten
<1>12. [g \in DOMAIN H |-> HandlersOf(H[g], m)] = [g \in DOMAIN groups |-> HandlersOf(FlattenSeq(K[g]), m)]
  BY <1>1, <1>5
<1> QED
  BY <1>9, <1>10, <1>11, <1>12 DEF Groups

\* A filter that keeps the user's handlers, each in its place, keeps them all.
LEMMA UsersKept ==
  ASSUME NEW groups \in Groups, NEW K,
         \A g \in DOMAIN groups :
           /\ K[g] \in Groups
           /\ DOMAIN K[g] = DOMAIN groups[g]
           /\ \A i \in DOMAIN groups[g] :
                HandlersOf(K[g][i], FALSE) = IF groups[g][i].mine = FALSE THEN <<groups[g][i]>> ELSE <<>>,
         NEW kept, kept = KeptGroups(groups, K)
  PROVE  HandlersOf(FlattenSeq(kept), FALSE) = HandlersOf(FlattenSeq(groups), FALSE)
<1>1. HandlersOf(FlattenSeq(kept), FALSE)
        = FlattenSeq([g \in DOMAIN groups |-> HandlersOf(FlattenSeq(K[g]), FALSE)])
  <2>1. \A g \in DOMAIN groups : K[g] \in Groups
    OBVIOUS
  <2> QED
    BY ZenonT(60), <2>1, KeptHandlers
<1>2. \A g \in DOMAIN groups : HandlersOf(FlattenSeq(K[g]), FALSE) = HandlersOf(groups[g], FALSE)
  <2> TAKE g \in DOMAIN groups
  <2>1. K[g] \in Seq(Seq(Handler))
    BY DEF Groups
  <2>2. HandlersOf(FlattenSeq(K[g]), FALSE) = FlattenSeq([i \in DOMAIN K[g] |-> HandlersOf(K[g][i], FALSE)])
    BY <2>1, HandlersFlatten
  <2>3. [i \in DOMAIN K[g] |-> HandlersOf(K[g][i], FALSE)]
          = [i \in DOMAIN groups[g] |-> IF groups[g][i].mine = FALSE THEN <<groups[g][i]>> ELSE <<>>]
    OBVIOUS
  <2> QED
    BY <2>2, <2>3 DEF HandlersOf
<1>3. HandlersOf(FlattenSeq(groups), FALSE) = FlattenSeq([g \in DOMAIN groups |-> HandlersOf(groups[g], FALSE)])
  BY HandlersFlatten DEF Groups
<1>4. [g \in DOMAIN groups |-> HandlersOf(FlattenSeq(K[g]), FALSE)]
        = [g \in DOMAIN groups |-> HandlersOf(groups[g], FALSE)]
  BY <1>2
<1> QED
  BY <1>1, <1>3, <1>4

-----------------------------------------------------------------------------
(* Without removes every handler of aiguard's, Merged leaves exactly one,   *)
(* and neither touches the user's.                                          *)

\* What is kept of the handlers of a group are lists of at most one handler.
LEMMA KeptType ==
  ASSUME NEW groups \in Groups, NEW g \in DOMAIN groups, NEW k,
         k = [i \in DOMAIN groups[g] |-> k[i]],
         \A i \in DOMAIN groups[g] : k[i] \in Seq(Handler)
  PROVE  k \in Groups
<1>1. groups[g] \in Seq(Handler)
  BY DEF Groups
<1>2. Len(groups[g]) \in Nat /\ DOMAIN groups[g] = 1..Len(groups[g])
  BY <1>1
<1>3. PICK Y, n : Y = Seq(Handler) /\ n = Len(groups[g])
  OBVIOUS
<1>4. \A i \in 1..n : k[i] \in Y
  BY <1>2, <1>3
<1>5. [i \in 1..n |-> k[i]] \in Seq(Y)
  BY <1>2, <1>3, <1>4, IsASeq
<1> QED
  BY <1>2, <1>3, <1>5 DEF Groups

LEMMA WithoutIs ==
  ASSUME NEW groups \in Groups
  PROVE  /\ Without(groups) \in Groups
         /\ HandlersOf(FlattenSeq(Without(groups)), TRUE) = <<>>
         /\ HandlersOf(FlattenSeq(Without(groups)), FALSE) = HandlersOf(FlattenSeq(groups), FALSE)
<1>1. PICK K : K = [g \in DOMAIN groups |-> [i \in DOMAIN groups[g] |->
                     IF groups[g][i].mine THEN <<>> ELSE <<groups[g][i]>>]]
  OBVIOUS
<1>2. \A g \in DOMAIN groups : \A i \in DOMAIN groups[g] : groups[g][i] \in Handler
  BY DEF Groups
<1>3. \A g \in DOMAIN groups : \A i \in DOMAIN groups[g] :
        /\ K[g][i] \in Seq(Handler)
        /\ HandlersOf(K[g][i], TRUE) = <<>>
        /\ HandlersOf(K[g][i], FALSE) = IF groups[g][i].mine = FALSE THEN <<groups[g][i]>> ELSE <<>>
  <2> SUFFICES ASSUME NEW g \in DOMAIN groups, NEW i \in DOMAIN groups[g]
               PROVE  /\ K[g][i] \in Seq(Handler)
                      /\ HandlersOf(K[g][i], TRUE) = <<>>
                      /\ HandlersOf(K[g][i], FALSE) =
                           IF groups[g][i].mine = FALSE THEN <<groups[g][i]>> ELSE <<>>
    OBVIOUS
  <2>1. PICK h : h = groups[g][i]
    OBVIOUS
  <2>2. h \in Handler /\ h.mine \in BOOLEAN
    BY <1>2, <2>1, HandlerIs
  <2>3. K[g][i] = IF h.mine THEN <<>> ELSE <<h>>
    BY <1>1, <2>1
  <2>4. /\ HandlersOf(<<h>>, TRUE) = IF h.mine = TRUE THEN <<h>> ELSE <<>>
        /\ HandlersOf(<<h>>, FALSE) = IF h.mine = FALSE THEN <<h>> ELSE <<>>
    BY <2>2, HandlersOne
  <2>5. K[g][i] \in Seq(Handler)
    BY <2>2, <2>3
  <2>6. HandlersOf(K[g][i], TRUE) = <<>> /\ HandlersOf(K[g][i], FALSE) = IF h.mine = FALSE THEN <<h>> ELSE <<>>
    <3>1. CASE h.mine = TRUE
      <4>1. K[g][i] = <<>>
        BY <2>3, <3>1
      <4>2. HandlersOf(<<>>, TRUE) = <<>> /\ HandlersOf(<<>>, FALSE) = <<>>
        BY HandlersEmpty
      <4> QED
        BY <3>1, <4>1, <4>2
    <3>2. CASE h.mine = FALSE
      <4>1. K[g][i] = <<h>>
        BY <2>3, <3>2
      <4> QED
        BY <2>4, <3>2, <4>1
    <3> QED
      BY <2>2, <3>1, <3>2
  <2> QED
    BY <2>1, <2>5, <2>6
<1>4. \A g \in DOMAIN groups :
        DOMAIN K[g] = DOMAIN groups[g] /\ K[g] = [i \in DOMAIN groups[g] |-> K[g][i]]
  BY <1>1
<1>5. \A g \in DOMAIN groups : K[g] \in Groups
  BY <1>3, <1>4, KeptType
<1>6. Without(groups) = KeptGroups(groups, K)
  <2>1. \A g \in DOMAIN groups :
          FlattenSeq([i \in DOMAIN groups[g] |-> IF groups[g][i].mine THEN <<>> ELSE <<groups[g][i]>>])
            = FlattenSeq(K[g])
    BY <1>1
  <2> QED
    BY <2>1 DEF Without, Filtered, KeptGroups
<1>7. HandlersOf(FlattenSeq(Without(groups)), FALSE) = HandlersOf(FlattenSeq(groups), FALSE)
  BY <1>3, <1>4, <1>5, <1>6, UsersKept
<1>8. /\ Without(groups) \in Groups
      /\ HandlersOf(FlattenSeq(Without(groups)), TRUE)
           = FlattenSeq([g \in DOMAIN groups |-> HandlersOf(FlattenSeq(K[g]), TRUE)])
      /\ [g \in DOMAIN groups |-> HandlersOf(FlattenSeq(K[g]), TRUE)] \in Groups
  <2>1. PICK kept, m : kept = Without(groups) /\ m = TRUE
    OBVIOUS
  <2>2. kept = KeptGroups(groups, K)
    BY <1>6, <2>1
  <2>3. kept \in Groups
    BY <1>5, <2>2, KeptHandlers
  <2>4. [g \in DOMAIN groups |-> HandlersOf(FlattenSeq(K[g]), m)] \in Groups
    BY <1>5, <2>2, KeptHandlers
  <2>5. HandlersOf(FlattenSeq(kept), m)
             = FlattenSeq([g \in DOMAIN groups |-> HandlersOf(FlattenSeq(K[g]), m)])
    BY <1>5, <2>2, KeptHandlers
  <2> QED
    BY <2>1, <2>3, <2>4, <2>5
<1>9. \A g \in DOMAIN groups : HandlersOf(FlattenSeq(K[g]), TRUE) = <<>>
  <2> TAKE g \in DOMAIN groups
  <2>1. PICK l : l = [i \in DOMAIN K[g] |-> HandlersOf(K[g][i], TRUE)]
    OBVIOUS
  <2>2. l \in Seq(Seq(Handler)) /\ HandlersOf(FlattenSeq(K[g]), TRUE) = FlattenSeq(l)
    BY <1>5, <2>1, HandlersFlatten DEF Groups
  <2>3. \A i \in DOMAIN l : l[i] = <<>>
    BY <1>3, <1>4, <2>1
  <2> QED
    BY <2>2, <2>3, FlattenNone
<1>10. HandlersOf(FlattenSeq(Without(groups)), TRUE) = <<>>
  <2>1. PICK l : l = [g \in DOMAIN groups |-> HandlersOf(FlattenSeq(K[g]), TRUE)]
    OBVIOUS
  <2>2. l \in Seq(Seq(Handler)) /\ \A g \in DOMAIN l : l[g] = <<>>
    BY <1>8, <1>9, <2>1 DEF Groups
  <2> QED
    BY <1>8, <2>1, <2>2, FlattenNone
<1> QED
  BY <1>7, <1>8, <1>10

\* There is a first handler of aiguard's.
LEMMA FirstExists ==
  ASSUME NEW groups \in Groups, OwnHandlers(groups) # {}
  PROVE  \E a \in OwnHandlers(groups) : \A b \in OwnHandlers(groups) :
           a[1] < b[1] \/ (a[1] = b[1] /\ a[2] <= b[2])
<1> DEFINE own == OwnHandlers(groups)
<1>1. \A a \in own : /\ a[1] \in Nat /\ a[2] \in Nat
                     /\ a[1] \in DOMAIN groups /\ a[2] \in DOMAIN groups[a[1]] /\ a = <<a[1], a[2]>>
  <2> TAKE a \in own
  <2>1. PICK g \in DOMAIN groups : \E i \in DOMAIN groups[g] : a = <<g, i>> /\ groups[g][i].mine
    BY OwnIs
  <2>2. PICK i \in DOMAIN groups[g] : a = <<g, i>>
    BY <2>1
  <2>3. groups[g] \in Seq(Handler) /\ g \in Nat
    BY DEF Groups
  <2>4. i \in Nat
    BY <2>2, <2>3
  <2> QED
    BY <2>2, <2>3, <2>4
<1> HIDE DEF own
<1> DEFINE rows == {a[1] : a \in own}
<1>2. PICK r \in rows : \A q \in rows : r <= q
  <2>1. rows \subseteq Nat /\ rows # {}
    BY <1>1 DEF own
  <2> HIDE DEF rows
  <2> QED
    BY <2>1, LeastOf
<1> DEFINE places == {a[2] : a \in {b \in own : b[1] = r}}
<1>3. PICK p \in places : \A q \in places : p <= q
  <2>1. places \subseteq Nat /\ places # {}
    BY <1>1
  <2> HIDE DEF places
  <2> QED
    BY <2>1, LeastOf
<1>4. PICK a \in own : a[1] = r /\ a[2] = p
  OBVIOUS
<1>5. \A b \in own : a[1] < b[1] \/ (a[1] = b[1] /\ a[2] <= b[2])
  <2> TAKE b \in own
  <2>1. a[1] <= b[1]
    BY <1>2, <1>4
  <2>2. a[1] = b[1] => a[2] <= b[2]
    BY <1>3, <1>4
  <2>3. a[1] \in Nat /\ b[1] \in Nat
    BY <1>1
  <2> QED
    BY <2>1, <2>2, <2>3
<1> QED
  BY <1>4, <1>5 DEF own

LEMMA MergedIntoOwn ==
  ASSUME NEW groups \in Groups, NEW claims \in SUBSET HookAgents, OwnHandlers(groups) # {}
  PROVE  /\ Merged(groups, claims) \in Groups
         /\ HandlersOf(FlattenSeq(Merged(groups, claims)), TRUE) = <<Own(claims, TRUE)>>
         /\ HandlersOf(FlattenSeq(Merged(groups, claims)), FALSE) = HandlersOf(FlattenSeq(groups), FALSE)
<1>1. PICK first : first = CHOOSE a \in OwnHandlers(groups) : \A b \in OwnHandlers(groups) :
                     a[1] < b[1] \/ (a[1] = b[1] /\ a[2] <= b[2])
  OBVIOUS
<1>2. first \in OwnHandlers(groups)
  BY <1>1, FirstExists
<1>3. PICK new : new = Own(claims, TRUE)
  OBVIOUS
<1>4. new \in Handler /\ new.mine = TRUE
  BY <1>3 DEF Own, Handler
<1>5. PICK K : K = [g \in DOMAIN groups |-> [i \in DOMAIN groups[g] |->
                     IF ~ groups[g][i].mine THEN <<groups[g][i]>>
                     ELSE IF <<g, i>> = first THEN <<new>> ELSE <<>>]]
  OBVIOUS
<1>6. \A g \in DOMAIN groups : \A i \in DOMAIN groups[g] : groups[g][i] \in Handler
  BY DEF Groups
<1>7. \A g \in DOMAIN groups : \A i \in DOMAIN groups[g] :
        /\ K[g][i] \in Seq(Handler)
        /\ HandlersOf(K[g][i], TRUE) = IF <<g, i>> = first THEN <<new>> ELSE <<>>
        /\ HandlersOf(K[g][i], FALSE) = IF groups[g][i].mine = FALSE THEN <<groups[g][i]>> ELSE <<>>
  <2> SUFFICES ASSUME NEW g \in DOMAIN groups, NEW i \in DOMAIN groups[g]
               PROVE  /\ K[g][i] \in Seq(Handler)
                      /\ HandlersOf(K[g][i], TRUE) = IF <<g, i>> = first THEN <<new>> ELSE <<>>
                      /\ HandlersOf(K[g][i], FALSE) =
                           IF groups[g][i].mine = FALSE THEN <<groups[g][i]>> ELSE <<>>
    OBVIOUS
  <2>1. PICK h : h = groups[g][i]
    OBVIOUS
  <2>2. h \in Handler /\ h.mine \in BOOLEAN
    BY <1>6, <2>1, HandlerIs
  <2>3. K[g][i] = IF ~ h.mine THEN <<h>> ELSE IF <<g, i>> = first THEN <<new>> ELSE <<>>
    BY <1>5, <2>1
  <2>4. /\ HandlersOf(<<h>>, TRUE) = IF h.mine = TRUE THEN <<h>> ELSE <<>>
        /\ HandlersOf(<<h>>, FALSE) = IF h.mine = FALSE THEN <<h>> ELSE <<>>
    BY <2>2, HandlersOne
  <2>5. HandlersOf(<<new>>, TRUE) = <<new>> /\ HandlersOf(<<new>>, FALSE) = <<>>
    <3>1. /\ HandlersOf(<<new>>, TRUE) = IF new.mine = TRUE THEN <<new>> ELSE <<>>
          /\ HandlersOf(<<new>>, FALSE) = IF new.mine = FALSE THEN <<new>> ELSE <<>>
      BY <1>4, HandlersOne
    <3> QED
      BY <1>4, <3>1
  <2>6. HandlersOf(<<>>, TRUE) = <<>> /\ HandlersOf(<<>>, FALSE) = <<>>
    BY HandlersEmpty
  <2>7. K[g][i] \in Seq(Handler)
    BY <1>4, <2>2, <2>3
  <2>8. <<g, i>> = first => h.mine
    BY <1>2, <2>1, OwnIs
  <2>9. CASE h.mine = FALSE
    <3>1. K[g][i] = <<h>> /\ <<g, i>> # first
      BY <2>3, <2>8, <2>9
    <3> QED
      BY <2>1, <2>4, <2>7, <2>9, <3>1
  <2>10. CASE h.mine = TRUE /\ <<g, i>> = first
    <3>1. K[g][i] = <<new>>
      BY <2>3, <2>10
    <3> QED
      BY <2>1, <2>5, <2>7, <2>10, <3>1
  <2>11. CASE h.mine = TRUE /\ <<g, i>> # first
    <3>1. K[g][i] = <<>>
      BY <2>3, <2>11
    <3> QED
      BY <2>1, <2>6, <2>7, <2>11, <3>1
  <2> QED
    BY <2>2, <2>9, <2>10, <2>11
<1>8. \A g \in DOMAIN groups :
        DOMAIN K[g] = DOMAIN groups[g] /\ K[g] = [i \in DOMAIN groups[g] |-> K[g][i]]
  BY <1>5
<1>9. \A g \in DOMAIN groups : K[g] \in Groups
  BY <1>7, <1>8, KeptType
<1>10. PICK kept : kept = Merged(groups, claims)
  OBVIOUS
<1>11. kept = KeptGroups(groups, K)
  <2>1. \A g \in DOMAIN groups :
          FlattenSeq([i \in DOMAIN groups[g] |->
              IF ~ groups[g][i].mine THEN <<groups[g][i]>>
              ELSE IF <<g, i>> = first THEN <<Own(claims, TRUE)>> ELSE <<>>])
            = FlattenSeq(K[g])
    BY <1>3, <1>5
  <2> QED
    BY <1>1, <1>10, <2>1 DEF Merged, Filtered, KeptGroups
<1>12. HandlersOf(FlattenSeq(kept), FALSE) = HandlersOf(FlattenSeq(groups), FALSE)
  BY <1>7, <1>8, <1>9, <1>11, UsersKept
<1>13. PICK m : m = TRUE
  OBVIOUS
<1>14. kept \in Groups
  BY <1>9, <1>11, KeptHandlers
<1>15. [g \in DOMAIN groups |-> HandlersOf(FlattenSeq(K[g]), m)] \in Groups
  BY <1>9, <1>11, KeptHandlers
<1>16. HandlersOf(FlattenSeq(kept), m)
        = FlattenSeq([g \in DOMAIN groups |-> HandlersOf(FlattenSeq(K[g]), m)])
  BY <1>9, <1>11, KeptHandlers
<1>17. PICK f \in DOMAIN groups : \E j \in DOMAIN groups[f] : first = <<f, j>>
  BY <1>2, OwnIs
<1>18. PICK j \in DOMAIN groups[f] : first = <<f, j>>
  BY <1>17
<1>19. \A g \in DOMAIN groups : HandlersOf(FlattenSeq(K[g]), m) = IF g = f THEN <<new>> ELSE <<>>
  <2> TAKE g \in DOMAIN groups
  <2>1. PICK l : l = [i \in DOMAIN K[g] |-> HandlersOf(K[g][i], TRUE)]
    OBVIOUS
  <2>2. l \in Seq(Seq(Handler)) /\ HandlersOf(FlattenSeq(K[g]), m) = FlattenSeq(l)
    BY <1>9, <1>13, <2>1, HandlersFlatten DEF Groups
  <2>3. \A i \in DOMAIN groups[g] : l[i] = IF g = f /\ i = j THEN <<new>> ELSE <<>>
    BY <1>7, <1>8, <1>18, <2>1
  <2>4. DOMAIN l = DOMAIN groups[g]
    BY <1>8, <2>1
  <2>5. CASE g = f
    <3>1. OneOf(l, new)
      BY <1>18, <2>3, <2>4, <2>5 DEF OneOf
    <3> QED
      BY <1>4, <2>2, <2>5, <3>1, FlattenOneOf
  <2>6. CASE g # f
    BY <2>2, <2>3, <2>4, <2>6, FlattenNone
  <2> QED
    BY <2>5, <2>6
<1>20. HandlersOf(FlattenSeq(kept), m) = <<new>>
  <2>1. PICK l : l = [g \in DOMAIN groups |-> HandlersOf(FlattenSeq(K[g]), m)]
    OBVIOUS
  <2>2. l \in Seq(Seq(Handler)) /\ OneOf(l, new)
    BY <1>15, <1>17, <1>19, <2>1 DEF Groups, OneOf
  <2> QED
    BY <1>4, <1>16, <2>1, <2>2, FlattenOneOf
<1> QED
  BY <1>3, <1>10, <1>12, <1>13, <1>14, <1>20

LEMMA MergedIs ==
  ASSUME NEW groups \in Groups, NEW claims \in SUBSET HookAgents
  PROVE  /\ Merged(groups, claims) \in Groups
         /\ HandlersOf(FlattenSeq(Merged(groups, claims)), TRUE) = <<Own(claims, TRUE)>>
         /\ HandlersOf(FlattenSeq(Merged(groups, claims)), FALSE) = HandlersOf(FlattenSeq(groups), FALSE)
<1>1. CASE OwnHandlers(groups) # {}
  BY <1>1, MergedIntoOwn
<1>2. CASE OwnHandlers(groups) = {}
  <2>1. PICK new, all : new = Own(claims, TRUE) /\ all = FlattenSeq(groups)
    OBVIOUS
  <2>2. new \in Handler /\ new.mine = TRUE /\ <<new>> \in Seq(Handler)
    BY <2>1 DEF Own, Handler
  <2>3. Merged(groups, claims) = Append(groups, <<new>>)
    BY <1>2, <2>1 DEF Merged
  <2>4. Append(groups, <<new>>) \in Groups
    BY <2>2 DEF Groups
  <2>5. FlattenSeq(Append(groups, <<new>>)) = all \o <<new>> /\ all \in Seq(Handler)
    BY <2>1, <2>2, FlattenAppend, FlattenType DEF Groups
  <2>6. all \o <<new>> = Append(all, new)
    BY <2>2, <2>5, AppendIsConcat
  <2>7. HandlersOf(all, TRUE) = <<>>
    BY <1>2, <2>1, OwnNone
  <2>8. HandlersOf(Append(all, new), TRUE) = <<new>>
    <3>1. HandlersOf(Append(all, new), TRUE) = HandlersOf(all, TRUE) \o (IF new.mine = TRUE THEN <<new>> ELSE <<>>)
      BY <2>2, <2>5, HandlersAppend
    <3> QED
      BY <2>2, <2>7, <3>1, ConcatEmptySeq
  <2>9. HandlersOf(Append(all, new), FALSE) = HandlersOf(all, FALSE)
    <3>1. HandlersOf(Append(all, new), FALSE) = HandlersOf(all, FALSE) \o (IF new.mine = FALSE THEN <<new>> ELSE <<>>)
      BY <2>2, <2>5, HandlersAppend
    <3>2. HandlersOf(all, FALSE) \in Seq(Handler)
      BY <2>5, HandlersType
    <3>3. (IF new.mine = FALSE THEN <<new>> ELSE <<>>) = <<>>
      BY <2>2
    <3> QED
      BY <3>1, <3>2, <3>3, ConcatEmptySeq
  <2> QED
    BY <2>1, <2>3, <2>4, <2>5, <2>6, <2>8, <2>9
<1> QED
  BY <1>1, <1>2

-----------------------------------------------------------------------------
(* What the updates make of settings.json                                   *)

OwnIn(hs) == {h \in UNION {ToSet(FlattenSeq(hs.events[e].groups)) : e \in HookEvents} : h.mine}

LEMMA OwnInIs ==
  ASSUME NEW hs, HooksTyped(hs), NEW h
  PROVE  h \in OwnIn(hs) <=>
           \E e \in HookEvents : \E a \in OwnHandlers(hs.events[e].groups) :
             h = hs.events[e].groups[a[1]][a[2]]
<1>1. \A e \in HookEvents : hs.events[e].groups \in Groups
  BY DEF HooksTyped, Groups
<1>2. h \in OwnIn(hs) <=>
        \E e \in HookEvents : h \in {k \in ToSet(FlattenSeq(hs.events[e].groups)) : k.mine}
  BY DEF OwnIn
<1>3. ASSUME NEW e \in HookEvents
      PROVE  {k \in ToSet(FlattenSeq(hs.events[e].groups)) : k.mine}
               = {hs.events[e].groups[a[1]][a[2]] : a \in OwnHandlers(hs.events[e].groups)}
  <2>1. PICK groups : groups = hs.events[e].groups
    OBVIOUS
  <2>2. groups \in Groups
    BY <1>1, <2>1
  <2>3. {k \in ToSet(FlattenSeq(groups)) : k.mine} = {groups[a[1]][a[2]] : a \in OwnHandlers(groups)}
    BY <2>2, OwnElements
  <2> QED
    BY <2>1, <2>3
<1>4. h \in OwnIn(hs) <=>
        \E e \in HookEvents : h \in {hs.events[e].groups[a[1]][a[2]] : a \in OwnHandlers(hs.events[e].groups)}
  BY <1>2, <1>3
<1> QED
  BY <1>4

LEMMA ClaimsIs ==
  ASSUME NEW hs
  PROVE  Claims(hs) = IF OwnIn(hs) # {} /\ UNION {h.claims : h \in OwnIn(hs)} = {}
                      THEN {"claude-code"} ELSE UNION {h.claims : h \in OwnIn(hs)}
BY DEF Claims, OwnIn

LEMMA OwnInType ==
  ASSUME NEW hs, HooksTyped(hs), NEW h \in OwnIn(hs)
  PROVE  h \in Handler /\ h.mine
<1>1. PICK e \in HookEvents : \E a \in OwnHandlers(hs.events[e].groups) :
        h = hs.events[e].groups[a[1]][a[2]]
  BY OwnInIs
<1>2. PICK groups : groups = hs.events[e].groups
  OBVIOUS
<1>3. groups \in Seq(Seq(Handler))
  BY <1>2 DEF HooksTyped
<1>4. PICK a \in OwnHandlers(groups) : h = groups[a[1]][a[2]]
  BY <1>1, <1>2
<1>5. PICK g \in DOMAIN groups : \E i \in DOMAIN groups[g] : a = <<g, i>> /\ groups[g][i].mine
  BY OwnIs
<1>6. PICK i \in DOMAIN groups[g] : a = <<g, i>> /\ groups[g][i].mine
  BY <1>5
<1>7. groups[g] \in Seq(Handler)
  BY <1>3
<1> QED
  BY <1>4, <1>6, <1>7

LEMMA ClaimsType ==
  ASSUME NEW hs, HooksTyped(hs)
  PROVE  Claims(hs) \subseteq HookAgents
<1>1. \A h \in OwnIn(hs) : h.claims \subseteq HookAgents
  BY OwnInType, HandlerIs
<1>2. UNION {h.claims : h \in OwnIn(hs)} \subseteq HookAgents
  BY <1>1
<1> QED
  BY <1>2, ClaimsIs DEF HookAgents

\* No claim is left exactly when no handler of aiguard's is.
LEMMA NoClaims ==
  ASSUME NEW hs, HooksTyped(hs)
  PROVE  Claims(hs) = {} <=> \A e \in HookEvents : OwnHandlers(hs.events[e].groups) = {}
<1>1. Claims(hs) = {} <=> OwnIn(hs) = {}
  BY ClaimsIs
<1> QED
  BY ZenonT(60), <1>1, OwnInIs

LEMMA InstalledIs ==
  ASSUME NEW hs, HooksTyped(hs), Installable(hs),
         NEW claims \in SUBSET HookAgents, claims # {}
  PROVE  /\ HooksTyped(Installed(hs, claims))
         /\ Claims(Installed(hs, claims)) = claims
         /\ \A agent \in claims : HooksActive(Installed(hs, claims), agent)
         /\ \A e \in HookEvents : UserHandlers(Installed(hs, claims), e) = UserHandlers(hs, e)
<1>1. PICK new : new = Installed(hs, claims)
  OBVIOUS
<1>2. PICK own : own = Own(claims, TRUE)
  OBVIOUS
<1>3. own \in Handler /\ own.mine /\ own.claims = claims /\ own.fresh
  BY <1>2 DEF Own, Handler
<1>4. \A e \in HookEvents :
        /\ new.events[e] = [shape |-> "list", groups |-> Merged(hs.events[e].groups, claims)]
        /\ new.events[e].groups = Merged(hs.events[e].groups, claims)
  BY <1>1 DEF Installed, Listing
<1>5. \A e \in HookEvents : hs.events[e].groups \in Groups
  BY DEF HooksTyped, Groups
<1>6. \A e \in HookEvents :
        /\ new.events[e].groups \in Groups
        /\ HandlersOf(FlattenSeq(new.events[e].groups), TRUE) = <<own>>
        /\ HandlersOf(FlattenSeq(new.events[e].groups), FALSE)
             = HandlersOf(FlattenSeq(hs.events[e].groups), FALSE)
  <2> TAKE e \in HookEvents
  <2>1. PICK groups : groups = hs.events[e].groups
    OBVIOUS
  <2>2. groups \in Groups
    BY <1>5, <2>1
  <2>3. /\ Merged(groups, claims) \in Groups
        /\ HandlersOf(FlattenSeq(Merged(groups, claims)), TRUE) = <<Own(claims, TRUE)>>
        /\ HandlersOf(FlattenSeq(Merged(groups, claims)), FALSE) = HandlersOf(FlattenSeq(groups), FALSE)
    BY <2>2, MergedIs
  <2> QED
    BY <1>2, <1>4, <2>1, <2>3
<1>7. HooksTyped(new)
  <2>1. new = [shape |-> "object",
               events |-> [e \in HookEvents |->
                            [shape |-> "list", groups |-> Merged(hs.events[e].groups, claims)]]]
    BY <1>1 DEF Installed, Listing
  <2>2. \A e \in HookEvents : Merged(hs.events[e].groups, claims) \in Seq(Seq(Handler))
    BY <1>4, <1>6 DEF Groups
  <2> QED
    BY <2>1, <2>2 DEF HooksTyped
<1>8. ASSUME NEW e \in HookEvents
      PROVE  \E a : OwnHandlers(new.events[e].groups) = {a} /\ new.events[e].groups[a[1]][a[2]] = own
  <2>1. PICK groups : groups = new.events[e].groups
    OBVIOUS
  <2>2. groups \in Groups /\ HandlersOf(FlattenSeq(groups), TRUE) = <<own>>
    BY <1>6, <2>1
  <2>3. PICK g \in DOMAIN groups : \E i \in DOMAIN groups[g] :
          OwnHandlers(groups) = {<<g, i>>} /\ groups[g][i] = own
    BY <1>3, <2>2, OwnOne
  <2>4. PICK i \in DOMAIN groups[g] : OwnHandlers(groups) = {<<g, i>>} /\ groups[g][i] = own
    BY <2>3
  <2>5. PICK a : a = <<g, i>>
    OBVIOUS
  <2>6. OwnHandlers(groups) = {a} /\ groups[a[1]][a[2]] = own
    BY <2>4, <2>5
  <2> QED
    BY <2>1, <2>6
<1>9. Claims(new) = claims
  <2>1. \A h \in OwnIn(new) : h = own
    BY <1>7, <1>8, OwnInIs
  <2>2. own \in OwnIn(new)
    <3>1. PICK e \in HookEvents : TRUE
      BY HooksAssumption
    <3>2. \E a \in OwnHandlers(new.events[e].groups) : own = new.events[e].groups[a[1]][a[2]]
      BY <1>8
    <3> QED
      BY <1>7, <3>2, OwnInIs
  <2>3. UNION {h.claims : h \in OwnIn(new)} = claims
    BY <1>3, <2>1, <2>2
  <2> QED
    BY <2>3, ClaimsIs
<1>10. \A agent \in claims : HooksActive(new, agent)
  <2> TAKE agent \in claims
  <2>1. ASSUME NEW e \in HookEvents
        PROVE  /\ Cardinality(OwnHandlers(new.events[e].groups)) = 1
               /\ \A at \in OwnHandlers(new.events[e].groups) :
                    IsCurrent(new.events[e].groups[at[1]][at[2]], Claims(new))
    <3>1. PICK a : OwnHandlers(new.events[e].groups) = {a} /\ new.events[e].groups[a[1]][a[2]] = own
      BY <1>8
    <3>2. Cardinality({a}) = 1
      BY FS_Singleton
    <3>3. IsCurrent(own, Claims(new))
      BY <1>3, <1>9 DEF IsCurrent
    <3> QED
      BY <3>1, <3>2, <3>3
  <2> QED
    BY <1>9, <2>1 DEF HooksActive
<1>11. \A e \in HookEvents : UserHandlers(new, e) = UserHandlers(hs, e)
  BY <1>6 DEF UserHandlers
<1> QED
  BY <1>1, <1>7, <1>9, <1>10, <1>11

LEMMA RemovedIs ==
  ASSUME NEW hs, HooksTyped(hs)
  PROVE  /\ HooksTyped(Removed(hs))
         /\ Claims(Removed(hs)) = {}
         /\ \A e \in HookEvents : UserHandlers(Removed(hs), e) = UserHandlers(hs, e)
         /\ hs.shape = "odd" => Removed(hs) = hs
<1>1. PICK events : events = [e \in HookEvents |->
                      IF OwnHandlers(hs.events[e].groups) = {} THEN hs.events[e]
                      ELSE IF Without(hs.events[e].groups) = <<>> THEN NoEvent
                      ELSE Listing(Without(hs.events[e].groups))]
  OBVIOUS
<1>2. PICK new : new = Removed(hs)
  OBVIOUS
<1>3. new = IF events = hs.events THEN hs
            ELSE [shape  |-> IF \A e \in HookEvents : events[e] = NoEvent THEN "none" ELSE "object",
                  events |-> events]
  BY <1>1, <1>2 DEF Removed
<1>4. new.events = events
  BY <1>3
<1>5. hs.events = [e \in HookEvents |-> hs.events[e]]
      /\ hs.shape \in {"none", "odd", "object"}
      /\ \A e \in HookEvents :
           hs.events[e] \in [shape : {"none", "odd", "list"}, groups : Seq(Seq(Handler))]
  BY DEF HooksTyped
<1>6. ASSUME NEW e \in HookEvents
      PROVE  /\ events[e] \in [shape : {"none", "odd", "list"}, groups : Seq(Seq(Handler))]
             /\ OwnHandlers(events[e].groups) = {}
             /\ HandlersOf(FlattenSeq(events[e].groups), FALSE)
                  = HandlersOf(FlattenSeq(hs.events[e].groups), FALSE)
  <2>1. PICK groups : groups = hs.events[e].groups
    OBVIOUS
  <2>2. groups \in Groups
    BY <1>5, <2>1 DEF Groups
  <2>3. CASE OwnHandlers(groups) = {}
    BY <1>1, <1>5, <2>1, <2>3
  <2>4. CASE OwnHandlers(groups) # {}
    <3>1. /\ Without(groups) \in Groups
          /\ HandlersOf(FlattenSeq(Without(groups)), TRUE) = <<>>
          /\ HandlersOf(FlattenSeq(Without(groups)), FALSE) = HandlersOf(FlattenSeq(groups), FALSE)
      BY <2>2, WithoutIs
    <3>2. events[e].groups = Without(groups) /\ events[e].shape \in {"none", "list"}
          /\ events[e] = [shape |-> events[e].shape, groups |-> events[e].groups]
      BY <1>1, <2>1, <2>4 DEF NoEvent, Listing
    <3>3. OwnHandlers(Without(groups)) = {}
      BY <3>1, OwnNone
    <3> QED
      BY <2>1, <3>1, <3>2, <3>3 DEF Groups
  <2> QED
    BY <2>3, <2>4
<1>7. HooksTyped(new)
  <2>1. CASE events = hs.events
    BY <1>3, <2>1
  <2>2. CASE events # hs.events
    <3>1. new.shape \in {"none", "object"} /\ (new.shape = "none" => \A e \in HookEvents : events[e] = NoEvent)
          /\ new = [shape |-> new.shape, events |-> events]
      BY <1>3, <2>2
    <3>2. events \in [HookEvents -> [shape : {"none", "odd", "list"}, groups : Seq(Seq(Handler))]]
      BY <1>1, <1>6
    <3>3. new \in [shape : {"none", "odd", "object"},
                    events : [HookEvents -> [shape : {"none", "odd", "list"}, groups : Seq(Seq(Handler))]]]
      BY <3>1, <3>2
    <3>4. new.shape # "object" => \A e \in HookEvents : new.events[e] = NoEvent
      BY <1>4, <3>1
    <3>5. \A e \in HookEvents : OwnHandlers(new.events[e].groups) = {}
      BY <1>4, <1>6
    <3> QED
      BY <3>3, <3>4, <3>5 DEF HooksTyped
  <2> QED
    BY <2>1, <2>2
<1>8. Claims(new) = {}
  BY <1>4, <1>6, <1>7, NoClaims
<1>9. \A e \in HookEvents : UserHandlers(new, e) = UserHandlers(hs, e)
  BY <1>4, <1>6 DEF UserHandlers
<1>10. hs.shape = "odd" => new = hs
  <2>1. SUFFICES ASSUME hs.shape = "odd" PROVE events = hs.events
    BY <1>3
  <2>2. \A e \in HookEvents : OwnHandlers(hs.events[e].groups) = {}
    <3>1. OwnHandlers(<<>>) = {}
      BY OwnIs
    <3>2. \A e \in HookEvents : hs.events[e].groups = <<>>
      BY <2>1 DEF HooksTyped, NoEvent
    <3> QED
      BY <3>1, <3>2
  <2>3. events = [e \in HookEvents |-> hs.events[e]]
    BY <1>1, <2>2
  <2> QED
    BY <1>5, <2>3
<1> QED
  BY <1>2, <1>7, <1>8, <1>9, <1>10

LEMMA UpdatedIs ==
  ASSUME NEW hs, HooksTyped(hs), NEW agent \in HookAgents, NEW add \in BOOLEAN,
         CanUpdate(hs, agent, add)
  PROVE  /\ HooksTyped(Updated(hs, agent, add))
         /\ Claims(Updated(hs, agent, add))
              = IF add THEN Claims(hs) \cup {agent} ELSE Claims(hs) \ {agent}
         /\ add => HooksActive(Updated(hs, agent, add), agent)
         /\ \A b \in HookAgents : b # agent /\ HooksActive(hs, b) => HooksActive(Updated(hs, agent, add), b)
         /\ \A e \in HookEvents : UserHandlers(Updated(hs, agent, add), e) = UserHandlers(hs, e)
         /\ hs.shape = "odd" => Updated(hs, agent, add) = hs
<1>1. PICK claims : claims = IF add THEN Claims(hs) \cup {agent} ELSE Claims(hs) \ {agent}
  OBVIOUS
<1>2. claims \in SUBSET HookAgents
  BY <1>1, ClaimsType
<1>3. \A b \in HookAgents : b # agent /\ HooksActive(hs, b) => b \in claims
  BY <1>1 DEF HooksActive
<1>4. PICK new : new = Updated(hs, agent, add)
  OBVIOUS
<1>5. CASE ~ add /\ agent \notin Claims(hs)
  <2>1. new = hs /\ claims = Claims(hs)
    BY <1>1, <1>4, <1>5 DEF Updated
  <2> QED
    BY <1>1, <1>4, <1>5, <2>1
<1>6. CASE ~ (~ add /\ agent \notin Claims(hs)) /\ claims = {}
  <2>1. new = Removed(hs)
    BY <1>1, <1>4, <1>6 DEF Updated
  <2>2. /\ HooksTyped(Removed(hs))
        /\ Claims(Removed(hs)) = {}
        /\ \A e \in HookEvents : UserHandlers(Removed(hs), e) = UserHandlers(hs, e)
        /\ hs.shape = "odd" => Removed(hs) = hs
    BY RemovedIs
  <2>3. ~ add
    BY <1>1, <1>6
  <2> QED
    BY <1>1, <1>3, <1>4, <1>6, <2>1, <2>2, <2>3
<1>7. CASE ~ (~ add /\ agent \notin Claims(hs)) /\ claims # {}
  <2>1. new = Installed(hs, claims)
    BY <1>1, <1>4, <1>7 DEF Updated
  <2>2. Installable(hs)
    BY <1>1, <1>7 DEF CanUpdate
  <2>3. /\ HooksTyped(Installed(hs, claims))
        /\ Claims(Installed(hs, claims)) = claims
        /\ \A a \in claims : HooksActive(Installed(hs, claims), a)
        /\ \A e \in HookEvents : UserHandlers(Installed(hs, claims), e) = UserHandlers(hs, e)
    BY <1>2, <1>7, <2>2, InstalledIs
  <2>4. hs.shape # "odd"
    BY <2>2 DEF Installable
  <2>5. add => agent \in claims
    BY <1>1
  <2> QED
    BY <1>1, <1>3, <1>4, <2>1, <2>3, <2>4, <2>5
<1> QED
  BY <1>5, <1>6, <1>7

-----------------------------------------------------------------------------
(* The invariant: what the stages behind a call of Claude Desktop's have    *)
(* done, unless one failed or the user came between.                        *)

Going(op, stage) ==
  desktop.op = op /\ desktop.stage = stage /\ ~ desktop.failed /\ desktop.edits = handEdits

DesktopOK ==
  /\ server => serverManifest
  /\ desktop # NoDesktopCall => done["claude-desktop"] = "none" /\ desktop.edits <= handEdits
  /\ desktop # NoDesktopCall /\ (Going("patch", "hooks") \/ Going("patch", "monitor")) => server
  /\ desktop # NoDesktopCall /\ Going("patch", "monitor") => HooksActive(hooks, "claude-desktop")
  /\ desktop # NoDesktopCall /\ (Going("unpatch", "hooks") \/ Going("unpatch", "monitor")) =>
       ~ server /\ ~ serverManifest
  /\ desktop # NoDesktopCall /\ Going("unpatch", "monitor") => "claude-desktop" \notin Claims(hooks)

\* What each agent's last success says, but for the last handler.
CodeFollows ==
  /\ done["claude-code"] = "patched" => HooksActive(hooks, "claude-code")
  /\ done["claude-code"] = "unpatched" => "claude-code" \notin Claims(hooks)
DesktopFollows ==
  /\ done["claude-desktop"] = "patched" =>
       server /\ monitor /\ HooksActive(hooks, "claude-desktop")
  /\ done["claude-desktop"] = "unpatched" =>
       ~ serverManifest /\ ~ server /\ ~ monitor /\ "claude-desktop" \notin Claims(hooks)

HooksInv == HooksTypeOK /\ DesktopOK /\ CodeFollows /\ DesktopFollows

LEMMA CallTypes ==
  ASSUME HooksTypeOK, desktop # NoDesktopCall
  PROVE  /\ desktop \in [op : {"patch", "unpatch"}, stage : {"server", "hooks", "monitor"},
                         failed : BOOLEAN, edits : 0..MaxHandEdits]
         /\ desktop.op \in {"patch", "unpatch"}
         /\ desktop.stage \in {"server", "hooks", "monitor"}
         /\ desktop.failed \in BOOLEAN
         /\ desktop.edits \in Nat
BY HooksAssumption DEF HooksTypeOK

LEMMA HooksInvInit == HooksInit => HooksInv
<1> SUFFICES ASSUME HooksInit PROVE HooksInv
  OBVIOUS
<1>1. HooksTyped(hooks) /\ Claims(hooks) \subseteq HookAgents
  BY HookFilesAssumption, ClaimsType DEF HooksInit
<1>2. HooksTypeOK
  <2>1. 0 \in 0..MaxHandEdits /\ 0 \in 0..MaxTroubles
    BY HooksAssumption
  <2>2. done \in [HookAgents -> {"none", "patched", "unpatched"}]
    BY DEF HooksInit
  <2>3. server \in BOOLEAN /\ serverManifest \in BOOLEAN /\ monitor \in BOOLEAN
        /\ desktop = NoDesktopCall /\ handEdits = 0 /\ troubles = 0
    BY DEF HooksInit
  <2> QED
    BY <1>1, <2>1, <2>2, <2>3 DEF HooksTypeOK
<1>3. done["claude-code"] = "none" /\ done["claude-desktop"] = "none"
  BY DEF HooksInit, HookAgents
<1> QED
  BY <1>2, <1>3 DEF HooksInit, HooksInv, DesktopOK, CodeFollows, DesktopFollows

LEMMA UpdateCodeInv ==
  ASSUME HooksInv, NEW add \in BOOLEAN, UpdateCode(add)
  PROVE  HooksInv'
<1>0. HooksTypeOK /\ DesktopOK /\ CodeFollows /\ DesktopFollows
  BY DEF HooksInv
<1>1. /\ CanUpdate(hooks, "claude-code", add)
      /\ hooks' = Updated(hooks, "claude-code", add)
      /\ done' = [done EXCEPT !["claude-code"] = IF add THEN "patched" ELSE "unpatched"]
      /\ UNCHANGED <<server, serverManifest, monitor, desktop, handEdits, troubles>>
  BY DEF UpdateCode, Others
<1>2. /\ HooksTyped(hooks')
      /\ Claims(hooks') = IF add THEN Claims(hooks) \cup {"claude-code"} ELSE Claims(hooks) \ {"claude-code"}
      /\ add => HooksActive(hooks', "claude-code")
      /\ HooksActive(hooks, "claude-desktop") => HooksActive(hooks', "claude-desktop")
  <2>1. PICK hs : hs = hooks
    OBVIOUS
  <2>2. HooksTyped(hs) /\ CanUpdate(hs, "claude-code", add)
        /\ "claude-code" \in HookAgents /\ "claude-desktop" \in HookAgents
    BY <1>0, <1>1, <2>1 DEF HooksTypeOK, HookAgents
  <2>3. PICK new : new = Updated(hs, "claude-code", add)
    OBVIOUS
  <2>4. /\ HooksTyped(new)
        /\ Claims(new) = IF add THEN Claims(hs) \cup {"claude-code"} ELSE Claims(hs) \ {"claude-code"}
        /\ add => HooksActive(new, "claude-code")
        /\ HooksActive(hs, "claude-desktop") => HooksActive(new, "claude-desktop")
    BY <2>2, <2>3, UpdatedIs
  <2> QED
    BY <1>1, <2>1, <2>3, <2>4
<1>3. /\ done'["claude-code"] = IF add THEN "patched" ELSE "unpatched"
      /\ done'["claude-desktop"] = done["claude-desktop"]
      /\ done' \in [HookAgents -> {"none", "patched", "unpatched"}]
  BY <1>0, <1>1 DEF HooksTypeOK, HookAgents
<1>4. HooksTypeOK'
  <2>1. Claims(hooks') \subseteq HookAgents
    BY <1>2, ClaimsType
  <2> QED
    BY <1>0, <1>1, <1>2, <1>3, <2>1 DEF HooksTypeOK
<1>5. "claude-desktop" \notin Claims(hooks) => "claude-desktop" \notin Claims(hooks')
  BY <1>2
<1>6. DesktopOK'
  BY <1>0, <1>1, <1>2, <1>3, <1>5 DEF DesktopOK, Going
<1>7. CodeFollows'
  BY <1>2, <1>3 DEF CodeFollows
<1>8. DesktopFollows'
  BY <1>0, <1>1, <1>2, <1>3, <1>5 DEF DesktopFollows
<1> QED
  BY <1>4, <1>6, <1>7, <1>8 DEF HooksInv

LEMMA BeginDesktopInv ==
  ASSUME HooksInv, NEW op \in {"patch", "unpatch"}, BeginDesktop(op)
  PROVE  HooksInv'
<1>0. HooksTypeOK /\ DesktopOK /\ CodeFollows /\ DesktopFollows
  BY DEF HooksInv
<1>1. /\ desktop' = [op |-> op, stage |-> "server", failed |-> FALSE, edits |-> handEdits]
      /\ done' = [done EXCEPT !["claude-desktop"] = "none"]
      /\ UNCHANGED <<hooks, server, serverManifest, monitor, handEdits, troubles>>
  BY DEF BeginDesktop
<1>2. /\ done'["claude-code"] = done["claude-code"] /\ done'["claude-desktop"] = "none"
      /\ done' \in [HookAgents -> {"none", "patched", "unpatched"}]
  BY <1>0, <1>1 DEF HooksTypeOK, HookAgents
<1>3. HooksTypeOK'
  BY <1>0, <1>1, <1>2, HooksAssumption DEF HooksTypeOK
<1>4. handEdits <= handEdits
  BY <1>0, HooksAssumption DEF HooksTypeOK
<1>5. DesktopOK'
  BY <1>0, <1>1, <1>2, <1>4 DEF DesktopOK, Going
<1> QED
  BY <1>0, <1>1, <1>2, <1>3, <1>5 DEF HooksInv, CodeFollows, DesktopFollows

\* The call goes on to its next stage, or ends.
LEMMA StageGoesOn ==
  ASSUME HooksTypeOK, desktop # NoDesktopCall, NEW fails \in BOOLEAN, Advance(fails),
         desktop.stage # "monitor", ~ (fails /\ desktop.op = "patch")
  PROVE  /\ desktop' # NoDesktopCall
         /\ desktop' \in [op : {"patch", "unpatch"}, stage : {"server", "hooks", "monitor"},
                          failed : BOOLEAN, edits : 0..MaxHandEdits]
         /\ desktop'.op = desktop.op /\ desktop'.edits = desktop.edits
         /\ desktop'.stage = (IF desktop.stage = "server" THEN "hooks" ELSE "monitor")
         /\ desktop'.failed = (desktop.failed \/ fails)
         /\ done' = done
<1>1. /\ desktop \in [op : {"patch", "unpatch"}, stage : {"server", "hooks", "monitor"},
                      failed : BOOLEAN, edits : 0..MaxHandEdits]
      /\ desktop.op \in {"patch", "unpatch"}
  BY CallTypes
<1>2. /\ desktop' = [desktop EXCEPT !.stage = NextStage(@), !.failed = (desktop.failed \/ fails)]
      /\ done' = done
  BY DEF Advance
<1>3. desktop' = [op |-> desktop.op, stage |-> (IF desktop.stage = "server" THEN "hooks" ELSE "monitor"),
                  failed |-> (desktop.failed \/ fails), edits |-> desktop.edits]
  BY <1>1, <1>2 DEF NextStage
<1>4. desktop' # NoDesktopCall
  <2>1. desktop'.op \in {"patch", "unpatch"}
    BY <1>1, <1>3
  <2>2. NoDesktopCall.op = "none"
    BY DEF NoDesktopCall
  <2> QED
    BY <2>1, <2>2
<1>5. /\ desktop'.op = desktop.op /\ desktop'.edits = desktop.edits
      /\ desktop'.stage = (IF desktop.stage = "server" THEN "hooks" ELSE "monitor")
      /\ desktop'.failed = (desktop.failed \/ fails)
  BY <1>3
<1>6. /\ desktop.edits \in 0..MaxHandEdits /\ (desktop.failed \/ fails) \in BOOLEAN
      /\ (IF desktop.stage = "server" THEN "hooks" ELSE "monitor") \in {"server", "hooks", "monitor"}
  BY <1>1
<1>7. desktop' \in [op : {"patch", "unpatch"}, stage : {"server", "hooks", "monitor"},
                   failed : BOOLEAN, edits : 0..MaxHandEdits]
  BY <1>1, <1>3, <1>6
<1> QED
  BY <1>2, <1>4, <1>5, <1>7

LEMMA StageEnds ==
  ASSUME HooksTypeOK, desktop # NoDesktopCall, NEW fails \in BOOLEAN, Advance(fails),
         desktop.stage = "monitor" \/ (fails /\ desktop.op = "patch")
  PROVE  /\ desktop' = NoDesktopCall
         /\ done' \in [HookAgents -> {"none", "patched", "unpatched"}]
         /\ done'["claude-code"] = done["claude-code"]
         /\ done'["claude-desktop"] =
              IF ~ desktop.failed /\ ~ fails /\ desktop.edits = handEdits
              THEN IF desktop.op = "patch" THEN "patched" ELSE "unpatched"
              ELSE done["claude-desktop"]
<1>1. desktop' = NoDesktopCall
  BY DEF Advance
<1>2. done' = IF ~ (desktop.failed \/ fails) /\ desktop.edits = handEdits
              THEN [done EXCEPT !["claude-desktop"] = IF desktop.op = "patch" THEN "patched" ELSE "unpatched"]
              ELSE done
  BY DEF Advance
<1>3. done \in [HookAgents -> {"none", "patched", "unpatched"}] /\ desktop.failed \in BOOLEAN
  BY CallTypes DEF HooksTypeOK
<1> QED
  BY <1>1, <1>2, <1>3 DEF HookAgents

LEMMA ServerStageInv ==
  ASSUME HooksInv, ServerStage
  PROVE  HooksInv'
<1>0. HooksTypeOK /\ DesktopOK /\ CodeFollows /\ DesktopFollows
  BY DEF HooksInv
<1>1. /\ desktop # NoDesktopCall /\ desktop.stage = "server" /\ Advance(FALSE)
      /\ server' = IF desktop.op = "patch" THEN TRUE ELSE server /\ ~serverManifest
      /\ serverManifest' = (desktop.op = "patch")
      /\ UNCHANGED <<hooks, monitor, handEdits, troubles>>
  BY DEF ServerStage
<1>2. /\ desktop.op \in {"patch", "unpatch"} /\ desktop.failed \in BOOLEAN
      /\ desktop.edits \in Nat
  BY <1>0, <1>1, CallTypes
<1>3. /\ desktop' # NoDesktopCall
      /\ desktop' \in [op : {"patch", "unpatch"}, stage : {"server", "hooks", "monitor"},
                       failed : BOOLEAN, edits : 0..MaxHandEdits]
      /\ desktop'.op = desktop.op /\ desktop'.edits = desktop.edits
      /\ desktop'.stage = "hooks" /\ done' = done
  BY <1>0, <1>1, StageGoesOn
<1>4. server' \in BOOLEAN /\ serverManifest' \in BOOLEAN
      /\ (desktop.op = "patch" => server' /\ serverManifest')
      /\ (desktop.op = "unpatch" => ~ server' /\ ~ serverManifest')
  BY <1>0, <1>1, <1>2 DEF DesktopOK, HooksTypeOK
<1>5. HooksTypeOK'
  BY <1>0, <1>1, <1>3, <1>4 DEF HooksTypeOK
<1>6. DesktopOK'
  BY <1>0, <1>1, <1>2, <1>3, <1>4 DEF DesktopOK, Going
<1>7. done["claude-desktop"] = "none"
  BY <1>0, <1>1 DEF DesktopOK
<1> QED
  BY <1>0, <1>1, <1>3, <1>5, <1>6, <1>7 DEF HooksInv, CodeFollows, DesktopFollows

LEMMA HooksStageInv ==
  ASSUME HooksInv, HooksStage
  PROVE  HooksInv'
<1>0. HooksTypeOK /\ DesktopOK /\ CodeFollows /\ DesktopFollows
  BY DEF HooksInv
<1>1. /\ desktop # NoDesktopCall /\ desktop.stage = "hooks"
      /\ UNCHANGED <<server, serverManifest, monitor, handEdits, troubles>>
  BY DEF HooksStage
<1>2. /\ desktop.op \in {"patch", "unpatch"} /\ desktop.failed \in BOOLEAN /\ desktop.edits \in Nat
  BY <1>0, <1>1, CallTypes
<1>3. done["claude-desktop"] = "none"
  BY <1>0, <1>1 DEF DesktopOK
<1>4. PICK add : add = (desktop.op = "patch")
  OBVIOUS
<1>5. CASE CanUpdate(hooks, "claude-desktop", add)
  <2>1. hooks' = Updated(hooks, "claude-desktop", add) /\ Advance(FALSE)
    BY <1>4, <1>5 DEF HooksStage
  <2>2. /\ HooksTyped(hooks')
        /\ Claims(hooks') = IF add THEN Claims(hooks) \cup {"claude-desktop"} ELSE Claims(hooks) \ {"claude-desktop"}
        /\ add => HooksActive(hooks', "claude-desktop")
        /\ HooksActive(hooks, "claude-code") => HooksActive(hooks', "claude-code")
    <3>1. PICK hs : hs = hooks
      OBVIOUS
    <3>2. HooksTyped(hs) /\ CanUpdate(hs, "claude-desktop", add) /\ add \in BOOLEAN
          /\ "claude-code" \in HookAgents /\ "claude-desktop" \in HookAgents
      BY <1>0, <1>4, <1>5, <3>1 DEF HooksTypeOK, HookAgents
    <3>3. PICK new : new = Updated(hs, "claude-desktop", add)
      OBVIOUS
    <3>4. /\ HooksTyped(new)
          /\ Claims(new) = IF add THEN Claims(hs) \cup {"claude-desktop"} ELSE Claims(hs) \ {"claude-desktop"}
          /\ add => HooksActive(new, "claude-desktop")
          /\ HooksActive(hs, "claude-code") => HooksActive(new, "claude-code")
      BY <3>2, <3>3, UpdatedIs
    <3> QED
      BY <2>1, <3>1, <3>3, <3>4
  <2>3. /\ desktop' # NoDesktopCall
        /\ desktop' \in [op : {"patch", "unpatch"}, stage : {"server", "hooks", "monitor"},
                         failed : BOOLEAN, edits : 0..MaxHandEdits]
        /\ desktop'.op = desktop.op /\ desktop'.edits = desktop.edits
        /\ desktop'.stage = "monitor" /\ desktop'.failed = desktop.failed /\ done' = done
    BY <1>0, <1>1, <1>2, <2>1, StageGoesOn
  <2>4. HooksTypeOK'
    <3>1. Claims(hooks') \subseteq HookAgents
      BY <2>2, ClaimsType
    <3> QED
      BY <1>0, <1>1, <2>2, <2>3, <3>1 DEF HooksTypeOK
  <2>5. DesktopOK'
    BY <1>0, <1>1, <1>2, <1>4, <2>2, <2>3 DEF DesktopOK, Going
  <2>6. CodeFollows'
    BY <1>0, <2>2, <2>3 DEF CodeFollows
  <2>7. DesktopFollows'
    BY <1>3, <2>3 DEF DesktopFollows
  <2> QED
    BY <2>4, <2>5, <2>6, <2>7 DEF HooksInv
<1>6. CASE ~ CanUpdate(hooks, "claude-desktop", add)
  <2>1. hooks' = hooks /\ Advance(TRUE)
    BY <1>4, <1>6 DEF HooksStage
  <2>2. CASE desktop.op = "patch"
    <3>1. /\ desktop' = NoDesktopCall
          /\ done' \in [HookAgents -> {"none", "patched", "unpatched"}]
          /\ done'["claude-code"] = done["claude-code"] /\ done'["claude-desktop"] = "none"
      BY <1>0, <1>1, <1>3, <2>1, <2>2, StageEnds
    <3>2. HooksTypeOK'
      BY <1>0, <1>1, <2>1, <3>1 DEF HooksTypeOK
    <3> QED
      BY <1>0, <1>1, <2>1, <3>1, <3>2 DEF HooksInv, DesktopOK, CodeFollows, DesktopFollows
  <2>3. CASE desktop.op = "unpatch"
    <3>1. /\ desktop' # NoDesktopCall
          /\ desktop' \in [op : {"patch", "unpatch"}, stage : {"server", "hooks", "monitor"},
                           failed : BOOLEAN, edits : 0..MaxHandEdits]
          /\ desktop'.edits = desktop.edits /\ desktop'.failed /\ done' = done
      BY <1>0, <1>1, <1>2, <2>1, <2>3, StageGoesOn
    <3>2. HooksTypeOK'
      BY <1>0, <1>1, <2>1, <3>1 DEF HooksTypeOK
    <3>3. DesktopOK'
      BY <1>0, <1>1, <2>1, <3>1 DEF DesktopOK, Going
    <3> QED
      BY <1>0, <1>1, <1>3, <2>1, <3>1, <3>2, <3>3 DEF HooksInv, CodeFollows, DesktopFollows
  <2> QED
    BY <1>2, <2>2, <2>3
<1> QED
  BY <1>5, <1>6


LEMMA MonitorStageInv ==
  ASSUME HooksInv, MonitorStage
  PROVE  HooksInv'
<1>0. HooksTypeOK /\ DesktopOK /\ CodeFollows /\ DesktopFollows
  BY DEF HooksInv
<1>1. /\ desktop # NoDesktopCall /\ desktop.stage = "monitor" /\ Advance(FALSE)
      /\ monitor' = (desktop.op = "patch")
      /\ UNCHANGED <<hooks, server, serverManifest, handEdits, troubles>>
  BY DEF MonitorStage
<1>2. desktop.op \in {"patch", "unpatch"}
  BY <1>0, <1>1, CallTypes
<1>3. done["claude-desktop"] = "none"
  BY <1>0, <1>1 DEF DesktopOK
<1>4. /\ desktop' = NoDesktopCall
      /\ done' \in [HookAgents -> {"none", "patched", "unpatched"}]
      /\ done'["claude-code"] = done["claude-code"]
      /\ done'["claude-desktop"] =
           IF ~ desktop.failed /\ ~ FALSE /\ desktop.edits = handEdits
           THEN IF desktop.op = "patch" THEN "patched" ELSE "unpatched"
           ELSE done["claude-desktop"]
  BY <1>0, <1>1, StageEnds
<1>5. HooksTypeOK'
  BY <1>0, <1>1, <1>4 DEF HooksTypeOK
<1>6. DesktopOK'
  BY <1>0, <1>1, <1>4 DEF DesktopOK
<1>7. CodeFollows'
  BY <1>0, <1>1, <1>4 DEF CodeFollows
<1>8. DesktopFollows'
  <2>1. ASSUME done'["claude-desktop"] = "patched"
        PROVE  server' /\ monitor' /\ HooksActive(hooks', "claude-desktop")
    <3>1. Going("patch", "monitor")
      BY <1>1, <1>2, <1>3, <1>4, <2>1 DEF Going
    <3> QED
      BY <1>0, <1>1, <3>1 DEF DesktopOK, Going
  <2>2. ASSUME done'["claude-desktop"] = "unpatched"
        PROVE  ~ serverManifest' /\ ~ server' /\ ~ monitor' /\ "claude-desktop" \notin Claims(hooks')
    <3>1. Going("unpatch", "monitor")
      BY <1>1, <1>2, <1>3, <1>4, <2>2 DEF Going
    <3> QED
      BY <1>0, <1>1, <3>1 DEF DesktopOK, Going
  <2> QED
    BY <2>1, <2>2 DEF DesktopFollows
<1> QED
  BY <1>5, <1>6, <1>7, <1>8 DEF HooksInv

LEMMA StageFailsInv ==
  ASSUME HooksInv, StageFails
  PROVE  HooksInv'
<1>0. HooksTypeOK /\ DesktopOK /\ CodeFollows /\ DesktopFollows
  BY DEF HooksInv
<1>1. /\ troubles < MaxTroubles /\ troubles' = troubles + 1
      /\ desktop # NoDesktopCall /\ Advance(TRUE)
      /\ UNCHANGED <<hooks, monitor, handEdits>>
  BY DEF StageFails, Trouble
<1>2. troubles' \in 0..MaxTroubles
  BY <1>0, <1>1, HooksAssumption DEF HooksTypeOK
<1>3. /\ desktop.op \in {"patch", "unpatch"} /\ desktop.stage \in {"server", "hooks", "monitor"}
      /\ done["claude-desktop"] = "none"
  BY <1>0, <1>1, CallTypes DEF DesktopOK
<1>4. /\ server' \in BOOLEAN /\ serverManifest' \in BOOLEAN
      /\ server' => serverManifest'
  BY <1>0 DEF StageFails, DesktopOK, HooksTypeOK
<1>5. CASE desktop.stage = "monitor" \/ desktop.op = "patch"
  <2>1. /\ desktop' = NoDesktopCall
        /\ done' \in [HookAgents -> {"none", "patched", "unpatched"}]
        /\ done'["claude-code"] = done["claude-code"] /\ done'["claude-desktop"] = "none"
    BY <1>0, <1>1, <1>3, <1>5, StageEnds
  <2>2. HooksTypeOK'
    BY <1>0, <1>1, <1>2, <1>4, <2>1 DEF HooksTypeOK
  <2> QED
    BY <1>0, <1>1, <1>4, <2>1, <2>2 DEF HooksInv, DesktopOK, CodeFollows, DesktopFollows
<1>6. CASE ~ (desktop.stage = "monitor" \/ desktop.op = "patch")
  <2>1. /\ desktop' # NoDesktopCall
        /\ desktop' \in [op : {"patch", "unpatch"}, stage : {"server", "hooks", "monitor"},
                         failed : BOOLEAN, edits : 0..MaxHandEdits]
        /\ desktop'.edits = desktop.edits /\ desktop'.failed /\ done' = done
    BY <1>0, <1>1, <1>3, <1>6, StageGoesOn
  <2>2. HooksTypeOK'
    BY <1>0, <1>1, <1>2, <1>4, <2>1 DEF HooksTypeOK
  <2>3. DesktopOK'
    BY <1>0, <1>1, <1>4, <2>1 DEF DesktopOK, Going
  <2> QED
    BY <1>0, <1>1, <1>3, <2>1, <2>2, <2>3 DEF HooksInv, CodeFollows, DesktopFollows
<1> QED
  BY <1>5, <1>6

LEMMA KilledInv ==
  ASSUME HooksInv, KilledBetweenStages
  PROVE  HooksInv'
<1>0. HooksTypeOK /\ DesktopOK /\ CodeFollows /\ DesktopFollows
  BY DEF HooksInv
<1>1. /\ troubles < MaxTroubles /\ troubles' = troubles + 1
      /\ desktop' = NoDesktopCall
      /\ UNCHANGED <<hooks, server, serverManifest, monitor, done, handEdits>>
  BY DEF KilledBetweenStages, Trouble
<1>2. troubles' \in 0..MaxTroubles
  BY <1>0, <1>1, HooksAssumption DEF HooksTypeOK
<1>3. HooksTypeOK'
  BY <1>0, <1>1, <1>2 DEF HooksTypeOK
<1> QED
  BY <1>0, <1>1, <1>3 DEF HooksInv, DesktopOK, CodeFollows, DesktopFollows

\* An event of the file replaced by one that may be there.
LEMMA EventReplaced ==
  ASSUME NEW hs, HooksTyped(hs), hs.shape = "object", NEW e \in HookEvents,
         NEW v \in [shape : {"none", "odd", "list"}, groups : Seq(Seq(Handler))],
         v.shape # "list" => OwnHandlers(v.groups) = {}
  PROVE  HooksTyped([hs EXCEPT !.events[e] = v])
<1>1. PICK new : new = [hs EXCEPT !.events[e] = v]
  OBVIOUS
<1>2. hs \in [shape  : {"none", "odd", "object"},
              events : [HookEvents -> [shape : {"none", "odd", "list"}, groups : Seq(Seq(Handler))]]]
      /\ \A d \in HookEvents : hs.events[d].shape # "list" => OwnHandlers(hs.events[d].groups) = {}
  BY DEF HooksTyped
<1>3. PICK types : types = [shape : {"none", "odd", "list"}, groups : Seq(Seq(Handler))]
  OBVIOUS
<1>4. hs \in [shape : {"none", "odd", "object"}, events : [HookEvents -> types]] /\ v \in types
  BY <1>2, <1>3
<1>5. /\ new \in [shape : {"none", "odd", "object"}, events : [HookEvents -> types]]
      /\ new.shape = "object"
      /\ \A d \in HookEvents : new.events[d] = IF d = e THEN v ELSE hs.events[d]
  BY <1>1, <1>4
<1>6. \A d \in HookEvents : new.events[d].shape # "list" => OwnHandlers(new.events[d].groups) = {}
  <2> SUFFICES ASSUME NEW d \in HookEvents, new.events[d].shape # "list"
               PROVE  OwnHandlers(new.events[d].groups) = {}
    OBVIOUS
  <2>1. CASE d = e
    BY <1>5, <2>1
  <2>2. CASE d # e
    BY <1>2, <1>5, <2>2
  <2> QED
    BY <2>1, <2>2
<1>7. HooksTyped(new)
  BY <1>3, <1>5, <1>6 DEF HooksTyped
<1> QED
  BY <1>1, <1>7

LEMMA ListingTyped ==
  ASSUME NEW hs, HooksTyped(hs), hs.shape = "object", NEW e \in HookEvents,
         NEW groups \in Seq(Seq(Handler))
  PROVE  HooksTyped([hs EXCEPT !.events[e] = Listing(groups)])
<1>1. PICK v : v = Listing(groups)
  OBVIOUS
<1>2. v \in [shape : {"none", "odd", "list"}, groups : Seq(Seq(Handler))] /\ v.shape = "list"
  BY <1>1 DEF Listing
<1>3. HooksTyped([hs EXCEPT !.events[e] = v])
  BY <1>2, EventReplaced
<1> QED
  BY <1>1, <1>3

LEMMA FreshIs ==
  ASSUME NEW h \in Handler, NEW b \in BOOLEAN
  PROVE  /\ [h EXCEPT !.fresh = b] = [mine |-> h.mine, claims |-> h.claims, fresh |-> b]
         /\ h = [mine |-> h.mine, claims |-> h.claims, fresh |-> h.fresh]
<1>0. PICK names : names = {{name} : name \in UserNames \cup {"mine"}}
  OBVIOUS
<1>1. PICK C : C = (SUBSET HookAgents) \cup names
  OBVIOUS
<1>2. h \in [mine : BOOLEAN, claims : C, fresh : BOOLEAN]
  <2>1. CASE h \in [mine : {TRUE}, claims : SUBSET HookAgents, fresh : BOOLEAN]
    BY <1>1, <2>1
  <2>2. CASE \E name \in UserNames \cup {"mine"} : h = Users(name)
    <3>1. PICK name \in UserNames \cup {"mine"} : h = [mine |-> FALSE, claims |-> {name}, fresh |-> TRUE]
      BY <2>2 DEF Users
    <3>2. PICK c : c = {name}
      OBVIOUS
    <3>4. c \in names
      BY <1>0, <3>1, <3>2
    <3>5. c \in C
      BY <1>1, <3>4
    <3>3. h = [mine |-> FALSE, claims |-> c, fresh |-> TRUE]
      BY <3>1, <3>2
    <3> QED
      BY <3>3, <3>5
  <2> QED
    BY <2>1, <2>2 DEF Handler
<1> QED
  BY <1>2, SMT

\* An upgrade leaves aiguard's handlers aiguard's, and the user's the user's.
LEMMA OutdatedTyped ==
  ASSUME NEW hs, HooksTyped(hs), hs.shape = "object"
  PROVE  HooksTyped(Outdated(hs))
<1> DEFINE old(h) == [h EXCEPT !.fresh = ~ h.mine]
           group(g) == [i \in DOMAIN g |-> old(g[i])]
           groups(gs) == [g \in DOMAIN gs |-> group(gs[g])]
<1>1. \A h \in Handler : old(h) \in Handler /\ old(h).mine = h.mine
  <2> SUFFICES ASSUME NEW h \in Handler PROVE old(h) \in Handler /\ old(h).mine = h.mine
    OBVIOUS
  <2>1. PICK b \in BOOLEAN : b = ~ h.mine
    BY HandlerIs
  <2>2. old(h) = [h EXCEPT !.fresh = b]
    BY <2>1, Zenon
  <2>3. old(h) = [mine |-> h.mine, claims |-> h.claims, fresh |-> b]
    BY <2>2, FreshIs
  <2>4. CASE h \in [mine : {TRUE}, claims : SUBSET HookAgents, fresh : BOOLEAN]
    BY <2>3, <2>4 DEF Handler
  <2>5. CASE \E name \in UserNames \cup {"mine"} : h = Users(name)
    <3>1. PICK name \in UserNames \cup {"mine"} : h = [mine |-> FALSE, claims |-> {name}, fresh |-> TRUE]
      BY <2>5 DEF Users
    <3>2. b = TRUE
      BY <2>1, <3>1
    <3>3. old(h) = h
      BY <2>3, <3>1, <3>2
    <3> QED
      BY <3>3
  <2> QED
    BY <2>4, <2>5 DEF Handler
<1>2. \A g \in Seq(Handler) :
        /\ group(g) \in Seq(Handler)
        /\ DOMAIN group(g) = DOMAIN g
        /\ \A i \in DOMAIN g : group(g)[i].mine = g[i].mine
  <2> SUFFICES ASSUME NEW g \in Seq(Handler)
               PROVE  /\ group(g) \in Seq(Handler)
                      /\ DOMAIN group(g) = DOMAIN g
                      /\ \A i \in DOMAIN g : group(g)[i].mine = g[i].mine
    OBVIOUS
  <2>1. \A i \in DOMAIN g : g[i] \in Handler
    OBVIOUS
  <2>2. PICK n \in Nat : DOMAIN g = 1..n
    BY LenProperties
  <2> HIDE DEF old
  <2>3. group(g) \in [1..n -> Handler]
    BY <1>1, <2>1, <2>2
  <2>4. group(g) \in Seq(Handler)
    BY <2>2, <2>3, SeqDef
  <2> QED
    BY <1>1, <2>1, <2>4
<1>3. \A gs \in Seq(Seq(Handler)) :
        groups(gs) \in Seq(Seq(Handler)) /\ (OwnHandlers(gs) = {} => OwnHandlers(groups(gs)) = {})
  <2> HIDE DEF group
  <2> SUFFICES ASSUME NEW gs \in Seq(Seq(Handler))
               PROVE  groups(gs) \in Seq(Seq(Handler)) /\ (OwnHandlers(gs) = {} => OwnHandlers(groups(gs)) = {})
    OBVIOUS
  <2>1. \A g \in DOMAIN gs : gs[g] \in Seq(Handler)
    OBVIOUS
  <2>2. PICK n \in Nat : DOMAIN gs = 1..n
    BY LenProperties
  <2>3. groups(gs) \in [1..n -> Seq(Handler)]
    BY <1>2, <2>1, <2>2
  <2>4. groups(gs) \in Seq(Seq(Handler))
    BY <2>3, SeqDef
  <2>5. PICK new : new = groups(gs)
    OBVIOUS
  <2>6. /\ DOMAIN new = DOMAIN gs
        /\ \A g \in DOMAIN gs : /\ DOMAIN new[g] = DOMAIN gs[g]
                                /\ \A i \in DOMAIN gs[g] : new[g][i].mine = gs[g][i].mine
    BY <1>2, <2>1, <2>5
  <2>7. ASSUME OwnHandlers(gs) = {} PROVE OwnHandlers(new) = {}
    <3>1. \A g \in DOMAIN gs : \A i \in DOMAIN gs[g] : ~ gs[g][i].mine
      <4> SUFFICES ASSUME NEW g \in DOMAIN gs, NEW i \in DOMAIN gs[g], gs[g][i].mine PROVE FALSE
        OBVIOUS
      <4>1. <<g, i>> \in OwnHandlers(gs)
        BY DEF OwnHandlers
      <4> QED
        BY <2>7, <4>1
    <3>2. \A g \in DOMAIN new : {i \in DOMAIN new[g] : new[g][i].mine} = {}
      BY <2>6, <3>1
    <3> QED
      BY <3>2 DEF OwnHandlers
  <2> QED
    BY <2>4, <2>5, <2>7
<1> HIDE DEF groups
<1>4. PICK new : new = Outdated(hs)
  OBVIOUS
<1>5. PICK types : types = [shape : {"none", "odd", "list"}, groups : Seq(Seq(Handler))]
  OBVIOUS
<1>6. /\ hs \in [shape : {"none", "odd", "object"}, events : [HookEvents -> types]]
      /\ \A e \in HookEvents : /\ hs.events[e] \in types
                               /\ hs.events[e].groups \in Seq(Seq(Handler))
                               /\ hs.events[e].shape \in {"none", "odd", "list"}
                               /\ hs.events[e].shape # "list" => OwnHandlers(hs.events[e].groups) = {}
  BY <1>5 DEF HooksTyped
<1>7. new = [hs EXCEPT !.events = [e \in HookEvents |->
               [hs.events[e] EXCEPT !.groups = groups(hs.events[e].groups)]]]
  BY <1>4, <1>6 DEF Outdated, groups
<1>8. \A e \in HookEvents :
        LET v == [hs.events[e] EXCEPT !.groups = groups(hs.events[e].groups)]
        IN  /\ v \in types
            /\ v.shape = hs.events[e].shape /\ v.groups = groups(hs.events[e].groups)
  BY <1>3, <1>5, <1>6
<1>9. /\ new.shape = "object" /\ new.events \in [HookEvents -> types]
      /\ \A e \in HookEvents : /\ new.events[e].shape = hs.events[e].shape
                               /\ new.events[e].groups = groups(hs.events[e].groups)
  BY <1>6, <1>7, <1>8
<1>10. new \in [shape : {"none", "odd", "object"}, events : [HookEvents -> types]]
  BY <1>6, <1>7, <1>9
<1>11. \A e \in HookEvents : new.events[e].shape # "list" => OwnHandlers(new.events[e].groups) = {}
  BY <1>3, <1>6, <1>9
<1>12. HooksTyped(new)
  BY <1>5, <1>9, <1>10, <1>11 DEF HooksTyped
<1> QED
  BY <1>4, <1>12

LEMMA HandEditInv ==
  ASSUME HooksInv, NEW e \in HookEvents, NEW how \in {"add", "copy", "delete", "upgrade"},
         HandEdit(e, how)
  PROVE  HooksInv'
<1>0. HooksTypeOK /\ DesktopOK
  BY DEF HooksInv
<1>1. /\ handEdits < MaxHandEdits /\ handEdits' = handEdits + 1
      /\ hooks.shape = "object" /\ hooks.events[e].shape = "list" /\ hooks.events[e].groups # <<>>
      /\ done' = [a \in HookAgents |-> "none"]
      /\ UNCHANGED <<server, serverManifest, monitor, desktop, troubles>>
  BY DEF HandEdit
<1>2. HooksTyped(hooks')
  <2>1. PICK hs : hs = hooks
    OBVIOUS
  <2>2. HooksTyped(hs) /\ hs.shape = "object"
    BY <1>0, <1>1, <2>1 DEF HooksTypeOK
  <2>3. PICK groups : groups = hs.events[e].groups
    OBVIOUS
  <2>4. groups \in Seq(Seq(Handler)) /\ groups # <<>>
    BY <1>1, <2>1, <2>2, <2>3 DEF HooksTyped
  <2>5. 1 \in DOMAIN groups /\ groups[1] \in Seq(Handler)
    BY <2>4
  <2>6. CASE how = "add"
    <3>1. Users("mine") \in Handler
      BY DEF Handler
    <3>2. PICK first : first = Append(groups[1], Users("mine"))
      OBVIOUS
    <3>3. first \in Seq(Handler)
      BY <2>5, <3>1, <3>2
    <3>4. PICK new : new = [groups EXCEPT ![1] = first]
      OBVIOUS
    <3>5. new \in Seq(Seq(Handler))
      BY <2>4, <2>5, <3>3, <3>4
    <3>6. HooksTyped([hs EXCEPT !.events[e] = Listing(new)])
      BY <2>2, <3>5, ListingTyped
    <3>7. hooks' = [hs EXCEPT !.events[e] = Listing(new)]
      BY <2>1, <2>3, <2>6, <3>2, <3>4 DEF HandEdit
    <3> QED
      BY <3>6, <3>7
  <2>7. CASE how = "copy"
    <3>1. PICK new : new = groups \o <<groups[1]>>
      OBVIOUS
    <3>2. new \in Seq(Seq(Handler))
      BY <2>4, <2>5, <3>1
    <3>3. HooksTyped([hs EXCEPT !.events[e] = Listing(new)])
      BY <2>2, <3>2, ListingTyped
    <3>4. hooks' = [hs EXCEPT !.events[e] = Listing(new)]
      BY <2>1, <2>3, <2>7, <3>1 DEF HandEdit
    <3> QED
      BY <3>3, <3>4
  <2>8. CASE how = "delete"
    <3>1. PICK v : v = NoEvent
      OBVIOUS
    <3>2. /\ v \in [shape : {"none", "odd", "list"}, groups : Seq(Seq(Handler))]
          /\ v.groups = <<>>
      BY <3>1 DEF NoEvent
    <3>3. OwnHandlers(v.groups) = {}
      BY <3>2 DEF OwnHandlers
    <3>4. HooksTyped([hs EXCEPT !.events[e] = v])
      BY <2>2, <3>2, <3>3, EventReplaced
    <3>5. hooks' = [hs EXCEPT !.events[e] = v]
      BY <2>1, <2>8, <3>1 DEF HandEdit
    <3> QED
      BY <3>4, <3>5
  <2>9. CASE how = "upgrade"
    <3>1. hooks' = Outdated(hs)
      BY <2>1, <2>9 DEF HandEdit
    <3> QED
      BY <2>2, <3>1, OutdatedTyped
  <2> QED
    BY <2>6, <2>7, <2>8, <2>9
<1>3. /\ done'["claude-code"] = "none" /\ done'["claude-desktop"] = "none"
      /\ done' \in [HookAgents -> {"none", "patched", "unpatched"}]
  BY <1>1 DEF HookAgents
<1>4. handEdits' \in 0..MaxHandEdits
  BY <1>0, <1>1, HooksAssumption DEF HooksTypeOK
<1>5. HooksTypeOK'
  <2>1. Claims(hooks') \subseteq HookAgents
    BY <1>2, ClaimsType
  <2> QED
    BY <1>0, <1>1, <1>2, <1>3, <1>4, <2>1 DEF HooksTypeOK
<1>6. desktop # NoDesktopCall => desktop.edits < handEdits' /\ desktop.edits <= handEdits'
  <2>1. desktop # NoDesktopCall => desktop.edits \in Nat /\ desktop.edits <= handEdits
    BY <1>0, CallTypes DEF DesktopOK
  <2>2. handEdits \in Nat
    BY <1>0 DEF HooksTypeOK
  <2> QED
    BY <1>1, <2>1, <2>2
<1>7. ASSUME desktop # NoDesktopCall PROVE desktop'.edits # handEdits'
  <2>1. desktop.edits \in Nat /\ handEdits' \in Nat
    BY <1>0, <1>4, <1>7, CallTypes
  <2> QED
    BY <1>1, <1>6, <1>7, <2>1
<1>8. DesktopOK'
  BY <1>0, <1>1, <1>3, <1>6, <1>7 DEF DesktopOK, Going
<1> QED
  BY <1>3, <1>5, <1>8 DEF HooksInv, CodeFollows, DesktopFollows

LEMMA HooksInvNext == HooksInv /\ [HooksNext]_hookVars => HooksInv'
<1> SUFFICES ASSUME HooksInv, [HooksNext]_hookVars PROVE HooksInv'
  OBVIOUS
<1>1. ASSUME NEW add \in BOOLEAN, UpdateCode(add) PROVE HooksInv'
  BY <1>1, UpdateCodeInv
<1>2. ASSUME NEW op \in {"patch", "unpatch"}, BeginDesktop(op) PROVE HooksInv'
  BY <1>2, BeginDesktopInv
<1>3. CASE ServerStage
  BY <1>3, ServerStageInv
<1>4. CASE HooksStage
  BY <1>4, HooksStageInv
<1>5. CASE MonitorStage
  BY <1>5, MonitorStageInv
<1>6. CASE StageFails
  BY <1>6, StageFailsInv
<1>7. CASE KilledBetweenStages
  BY <1>7, KilledInv
<1>8. ASSUME NEW e \in HookEvents, NEW how \in {"add", "copy", "delete", "upgrade"}, HandEdit(e, how)
      PROVE  HooksInv'
  BY <1>8, HandEditInv
<1>9. CASE UNCHANGED hookVars
  <2>1. UNCHANGED <<hooks, server, serverManifest, monitor, desktop, done, handEdits, troubles>>
    BY <1>9 DEF hookVars
  <2>2. HooksTypeOK'
    BY <2>1 DEF HooksInv, HooksTypeOK
  <2>3. DesktopOK'
    BY <2>1 DEF HooksInv, DesktopOK, Going
  <2> QED
    BY <2>1, <2>2, <2>3 DEF HooksInv, CodeFollows, DesktopFollows
<1> QED
  BY <1>1, <1>2, <1>3, <1>4, <1>5, <1>6, <1>7, <1>8, <1>9 DEF HooksNext

-----------------------------------------------------------------------------
(* The theorems.                                                            *)

\* What each agent's last success says holds in every state, whatever stages
\* of Claude Desktop's Patch and Unpatch failed, whatever the user did to the
\* handlers, and however the two agents' updates interleave.
THEOREM HooksInvariant == HooksSpec => []HooksInv
<1>1. HooksInit => HooksInv
  BY HooksInvInit
<1>2. HooksInv /\ [HooksNext]_hookVars => HooksInv'
  BY HooksInvNext
<1> QED
  BY <1>1, <1>2, PTL DEF HooksSpec

\* settings.json keeps its shape, and a handler of aiguard's names no agent
\* but the two that can claim it (claude_code.go's hook command).
THEOREM HooksTypesHold == HooksSpec => []HooksTypeOK
<1>1. HooksInv => HooksTypeOK
  BY DEF HooksInv
<1> QED
  BY <1>1, HooksInvariant, PTL

\* An agent whose Patch succeeded shows as patched until it is unpatched or
\* the user changes the handlers; one whose Unpatch succeeded has left nothing
\* behind; and when both have left, no handler of aiguard's is in the file
\* (claude_code.go's claims, claude_desktop.go's Patch and Unpatch).
THEOREM SharedHooksFollowPatch == HooksSpec => []HooksFollowPatch
<1>1. HooksInv => HooksFollowPatch
  <2> SUFFICES ASSUME HooksInv PROVE HooksFollowPatch
    OBVIOUS
  <2>1. HooksTypeOK /\ DesktopOK /\ CodeFollows /\ DesktopFollows
    BY DEF HooksInv
  <2>2. done["claude-desktop"] = "patched" => server /\ serverManifest /\ DesktopActive
    BY <2>1 DEF DesktopOK, DesktopFollows, DesktopActive
  <2>3. ASSUME \A a \in HookAgents : done[a] = "unpatched"
        PROVE  \A e \in HookEvents : OwnHandlers(hooks.events[e].groups) = {}
    <3>1. done["claude-code"] = "unpatched" /\ done["claude-desktop"] = "unpatched"
      BY <2>3 DEF HookAgents
    <3>2. HooksTyped(hooks) /\ Claims(hooks) \subseteq HookAgents
      BY <2>1 DEF HooksTypeOK
    <3>3. Claims(hooks) = {}
      BY <2>1, <3>1, <3>2 DEF CodeFollows, DesktopFollows, HookAgents
    <3>4. PICK hs : hs = hooks
      OBVIOUS
    <3>5. \A e \in HookEvents : OwnHandlers(hs.events[e].groups) = {}
      BY <3>2, <3>3, <3>4, NoClaims
    <3> QED
      BY <3>4, <3>5
  <2> QED
    BY <2>1, <2>2, <2>3 DEF HooksFollowPatch, CodeFollows, DesktopFollows
<1> QED
  BY <1>1, HooksInvariant, PTL

LEMMA UpdateKeepsUsers ==
  ASSUME HooksTypeOK, NEW agent \in HookAgents, NEW add \in BOOLEAN, CanUpdate(hooks, agent, add),
         hooks' = Updated(hooks, agent, add)
  PROVE  /\ \A e \in HookEvents : UserHandlers(hooks', e) = UserHandlers(hooks, e)
         /\ hooks.shape = "odd" => hooks' = hooks
<1>1. PICK hs : hs = hooks
  OBVIOUS
<1>2. HooksTyped(hs) /\ CanUpdate(hs, agent, add)
  BY <1>1 DEF HooksTypeOK
<1>3. PICK new : new = Updated(hs, agent, add)
  OBVIOUS
<1>4. /\ \A e \in HookEvents : UserHandlers(new, e) = UserHandlers(hs, e)
      /\ hs.shape = "odd" => new = hs
  BY <1>2, <1>3, UpdatedIs
<1> QED
  BY <1>1, <1>3, <1>4

\* An update of settings.json takes, adds and moves no handler of the user's,
\* whatever groups he keeps them in, and leaves a file it cannot read
\* (mergeClaudeCodeHook and removeClaudeCodeHooks, claude_code.go).
THEOREM UsersKeepTheirHandlers == HooksSpec => UserHandlersStay
<1> DEFINE Kept == handEdits' = handEdits =>
             /\ \A e \in HookEvents : UserHandlers(hooks', e) = UserHandlers(hooks, e)
             /\ hooks.shape = "odd" => hooks' = hooks
<1>1. HooksInv /\ [HooksNext]_hookVars => [Kept]_hookVars
  <2> SUFFICES ASSUME HooksInv, HooksNext, handEdits' = handEdits
               PROVE  /\ \A e \in HookEvents : UserHandlers(hooks', e) = UserHandlers(hooks, e)
                      /\ hooks.shape = "odd" => hooks' = hooks
    OBVIOUS
  <2>1. HooksTypeOK
    BY DEF HooksInv
  <2>2. CASE hooks' = hooks
    BY <2>2
  <2>3. CASE \E agent \in HookAgents, add \in BOOLEAN :
               CanUpdate(hooks, agent, add) /\ hooks' = Updated(hooks, agent, add)
    BY <2>1, <2>3, UpdateKeepsUsers
  <2>4. ASSUME NEW add \in BOOLEAN, UpdateCode(add)
        PROVE  CanUpdate(hooks, "claude-code", add) /\ hooks' = Updated(hooks, "claude-code", add)
    BY <2>4 DEF UpdateCode
  <2>5. CASE HooksStage
    <3>1. PICK add \in BOOLEAN : add = (desktop.op = "patch")
      OBVIOUS
    <3>2. \/ CanUpdate(hooks, "claude-desktop", add) /\ hooks' = Updated(hooks, "claude-desktop", add)
          \/ hooks' = hooks
      BY <2>5, <3>1 DEF HooksStage
    <3> QED
      BY <2>2, <2>3, <3>1, <3>2 DEF HookAgents
  <2>6. ASSUME NEW e \in HookEvents, NEW how \in {"add", "copy", "delete", "upgrade"}, HandEdit(e, how)
        PROVE  FALSE
    <3>1. handEdits \in Nat /\ handEdits' = handEdits + 1
      BY <2>1, <2>6 DEF HooksTypeOK, HandEdit
    <3> QED
      BY <3>1
  <2>7. ASSUME \/ \E op \in {"patch", "unpatch"} : BeginDesktop(op)
               \/ ServerStage \/ MonitorStage \/ StageFails \/ KilledBetweenStages
        PROVE  hooks' = hooks
    BY <2>7 DEF BeginDesktop, ServerStage, MonitorStage, StageFails, KilledBetweenStages
  <2> QED
    BY <2>2, <2>3, <2>4, <2>5, <2>6, <2>7 DEF HooksNext, HookAgents
<1> QED
  BY <1>1, HooksInvariant, PTL DEF HooksSpec, UserHandlersStay

-----------------------------------------------------------------------------
(* What a function picks from each element of a sequence.                   *)

Picked(f, s) == FlattenSeq([i \in DOMAIN s |-> f[s[i]]])
Picks(f, X, Y) == \A z \in X : f[z] \in Seq(Y)

LEMMA PickedEmpty ==
  ASSUME NEW f
  PROVE  Picked(f, <<>>) = <<>>
<1>1. [i \in DOMAIN <<>> |-> f[<<>>[i]]] = <<>>
  OBVIOUS
<1> QED
  BY <1>1, FlattenEmpty DEF Picked

LEMMA PickedAppend ==
  ASSUME NEW X, NEW Y, NEW f, Picks(f, X, Y), NEW s \in Seq(X), NEW x \in X
  PROVE  /\ Picked(f, s) \in Seq(Y)
         /\ Picked(f, Append(s, x)) = Picked(f, s) \o f[x]
<1>1. PICK Z : Z = Seq(Y)
  OBVIOUS
<1>2. PICK g : g = [z \in X |-> f[z]]
  OBVIOUS
<1>3. PICK picks : picks = [i \in DOMAIN s |-> f[s[i]]]
  OBVIOUS
<1>4. [i \in DOMAIN Append(s, x) |-> f[Append(s, x)[i]]] = Append(picks, f[x])
  <2>0. \A z \in X : f[z] \in Z
    BY <1>1 DEF Picks
  <2>1. g \in [X -> Z] /\ g[x] = f[x]
    BY <1>2, <2>0
  <2>2. [i \in DOMAIN Append(s, x) |-> g[Append(s, x)[i]]] = Append([i \in DOMAIN s |-> g[s[i]]], g[x])
    BY <2>1, MapAppend
  <2>3. [i \in DOMAIN s |-> g[s[i]]] = picks
    BY <1>2, <1>3
  <2>4. \A i \in DOMAIN Append(s, x) : Append(s, x)[i] \in X
    OBVIOUS
  <2>5. [i \in DOMAIN Append(s, x) |-> g[Append(s, x)[i]]] = [i \in DOMAIN Append(s, x) |-> f[Append(s, x)[i]]]
    BY <1>2, <2>4
  <2> QED
    BY <2>1, <2>2, <2>3, <2>5
<1>5. picks \in Seq(Seq(Y))
  <2>1. Len(s) \in Nat /\ DOMAIN s = 1..Len(s)
    OBVIOUS
  <2>2. \A i \in 1..Len(s) : f[s[i]] \in Seq(Y)
    BY DEF Picks
  <2> QED
    BY <1>3, <2>1, <2>2, IsASeq
<1>6. FlattenSeq(Append(picks, f[x])) = FlattenSeq(picks) \o f[x] /\ FlattenSeq(picks) \in Seq(Y)
  <2>1. f[x] \in Seq(Y)
    BY DEF Picks
  <2> QED
    BY <1>5, <2>1, FlattenAppend, FlattenType
<1> QED
  BY <1>3, <1>4, <1>6 DEF Picked

LEMMA PickedType ==
  ASSUME NEW X, NEW Y, NEW f, Picks(f, X, Y), NEW s \in Seq(X)
  PROVE  Picked(f, s) \in Seq(Y)
<1>1. PICK picks : picks = [i \in DOMAIN s |-> f[s[i]]]
  OBVIOUS
<1>2. picks \in Seq(Seq(Y))
  <2>1. Len(s) \in Nat /\ DOMAIN s = 1..Len(s)
    OBVIOUS
  <2>2. \A i \in 1..Len(s) : f[s[i]] \in Seq(Y)
    BY DEF Picks
  <2> QED
    BY <1>1, <2>1, <2>2, IsASeq
<1> QED
  BY <1>1, <1>2, FlattenType DEF Picked

LEMMA ConcatThree ==
  ASSUME NEW X, NEW p \in Seq(X), NEW q \in Seq(X), NEW r \in Seq(X)
  PROVE  (p \o q) \o r = p \o (q \o r)
BY ConcatAssociative

LEMMA PickedConcatOne ==
  ASSUME NEW X, NEW Y, NEW f, Picks(f, X, Y), NEW a \in Seq(X), NEW s \in Seq(X), NEW x \in X,
         Picked(f, a \o s) = Picked(f, a) \o Picked(f, s)
  PROVE  Picked(f, a \o Append(s, x)) = Picked(f, a) \o Picked(f, Append(s, x))
<1>1. Picked(f, s) \in Seq(Y) /\ Picked(f, a) \in Seq(Y) /\ f[x] \in Seq(Y)
  BY PickedType DEF Picks
<1>2. Picked(f, Append(s, x)) = Picked(f, s) \o f[x]
  BY PickedAppend
<1>3. PICK t : t = a \o s
  OBVIOUS
<1>4. a \o Append(s, x) = Append(t, x) /\ t \in Seq(X)
  BY <1>3, ConcatAppend, ConcatProperties
<1>5. Picked(f, Append(t, x)) = Picked(f, t) \o f[x]
  BY <1>4, PickedAppend
<1>6. (Picked(f, a) \o Picked(f, s)) \o f[x] = Picked(f, a) \o (Picked(f, s) \o f[x])
  <2>1. PICK p, q, l : p = Picked(f, a) /\ q = Picked(f, s) /\ l = f[x]
    OBVIOUS
  <2>2. p \in Seq(Y) /\ q \in Seq(Y) /\ l \in Seq(Y)
    BY <1>1, <2>1
  <2>3. (p \o q) \o l = p \o (q \o l)
    BY <2>2, ConcatThree, SMTT(60)
  <2> QED
    BY <2>1, <2>3
<1> QED
  BY <1>2, <1>3, <1>4, <1>5, <1>6

LEMMA PickedConcat ==
  ASSUME NEW X, NEW Y, NEW f, Picks(f, X, Y), NEW a \in Seq(X), NEW b \in Seq(X)
  PROVE  Picked(f, a \o b) = Picked(f, a) \o Picked(f, b)
<1> DEFINE G == {s \in Seq(X) : Picked(f, a \o s) = Picked(f, a) \o Picked(f, s)}
<1>0. Picked(f, a) \in Seq(Y)
  BY PickedType
<1>1. <<>> \in G
  <2>1. a \o <<>> = a /\ Picked(f, a) \o <<>> = Picked(f, a) /\ <<>> \in Seq(X)
    BY <1>0, ConcatEmptySeq
  <2> QED
    BY <2>1, PickedEmpty
<1>2. ASSUME NEW s \in Seq(X), NEW x \in X, s \in G PROVE Append(s, x) \in G
  <2>1. Append(s, x) \in Seq(X)
    OBVIOUS
  <2>2. Picked(f, a \o s) = Picked(f, a) \o Picked(f, s)
    BY <1>2
  <2>3. Picked(f, a \o Append(s, x)) = Picked(f, a) \o Picked(f, Append(s, x))
    BY <2>2, PickedConcatOne, SMTT(60)
  <2> QED
    BY <2>1, <2>3
<1> HIDE DEF G
<1>3. b \in G
  BY <1>1, <1>2, SequencesAre
<1> QED
  BY <1>3 DEF G

-----------------------------------------------------------------------------
(* The names of a flow list that are the user's.                            *)

OneName == [n \in YamlNames |-> IF n = Observer THEN <<>> ELSE <<n>>]

LEMMA NamesPicked ==
  ASSUME NEW names \in Seq(YamlNames)
  PROVE  TheirNames(names) = Picked(OneName, names)
<1>1. \A i \in DOMAIN names : names[i] \in YamlNames
  OBVIOUS
<1>2. [i \in DOMAIN names |-> IF names[i] = Observer THEN <<>> ELSE <<names[i]>>]
        = [i \in DOMAIN names |-> OneName[names[i]]]
  BY <1>1 DEF OneName
<1> QED
  BY <1>2 DEF TheirNames, Picked

LEMMA OneNameType == Picks(OneName, YamlNames, YamlNames)
<1>1. \A n \in YamlNames : (IF n = Observer THEN <<>> ELSE <<n>>) \in Seq(YamlNames)
  OBVIOUS
<1> QED
  BY <1>1 DEF OneName, Picks

LEMMA NamesType ==
  ASSUME NEW names \in Seq(YamlNames)
  PROVE  TheirNames(names) \in Seq(YamlNames)
BY NamesPicked, OneNameType, PickedType

LEMMA NamesAppend ==
  ASSUME NEW names \in Seq(YamlNames), NEW n \in YamlNames
  PROVE  TheirNames(Append(names, n)) = TheirNames(names) \o (IF n = Observer THEN <<>> ELSE <<n>>)
<1>1. Append(names, n) \in Seq(YamlNames)
  OBVIOUS
<1>2. Picked(OneName, Append(names, n)) = Picked(OneName, names) \o OneName[n]
  BY OneNameType, PickedAppend
<1>3. OneName[n] = IF n = Observer THEN <<>> ELSE <<n>>
  BY DEF OneName
<1> QED
  BY <1>1, <1>2, <1>3, NamesPicked

LEMMA NamesWithObserver ==
  ASSUME NEW names \in Seq(YamlNames)
  PROVE  TheirNames(Append(names, Observer)) = TheirNames(names)
<1>1. Observer \in YamlNames
  BY HermesDocumentsAssumption
<1>2. TheirNames(Append(names, Observer)) = TheirNames(names) \o <<>>
  BY <1>1, NamesAppend
<1> QED
  BY <1>2, NamesType, ConcatEmptySeq

LEMMA NamesTwice ==
  ASSUME NEW names \in Seq(YamlNames)
  PROVE  TheirNames(TheirNames(names)) = TheirNames(names)
<1> DEFINE G == {s \in Seq(YamlNames) : TheirNames(TheirNames(s)) = TheirNames(s)}
<1>1. <<>> \in G
  <2>a. <<>> \in Seq(YamlNames)
    OBVIOUS
  <2>1. <<>> \in Seq(YamlNames) /\ TheirNames(<<>>) = <<>>
    BY <2>a, NamesPicked, PickedEmpty
  <2> QED
    BY <2>1
<1>2. ASSUME NEW s \in Seq(YamlNames), NEW n \in YamlNames, s \in G PROVE Append(s, n) \in G
  <2>0. Append(s, n) \in Seq(YamlNames) /\ TheirNames(s) \in Seq(YamlNames)
        /\ TheirNames(TheirNames(s)) = TheirNames(s)
    BY <1>2, NamesType
  <2>1. CASE n = Observer
    <3>1. TheirNames(Append(s, n)) = TheirNames(s)
      BY <2>1, NamesWithObserver
    <3> QED
      BY <2>0, <3>1
  <2>2. CASE n # Observer
    <3>1. PICK t : t = TheirNames(s)
      OBVIOUS
    <3>2. TheirNames(Append(s, n)) = t \o <<n>> /\ t \in Seq(YamlNames) /\ TheirNames(t) = t
      BY <2>0, <2>2, <3>1, NamesAppend
    <3>3. t \o <<n>> = Append(t, n)
      BY <3>2, AppendIsConcat
    <3>4. TheirNames(Append(t, n)) = t \o <<n>>
      BY <2>2, <3>2, NamesAppend
    <3> QED
      BY <2>0, <3>2, <3>3, <3>4
  <2> QED
    BY <2>1, <2>2
<1> HIDE DEF G
<1>3. names \in G
  BY <1>1, <1>2, SequencesAre
<1> QED
  BY <1>3 DEF G

-----------------------------------------------------------------------------
(* The user's text of a document.                                           *)

TheirsOf == [l \in HermesLine |-> Theirs(l)]
Docs == Seq(HermesLine) \ {<<>>}

LEMMA NamesEmpty == TheirNames(<<>>) = <<>>
<1>1. <<>> \in Seq(YamlNames)
  OBVIOUS
<1> QED
  BY <1>1, NamesPicked, PickedEmpty

LEMMA LineFacts ==
  ASSUME NEW l \in HermesLine
  PROVE  /\ l.indent \in Nat
         /\ l.kind \in {"key", "item", "text", "remark", "blank"}
         /\ l.kind = "blank" => l = BlankLine
         /\ l.kind = "item" => l.name \in YamlNames
         /\ l.kind = "key" => /\ l.name \in YamlNames /\ l.items \in Seq(YamlNames)
                              /\ l.form # "flow" => l.items = <<>>
<1> DEFINE T(x) == /\ x.indent \in Nat
                   /\ x.kind \in {"key", "item", "text", "remark", "blank"}
                   /\ x.kind = "blank" => x = BlankLine
                   /\ x.kind = "item" => x.name \in YamlNames
                   /\ x.kind = "key" => /\ x.name \in YamlNames /\ x.items \in Seq(YamlNames)
                                        /\ x.form # "flow" => x.items = <<>>
<1>1. CASE l \in [kind : {"key"}, indent : Nat, name : YamlNames, form : {"flow"}, items : Seq(YamlNames)]
  BY <1>1
<1>2. CASE l \in [kind : {"key"}, indent : Nat, name : YamlNames, form : {"block", "scalar"}, items : {<<>>}]
  <2>1. l.indent \in Nat /\ l.kind = "key" /\ l.name \in YamlNames /\ l.items = <<>>
    BY <1>2
  <2>2. <<>> \in Seq(YamlNames)
    OBVIOUS
  <2> QED
    BY <2>1, <2>2
<1>3. CASE l \in [kind : {"item"}, indent : Nat, name : YamlNames]
  BY <1>3
<1>4. CASE l \in [kind : {"text"}, indent : Nat]
  BY <1>4
<1>5. CASE l \in {RemarkLine, BlankLine}
  BY <1>5 DEF RemarkLine, BlankLine
<1> QED
  BY <1>1, <1>2, <1>3, <1>4, <1>5 DEF HermesLine

LEMMA WithItems ==
  ASSUME NEW l \in HermesLine, l.kind = "key", NEW names \in Seq(YamlNames),
         l.form # "flow" => names = <<>>
  PROVE  [l EXCEPT !.items = names] \in HermesLine
<1>1. CASE l \in [kind : {"key"}, indent : Nat, name : YamlNames, form : {"flow"}, items : Seq(YamlNames)]
  BY <1>1 DEF HermesLine
<1>2. CASE l \in [kind : {"key"}, indent : Nat, name : YamlNames, form : {"block", "scalar"}, items : {<<>>}]
  BY <1>2 DEF HermesLine
<1>3. CASE l \in [kind : {"item"}, indent : Nat, name : YamlNames] \cup [kind : {"text"}, indent : Nat]
  BY <1>3
<1>4. CASE l \in {RemarkLine, BlankLine}
  BY <1>4 DEF RemarkLine, BlankLine
<1> QED
  BY <1>1, <1>2, <1>3, <1>4 DEF HermesLine

LEMMA TheirsType == Picks(TheirsOf, HermesLine, HermesLine)
<1> SUFFICES ASSUME NEW l \in HermesLine PROVE Theirs(l) \in Seq(HermesLine)
  BY DEF Picks, TheirsOf
<1>1. CASE l.kind = "item" /\ l.name = Observer
  BY <1>1 DEF Theirs
<1>2. CASE ~(l.kind = "item" /\ l.name = Observer) /\ l.kind # "key"
  <2>1. Theirs(l) = <<l>>
    BY <1>2 DEF Theirs
  <2> QED
    BY <2>1
<1>3. CASE l.kind = "key"
  <2>1. TheirNames(l.items) \in Seq(YamlNames) /\ (l.form # "flow" => TheirNames(l.items) = <<>>)
    BY <1>3, LineFacts, NamesType, NamesEmpty
  <2>2. PICK k : k = [l EXCEPT !.items = TheirNames(l.items)]
    OBVIOUS
  <2>3. k \in HermesLine
    BY <1>3, <2>1, <2>2, WithItems
  <2>4. Theirs(l) = <<k>>
    BY <1>3, <2>2 DEF Theirs
  <2> QED
    BY <2>3, <2>4
<1> QED
  BY <1>1, <1>2, <1>3

LEMMA TextPicked ==
  ASSUME NEW y \in Seq(HermesLine)
  PROVE  UserText(y) = Picked(TheirsOf, y)
<1>1. \A i \in DOMAIN y : y[i] \in HermesLine
  OBVIOUS
<1>2. [i \in DOMAIN y |-> Theirs(y[i])] = [i \in DOMAIN y |-> TheirsOf[y[i]]]
  BY <1>1 DEF TheirsOf
<1> QED
  BY <1>2 DEF UserText, Picked

LEMMA TextType ==
  ASSUME NEW y \in Seq(HermesLine)
  PROVE  UserText(y) \in Seq(HermesLine)
BY TextPicked, TheirsType, PickedType

LEMMA TextConcat ==
  ASSUME NEW y \in Seq(HermesLine), NEW z \in Seq(HermesLine)
  PROVE  UserText(y \o z) = UserText(y) \o UserText(z)
<1>1. y \o z \in Seq(HermesLine)
  BY ConcatProperties
<1>2. Picked(TheirsOf, y \o z) = Picked(TheirsOf, y) \o Picked(TheirsOf, z)
  BY TheirsType, PickedConcat
<1> QED
  BY <1>1, <1>2, TextPicked

LEMMA TextOfOne ==
  ASSUME NEW l \in HermesLine
  PROVE  UserText(<<l>>) = Theirs(l)
<1>1. <<l>> \in Seq(HermesLine) /\ <<l>> = Append(<<>>, l) /\ <<>> \in Seq(HermesLine)
  OBVIOUS
<1>2. Picked(TheirsOf, Append(<<>>, l)) = Picked(TheirsOf, <<>>) \o TheirsOf[l]
  <2>1. PICK e : e = <<>>
    OBVIOUS
  <2>2. e \in Seq(HermesLine)
    BY <1>1, <2>1
  <2>3. Picked(TheirsOf, Append(e, l)) = Picked(TheirsOf, e) \o TheirsOf[l]
    BY <2>2, TheirsType, PickedAppend
  <2> QED
    BY <2>1, <2>3
<1>3. TheirsOf[l] \in Seq(HermesLine) /\ TheirsOf[l] = Theirs(l)
  BY TheirsType DEF Picks, TheirsOf
<1> QED
  BY <1>1, <1>2, <1>3, PickedEmpty, TextPicked, ConcatEmptySeq

LEMMA TextEmpty == UserText(<<>>) = <<>>
<1>1. <<>> \in Seq(HermesLine)
  OBVIOUS
<1> QED
  BY <1>1, TextPicked, PickedEmpty

LEMMA ObserverIsNot ==
  ASSUME NEW l \in HermesLine, l.kind = "item", l.name = Observer
  PROVE  UserText(<<l>>) = <<>>
BY TextOfOne DEF Theirs

\* Another list on one line leaves the text if it names the same of theirs.
LEMMA TextOfFlow ==
  ASSUME NEW y \in Seq(HermesLine), NEW line \in 1..Len(y), y[line].kind = "key", y[line].form = "flow",
         NEW names \in Seq(YamlNames), TheirNames(names) = TheirNames(y[line].items)
  PROVE  /\ [y EXCEPT ![line].items = names] \in Seq(HermesLine)
         /\ UserText([y EXCEPT ![line].items = names]) = UserText(y)
<1>1. PICK l : l = [y[line] EXCEPT !.items = names]
  OBVIOUS
<1>2. y[line] \in HermesLine
  OBVIOUS
<1>3. l \in HermesLine
  BY <1>1, <1>2, WithItems
<1>4. [y EXCEPT ![line].items = names] = [y EXCEPT ![line] = l]
  BY <1>1
<1>5. PICK z : z = [y EXCEPT ![line] = l]
  OBVIOUS
<1>6. z \in Seq(HermesLine) /\ DOMAIN z = DOMAIN y
  BY <1>3, <1>5
<1>7. Theirs(l) = Theirs(y[line])
  <2>1. DOMAIN y[line] = {"kind", "indent", "name", "form", "items"}
    <3>1. y[line] \in [kind : {"key"}, indent : Nat, name : YamlNames, form : {"flow"}, items : Seq(YamlNames)]
      BY <1>2 DEF HermesLine, RemarkLine, BlankLine
    <3> QED
      BY <3>1
  <2>2. l.kind = "key" /\ l.items = names
    BY <1>1, <2>1
  <2>3. [l EXCEPT !.items = TheirNames(names)] = [y[line] EXCEPT !.items = TheirNames(names)]
    BY <1>1, <2>1
  <2> QED
    BY <2>2, <2>3 DEF Theirs
<1>8. \A i \in DOMAIN y : Theirs(z[i]) = Theirs(y[i])
  BY <1>5, <1>7
<1>9. UserText(z) = UserText(y)
  BY <1>6, <1>8 DEF UserText
<1> QED
  BY <1>4, <1>5, <1>6, <1>9

-----------------------------------------------------------------------------
(* Lines added in one place, and the places of the editor's scans.          *)

LEMMA SubSeqIsSeq ==
  ASSUME NEW X, NEW s \in Seq(X), NEW i \in Nat, NEW j \in Nat, i >= 1, j <= Len(s)
  PROVE  SubSeq(s, i, j) \in Seq(X)
<1>1. \A k \in i..j : s[k] \in X
  OBVIOUS
<1> QED
  BY <1>1, SubSeqProperties

LEMMA ConcatParts ==
  ASSUME NEW X, NEW p \in Seq(X), NEW q \in Seq(X)
  PROVE  SubSeq(p \o q, 1, Len(p)) = p /\ SubSeq(p \o q, Len(p) + 1, Len(p \o q)) = q
<1>1. Len(p) \in Nat /\ Len(q) \in Nat /\ p \o q \in Seq(X) /\ Len(p \o q) = Len(p) + Len(q)
  BY ConcatProperties
<1>2. SubSeq(p \o q, 1, Len(p)) = p
  <2>1. CASE Len(p) = 0
    BY <1>1, <2>1, SubSeqEmpty
  <2>2. CASE Len(p) # 0
    <3>1. SubSeq(p \o q, 1, Len(p)) = SubSeq(p, 1, Len(p))
      BY <1>1, <2>2, SubSeqOfConcat1
    <3> QED
      BY <3>1, SubSeqFull
  <2> QED
    BY <2>1, <2>2
<1>3. SubSeq(p \o q, Len(p) + 1, Len(p \o q)) = q
  <2>1. CASE Len(q) = 0
    BY <1>1, <2>1, SubSeqEmpty
  <2>2. CASE Len(q) # 0
    <3>1. SubSeq(p \o q, Len(p) + 1, Len(p) + Len(q)) = SubSeq(q, Len(p) + 1 - Len(p), Len(p) + Len(q) - Len(p))
      BY <1>1, <2>2, SubSeqOfConcat2
    <3> QED
      BY <1>1, <3>1, SubSeqFull
  <2> QED
    BY <2>1, <2>2
<1> QED
  BY <1>2, <1>3

LEMMA AddedBetween ==
  ASSUME NEW X, NEW p \in Seq(X), NEW m \in Seq(X), NEW q \in Seq(X)
  PROVE  AddsTo(p \o q, p \o (m \o q))
<1> DEFINE after == p \o (m \o q)
           i == Len(p)
           j == Len(p) + Len(m)
<1>1. m \o q \in Seq(X) /\ p \o m \in Seq(X) /\ Len(p) \in Nat /\ Len(m) \in Nat /\ Len(q) \in Nat
  BY ConcatProperties
<1>2. Len(after) = Len(p) + Len(m) + Len(q) /\ Len(p \o m) = j
  BY <1>1, ConcatProperties
<1>3. after = (p \o m) \o q
  BY ConcatThree
<1>4. SubSeq(after, 1, i) = p
  BY <1>1, ConcatParts
<1>5. SubSeq(after, j + 1, Len(after)) = q
  <2>1. SubSeq((p \o m) \o q, Len(p \o m) + 1, Len((p \o m) \o q)) = q
    BY <1>1, ConcatParts
  <2> QED
    BY <1>2, <1>3, <2>1
<1>6. i \in 0..Len(after) /\ j \in i..Len(after)
  BY <1>1, <1>2
<1> HIDE DEF after, i, j
<1>7. p \o q = SubSeq(after, 1, i) \o SubSeq(after, j + 1, Len(after))
  BY <1>4, <1>5
<1> QED
  BY <1>6, <1>7 DEF AddsTo, after

LEMMA LeastIs ==
  ASSUME NEW S, S \subseteq Nat, NEW none
  PROVE  /\ S = {} => Least(S, none) = none
         /\ S # {} => Least(S, none) \in S /\ \A j \in S : Least(S, none) <= j
<1>1. CASE S = {}
  BY <1>1 DEF Least
<1>2. CASE S # {}
  <2>1. \E n \in S : \A m \in S : n <= m
    BY <1>2, LeastOf
  <2> QED
    BY <1>2, <2>1 DEF Least
<1> QED
  BY <1>1, <1>2

LEMMA LeastIn ==
  ASSUME NEW T, NEW S, S \subseteq Nat, S \subseteq T, NEW none
  PROVE  /\ Least(S, none) = none \/ Least(S, none) \in S
         /\ none \in T => Least(S, none) \in T
<1>1. CASE S = {}
  BY <1>1, LeastIs
<1>2. CASE S # {}
  <2>1. Least(S, none) \in S
    BY <1>2, LeastIs
  <2> QED
    BY <2>1
<1> QED
  BY <1>1, <1>2

LEMMA GreatestIs ==
  ASSUME NEW S, NEW b \in Nat, S \subseteq 0..b, NEW none
  PROVE  /\ S = {} => Greatest(S, none) = none
         /\ S # {} => Greatest(S, none) \in S /\ \A j \in S : j <= Greatest(S, none)
<1>1. CASE S = {}
  BY <1>1 DEF Greatest
<1>2. CASE S # {}
  <2> DEFINE R == {b - i : i \in S}
  <2>0. PICK e : e \in S
    BY <1>2
  <2>a. \A i \in S : i \in 0..b /\ b - i \in Nat
    OBVIOUS
  <2>1. R \subseteq Nat /\ R # {}
    BY <2>0, <2>a
  <2>2. PICK n \in R : \A m \in R : n <= m
    BY <2>1, LeastOf
  <2>3. PICK i \in S : n = b - i
    BY <2>2
  <2>4. \A j \in S : j <= i
    BY <2>2, <2>3
  <2>5. \E k \in S : \A j \in S : j <= k
    BY <2>4
  <2> QED
    BY <1>2, <2>5 DEF Greatest
<1> QED
  BY <1>1, <1>2

LEMMA GreatestIn ==
  ASSUME NEW T, NEW S, NEW b \in Nat, S \subseteq 0..b, S \subseteq T, NEW none
  PROVE  /\ Greatest(S, none) = none \/ Greatest(S, none) \in S
         /\ none \in T => Greatest(S, none) \in T
<1>1. CASE S = {}
  BY <1>1, GreatestIs
<1>2. CASE S # {}
  <2>1. Greatest(S, none) \in S
    BY <1>2, GreatestIs
  <2> QED
    BY <2>1
<1> QED
  BY <1>1, <1>2

LEMMA BlockEndIs ==
  ASSUME NEW y \in Seq(HermesLine), NEW indent, NEW start \in 1..Len(y) + 1
  PROVE  BlockEnd(y, indent, start) \in start..Len(y) + 1
<1>1. Len(y) \in Nat
  OBVIOUS
<1> DEFINE S == {i \in start..Len(y) : HasContent(y[i]) /\ y[i].indent <= indent}
<1>2. S \subseteq Nat /\ S \subseteq start..Len(y) + 1
  BY <1>1
<1>3. BlockEnd(y, indent, start) = Least(S, Len(y) + 1)
  BY DEF BlockEnd
<1> HIDE DEF S
<1>4. PICK T : T = start..Len(y) + 1
  OBVIOUS
<1>5. S \subseteq T /\ Len(y) + 1 \in T
  BY <1>1, <1>2, <1>4
<1>6. Least(S, Len(y) + 1) \in T
  BY <1>2, <1>5, LeastIn
<1> QED
  BY <1>3, <1>4, <1>6

LEMMA FindMappingKeyIs ==
  ASSUME NEW y \in Seq(HermesLine), NEW key, NEW indent, NEW start \in 1..Len(y) + 1,
         NEW end \in start..Len(y) + 1, FindMappingKey(y, key, indent, start, end) # 0
  PROVE  /\ FindMappingKey(y, key, indent, start, end) \in start..(end - 1)
         /\ y[FindMappingKey(y, key, indent, start, end)].kind = "key"
         /\ y[FindMappingKey(y, key, indent, start, end)].indent = indent
         /\ y[FindMappingKey(y, key, indent, start, end)].name = key
<1>1. Len(y) \in Nat /\ end \in Nat /\ start \in Nat
  OBVIOUS
<1> DEFINE S == {i \in start..(end - 1) : HasContent(y[i]) /\ y[i].indent < indent}
           last == Least(S, end) - 1
           K == {i \in start..last : y[i].kind = "key" /\ y[i].indent = indent /\ y[i].name = key}
<1>2. S \subseteq Nat /\ S \subseteq start..end
  BY <1>1
<1>3. Least(S, end) \in start..end
  <2> HIDE DEF S
  <2>1. PICK T : T = start..end
    OBVIOUS
  <2>2. S \subseteq T /\ end \in T
    BY <1>1, <1>2, <2>1
  <2>3. Least(S, end) \in T
    BY <1>2, <2>2, LeastIn
  <2> QED
    BY <2>1, <2>3
<1>4. last \in Int /\ last <= end - 1
  BY <1>1, <1>3
<1> HIDE DEF S, last
<1>5. K \subseteq Nat /\ K \subseteq start..(end - 1)
  BY <1>1, <1>4
<1>6. FindMappingKey(y, key, indent, start, end) = Least(K, 0)
  BY DEF FindMappingKey, K, last, S
<1>7. Least(K, 0) \in K
  <2> HIDE DEF K
  <2> QED
    BY <1>5, <1>6, LeastIn
<1> QED
  BY <1>5, <1>6, <1>7

LEMMA ChildIndentIs ==
  ASSUME NEW y \in Seq(HermesLine), NEW line \in Nat, NEW indent \in Nat, NEW end \in 0..Len(y) + 1
  PROVE  ChildIndent(y, line, indent, end) \in Nat
<1>1. Len(y) \in Nat /\ end \in Nat
  OBVIOUS
<1> DEFINE S == {i \in (line + 1)..(end - 1) : HasContent(y[i])}
           first == Least(S, 0)
<1>2. S \subseteq Nat /\ S \subseteq 1..Len(y)
  BY <1>1
<1>3. CASE first = 0
  BY <1>3 DEF ChildIndent
<1>4. CASE first # 0
  <2>1. first \in 1..Len(y)
    <3> HIDE DEF S
    <3> QED
      BY <1>2, <1>4, LeastIn
  <2>2. ChildIndent(y, line, indent, end) = y[first].indent
    BY <1>4 DEF ChildIndent
  <2> HIDE DEF first
  <2>3. y[first] \in HermesLine
    BY <2>1
  <2> QED
    BY <2>2, <2>3, LineFacts
<1> QED
  BY <1>3, <1>4

LEMMA LastContentIs ==
  ASSUME NEW y \in Seq(HermesLine), NEW start \in 1..Len(y) + 1, NEW end \in start..Len(y) + 1
  PROVE  LastContent(y, start, end) + 1 \in start..end
<1>1. Len(y) \in Nat /\ end \in Nat /\ start \in Nat
  OBVIOUS
<1> DEFINE S == {i \in start..(end - 1) : HasContent(y[i])}
<1>2. S \subseteq 0..end /\ S \subseteq start..(end - 1)
  BY <1>1
<1>3. LastContent(y, start, end) = Greatest(S, start - 1)
  BY DEF LastContent
<1> HIDE DEF S
<1>4. Greatest(S, start - 1) \in (start - 1)..(end - 1)
  <2>1. S \subseteq (start - 1)..(end - 1) /\ start - 1 \in (start - 1)..(end - 1)
    BY <1>1, <1>2
  <2> QED
    BY <1>1, <1>2, <2>1, GreatestIn
<1> QED
  BY <1>1, <1>3, <1>4

LEMMA SequenceItemsAre ==
  ASSUME NEW y \in Seq(HermesLine), NEW line \in 1..Len(y), NEW indent
  PROVE  /\ SequenceItems(y, line, indent) \subseteq (line + 1)..Len(y)
         /\ \A i \in SequenceItems(y, line, indent) : y[i].kind = "item"
<1>1. Len(y) \in Nat /\ line \in Nat
  OBVIOUS
<1> DEFINE item(i) == y[i].kind = "item" /\ y[i].indent >= indent
           S == {i \in (line + 1)..Len(y) : HasContent(y[i]) /\ ~item(i) /\ y[i].indent <= indent}
           end == Least(S, Len(y) + 1)
<1>2. S \subseteq Nat /\ S \subseteq 0..Len(y) + 1
  BY <1>1
<1>3. end \in 0..Len(y) + 1
  <2> HIDE DEF S
  <2>1. PICK T : T = 0..Len(y) + 1
    OBVIOUS
  <2>2. S \subseteq T /\ Len(y) + 1 \in T
    BY <1>1, <1>2, <2>1
  <2>3. Least(S, Len(y) + 1) \in T
    BY <1>2, <2>2, LeastIn
  <2> QED
    BY <2>1, <2>3
<1>4. SequenceItems(y, line, indent) = {i \in (line + 1)..(end - 1) : item(i)}
  BY DEF SequenceItems
<1> HIDE DEF end, S
<1> QED
  BY <1>1, <1>3, <1>4

-----------------------------------------------------------------------------
(* What an edit does to the user's text: nothing, or lines are added to it  *)
(* in one place.                                                            *)

TextKept(y, z, want) ==
  /\ z \in Docs
  /\ UserText(z) = UserText(y) \/ (want /\ AddsTo(UserText(y), UserText(z)))

LEMMA SplitAt ==
  ASSUME NEW y \in Seq(HermesLine), NEW at \in 1..Len(y) + 1
  PROVE  /\ SubSeq(y, 1, at - 1) \in Seq(HermesLine) /\ SubSeq(y, at, Len(y)) \in Seq(HermesLine)
         /\ y = SubSeq(y, 1, at - 1) \o SubSeq(y, at, Len(y))
<1>1. Len(y) \in Nat /\ at \in Nat /\ at - 1 \in Nat
  OBVIOUS
<1>2. \A k \in 1..(at - 1) : y[k] \in HermesLine
  BY <1>1
<1>3. SubSeq(y, 1, at - 1) \in Seq(HermesLine)
  BY <1>1, <1>2, SubSeqProperties
<1>4. SubSeq(y, at, Len(y)) \in Seq(HermesLine)
  BY <1>1, SubSeqIsSeq
<1>5. SubSeq(y, 1, at - 1) \o SubSeq(y, at - 1 + 1, Len(y)) = SubSeq(y, 1, Len(y))
  <2>1. 1 \in 1..Len(y) + 1 /\ at - 1 \in 1 - 1 .. Len(y) /\ Len(y) \in at - 1 .. Len(y)
    BY <1>1
  <2> QED
    BY <2>1, ConcatAdjacentSubSeq
<1>6. at - 1 + 1 = at /\ SubSeq(y, 1, Len(y)) = y
  BY <1>1, SubSeqFull
<1> QED
  BY <1>3, <1>4, <1>5, <1>6

LEMMA LinesInserted ==
  ASSUME NEW y \in Docs, NEW at \in 1..Len(y) + 1, NEW lines \in Seq(HermesLine)
  PROVE  /\ InsertLines(y, at, lines) \in Docs
         /\ AddsTo(UserText(y), UserText(InsertLines(y, at, lines)))
         /\ UserText(lines) = <<>> => UserText(InsertLines(y, at, lines)) = UserText(y)
<1>0. y \in Seq(HermesLine) /\ y # <<>>
  BY DEF Docs
<1>1. PICK p, q : p = SubSeq(y, 1, at - 1) /\ q = SubSeq(y, at, Len(y))
  OBVIOUS
<1>2. p \in Seq(HermesLine) /\ q \in Seq(HermesLine) /\ y = p \o q
  BY <1>0, <1>1, SplitAt
<1>3. PICK z : z = InsertLines(y, at, lines)
  OBVIOUS
<1>4. z = (p \o lines) \o q /\ p \o lines \in Seq(HermesLine) /\ lines \o q \in Seq(HermesLine)
  BY <1>1, <1>2, <1>3, ConcatProperties DEF InsertLines
<1>5. z = p \o (lines \o q)
  BY <1>2, <1>4, ConcatThree
<1>6. z \in Seq(HermesLine) /\ z # <<>>
  <2>1. z \in Seq(HermesLine)
    BY <1>2, <1>4, ConcatProperties
  <2>2. Len(y) = Len(p) + Len(q) /\ Len(z) = Len(p) + (Len(lines) + Len(q))
    BY <1>2, <1>4, <1>5, ConcatProperties
  <2>3. Len(y) > 0 /\ Len(lines) >= 0 /\ Len(p) \in Nat /\ Len(q) \in Nat /\ Len(lines) \in Nat
    BY <1>0, <1>2
  <2> QED
    BY <2>1, <2>2, <2>3
<1>7. PICK P, M, Q : P = UserText(p) /\ M = UserText(lines) /\ Q = UserText(q)
  OBVIOUS
<1>8. P \in Seq(HermesLine) /\ M \in Seq(HermesLine) /\ Q \in Seq(HermesLine)
  BY <1>2, <1>7, TextType
<1>9. UserText(y) = P \o Q
  BY <1>2, <1>7, TextConcat
<1>10. UserText(z) = P \o (M \o Q)
  BY <1>2, <1>4, <1>5, <1>7, TextConcat
<1>11. AddsTo(P \o Q, P \o (M \o Q))
  BY <1>8, AddedBetween
<1>12. M = <<>> => M \o Q = Q
  BY <1>8, ConcatEmptySeq
<1> QED
  BY <1>3, <1>6, <1>7, <1>9, <1>10, <1>11, <1>12 DEF Docs

LEMMA LineRemoved ==
  ASSUME NEW y \in Docs, NEW i \in 2..Len(y), y[i].kind = "item", y[i].name = Observer
  PROVE  RemoveAt(y, i) \in Docs /\ UserText(RemoveAt(y, i)) = UserText(y)
<1>0. y \in Seq(HermesLine) /\ Len(y) \in Nat /\ i \in 1..Len(y) + 1 /\ i + 1 \in 1..Len(y) + 1
  BY DEF Docs
<1>1. PICK p, q, r : p = SubSeq(y, 1, i - 1) /\ q = SubSeq(y, i, Len(y)) /\ r = SubSeq(y, i + 1, Len(y))
  OBVIOUS
<1>2. p \in Seq(HermesLine) /\ q \in Seq(HermesLine) /\ y = p \o q
  BY <1>0, <1>1, SplitAt
<1>3. r \in Seq(HermesLine)
  BY <1>0, <1>1, SplitAt
<1>4. q = <<y[i]>> \o r
  BY <1>0, <1>1, SubSeqRecursiveFirst
<1>5. RemoveAt(y, i) = p \o r
  BY <1>1 DEF RemoveAt
<1>6. y[i] \in HermesLine /\ <<y[i]>> \in Seq(HermesLine)
  BY <1>0
<1>7. UserText(q) = UserText(r)
  <2>1. UserText(q) = UserText(<<y[i]>>) \o UserText(r)
    BY <1>3, <1>4, <1>6, TextConcat
  <2>2. UserText(<<y[i]>>) = <<>>
    BY <1>6, ObserverIsNot
  <2> QED
    BY <1>3, <2>1, <2>2, TextType, ConcatEmptySeq
<1>8. UserText(y) = UserText(p) \o UserText(q) /\ UserText(p \o r) = UserText(p) \o UserText(r)
  BY <1>2, <1>3, TextConcat
<1>9. p \o r \in Seq(HermesLine) /\ p \o r # <<>>
  <2>1. p \o r \in Seq(HermesLine) /\ Len(p \o r) = Len(p) + Len(r) /\ Len(r) \in Nat
    BY <1>2, <1>3, ConcatProperties
  <2>2. Len(p) = i - 1
    <3>1. \A k \in 1..(i - 1) : y[k] \in HermesLine
      BY <1>0
    <3> QED
      BY <1>0, <1>1, <3>1, SubSeqProperties
  <2> QED
    BY <1>0, <2>1, <2>2
<1> QED
  BY <1>5, <1>7, <1>8, <1>9 DEF Docs

LEMMA SameText ==
  ASSUME NEW y \in Docs, NEW want
  PROVE  TextKept(y, y, want)
BY DEF TextKept

LEMMA Appended ==
  ASSUME NEW y \in Docs, NEW lines \in Seq(HermesLine)
  PROVE  AppendBlock(y, lines) \in Docs /\ AddsTo(UserText(y), UserText(AppendBlock(y, lines)))
<1> DEFINE ends == Last(y).kind = "blank"
           body == IF ends THEN Front(y) ELSE y
           gap  == IF body # <<>> /\ Last(body).kind # "blank" THEN <<BlankLine>> ELSE <<>>
           tail == IF ends THEN <<BlankLine>> ELSE <<>>
<1>0. y \in Seq(HermesLine) /\ y # <<>> /\ Len(y) \in Nat /\ Len(y) > 0
  BY DEF Docs
<1>1. BlankLine \in HermesLine
  BY DEF HermesLine
<1>2. gap \in Seq(HermesLine) /\ tail \in Seq(HermesLine) /\ <<BlankLine>> \in Seq(HermesLine)
  BY <1>1
<1>3. body \in Seq(HermesLine) /\ y = body \o tail
  <2>1. CASE ends
    <3>1. Front(y) \in Seq(HermesLine) /\ y = Front(y) \o SubSeq(y, Len(y), Len(y))
      BY <1>0, SplitAt DEF Front
    <3>2. SubSeq(y, Len(y), Len(y)) = <<y[Len(y)]>> \o SubSeq(y, Len(y) + 1, Len(y))
      BY <1>0, SubSeqRecursiveFirst
    <3>3. SubSeq(y, Len(y) + 1, Len(y)) = <<>>
      BY <1>0, SubSeqEmpty
    <3>4. y[Len(y)] = BlankLine
      <4>1. y[Len(y)] \in HermesLine
        BY <1>0
      <4> QED
        BY <2>1, <4>1, LineFacts DEF Last
    <3>5. SubSeq(y, Len(y), Len(y)) = <<BlankLine>>
      BY <1>2, <3>2, <3>3, <3>4, ConcatEmptySeq
    <3> QED
      BY <2>1, <3>1, <3>5
  <2>2. CASE ~ends
    BY <1>0, <2>2, ConcatEmptySeq
  <2> QED
    BY <2>1, <2>2
<1>4. AppendBlock(y, lines) = ((body \o gap) \o lines) \o <<BlankLine>>
  BY DEF AppendBlock
<1> HIDE DEF body, gap, tail
<1>5. PICK m : m = gap \o lines
  OBVIOUS
<1>6. m \in Seq(HermesLine) /\ (body \o gap) \o lines = body \o m
  BY <1>2, <1>3, <1>5, ConcatProperties, ConcatThree
<1>7. PICK z : z = AppendBlock(y, lines)
  OBVIOUS
<1>8. z = (body \o m) \o <<BlankLine>> /\ body \o m \in Seq(HermesLine)
  BY <1>3, <1>4, <1>6, <1>7, ConcatProperties
<1>9. z \in Seq(HermesLine) /\ z # <<>>
  <2>1. z \in Seq(HermesLine) /\ Len(z) = Len(body \o m) + Len(<<BlankLine>>) /\ Len(body \o m) \in Nat
    BY <1>2, <1>8, ConcatProperties
  <2>2. Len(<<BlankLine>>) = 1
    OBVIOUS
  <2> QED
    BY <2>1, <2>2
<1>10. PICK B, M, L : B = UserText(body) /\ M = UserText(m) /\ L = UserText(<<BlankLine>>)
  OBVIOUS
<1>11. B \in Seq(HermesLine) /\ M \in Seq(HermesLine) /\ L \in Seq(HermesLine)
  BY <1>2, <1>3, <1>6, <1>10, TextType
<1>12. UserText(z) = (B \o M) \o L
  BY <1>2, <1>3, <1>6, <1>8, <1>10, TextConcat
<1>13. UserText(y) = B \o UserText(tail)
  BY <1>2, <1>3, <1>10, TextConcat
<1>14. CASE ends
  <2>1. UserText(tail) = L
    BY <1>10, <1>14 DEF tail
  <2>2. (B \o M) \o L = B \o (M \o L)
    BY <1>11, ConcatThree
  <2>3. AddsTo(B \o L, B \o (M \o L))
    BY <1>11, AddedBetween
  <2> QED
    BY <1>7, <1>9, <1>12, <1>13, <2>1, <2>2, <2>3 DEF Docs
<1>15. CASE ~ends
  <2>1. UserText(tail) = <<>> /\ <<>> \in Seq(HermesLine)
    BY <1>15, TextEmpty DEF tail
  <2>2. (B \o M) \o L = B \o (M \o L) /\ M \o L \in Seq(HermesLine)
    BY <1>11, ConcatThree, ConcatProperties
  <2>3. AddsTo(B \o <<>>, B \o ((M \o L) \o <<>>))
    BY <1>11, <2>1, <2>2, AddedBetween
  <2>4. (M \o L) \o <<>> = M \o L
    BY <2>2, ConcatEmptySeq
  <2> QED
    BY <1>7, <1>9, <1>12, <1>13, <2>1, <2>2, <2>3, <2>4 DEF Docs
<1> QED
  BY <1>14, <1>15

-----------------------------------------------------------------------------
(* The edits of hermes_config.go.                                           *)

EditKeeps(y, edit, want) == edit.ok => TextKept(y, edit.doc, want)

LEMMA LinesAdded ==
  ASSUME NEW indent \in Nat
  PROVE  /\ ItemLine(indent, Observer) \in HermesLine
         /\ UserText(<<ItemLine(indent, Observer)>>) = <<>>
         /\ \A key \in {"plugins", "enabled", "disabled"} : KeyLine(indent, key) \in HermesLine
<1>1. ItemLine(indent, Observer) \in HermesLine
  BY HermesDocumentsAssumption DEF HermesLine, ItemLine
<1>2. ItemLine(indent, Observer).kind = "item" /\ ItemLine(indent, Observer).name = Observer
  BY DEF ItemLine
<1>3. \A key \in {"plugins", "enabled", "disabled"} : KeyLine(indent, key) \in HermesLine
  BY HermesDocumentsAssumption DEF HermesLine, KeyLine
<1> QED
  BY <1>1, <1>2, <1>3, ObserverIsNot

LEMMA RefusedKeeps ==
  ASSUME NEW y \in Docs, NEW want
  PROVE  EditKeeps(y, Refused, want) /\ EditKeeps(y, Same(y), want)
BY SameText DEF EditKeeps, Refused, Same

LEMMA FlowMemberKeeps ==
  ASSUME NEW y \in Docs, NEW line \in 1..Len(y), y[line].kind = "key", NEW want \in BOOLEAN
  PROVE  EditKeeps(y, FlowMember(y, line, want), want)
<1> DEFINE items == y[line].items
           others == TheirNames(items)
           found == Observer \in ToSet(items)
           new == IF want THEN Append(others, Observer) ELSE others
<1>0. y \in Seq(HermesLine) /\ y # <<>>
  BY DEF Docs
<1>1. items \in Seq(YamlNames)
  <2>1. y[line] \in HermesLine
    BY <1>0
  <2> QED
    BY <2>1, LineFacts
<1>2. others \in Seq(YamlNames) /\ TheirNames(others) = others
  BY <1>1, NamesType, NamesTwice
<1>3. new \in Seq(YamlNames) /\ TheirNames(new) = others
  BY <1>2, NamesWithObserver, HermesDocumentsAssumption, AppendProperties
<1>4. CASE y[line].form # "flow"
  BY <1>4, RefusedKeeps DEF FlowMember
<1>5. CASE y[line].form = "flow" /\ found = want
  BY <1>5, RefusedKeeps DEF FlowMember
<1>6. CASE y[line].form = "flow" /\ found # want
  <2>1. FlowMember(y, line, want) = Became([y EXCEPT ![line].items = new])
    BY <1>6 DEF FlowMember
  <2> HIDE DEF new, others, items
  <2>2. TheirNames(new) = TheirNames(y[line].items)
    BY <1>3 DEF others, items
  <2>3. PICK z : z = [y EXCEPT ![line].items = new]
    OBVIOUS
  <2>4. z \in Seq(HermesLine) /\ UserText(z) = UserText(y)
    BY <1>0, <1>3, <1>6, <2>2, <2>3, TextOfFlow
  <2>5. z # <<>>
    <3>1. DOMAIN z = DOMAIN y /\ line \in DOMAIN y
      BY <1>0, <2>3
    <3> QED
      BY <3>1
  <2>6. FlowMember(y, line, want) = [ok |-> TRUE, doc |-> z]
    BY <2>1, <2>3 DEF Became
  <2> QED
    BY <2>4, <2>5, <2>6 DEF EditKeeps, TextKept, Docs
<1> QED
  BY <1>4, <1>5, <1>6

LEMMA BlockMemberKeeps ==
  ASSUME NEW y \in Docs, NEW line \in 1..Len(y), NEW indent \in Nat, NEW want \in BOOLEAN
  PROVE  EditKeeps(y, BlockMember(y, line, indent, want), want)
<1> DEFINE items    == SequenceItems(y, line, indent)
           existing == Least({i \in items : y[i].name = Observer}, 0)
           last     == Greatest(items, 0)
           at       == LastContent(y, last, BlockEnd(y, y[last].indent, last + 1)) + 1
<1>0. y \in Seq(HermesLine) /\ Len(y) \in Nat
  BY DEF Docs
<1>1. items \subseteq (line + 1)..Len(y) /\ \A i \in items : y[i].kind = "item"
  BY <1>0, SequenceItemsAre
<1>2. items \subseteq Nat /\ items \subseteq 0..Len(y) /\ items \subseteq 2..Len(y)
  BY <1>0, <1>1
<1>3. CASE items = {} /\ LastContent(y, line + 1, BlockEnd(y, indent, line + 1)) > line
  BY <1>3, RefusedKeeps DEF BlockMember
<1>4. CASE want = (existing # 0) /\ ~(items = {} /\ LastContent(y, line + 1, BlockEnd(y, indent, line + 1)) > line)
  BY <1>4, RefusedKeeps DEF BlockMember
<1>5. CASE ~want /\ existing # 0 /\ ~(items = {} /\ LastContent(y, line + 1, BlockEnd(y, indent, line + 1)) > line)
  <2>1. BlockMember(y, line, indent, want) = Became(RemoveAt(y, existing))
    BY <1>5 DEF BlockMember
  <2>2. existing \in items /\ y[existing].name = Observer
    <3> DEFINE S == {i \in items : y[i].name = Observer}
    <3>1. S \subseteq Nat
      BY <1>2
    <3>2. existing \in S
      <4> HIDE DEF S
      <4>1. Least(S, 0) = 0 \/ Least(S, 0) \in S
        BY <3>1, LeastIn
      <4>2. existing = Least(S, 0)
        BY DEF S
      <4> QED
        BY <1>5, <4>1, <4>2
    <3> QED
      BY <3>2
  <2> HIDE DEF existing, items
  <2>3. existing \in 2..Len(y) /\ y[existing].kind = "item"
    BY <1>1, <1>2, <2>2
  <2>4. RemoveAt(y, existing) \in Docs /\ UserText(RemoveAt(y, existing)) = UserText(y)
    BY <2>2, <2>3, LineRemoved
  <2> QED
    BY <2>1, <2>4 DEF EditKeeps, TextKept, Became
<1>6. CASE want /\ existing = 0 /\ items = {} /\ ~(LastContent(y, line + 1, BlockEnd(y, indent, line + 1)) > line)
  <2>1. BlockMember(y, line, indent, want) = Became(InsertLines(y, line + 1, <<ItemLine(indent + 2, Observer)>>))
    BY <1>6 DEF BlockMember
  <2>2. PICK lines : lines = <<ItemLine(indent + 2, Observer)>>
    OBVIOUS
  <2>3. indent + 2 \in Nat
    OBVIOUS
  <2>4. lines \in Seq(HermesLine) /\ UserText(lines) = <<>>
    BY <2>2, <2>3, LinesAdded
  <2>5. line + 1 \in 1..Len(y) + 1
    BY <1>0
  <2>6. InsertLines(y, line + 1, lines) \in Docs /\ UserText(InsertLines(y, line + 1, lines)) = UserText(y)
    BY <2>4, <2>5, LinesInserted
  <2> QED
    BY <2>1, <2>2, <2>6 DEF EditKeeps, TextKept, Became
<1>7. CASE want /\ existing = 0 /\ items # {}
  <2>1. BlockMember(y, line, indent, want) = Became(InsertLines(y, at, <<ItemLine(y[last].indent, Observer)>>))
    BY <1>7 DEF BlockMember
  <2>2. last \in items
    <3> HIDE DEF items
    <3> QED
      BY <1>0, <1>2, <1>7, GreatestIs
  <2> HIDE DEF items, last
  <2>3. last \in 1..Len(y) /\ last \in 1..Len(y) + 1 /\ last + 1 \in 1..Len(y) + 1
    BY <1>0, <1>2, <2>2
  <2>4. y[last].indent \in Nat
    <3>1. y[last] \in HermesLine
      BY <1>0, <2>3
    <3> QED
      BY <3>1, LineFacts
  <2>5. PICK end : end = BlockEnd(y, y[last].indent, last + 1)
    OBVIOUS
  <2>6. end \in last + 1 .. Len(y) + 1
    BY <1>0, <2>3, <2>5, BlockEndIs
  <2>7. end \in last .. Len(y) + 1
    BY <1>0, <2>3, <2>6
  <2>8. LastContent(y, last, end) + 1 \in last..end
    BY <1>0, <2>3, <2>7, LastContentIs
  <2>9. at \in 1..Len(y) + 1
    BY <1>0, <2>3, <2>5, <2>7, <2>8
  <2>10. PICK lines : lines = <<ItemLine(y[last].indent, Observer)>>
    OBVIOUS
  <2>11. lines \in Seq(HermesLine) /\ UserText(lines) = <<>>
    BY <2>4, <2>10, LinesAdded
  <2> HIDE DEF at
  <2>12. InsertLines(y, at, lines) \in Docs /\ UserText(InsertLines(y, at, lines)) = UserText(y)
    BY <2>9, <2>11, LinesInserted
  <2> QED
    BY <2>1, <2>10, <2>12 DEF EditKeeps, TextKept, Became
<1> QED
  BY <1>3, <1>4, <1>5, <1>6, <1>7

LEMMA AddedKeeps ==
  ASSUME NEW y, NEW z \in Docs, NEW want, want, AddsTo(UserText(y), UserText(z))
  PROVE  EditKeeps(y, Became(z), want)
BY DEF EditKeeps, TextKept, Became

LEMMA ListMemberKeeps ==
  ASSUME NEW y \in Docs, NEW key \in {"enabled", "disabled"}, NEW want \in BOOLEAN
  PROVE  EditKeeps(y, ListMember(y, key, want), want)
<1> DEFINE plugins == FindMappingKey(y, "plugins", 0, 1, Len(y) + 1)
           end     == BlockEnd(y, 0, plugins + 1)
           indent  == ChildIndent(y, plugins, 0, end)
           line    == FindMappingKey(y, key, indent, plugins + 1, end)
           at      == LastContent(y, plugins + 1, end) + 1
<1>0. y \in Seq(HermesLine) /\ Len(y) \in Nat
  BY DEF Docs
<1>1. CASE plugins = 0 /\ want
  <2>1. ListMember(y, key, want)
          = Became(AppendBlock(y, <<KeyLine(0, "plugins"), KeyLine(2, key), ItemLine(4, Observer)>>))
    BY <1>1 DEF ListMember
  <2>2. PICK lines : lines = <<KeyLine(0, "plugins"), KeyLine(2, key), ItemLine(4, Observer)>>
    OBVIOUS
  <2>3. 0 \in Nat /\ 2 \in Nat /\ 4 \in Nat
    OBVIOUS
  <2>4. KeyLine(0, "plugins") \in HermesLine /\ KeyLine(2, key) \in HermesLine /\ ItemLine(4, Observer) \in HermesLine
    BY <2>3, LinesAdded
  <2>5. lines \in Seq(HermesLine)
    BY <2>2, <2>4
  <2>6. AppendBlock(y, lines) \in Docs /\ AddsTo(UserText(y), UserText(AppendBlock(y, lines)))
    BY <2>5, Appended
  <2> QED
    BY <1>1, <2>1, <2>2, <2>6, AddedKeeps
<1>2. CASE plugins = 0 /\ ~want
  BY <1>2, RefusedKeeps DEF ListMember
<1>3. CASE plugins # 0 /\ y[plugins].form # "block"
  BY <1>3, RefusedKeeps DEF ListMember
<1>4. ASSUME plugins # 0 PROVE plugins \in 1..Len(y) /\ end \in plugins + 1 .. Len(y) + 1 /\ indent \in Nat
  <2>1. plugins \in 1 .. Len(y) + 1 - 1
    <3>1. 1 \in 1..Len(y) + 1 /\ Len(y) + 1 \in 1 .. Len(y) + 1
      BY <1>0
    <3> QED
      BY <1>0, <1>4, <3>1, FindMappingKeyIs
  <2>2. plugins \in 1..Len(y) /\ plugins + 1 \in 1..Len(y) + 1 /\ plugins \in Nat
    BY <1>0, <2>1
  <2> HIDE DEF plugins
  <2>3. end \in plugins + 1 .. Len(y) + 1
    BY <1>0, <2>2, BlockEndIs
  <2>4. end \in 0 .. Len(y) + 1
    BY <1>0, <2>2, <2>3
  <2> HIDE DEF end
  <2>5. indent \in Nat
    BY <1>0, <2>2, <2>4, ChildIndentIs
  <2> QED
    BY <2>2, <2>3, <2>5
<1>5. CASE plugins # 0 /\ y[plugins].form = "block" /\ line = 0 /\ ~want
  BY <1>5, RefusedKeeps DEF ListMember
<1>6. CASE plugins # 0 /\ y[plugins].form = "block" /\ line = 0 /\ want
  <2>1. ListMember(y, key, want)
          = Became(InsertLines(y, at, <<KeyLine(indent, key), ItemLine(indent + 2, Observer)>>))
    BY <1>6 DEF ListMember
  <2>2. plugins \in 1..Len(y) /\ end \in plugins + 1 .. Len(y) + 1 /\ indent \in Nat
    BY <1>4, <1>6
  <2> HIDE DEF plugins, end, indent
  <2>3. plugins + 1 \in 1..Len(y) + 1
    BY <1>0, <2>2
  <2>4. LastContent(y, plugins + 1, end) + 1 \in plugins + 1 .. end
    BY <1>0, <2>2, <2>3, LastContentIs
  <2>5. at \in 1..Len(y) + 1
    BY <1>0, <2>2, <2>4
  <2>6. PICK lines : lines = <<KeyLine(indent, key), ItemLine(indent + 2, Observer)>>
    OBVIOUS
  <2>7. KeyLine(indent, key) \in HermesLine /\ ItemLine(indent + 2, Observer) \in HermesLine
    <3>1. indent + 2 \in Nat
      BY <2>2
    <3> QED
      BY <2>2, <3>1, LinesAdded
  <2>8. lines \in Seq(HermesLine)
    BY <2>6, <2>7
  <2> HIDE DEF at
  <2>9. InsertLines(y, at, lines) \in Docs /\ AddsTo(UserText(y), UserText(InsertLines(y, at, lines)))
    BY <2>5, <2>8, LinesInserted
  <2> QED
    BY <1>6, <2>1, <2>6, <2>9, AddedKeeps
<1>7. ASSUME plugins # 0, line # 0 PROVE line \in 1..Len(y) /\ y[line].kind = "key" /\ line \in Nat
  <2>1. plugins \in 1..Len(y) /\ end \in plugins + 1 .. Len(y) + 1 /\ indent \in Nat
    BY <1>4, <1>7
  <2> HIDE DEF plugins, end, indent
  <2>2. plugins + 1 \in 1..Len(y) + 1
    BY <1>0, <2>1
  <2>3. line \in plugins + 1 .. end - 1 /\ y[line].kind = "key"
    BY <1>0, <1>7, <2>1, <2>2, FindMappingKeyIs
  <2> HIDE DEF line
  <2> QED
    BY <1>0, <2>1, <2>3
<1>8. CASE plugins # 0 /\ y[plugins].form = "block" /\ line # 0 /\ y[line].form # "block"
  <2>1. ListMember(y, key, want) = FlowMember(y, line, want)
    BY <1>8 DEF ListMember
  <2>2. line \in 1..Len(y) /\ y[line].kind = "key"
    BY <1>7, <1>8
  <2> HIDE DEF line
  <2> QED
    BY <2>1, <2>2, FlowMemberKeeps
<1>9. CASE plugins # 0 /\ y[plugins].form = "block" /\ line # 0 /\ y[line].form = "block"
  <2>1. ListMember(y, key, want) = BlockMember(y, line, indent, want)
    BY <1>9 DEF ListMember
  <2>2. line \in 1..Len(y) /\ indent \in Nat
    BY <1>4, <1>7, <1>9
  <2> HIDE DEF line, indent
  <2> QED
    BY <2>1, <2>2, BlockMemberKeeps
<1> QED
  BY <1>1, <1>2, <1>3, <1>5, <1>6, <1>8, <1>9

LEMMA SetMembershipKeeps ==
  ASSUME NEW y \in Docs, NEW want \in BOOLEAN, SetMembership(y, want).ok
  PROVE  TextKept(y, SetMembership(y, want).doc, want)
<1>1. PICK first : first = ListMember(y, "enabled", want)
  OBVIOUS
<1>2. EditKeeps(y, first, want)
  BY <1>1, ListMemberKeeps
<1>3. CASE first.ok /\ want
  <2>1. first.doc \in Docs /\ (UserText(first.doc) = UserText(y) \/ AddsTo(UserText(y), UserText(first.doc)))
    BY <1>2, <1>3 DEF EditKeeps, TextKept
  <2>2. PICK second : second = ListMember(first.doc, "disabled", FALSE)
    OBVIOUS
  <2>3. EditKeeps(first.doc, second, FALSE)
    BY <2>1, <2>2, ListMemberKeeps
  <2>4. SetMembership(y, want) = second
    BY <1>1, <1>3, <2>2 DEF SetMembership
  <2>5. second.doc \in Docs /\ UserText(second.doc) = UserText(first.doc)
    BY <2>3, <2>4 DEF EditKeeps, TextKept
  <2> QED
    BY <1>3, <2>1, <2>4, <2>5 DEF TextKept
<1>4. CASE ~(first.ok /\ want)
  <2>1. SetMembership(y, want) = first
    BY <1>1, <1>4 DEF SetMembership
  <2> QED
    BY <1>2, <2>1 DEF EditKeeps
<1> QED
  BY <1>3, <1>4

-----------------------------------------------------------------------------
(* A removal that changes nothing found nothing to remove.                  *)

LEMMA NamesAreTheirs ==
  ASSUME NEW names \in Seq(YamlNames)
  PROVE  Observer \notin ToSet(TheirNames(names))
<1> DEFINE G == {s \in Seq(YamlNames) : Observer \notin ToSet(TheirNames(s))}
<1>1. <<>> \in G
  <2>1. <<>> \in Seq(YamlNames) /\ ToSet(<<>>) = {}
    BY DEF ToSet
  <2> QED
    BY <2>1, NamesEmpty
<1>2. ASSUME NEW s \in Seq(YamlNames), NEW n \in YamlNames, s \in G PROVE Append(s, n) \in G
  <2>0. Append(s, n) \in Seq(YamlNames)
    OBVIOUS
  <2>1. TheirNames(s) \in Seq(YamlNames) /\ Observer \notin ToSet(TheirNames(s))
    BY <1>2, NamesType
  <2>2. PICK one : one = IF n = Observer THEN <<>> ELSE <<n>>
    OBVIOUS
  <2>3. one \in Seq(YamlNames) /\ Observer \notin ToSet(one)
    BY <2>2 DEF ToSet
  <2>4. TheirNames(Append(s, n)) = TheirNames(s) \o one
    BY <2>2, NamesAppend
  <2>5. ToSet(TheirNames(s) \o one) = ToSet(TheirNames(s)) \cup ToSet(one)
    BY <2>1, <2>3, SetOfConcat
  <2> QED
    BY <2>0, <2>1, <2>3, <2>4, <2>5
<1> HIDE DEF G
<1>3. names \in G
  BY <1>1, <1>2, SequencesAre
<1> QED
  BY <1>3 DEF G

LEMMA Outcomes ==
  ~ Refused.ok /\ \A z : Became(z).doc = z
BY DEF Refused, Became

LEMMA UnchangedIsUnlisted ==
  ASSUME NEW y \in Docs, NEW key \in {"enabled", "disabled"},
         ListMember(y, key, FALSE).ok, ListMember(y, key, FALSE).doc = y
  PROVE  Observer \notin Members(y, key)
<1> DEFINE plugins == FindMappingKey(y, "plugins", 0, 1, Len(y) + 1)
           end     == BlockEnd(y, 0, plugins + 1)
           indent  == ChildIndent(y, plugins, 0, end)
           line    == FindMappingKey(y, key, indent, plugins + 1, end)
           items   == SequenceItems(y, line, indent)
           S       == {i \in items : y[i].name = Observer}
<1>0. y \in Seq(HermesLine) /\ Len(y) \in Nat
  BY DEF Docs
<1>1. CASE plugins = 0 \/ line = 0
  BY <1>1 DEF Members
<1>2. CASE plugins # 0 /\ line # 0
  <2>1. y[plugins].form = "block"
    BY <1>2 DEF ListMember, Refused
  <2>2. line \in 1..Len(y) /\ y[line].kind = "key"
    <3>1. plugins \in 1 .. Len(y) + 1 - 1
      <4>1. 1 \in 1..Len(y) + 1 /\ Len(y) + 1 \in 1 .. Len(y) + 1
        BY <1>0
      <4> QED
        BY <1>0, <1>2, <4>1, FindMappingKeyIs
    <3>2. plugins \in 1..Len(y) /\ plugins + 1 \in 1..Len(y) + 1 /\ plugins \in Nat
      BY <1>0, <3>1
    <3> HIDE DEF plugins
    <3>3. end \in plugins + 1 .. Len(y) + 1
      BY <1>0, <3>2, BlockEndIs
    <3> HIDE DEF end, indent
    <3>4. line \in plugins + 1 .. end - 1 /\ y[line].kind = "key"
      BY <1>0, <1>2, <3>2, <3>3, FindMappingKeyIs
    <3> HIDE DEF line
    <3> QED
      BY <1>0, <3>2, <3>3, <3>4
  <2>3. CASE y[line].form # "block"
    <3>1. ListMember(y, key, FALSE) = FlowMember(y, line, FALSE)
      BY <1>2, <2>1, <2>3 DEF ListMember
    <3>2. y[line].form = "flow"
      <4>1. FlowMember(y, line, FALSE).ok
        BY <3>1
      <4> HIDE DEF line
      <4>2. y[line].form # "flow" => FlowMember(y, line, FALSE) = Refused
        BY DEF FlowMember
      <4> QED
        BY <4>1, <4>2, Outcomes, Zenon
    <3>3. Members(y, key) = ToSet(y[line].items)
      BY <1>2, <3>2 DEF Members
    <3> HIDE DEF line
    <3>4. ASSUME Observer \in ToSet(y[line].items) PROVE FALSE
      <4> DEFINE others == TheirNames(y[line].items)
      <4>1. FlowMember(y, line, FALSE).doc = [y EXCEPT ![line].items = others]
        BY <3>2, <3>4 DEF FlowMember, Became
      <4>2. y = [y EXCEPT ![line].items = others]
        BY <3>1, <4>1
      <4>3. y[line] \in HermesLine
        BY <1>0, <2>2
      <4>4. DOMAIN y[line] = {"kind", "indent", "name", "form", "items"}
        <5>1. y[line] \in [kind : {"key"}, indent : Nat, name : YamlNames, form : {"flow"}, items : Seq(YamlNames)]
          BY <2>2, <3>2, <4>3 DEF HermesLine, RemarkLine, BlankLine
        <5> QED
          BY <5>1
      <4> HIDE DEF others
      <4>5. y[line].items = others
        <5>1. [y EXCEPT ![line].items = others][line] = [y[line] EXCEPT !.items = others]
          BY <1>0, <2>2
        <5>2. [y[line] EXCEPT !.items = others].items = others
          BY <4>4
        <5> QED
          BY <4>2, <5>1, <5>2
      <4>6. y[line].items \in Seq(YamlNames)
        BY <2>2, <4>3, LineFacts
      <4> QED
        BY <3>4, <4>5, <4>6, NamesAreTheirs DEF others
    <3> QED
      BY <3>3, <3>4
  <2>4. CASE y[line].form = "block"
    <3>1. ListMember(y, key, FALSE) = BlockMember(y, line, indent, FALSE)
      BY <1>2, <2>1, <2>4 DEF ListMember
    <3>2. Members(y, key) \subseteq {y[i].name : i \in items}
      BY <1>2, <2>4 DEF Members
    <3>3. items \subseteq (line + 1)..Len(y) /\ items \subseteq Nat
      <4> HIDE DEF line, indent
      <4>1. items \subseteq (line + 1)..Len(y)
        BY <1>0, <2>2, SequenceItemsAre
      <4> QED
        BY <1>0, <2>2, <4>1
    <3> DEFINE P == items = {} /\ LastContent(y, line + 1, BlockEnd(y, indent, line + 1)) > line
    <3>4. /\ P => BlockMember(y, line, indent, FALSE) = Refused
          /\ ~P /\ Least(S, 0) # 0 => BlockMember(y, line, indent, FALSE) = Became(RemoveAt(y, Least(S, 0)))
      <4> HIDE DEF line, indent
      <4> QED
        BY DEF BlockMember
    <3>a. BlockMember(y, line, indent, FALSE).ok /\ BlockMember(y, line, indent, FALSE).doc = y
      BY <3>1
    <3> HIDE DEF P, S, items, line, indent
    <3>b. ~P
      BY <3>4, <3>a, Outcomes, Zenon
    <3>5. ASSUME Least(S, 0) # 0 PROVE FALSE
      <4>1. S \subseteq Nat /\ S \subseteq items
        BY <3>3 DEF S
      <4>2. Least(S, 0) \in items
        BY <3>5, <4>1, LeastIn
      <4>3. RemoveAt(y, Least(S, 0)) = y
        BY <3>4, <3>5, <3>a, <3>b, Outcomes, Zenon
      <4>4. PICK k : k = Least(S, 0)
        OBVIOUS
      <4>5. k \in 1..Len(y)
        <5>1. k \in (line + 1)..Len(y) /\ line \in 1..Len(y)
          BY <2>2, <3>3, <4>2, <4>4
        <5> QED
          BY <1>0, <5>1
      <4>6. RemoveAt(y, k) = SubSeq(y, 1, k - 1) \o SubSeq(y, k + 1, Len(y))
        BY DEF RemoveAt
      <4>7. SubSeq(y, 1, k - 1) \in Seq(HermesLine) /\ Len(SubSeq(y, 1, k - 1)) = k - 1
        <5>1. \A i \in 1..(k - 1) : y[i] \in HermesLine
          BY <1>0, <4>5
        <5> QED
          BY <1>0, <4>5, <5>1, SubSeqProperties
      <4>8. SubSeq(y, k + 1, Len(y)) \in Seq(HermesLine) /\ Len(SubSeq(y, k + 1, Len(y))) = Len(y) - k
        <5>1. \A i \in (k + 1)..Len(y) : y[i] \in HermesLine
          BY <1>0, <4>5
        <5> QED
          BY <1>0, <4>5, <5>1, SubSeqProperties
      <4>9. Len(RemoveAt(y, k)) = (k - 1) + (Len(y) - k)
        BY <4>6, <4>7, <4>8, ConcatProperties
      <4> QED
        BY <1>0, <4>3, <4>4, <4>5, <4>9
    <3>6. S = {}
      <4>1. S \subseteq Nat /\ 0 \notin S
        <5>1. S \subseteq items
          BY DEF S
        <5> QED
          BY <1>0, <2>2, <3>3, <5>1
      <4>2. S # {} => Least(S, 0) \in S
        BY <4>1, LeastIs
      <4> QED
        BY <3>5, <4>1, <4>2
    <3> QED
      BY <3>2, <3>6 DEF S
  <2> QED
    BY <2>3, <2>4
<1> QED
  BY <1>1, <1>2

-----------------------------------------------------------------------------
(* The invariant                                                            *)

\* What is written is a document the user's text survives in and that read
\* back as wanted; a plugin is reverted when no entry is left, unless the user
\* wrote the file since.
WriteHolds ==
  patching.stage = "write" =>
    /\ patching.want \in BOOLEAN
    /\ patching.seen \in Docs /\ TextKept(patching.seen, patching.doc, patching.want)
    /\ Verifies(patching.doc, patching.want)
StagesHold ==
  /\ patching.stage = "read" => patching.want \in BOOLEAN
  /\ patching.stage \in {"read", "write"} => (patching.want => plugin = "ours" /\ journal)
  /\ patching.stage # "idle" => patching.began \in 0..rewrites
RevertHolds ==
  patching.stage = "revert" /\ patching.began = rewrites => ~Listed(yaml)

HermesIInv ==
  /\ HermesTypeOK
  /\ yaml \in Docs \cup {TornYaml}
  /\ outcome # "none" => patching.stage = "idle"
  /\ WriteHolds /\ StagesHold /\ RevertHolds /\ UnpatchClears

LEMMA DocumentsAre == HermesDocuments \subseteq Docs /\ TornYaml \notin Docs
<1>1. HermesDocuments \subseteq Docs
  BY HermesDocumentsAssumption DEF Docs
<1>2. ASSUME TornYaml \in Docs PROVE FALSE
  <2>1. TornYaml[1] \in HermesLine
    <3>1. TornYaml \in Seq(HermesLine) /\ Len(TornYaml) = 1
      BY <1>2 DEF Docs, TornYaml
    <3> QED
      BY <3>1
  <2>2. TornYaml[1].kind = "torn"
    BY DEF TornYaml
  <2> QED
    BY <2>1, <2>2, LineFacts
<1> QED
  BY <1>1, <1>2

LEMMA EditIs ==
  ASSUME NEW y \in Docs \cup {TornYaml}, NEW want \in BOOLEAN, CanEdit(y, want)
  PROVE  /\ y \in Docs
         /\ TextKept(y, SetMembership(y, want).doc, want)
         /\ SetMembership(y, want).doc # y => Verifies(SetMembership(y, want).doc, want)
         /\ SetMembership(y, want).doc = y /\ ~want => ~Listed(y)
<1>1. y \in Docs /\ SetMembership(y, want).ok
  BY DEF CanEdit, Readable
<1>2. TextKept(y, SetMembership(y, want).doc, want)
  BY <1>1, SetMembershipKeeps
<1>3. SetMembership(y, want).doc # y => Verifies(SetMembership(y, want).doc, want)
  BY DEF CanEdit
<1>4. ASSUME SetMembership(y, want).doc = y, ~want PROVE ~Listed(y)
  <2>1. SetMembership(y, want) = ListMember(y, "enabled", FALSE)
    BY <1>4 DEF SetMembership
  <2>2. Observer \notin Members(y, "enabled")
    BY <1>1, <1>4, <2>1, UnchangedIsUnlisted
  <2> QED
    BY <2>2 DEF Listed
<1> QED
  BY <1>1, <1>2, <1>3, <1>4

LEMMA HermesInitHolds == HermesInit => HermesIInv
<1> SUFFICES ASSUME HermesInit PROVE HermesIInv
  OBVIOUS
<1> USE HermesAssumption DEF HermesInit
<1>1. yaml \in Docs /\ yaml # TornYaml
  BY DocumentsAre
<1>2. patching.stage = "idle" /\ outcome = "none"
  BY DEF NotPatching
<1>3. HermesTypeOK
  <2>1. rewrites \in 0..MaxRewrites /\ hermesFaults \in 0..MaxHermesFaults
    OBVIOUS
  <2>2. plugin \in {"absent", "foreign", "ours", "partial"} /\ journal \in BOOLEAN
    OBVIOUS
  <2> QED
    BY <1>1, <1>2, <2>1, <2>2 DEF HermesTypeOK
<1> QED
  BY <1>1, <1>2, <1>3 DEF HermesIInv, WriteHolds, StagesHold, RevertHolds, UnpatchClears

LEMMA HermesStep == HermesIInv /\ [HermesNext]_hermesVars => HermesIInv'
<1> SUFFICES ASSUME HermesIInv, [HermesNext]_hermesVars PROVE HermesIInv'
  OBVIOUS
<1>a. /\ plugin \in {"absent", "foreign", "ours", "partial"} /\ journal \in BOOLEAN
      /\ patching.stage \in {"idle", "apply", "read", "write", "revert"}
      /\ outcome \in {"none", "patched", "unpatched"}
      /\ rewrites \in 0..MaxRewrites /\ hermesFaults \in 0..MaxHermesFaults
      /\ yaml = TornYaml => hermesFaults > 0
      /\ MaxRewrites \in Nat /\ MaxHermesFaults \in Nat
  BY HermesAssumption DEF HermesIInv, HermesTypeOK
<1>b. /\ yaml \in Docs \cup {TornYaml}
      /\ outcome # "none" => patching.stage = "idle"
      /\ UnpatchClears
  BY DEF HermesIInv
<1>c. /\ patching.stage = "write" =>
           /\ patching.want \in BOOLEAN
           /\ patching.seen \in Docs /\ TextKept(patching.seen, patching.doc, patching.want)
           /\ Verifies(patching.doc, patching.want) /\ patching.doc \in Docs
  BY DEF HermesIInv, WriteHolds, TextKept
<1>d. /\ patching.stage = "read" => patching.want \in BOOLEAN
      /\ patching.stage \in {"read", "write"} => (patching.want => plugin = "ours" /\ journal)
      /\ patching.stage # "idle" => patching.began \in 0..rewrites
  BY DEF HermesIInv, StagesHold
<1>e. patching.stage = "revert" /\ patching.began = rewrites => ~Listed(yaml)
  BY DEF HermesIInv, RevertHolds
<1>f. NotPatching.stage = "idle"
  BY DEF NotPatching
<1>g. TornYaml \notin Docs /\ HermesDocuments \subseteq Docs
  BY DocumentsAre
<1>h. ASSUME HermesTypeOK', yaml' \in Docs \cup {TornYaml}, outcome' = "none",
             patching' = NotPatching
      PROVE  HermesIInv'
  BY <1>f, <1>h DEF HermesIInv, WriteHolds, StagesHold, RevertHolds, UnpatchClears
<1>1. CASE Patch
  <2>1. patching'.stage = "apply" /\ patching'.began = rewrites /\ outcome' = "none" /\ rewrites' = rewrites
    BY <1>1 DEF Patch
  <2>2. HermesTypeOK' /\ yaml' \in Docs \cup {TornYaml}
    BY <1>1, <1>a, <1>b, <2>1 DEF Patch, HermesTypeOK
  <2> QED
    BY <1>a, <2>1, <2>2 DEF HermesIInv, WriteHolds, StagesHold, RevertHolds, UnpatchClears
<1>2. CASE ApplyPlugin
  <2>1. patching'.stage = "read" /\ patching'.want = TRUE /\ patching'.began = patching.began
        /\ plugin' = "ours" /\ journal' = TRUE /\ patching.stage = "apply"
        /\ UNCHANGED <<yaml, outcome, rewrites, hermesFaults>>
    BY <1>2 DEF ApplyPlugin
  <2>2. HermesTypeOK' /\ yaml' \in Docs \cup {TornYaml}
    BY <1>a, <1>b, <2>1 DEF HermesTypeOK
  <2>3. outcome' = "none"
    BY <1>a, <1>b, <2>1
  <2> QED
    BY <1>a, <1>d, <2>1, <2>2, <2>3 DEF HermesIInv, WriteHolds, StagesHold, RevertHolds, UnpatchClears
<1>3. CASE ApplyPluginFails
  <2>0. /\ patching' = NotPatching /\ plugin' = "absent" /\ journal' \in BOOLEAN /\ UNCHANGED <<yaml, rewrites>>
        /\ outcome' = "none" /\ hermesFaults < MaxHermesFaults /\ hermesFaults' = hermesFaults + 1
    BY <1>3 DEF ApplyPluginFails, HermesFault
  <2>1. HermesTypeOK'
    BY <1>a, <1>f, <2>0 DEF HermesTypeOK
  <2> QED
    BY <1>3, <1>b, <1>h, <2>1 DEF ApplyPluginFails, HermesFault
<1>4. CASE Unpatch
  <2>1. patching'.stage = "read" /\ patching'.want = FALSE /\ patching'.began = rewrites /\ outcome' = "none"
        /\ UNCHANGED <<yaml, plugin, journal, rewrites, hermesFaults>>
    BY <1>4 DEF Unpatch
  <2>2. HermesTypeOK' /\ yaml' \in Docs \cup {TornYaml}
    BY <1>a, <1>b, <2>1 DEF HermesTypeOK
  <2>3. WriteHolds' /\ RevertHolds' /\ UnpatchClears'
    BY <2>1 DEF WriteHolds, RevertHolds, UnpatchClears
  <2>4. StagesHold'
    <3>1. ~ patching'.want /\ patching'.want \in BOOLEAN
      BY <2>1
    <3>2. rewrites' \in Nat /\ patching'.began = rewrites'
      BY <1>a, <2>1
    <3> QED
      BY <3>1, <3>2 DEF StagesHold
  <2> QED
    BY <2>1, <2>2, <2>3, <2>4 DEF HermesIInv
<1>5. CASE RevertPlugin
  <2>1. /\ patching.stage = "revert" /\ patching' = NotPatching
        /\ outcome' \in {"none", "unpatched"} /\ (outcome' = "unpatched" => patching.began = rewrites)
        /\ plugin' \in {"absent", plugin} /\ journal' = FALSE
        /\ UNCHANGED <<yaml, rewrites, hermesFaults>>
    BY <1>5 DEF RevertPlugin, Succeeded
  <2>2. HermesTypeOK' /\ yaml' \in Docs \cup {TornYaml}
    BY <1>a, <1>b, <1>f, <2>1 DEF HermesTypeOK
  <2>3. outcome' = "unpatched" => ~Listed(yaml')
    BY <1>e, <2>1
  <2>4. UnpatchClears'
    BY <2>1, <2>3 DEF UnpatchClears
  <2> QED
    BY <1>f, <2>1, <2>2, <2>4 DEF HermesIInv, WriteHolds, StagesHold, RevertHolds
<1>6. CASE RevertPluginFails
  <2>1. HermesTypeOK'
    BY <1>6, <1>a, <1>f DEF RevertPluginFails, HermesFault, HermesTypeOK
  <2> QED
    BY <1>6, <1>b, <1>h, <2>1 DEF RevertPluginFails, HermesFault
<1>7. CASE ReadYaml
  <2> DEFINE doc == SetMembership(yaml, patching.want).doc
  <2>1. /\ patching.stage = "read" /\ CanEdit(yaml, patching.want) /\ patching.want \in BOOLEAN
        /\ outcome = "none" /\ UNCHANGED <<yaml, plugin, journal, rewrites, hermesFaults>>
    BY <1>7, <1>a, <1>b, <1>d DEF ReadYaml
  <2>2. /\ yaml \in Docs /\ TextKept(yaml, doc, patching.want)
        /\ doc # yaml => Verifies(doc, patching.want)
        /\ doc = yaml /\ ~patching.want => ~Listed(yaml)
    BY <1>b, <2>1, EditIs
  <2>3. /\ doc # yaml => /\ patching' = [stage |-> "write", want |-> patching.want, began |-> patching.began,
                                         seen |-> yaml, doc |-> doc]
                         /\ outcome' = outcome
        /\ doc = yaml /\ patching.want => Succeeded(TRUE)
        /\ doc = yaml /\ ~patching.want => ToRevert
    BY <1>7 DEF ReadYaml
  <2> HIDE DEF doc
  <2>4. CASE doc # yaml
    <3>1. /\ patching'.stage = "write" /\ patching'.want = patching.want /\ patching'.began = patching.began
          /\ patching'.seen = yaml /\ patching'.doc = doc /\ outcome' = "none"
      BY <2>1, <2>3, <2>4
    <3>2. HermesTypeOK' /\ yaml' \in Docs \cup {TornYaml}
      BY <1>a, <1>b, <2>1, <3>1 DEF HermesTypeOK
    <3>3. WriteHolds'
      BY <2>1, <2>2, <2>4, <3>1 DEF WriteHolds
    <3>4. StagesHold'
      BY <1>d, <2>1, <3>1 DEF StagesHold
    <3> QED
      BY <3>1, <3>2, <3>3, <3>4 DEF HermesIInv, RevertHolds, UnpatchClears
  <2>5. CASE doc = yaml /\ patching.want
    <3>1. patching' = NotPatching /\ outcome' \in {"none", "patched"}
      BY <2>3, <2>5 DEF Succeeded
    <3>2. HermesTypeOK' /\ yaml' \in Docs \cup {TornYaml}
      BY <1>a, <1>b, <1>f, <2>1, <3>1 DEF HermesTypeOK
    <3> QED
      BY <1>f, <3>1, <3>2 DEF HermesIInv, WriteHolds, StagesHold, RevertHolds, UnpatchClears
  <2>6. CASE doc = yaml /\ ~patching.want
    <3>1. /\ patching'.stage = "revert" /\ patching'.began = patching.began /\ outcome' = "none"
      BY <2>1, <2>3, <2>6 DEF ToRevert
    <3>2. HermesTypeOK' /\ yaml' \in Docs \cup {TornYaml}
      BY <1>a, <1>b, <2>1, <3>1 DEF HermesTypeOK
    <3>3. ~Listed(yaml')
      BY <2>1, <2>2, <2>6
    <3> QED
      BY <1>d, <2>1, <3>1, <3>2, <3>3 DEF HermesIInv, WriteHolds, StagesHold, RevertHolds, UnpatchClears
  <2> QED
    BY <2>1, <2>4, <2>5, <2>6
<1>8. CASE CannotEdit
  <2>1. /\ patching.stage = "read" /\ patching' = NotPatching /\ plugin' \in {"absent", plugin} /\ journal' \in BOOLEAN
        /\ UNCHANGED <<yaml, outcome, rewrites, hermesFaults>>
    BY <1>8, <1>a DEF CannotEdit, GiveUp
  <2>2. HermesTypeOK' /\ outcome' = "none"
    BY <1>a, <1>b, <1>f, <2>1 DEF HermesTypeOK
  <2> QED
    BY <1>b, <1>h, <2>1, <2>2
<1>9. CASE WriteYaml
  <2>1. /\ patching.stage = "write" /\ yaml' = patching.doc /\ patching.want \in BOOLEAN /\ patching.doc \in Docs
        /\ Verifies(patching.doc, patching.want)
        /\ outcome = "none" /\ UNCHANGED <<plugin, journal, rewrites, hermesFaults>>
    BY <1>9, <1>a, <1>b, <1>c DEF WriteYaml
  <2>2. CASE patching.want
    <3>1. patching' = NotPatching /\ outcome' \in {"none", "patched"}
      BY <1>9, <2>2 DEF WriteYaml, Succeeded
    <3>2. HermesTypeOK'
      BY <1>a, <1>f, <1>g, <2>1, <3>1 DEF HermesTypeOK
    <3> QED
      BY <1>f, <2>1, <3>1, <3>2 DEF HermesIInv, WriteHolds, StagesHold, RevertHolds, UnpatchClears
  <2>3. CASE ~patching.want
    <3>1. /\ patching'.stage = "revert" /\ patching'.began = patching.began /\ outcome' = "none"
      BY <1>9, <2>1, <2>3 DEF WriteYaml, ToRevert
    <3>2. HermesTypeOK'
      BY <1>a, <1>g, <2>1, <3>1 DEF HermesTypeOK
    <3>3. ~Listed(patching.doc)
      BY <2>1, <2>3 DEF Verifies
    <3>4. ~Listed(yaml')
      BY <2>1, <3>3
    <3> QED
      BY <1>d, <2>1, <3>1, <3>2, <3>4 DEF HermesIInv, WriteHolds, StagesHold, RevertHolds, UnpatchClears
  <2> QED
    BY <2>1, <2>2, <2>3
<1>10. CASE WriteYamlFails
  <2>1. /\ patching' = NotPatching /\ outcome' = "none" /\ plugin' \in {"absent", plugin} /\ journal' \in BOOLEAN
        /\ yaml' \in {yaml, TornYaml} /\ rewrites' = rewrites
        /\ hermesFaults < MaxHermesFaults /\ hermesFaults' = hermesFaults + 1
    BY <1>10, <1>a DEF WriteYamlFails, GiveUp, HermesFault
  <2>2. HermesTypeOK'
    BY <1>a, <1>f, <2>1 DEF HermesTypeOK
  <2> QED
    BY <1>b, <1>h, <2>1, <2>2
<1>11. CASE Killed
  <2>1. /\ patching' = NotPatching /\ outcome' = "none"
        /\ plugin' \in {"absent", "partial", "ours", plugin} /\ journal' \in BOOLEAN
        /\ rewrites' = rewrites
        /\ hermesFaults < MaxHermesFaults /\ hermesFaults' = hermesFaults + 1
    BY <1>11, <1>a DEF Killed, HermesFault
  <2>2. yaml' \in Docs \cup {TornYaml}
    BY <1>11, <1>b, <1>c DEF Killed
  <2>3. HermesTypeOK'
    BY <1>a, <1>f, <2>1 DEF HermesTypeOK
  <2> QED
    BY <1>h, <2>1, <2>2, <2>3
<1>12. ASSUME NEW y \in HermesDocuments, UserRewrites(y) PROVE HermesIInv'
  <2>1. /\ yaml' = y /\ y \in Docs /\ outcome' = "none" /\ rewrites' = rewrites + 1 /\ rewrites < MaxRewrites
        /\ UNCHANGED <<plugin, journal, patching, hermesFaults>>
    BY <1>12, <1>g DEF UserRewrites
  <2>2. HermesTypeOK'
    BY <1>a, <1>g, <2>1 DEF HermesTypeOK
  <2>3. WriteHolds'
    BY <1>c, <2>1 DEF WriteHolds
  <2>4. StagesHold'
    BY <1>a, <1>d, <2>1 DEF StagesHold
  <2>5. RevertHolds'
    BY <1>a, <1>d, <2>1 DEF RevertHolds
  <2> QED
    BY <2>1, <2>2, <2>3, <2>4, <2>5 DEF HermesIInv, UnpatchClears
<1>13. CASE UNCHANGED hermesVars
  <2>1. UNCHANGED <<yaml, plugin, journal, patching, outcome, rewrites, hermesFaults>>
    BY <1>13 DEF hermesVars
  <2>2. HermesTypeOK'
    BY <1>a, <2>1 DEF HermesTypeOK
  <2>3. WriteHolds'
    BY <1>c, <2>1 DEF WriteHolds
  <2>4. StagesHold'
    BY <1>d, <2>1 DEF StagesHold
  <2>5. RevertHolds'
    BY <1>e, <2>1 DEF RevertHolds
  <2>6. UnpatchClears'
    BY <1>b, <2>1 DEF UnpatchClears
  <2> QED
    BY <1>b, <2>1, <2>2, <2>3, <2>4, <2>5, <2>6 DEF HermesIInv
<1> QED
  BY <1>1, <1>2, <1>3, <1>4, <1>5, <1>6, <1>7, <1>8, <1>9, <1>10, <1>11, <1>12, <1>13 DEF HermesNext

\* Steps and states keep HermesIInv.
THEOREM HermesInvariant == HermesSpec => []HermesIInv
<1>1. HermesInit => HermesIInv
  BY HermesInitHolds
<1>2. HermesIInv /\ [HermesNext]_hermesVars => HermesIInv'
  BY HermesStep
<1> QED
  BY <1>1, <1>2, PTL DEF HermesSpec

LEMMA WritesKeepText == HermesIInv => UserLinesStay
<1> SUFFICES ASSUME HermesIInv, patching.stage = "write"
             PROVE  IF patching.want THEN AddsTo(UserText(patching.seen), UserText(patching.doc))
                    ELSE UserText(patching.doc) = UserText(patching.seen)
  BY DEF UserLinesStay
<1>1. /\ patching.want \in BOOLEAN /\ patching.seen \in Docs
      /\ UserText(patching.doc) = UserText(patching.seen)
         \/ (patching.want /\ AddsTo(UserText(patching.seen), UserText(patching.doc)))
  BY DEF HermesIInv, WriteHolds, TextKept
<1>2. AddsTo(UserText(patching.seen), UserText(patching.seen))
  <2>1. PICK t : t = UserText(patching.seen)
    OBVIOUS
  <2>2. t \in Seq(HermesLine) /\ <<>> \in Seq(HermesLine)
    BY <1>1, <2>1, TextType DEF Docs
  <2>3. AddsTo(t \o <<>>, t \o (<<>> \o <<>>))
    BY <2>2, AddedBetween
  <2>4. t \o <<>> = t /\ <<>> \o <<>> = <<>>
    BY <2>2, ConcatEmptySeq
  <2> QED
    BY <2>1, <2>3, <2>4
<1> QED
  BY <1>1, <1>2

-----------------------------------------------------------------------------
(* The theorems                                                             *)

\* Whatever the documents of HermesDocuments, the variables keep their types,
\* and a file is left torn only where a write was cut short.
THEOREM HermesTypesHold == HermesSpec => []HermesTypeOK
<1>1. HermesIInv => HermesTypeOK
  BY DEF HermesIInv
<1> QED
  BY <1>1, HermesInvariant, PTL

\* Whatever the user's config.yaml holds, enabling the observer adds lines in
\* one place and disabling it takes its entry alone (hermes_config.go:17-22).
THEOREM UsersLinesAreKept == HermesSpec => []UserLinesStay
<1>1. HermesIInv => UserLinesStay
  BY WritesKeepText
<1> QED
  BY <1>1, HermesInvariant, PTL

\* Whatever the user's config.yaml holds, an Unpatch that succeeded leaves no
\* entry of the observer in plugins.enabled, and no plugin.
THEOREM UnpatchedIsGone == HermesSpec => []UnpatchClears
<1>1. HermesIInv => UnpatchClears
  BY DEF HermesIInv
<1> QED
  BY <1>1, HermesInvariant, PTL

-----------------------------------------------------------------------------
(* The patched half: a document the editor finds nothing to do in is not    *)
(* read back, so it must be one the editor and the parser read alike.       *)

PatchIInv(D) ==
  /\ HermesIInv /\ PatchLoads
  /\ yaml \in D \cup {TornYaml}
  /\ patching.stage = "write" => patching.doc \in D

LEMMA PatchInit ==
  ASSUME NEW D, HermesDocuments \subseteq D, ReadBack(D)
  PROVE  HermesInit => PatchIInv(D)
<1> SUFFICES ASSUME HermesInit PROVE PatchIInv(D)
  OBVIOUS
<1>1. HermesIInv
  BY HermesInitHolds
<1> QED
  BY <1>1 DEF HermesInit, PatchIInv, PatchLoads, NotPatching

LEMMA PatchStep ==
  ASSUME NEW D, HermesDocuments \subseteq D, ReadBack(D)
  PROVE  PatchIInv(D) /\ [HermesNext]_hermesVars => PatchIInv(D)'
<1> SUFFICES ASSUME PatchIInv(D), [HermesNext]_hermesVars PROVE PatchIInv(D)'
  OBVIOUS
<1>a. HermesIInv'
  BY HermesStep DEF PatchIInv
<1>b. /\ outcome # "none" => patching.stage = "idle"
      /\ patching.stage \in {"idle", "apply", "read", "write", "revert"}
      /\ yaml \in Docs \cup {TornYaml}
      /\ WriteHolds /\ StagesHold
  BY DEF PatchIInv, HermesIInv, HermesTypeOK
<1>c. /\ PatchLoads /\ yaml \in D \cup {TornYaml}
      /\ patching.stage = "write" => patching.doc \in D
  BY DEF PatchIInv
<1>f. NotPatching.stage = "idle"
  BY DEF NotPatching
<1> SUFFICES /\ PatchLoads' /\ yaml' \in D \cup {TornYaml}
             /\ patching'.stage = "write" => patching'.doc \in D
  BY <1>a DEF PatchIInv
<1>1. CASE Patch
  <2>1. patching'.stage = "apply" /\ outcome' = "none" /\ yaml' = yaml
    BY <1>1 DEF Patch
  <2> QED
    BY <1>c, <2>1 DEF PatchLoads
<1>2. CASE ApplyPlugin
  <2>1. patching.stage = "apply" /\ patching'.stage = "read" /\ UNCHANGED <<yaml, outcome>>
    BY <1>2 DEF ApplyPlugin
  <2> QED
    BY <1>b, <1>c, <2>1 DEF PatchLoads
<1>3. CASE ApplyPluginFails
  BY <1>3, <1>c, <1>f DEF ApplyPluginFails, HermesFault, PatchLoads
<1>4. CASE Unpatch
  <2>1. patching'.stage = "read" /\ outcome' = "none" /\ yaml' = yaml
    BY <1>4 DEF Unpatch
  <2> QED
    BY <1>c, <2>1 DEF PatchLoads
<1>5. CASE RevertPlugin
  <2>1. patching' = NotPatching /\ outcome' \in {"none", "unpatched"} /\ yaml' = yaml
    BY <1>5 DEF RevertPlugin, Succeeded
  <2> QED
    BY <1>c, <1>f, <2>1 DEF PatchLoads
<1>6. CASE RevertPluginFails
  BY <1>6, <1>c, <1>f DEF RevertPluginFails, HermesFault, PatchLoads
<1>7. CASE ReadYaml
  <2> DEFINE doc == SetMembership(yaml, patching.want).doc
  <2>1. /\ patching.stage = "read" /\ CanEdit(yaml, patching.want) /\ patching.want \in BOOLEAN
        /\ outcome = "none" /\ UNCHANGED <<yaml, plugin, journal>>
        /\ patching.want => plugin = "ours" /\ journal
    BY <1>7, <1>b DEF ReadYaml, StagesHold
  <2>2. yaml \in D /\ yaml # TornYaml /\ SetMembership(yaml, patching.want).ok
    BY <1>c, <2>1 DEF CanEdit, Readable
  <2>3. doc \in D /\ (doc = yaml => Verifies(yaml, patching.want))
    BY <2>1, <2>2 DEF ReadBack
  <2>4. /\ doc # yaml => /\ patching' = [stage |-> "write", want |-> patching.want, began |-> patching.began,
                                         seen |-> yaml, doc |-> doc]
                         /\ outcome' = outcome
        /\ doc = yaml /\ patching.want => Succeeded(TRUE)
        /\ doc = yaml /\ ~patching.want => ToRevert
    BY <1>7 DEF ReadYaml
  <2> HIDE DEF doc
  <2>5. CASE doc # yaml
    <3>1. patching'.doc = doc /\ outcome' = "none"
      BY <2>1, <2>4, <2>5
    <3> QED
      BY <2>1, <2>2, <2>3, <3>1 DEF PatchLoads
  <2>6. CASE doc = yaml /\ patching.want
    <3>1. patching' = NotPatching
      BY <2>4, <2>6 DEF Succeeded
    <3>2. Listed(yaml) /\ ~Barred(yaml)
      BY <2>3, <2>6 DEF Verifies
    <3>3. Listed(yaml') /\ ~Barred(yaml') /\ plugin' = "ours" /\ journal'
      BY <2>1, <2>6, <3>2
    <3> QED
      BY <1>f, <2>1, <2>2, <3>1, <3>3 DEF PatchLoads
  <2>7. CASE doc = yaml /\ ~patching.want
    <3>1. patching'.stage = "revert" /\ outcome' = "none"
      BY <2>1, <2>4, <2>7 DEF ToRevert
    <3> QED
      BY <2>1, <2>2, <3>1 DEF PatchLoads
  <2> QED
    BY <2>1, <2>5, <2>6, <2>7
<1>8. CASE CannotEdit
  <2>1. patching.stage = "read" /\ patching' = NotPatching /\ UNCHANGED <<yaml, outcome>>
    BY <1>8 DEF CannotEdit, GiveUp
  <2> QED
    BY <1>b, <1>c, <1>f, <2>1 DEF PatchLoads
<1>9. CASE WriteYaml
  <2>1. /\ patching.stage = "write" /\ yaml' = patching.doc /\ patching.want \in BOOLEAN /\ patching.doc \in D
        /\ Verifies(patching.doc, patching.want)
        /\ outcome = "none" /\ UNCHANGED <<plugin, journal>>
        /\ patching.want => plugin = "ours" /\ journal
    BY <1>9, <1>b, <1>c DEF WriteYaml, WriteHolds, StagesHold
  <2>2. CASE patching.want
    <3>1. patching' = NotPatching
      BY <1>9, <2>2 DEF WriteYaml, Succeeded
    <3>2. Listed(patching.doc) /\ ~Barred(patching.doc)
      BY <2>1, <2>2 DEF Verifies
    <3>3. Listed(yaml') /\ ~Barred(yaml') /\ plugin' = "ours" /\ journal'
      BY <2>1, <2>2, <3>2
    <3> QED
      BY <1>f, <2>1, <3>1, <3>3 DEF PatchLoads
  <2>3. CASE ~patching.want
    <3>1. patching'.stage = "revert" /\ outcome' = "none"
      BY <1>9, <2>1, <2>3 DEF WriteYaml, ToRevert
    <3> QED
      BY <2>1, <3>1 DEF PatchLoads
  <2> QED
    BY <2>1, <2>2, <2>3
<1>10. CASE WriteYamlFails
  <2>1. patching' = NotPatching /\ outcome' = "none" /\ yaml' \in {yaml, TornYaml}
    BY <1>10 DEF WriteYamlFails, GiveUp, HermesFault
  <2> QED
    BY <1>c, <1>f, <2>1 DEF PatchLoads
<1>11. CASE Killed
  <2>1. patching' = NotPatching /\ outcome' = "none"
    BY <1>11 DEF Killed, HermesFault
  <2>2. yaml' \in D \cup {TornYaml}
    BY <1>11, <1>c DEF Killed
  <2> QED
    BY <1>f, <2>1, <2>2 DEF PatchLoads
<1>12. ASSUME NEW y \in HermesDocuments, UserRewrites(y)
       PROVE  /\ PatchLoads' /\ yaml' \in D \cup {TornYaml}
              /\ patching'.stage = "write" => patching'.doc \in D
  BY <1>12, <1>c DEF UserRewrites, PatchLoads
<1>13. CASE UNCHANGED hermesVars
  BY <1>13, <1>c DEF hermesVars, PatchLoads
<1> QED
  BY <1>1, <1>2, <1>3, <1>4, <1>5, <1>6, <1>7, <1>8, <1>9, <1>10, <1>11, <1>12, <1>13 DEF HermesNext

\* A Patch that succeeded has Hermes load the observer, and an Unpatch that
\* succeeded leaves nothing of it, if the documents of HermesDocuments are
\* among some that are closed under edits and that the parser reads as the
\* editor does where it changes nothing (hermes_config.go:58-62).
THEOREM OutcomesAreTrue ==
  ASSUME NEW D, HermesDocuments \subseteq D, ReadBack(D)
  PROVE  HermesSpec => []OutcomeHolds
<1>1. HermesInit => PatchIInv(D)
  BY PatchInit
<1>2. PatchIInv(D) /\ [HermesNext]_hermesVars => PatchIInv(D)'
  BY PatchStep
<1>3. PatchIInv(D) => OutcomeHolds
  BY DEF PatchIInv, HermesIInv, OutcomeHolds
<1> QED
  BY <1>1, <1>2, <1>3, PTL DEF HermesSpec
=============================================================================
