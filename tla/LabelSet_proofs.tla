-------------------------- MODULE LabelSet_proofs --------------------------
(***************************************************************************)
(* Proofs about LabelSet, for any alphabet, any length of names and any    *)
(* agents, whatever the values of their labels.                            *)
(***************************************************************************)
EXTENDS LabelSet, TLAPS, FiniteSetTheorems, FunctionTheorems, SequenceTheorems,
  WellFoundedInduction

-----------------------------------------------------------------------------
(***************************************************************************)
(* Induction, with the set of what has the property in place of a          *)
(* predicate, so that it can be instantiated.                              *)
(***************************************************************************)

\* A set of naturals that is not empty has a least element.
LEMMA Least ==
  ASSUME NEW T \in SUBSET Nat, T # {}
  PROVE  \E n \in T : \A m \in T : n <= m
<1>1. PICK n \in T : \A m \in T : <<m, n>> \notin OpToRel(<, Nat)
  BY NatLessThanWellFounded, WFMin
<1>2. n \in Nat /\ \A m \in T : m \in Nat
  OBVIOUS
<1>3. \A m \in T : ~(m < n)
  BY <1>1, <1>2 DEF OpToRel
<1>4. \A m \in T : n <= m
  BY <1>2, <1>3
<1> QED BY <1>4

\* Induction over the naturals.
LEMMA Induction ==
  ASSUME NEW G, 0 \in G, \A n \in Nat : n \in G => n + 1 \in G
  PROVE  Nat \subseteq G
<1> SUFFICES ASSUME Nat \ G # {} PROVE FALSE
  OBVIOUS
<1>1. PICK n \in Nat \ G : \A m \in Nat \ G : n <= m
  BY Least, Nat \ G \in SUBSET Nat
<1>2. n # 0
  BY <1>1
<1>3. n - 1 \in Nat /\ ~(n <= n - 1)
  BY <1>1, <1>2
<1>4. n - 1 \in G
  BY <1>1, <1>3
<1>5. (n - 1) + 1 \in G
  BY <1>3, <1>4
<1> QED BY <1>1, <1>5

\* A sequence that is not empty is what Append makes of its front and its last.
LEMMA FrontLast ==
  ASSUME NEW S, NEW s \in Seq(S), s # << >>
  PROVE  /\ Front(s) \in Seq(S)
         /\ Last(s) \in S
         /\ Len(Front(s)) = Len(s) - 1
         /\ s = Append(Front(s), Last(s))
<1>1. Len(s) \in Nat /\ Len(s) > 0
  BY EmptySeq
<1>2. Last(s) \in S
  BY <1>1 DEF Last
<1>3. /\ Front(s) \in Seq(S)
      /\ Len(Front(s)) = Len(s) - 1
      /\ \A i \in 1 .. Len(s) - 1 : Front(s)[i] = s[i]
  <2> DEFINE n == Len(s) - 1
  <2>1. n \in Nat /\ \A i \in 1 .. n : s[i] \in S
    BY <1>1
  <2> HIDE DEF n
  <2>2. /\ SubSeq(s, 1, n) \in Seq(S)
        /\ Len(SubSeq(s, 1, n)) = IF 1 <= n THEN n - 1 + 1 ELSE 0
        /\ \A i \in 1 .. n - 1 + 1 : SubSeq(s, 1, n)[i] = s[1 + i - 1]
    BY <2>1, SubSeqProperties, 1 \in Int, n \in Int
  <2>3. n - 1 + 1 = n /\ \A i \in 1 .. n : 1 + i - 1 = i
    BY <2>1
  <2>4. Len(SubSeq(s, 1, n)) = n /\ \A i \in 1 .. n : SubSeq(s, 1, n)[i] = s[i]
    BY <2>1, <2>2, <2>3
  <2> QED BY <2>2, <2>4 DEF Front, n
<1>4. \A i \in 1 .. Len(s) : s[i] = Append(Front(s), Last(s))[i]
  BY <1>1, <1>2, <1>3, AppendProperties DEF Last
<1>5. Append(Front(s), Last(s)) \in Seq(S) /\ Len(Append(Front(s), Last(s))) = Len(s)
  BY <1>1, <1>2, <1>3, AppendProperties
<1> QED BY <1>2, <1>3, <1>4, <1>5, SeqEqual

\* Front and Last take apart what Append has put together.
LEMMA AppendFrontLast ==
  ASSUME NEW S, NEW s \in Seq(S), NEW r \in S
  PROVE  /\ Append(s, r) \in Seq(S)
         /\ Append(s, r) # << >>
         /\ Len(Append(s, r)) = Len(s) + 1
         /\ Front(Append(s, r)) = s
         /\ Last(Append(s, r)) = r
<1>1. /\ Append(s, r) \in Seq(S)
      /\ Append(s, r) # << >>
      /\ Len(Append(s, r)) = Len(s) + 1
      /\ Last(Append(s, r)) = r
  BY AppendProperties DEF Last
<1>2. /\ Front(Append(s, r)) \in Seq(S)
      /\ Len(Front(Append(s, r))) = Len(s)
      /\ \A i \in 1 .. Len(s) : Front(Append(s, r))[i] = s[i]
  BY <1>1 DEF Front
<1> QED BY <1>1, <1>2, SeqEqual

\* Induction over sequences.
LEMMA SeqInduction ==
  ASSUME NEW S, NEW G, << >> \in G,
         \A s \in Seq(S), r \in S : s \in G => Append(s, r) \in G
  PROVE  Seq(S) \subseteq G
<1> DEFINE H == {n \in Nat : \A s \in Seq(S) : Len(s) = n => s \in G}
<1>1. 0 \in H
  <2>1. \A s \in Seq(S) : Len(s) = 0 => s = << >>
    BY EmptySeq
  <2> QED BY <2>1
<1>2. ASSUME NEW n \in Nat, n \in H PROVE n + 1 \in H
  <2>1. SUFFICES ASSUME NEW s \in Seq(S), Len(s) = n + 1 PROVE s \in G
    OBVIOUS
  <2>2. s # << >>
    BY <2>1
  <2>3. Front(s) \in G
    BY <1>2, <2>1, <2>2, FrontLast
  <2>4. Append(Front(s), Last(s)) \in G
    BY <2>2, <2>3, FrontLast
  <2>5. s = Append(Front(s), Last(s))
    BY <2>2, FrontLast
  <2> QED BY <2>4, <2>5
<1>3. Nat \subseteq H
  <2> HIDE DEF H
  <2> QED BY <1>1, <1>2, Induction
<1>4. \A s \in Seq(S) : Len(s) \in H
  BY <1>3, LenProperties
<1> QED BY <1>4

-----------------------------------------------------------------------------
(***************************************************************************)
(* The recursion of Fed.                                                   *)
(***************************************************************************)
Fresh == Step(NewParser, NoLabels, TRUE)

Upto(n) == {s \in Text : Len(s) <= n}

\* f is Fed on the texts of at most n runes.
IsRun(f, n) ==
  f = [s \in Upto(n) |-> IF s = << >> THEN Fresh ELSE Feed(f[Front(s)], Last(s))]

\* The front of a text is a text with one rune less.
LEMMA FrontUpto ==
  ASSUME NEW n \in Nat, NEW s \in Upto(n), s # << >>
  PROVE  n - 1 \in Nat /\ Front(s) \in Upto(n - 1) /\ Front(s) \in Upto(n)
<1>1. s \in Text /\ Len(s) \in Nat /\ Len(s) <= n /\ Len(s) > 0
  BY EmptySeq, LenProperties DEF Upto, Text
<1>2. Front(s) \in Text /\ Len(Front(s)) = Len(s) - 1
  BY FrontLast DEF Text, Upto
<1> QED BY <1>1, <1>2 DEF Upto

\* Two runs agree on the texts both are about.
LEMMA RunsAgree ==
  ASSUME NEW m \in Nat, NEW n \in Nat, NEW f, NEW g, IsRun(f, m), IsRun(g, n)
  PROVE  \A s \in Upto(m) \cap Upto(n) : f[s] = g[s]
<1> DEFINE G == {s \in Text : s \in Upto(m) \cap Upto(n) => f[s] = g[s]}
<1>1. << >> \in G
  <2>1. << >> \in Text
    BY EmptySeq DEF Text
  <2>2. << >> \in Upto(m) \cap Upto(n) => f[<< >>] = Fresh /\ g[<< >>] = Fresh
    BY DEF IsRun
  <2> QED BY <2>1, <2>2
<1>2. ASSUME NEW s \in Text, NEW r \in Alphabet, s \in G PROVE Append(s, r) \in G
  <2> DEFINE t == Append(s, r)
  <2>1. t \in Text /\ t # << >> /\ Front(t) = s
    BY AppendFrontLast DEF Text
  <2>2. SUFFICES ASSUME t \in Upto(m), t \in Upto(n) PROVE f[t] = g[t]
    BY <2>1
  <2>3. s \in Upto(m) /\ s \in Upto(n)
    BY <2>1, <2>2, FrontUpto
  <2>4. f[s] = g[s]
    BY <1>2, <2>3
  <2>5. f[t] = Feed(f[s], Last(t)) /\ g[t] = Feed(g[s], Last(t))
    BY <2>1, <2>2 DEF IsRun
  <2> QED BY <2>4, <2>5
<1>3. Text \subseteq G
  <2> HIDE DEF G
  <2> QED BY <1>1, <1>2, SeqInduction DEF Text
<1> QED BY <1>3 DEF Upto

\* There is a run for every length.
LEMMA RunsExist == \A n \in Nat : \E f : IsRun(f, n)
<1> DEFINE G == {n \in Nat : \E f : IsRun(f, n)}
<1>1. 0 \in G
  <2> DEFINE f == [s \in Upto(0) |-> Fresh]
  <2>1. \A s \in Upto(0) : s = << >>
    BY EmptySeq, LenProperties DEF Upto, Text
  <2>2. IsRun(f, 0)
    BY <2>1 DEF IsRun
  <2> QED BY <2>2
<1>2. ASSUME NEW n \in Nat, n \in G PROVE n + 1 \in G
  <2>1. PICK f : IsRun(f, n)
    BY <1>2
  <2> DEFINE g == [s \in Upto(n + 1) |->
                     IF s = << >> THEN Fresh ELSE Feed(f[Front(s)], Last(s))]
  <2>2. \A s \in Upto(n) : s \in Upto(n + 1) /\ g[s] = f[s]
    <3>1. \A s \in Upto(n) : s \in Upto(n + 1)
      BY LenProperties DEF Upto, Text
    <3> QED BY <2>1, <3>1 DEF IsRun
  <2>3. \A s \in Upto(n + 1) : s # << >> => g[Front(s)] = f[Front(s)]
    <3>1. \A s \in Upto(n + 1) : s # << >> => Front(s) \in Upto(n)
      BY FrontUpto, (n + 1) - 1 = n, n + 1 \in Nat
    <3> QED BY <2>2, <3>1
  <2>4. g = [s \in Upto(n + 1) |->
               IF s = << >> THEN Fresh ELSE Feed(g[Front(s)], Last(s))]
    BY <2>3
  <2>5. IsRun(g, n + 1)
    BY <2>4 DEF IsRun
  <2> QED BY <2>5
<1>3. Nat \subseteq G
  <2> HIDE DEF G
  <2> QED BY <1>1, <1>2, Induction
<1> QED BY <1>3

\* Fed is what its definition says.
LEMMA FedDefined ==
  Fed = [s \in Text |-> IF s = << >> THEN Fresh ELSE Feed(Fed[Front(s)], Last(s))]
<1> DEFINE run(n) == CHOOSE f : IsRun(f, n)
           F == [s \in Text |-> run(Len(s))[s]]
<1>1. \A n \in Nat : IsRun(run(n), n)
  BY RunsExist
<1>2. ASSUME NEW s \in Text, s # << >> PROVE F[s] = Feed(F[Front(s)], Last(s))
  <2>1. Len(s) \in Nat /\ s \in Upto(Len(s))
    BY LenProperties DEF Upto, Text
  <2>2. /\ Front(s) \in Text
        /\ Len(Front(s)) \in Nat
        /\ Front(s) \in Upto(Len(s))
        /\ Front(s) \in Upto(Len(Front(s)))
    BY <1>2, <2>1, FrontLast, LenProperties DEF Upto, Text
  <2>3. run(Len(s))[Front(s)] = run(Len(Front(s)))[Front(s)]
    <3> HIDE DEF run
    <3> QED BY <1>1, <2>1, <2>2, RunsAgree
  <2>4. run(Len(s))[s] = Feed(run(Len(s))[Front(s)], Last(s))
    <3> HIDE DEF run
    <3> QED BY <1>1, <1>2, <2>1 DEF IsRun
  <2>5. F[s] = run(Len(s))[s] /\ F[Front(s)] = run(Len(Front(s)))[Front(s)]
    BY <2>2
  <2> QED BY <2>3, <2>4, <2>5
<1>3. F[<< >>] = Fresh
  <2>1. << >> \in Text /\ Len(<< >>) = 0 /\ << >> \in Upto(0)
    BY EmptySeq DEF Text, Upto
  <2>2. run(0)[<< >>] = Fresh
    <3> HIDE DEF run
    <3> QED BY <1>1, <2>1 DEF IsRun
  <2> QED BY <2>1, <2>2
<1>4. F = [s \in Text |-> IF s = << >> THEN Fresh ELSE Feed(F[Front(s)], Last(s))]
  <2> HIDE DEF F
  <2>1. \A s \in Text : F[s] = IF s = << >> THEN Fresh ELSE Feed(F[Front(s)], Last(s))
    BY <1>2, <1>3
  <2>2. F = [s \in Text |-> F[s]]
    BY DEF F
  <2> QED BY <2>1, <2>2
<1> HIDE DEF F
<1> QED BY <1>4 DEF Fed, Fresh

\* A text is read one rune after the other.
LEMMA FedStep ==
  /\ Fed[<< >>] = Fresh
  /\ \A s \in Text, r \in Alphabet :
       Append(s, r) \in Text /\ Fed[Append(s, r)] = Feed(Fed[s], r)
<1>1. << >> \in Text
  BY EmptySeq DEF Text
<1>2. ASSUME NEW s \in Text, NEW r \in Alphabet
      PROVE  /\ Append(s, r) \in Text /\ Append(s, r) # << >>
             /\ Front(Append(s, r)) = s /\ Last(Append(s, r)) = r
  BY AppendFrontLast DEF Text
<1> QED BY <1>1, <1>2, FedDefined

-----------------------------------------------------------------------------
(***************************************************************************)
(* Trim.                                                                   *)
(***************************************************************************)

\* Min and Max of positions in a text.
LEMMA MinMax ==
  ASSUME NEW n \in Nat, NEW T \in SUBSET (1 .. n), T # {}
  PROVE  /\ Min(T) \in T /\ \A i \in T : Min(T) <= i
         /\ Max(T) \in T /\ \A i \in T : i <= Max(T)
<1>1. T \in SUBSET Nat
  OBVIOUS
<1>2. PICK a \in T : \A i \in T : a <= i
  BY <1>1, Least
<1> DEFINE U == {n - i : i \in T}
<1>3. U \in SUBSET Nat /\ U # {}
  OBVIOUS
<1>4. PICK c \in U : \A j \in U : c <= j
  BY <1>3, Least
<1>5. PICK b \in T : c = n - b
  BY <1>4
<1>6. \A i \in T : n - b <= n - i
  BY <1>4, <1>5
<1>7. \A i \in T : b >= i
  BY <1>1, <1>6
<1>8. Max(T) \in T /\ \A i \in T : Max(T) >= i
  BY <1>7 DEF Max
<1>9. Min(T) \in T /\ \A i \in T : Min(T) <= i
  BY <1>2 DEF Min
<1> QED BY <1>1, <1>8, <1>9

\* A position in a text is a number.
LEMMA InRange ==
  ASSUME NEW n \in Nat, NEW i \in 1 .. n
  PROVE  i \in Nat /\ 1 <= i /\ i <= n
OBVIOUS

\* Two naturals neither of which is the smaller are the same.
LEMMA Between == \A m \in Nat, n \in Nat : m <= n /\ n <= m => m = n
OBVIOUS

\* A part of a text.
LEMMA SubText ==
  ASSUME NEW S, NEW s \in Seq(S), NEW a \in 1 .. Len(s), NEW b \in 1 .. Len(s), a <= b
  PROVE  /\ SubSeq(s, a, b) \in Seq(S)
         /\ Len(SubSeq(s, a, b)) = b - a + 1
         /\ \A i \in 1 .. b - a + 1 : SubSeq(s, a, b)[i] = s[a + i - 1]
<1>1. Len(s) \in Nat /\ \A i \in a .. b : s[i] \in S
  BY LenProperties
<1>2. a \in Int /\ b \in Int
  OBVIOUS
<1>3. /\ SubSeq(s, a, b) \in Seq(S)
      /\ Len(SubSeq(s, a, b)) = IF a <= b THEN b - a + 1 ELSE 0
      /\ \A i \in 1 .. b - a + 1 : SubSeq(s, a, b)[i] = s[a + i - 1]
  BY <1>1, <1>2, SubSeqProperties
<1> QED BY <1>3

\* A text that is not empty has a first and a last rune.
LEMMA NonEmpty ==
  ASSUME NEW S, NEW s \in Seq(S), s # << >>
  PROVE  /\ Len(s) \in Nat /\ Len(s) >= 1 /\ DOMAIN s = 1 .. Len(s)
         /\ 1 \in 1 .. Len(s) /\ Len(s) \in 1 .. Len(s)
<1>1. Len(s) \in Nat /\ DOMAIN s = 1 .. Len(s)
  BY LenProperties
<1>2. Len(s) # 0
  BY EmptySeq
<1> QED BY <1>1, <1>2

Inked(s) == {i \in DOMAIN s : s[i] # " "}

\* A text with no space at its ends is not changed.
LEMMA TrimTrimmed ==
  ASSUME NEW S, NEW s \in Seq(S), s # << >> => s[1] # " " /\ s[Len(s)] # " "
  PROVE  Trim(s) = s
<1>1. Len(s) \in Nat /\ DOMAIN s = 1 .. Len(s)
  BY LenProperties
<1>2. CASE s = << >>
  <2>1. Inked(s) = {}
    BY <1>2 DEF Inked
  <2> QED BY <1>2, <2>1 DEF Trim, Inked
<1>3. CASE s # << >>
  <2> DEFINE a == Min(Inked(s))
             b == Max(Inked(s))
  <2>1. 1 \in 1 .. Len(s) /\ Len(s) \in 1 .. Len(s)
    BY <1>3, NonEmpty
  <2>2. 1 \in Inked(s) /\ Len(s) \in Inked(s) /\ Inked(s) \in SUBSET (1 .. Len(s))
    BY <1>1, <1>3, <2>1 DEF Inked
  <2>3. a \in 1 .. Len(s) /\ a <= 1 /\ b \in 1 .. Len(s) /\ Len(s) <= b
    BY <1>1, <2>2, MinMax
  <2> HIDE DEF a, b
  <2>6. a \in Nat /\ 1 <= a /\ b \in Nat /\ b <= Len(s)
    BY <1>1, <2>3, InRange
  <2>4. a = 1 /\ b = Len(s)
    <3>1. a = 1
      BY <2>3, <2>6, Between, 1 \in Nat
    <3>2. b = Len(s)
      BY <1>1, <2>3, <2>6, Between
    <3> QED BY <3>1, <3>2
  <2>5. Trim(s) = SubSeq(s, a, b)
    BY <2>2 DEF Trim, Inked, a, b
  <2> QED BY <2>4, <2>5, SubSeqFull
<1> QED BY <1>2, <1>3

\* What strings.TrimSpace is relied on for.
LEMMA TrimProperties ==
  ASSUME NEW S, NEW s \in Seq(S)
  PROVE  /\ Trim(s) \in Seq(S)
         /\ ToSet(Trim(s)) \subseteq ToSet(s)
         /\ Trim(Trim(s)) = Trim(s)
<1>1. Len(s) \in Nat /\ DOMAIN s = 1 .. Len(s)
  BY LenProperties
<1>2. CASE Inked(s) = {}
  <2>1. Trim(s) = << >> /\ << >> \in Seq(S)
    BY <1>2, EmptySeq DEF Trim, Inked
  <2>2. Trim(<< >>) = << >>
    BY <2>1, TrimTrimmed
  <2>3. ToSet(<< >>) = {}
    BY DEF ToSet
  <2> QED BY <2>1, <2>2, <2>3
<1>3. CASE Inked(s) # {}
  <2> DEFINE a == Min(Inked(s))
             b == Max(Inked(s))
             t == SubSeq(s, a, b)
  <2>1. a \in Inked(s) /\ b \in Inked(s) /\ a <= b
    BY <1>1, <1>3, MinMax DEF Inked
  <2>2. a \in 1 .. Len(s) /\ b \in 1 .. Len(s) /\ s[a] # " " /\ s[b] # " "
    BY <1>1, <2>1 DEF Inked
  <2>3. Trim(s) = t
    BY <1>3 DEF Trim, Inked
  <2> HIDE DEF a, b
  <2>4. /\ t \in Seq(S) /\ Len(t) = b - a + 1
        /\ \A i \in 1 .. b - a + 1 : t[i] = s[a + i - 1]
    BY <2>1, <2>2, SubText
  <2> HIDE DEF t
  <2>5. DOMAIN t = 1 .. b - a + 1
    BY <2>4, LenProperties
  <2>9. a \in Nat /\ b \in Nat /\ 1 <= a /\ b <= Len(s)
    BY <1>1, <2>2, InRange
  <2>6. ToSet(t) \subseteq ToSet(s)
    <3>1. \A i \in 1 .. b - a + 1 : a + i - 1 \in 1 .. Len(s)
      BY <1>1, <2>1, <2>9
    <3> QED BY <1>1, <2>4, <2>5, <3>1 DEF ToSet
  <2>7. t[1] # " " /\ t[Len(t)] # " "
    <3>1. 1 \in 1 .. b - a + 1 /\ a + 1 - 1 = a
      BY <2>1, <2>9
    <3>2. b - a + 1 \in 1 .. b - a + 1 /\ a + (b - a + 1) - 1 = b
      BY <2>1, <2>9
    <3> QED BY <2>2, <2>4, <3>1, <3>2
  <2>8. Trim(t) = t
    BY <2>4, <2>7, TrimTrimmed
  <2> QED BY <2>3, <2>4, <2>6, <2>8
<1> QED BY <1>2, <1>3

\* A text without a space is not changed.
LEMMA TrimNoSpace ==
  ASSUME NEW S, NEW s \in Seq(S), " " \notin ToSet(s)
  PROVE  Trim(s) = s
<1>1. s # << >> => 1 \in DOMAIN s /\ Len(s) \in DOMAIN s
  BY NonEmpty
<1> QED BY <1>1, TrimTrimmed DEF ToSet

-----------------------------------------------------------------------------
(***************************************************************************)
(* The parser reads one rune.                                              *)
(***************************************************************************)
At(state, key, value) == [state |-> state, key |-> key, value |-> value]

\* The switch of Parse, written out: the runes of the name, and its end.
LEMMA ReadNameRune ==
  ASSUME NEW a, NEW v, NEW k, NEW r
  PROVE  r # "{" => Read(At("name", a, v), k, r) = Step(At("name", a, Append(v, r)), k, TRUE)
<1>1. Read(At("name", a, v), k, r) = nameParserCase(At("name", a, v), k, r)
  BY DEF Read, At
<1>2. [At("name", a, v) EXCEPT !.value = Append(@, r)] = At("name", a, Append(v, r))
  BY DEF At
<1> QED BY <1>1, <1>2 DEF nameParserCase

\* A brace ends the name, which is stored if it is valid and refused otherwise.
LEMMA ReadNameEnd ==
  ASSUME NEW a, NEW v, NEW k
  PROVE  Read(At("name", a, v), k, "{") =
           IF ValidServiceName(Trim(v))
           THEN Step(At("tagLabelSet", a, v), With(k, Name, Trim(v)), TRUE)
           ELSE Step(At("tagLabelSet", a, v), k, FALSE)
<1> DEFINE p == At("name", a, v)
           q == At("tagLabelSet", a, v)
<1>1. Read(p, k, "{") = nameParserCase(p, k, "{")
  BY DEF Read, At
<1>2. p.value = v
  BY DEF At
<1>3. [p EXCEPT !.state = "tagLabelSet"] = q
  BY DEF At
<1> QED BY <1>1, <1>2, <1>3 DEF nameParserCase

\* The runes of a key, its end, and the end of the set.
LEMMA ReadKeyRune ==
  ASSUME NEW a, NEW v, NEW k, NEW r
  PROVE  r \notin {"}", "="} =>
           Read(At("tagLabelSet", a, v), k, r) = Step(At("tagLabelSet", Append(a, r), v), k, TRUE)
<1> DEFINE p == At("tagLabelSet", a, v)
<1>1. Read(p, k, r) = tagLabelSetParserCase(p, k, r)
  BY DEF Read, At
<1>2. [p EXCEPT !.key = Append(@, r)] = At("tagLabelSet", Append(a, r), v)
  BY DEF At
<1> QED BY <1>1, <1>2 DEF tagLabelSetParserCase

\* The sign = ends the key, and the buffer of the value is emptied.
LEMMA ReadKeyEnd ==
  ASSUME NEW a, NEW v, NEW k
  PROVE  Read(At("tagLabelSet", a, v), k, "=") = Step(At("tagValue", a, << >>), k, TRUE)
<1> DEFINE p == At("tagLabelSet", a, v)
           q == At("tagLabelSet", a, << >>)
<1>1. Read(p, k, "=") = tagLabelSetParserCase(p, k, "=")
  BY DEF Read, At
<1>2. [p EXCEPT !.value = << >>] = q
  BY DEF At
<1>3. [q EXCEPT !.state = "tagValue"] = At("tagValue", a, << >>)
  BY DEF At
<1> QED BY <1>1, <1>2, <1>3 DEF tagLabelSetParserCase

\* A brace in the place of a key ends the set.
LEMMA ReadSetEnd ==
  ASSUME NEW a, NEW v, NEW k
  PROVE  Read(At("tagLabelSet", a, v), k, "}") = Step(At("done", a, v), k, TRUE)
<1> DEFINE p == At("tagLabelSet", a, v)
<1>1. Read(p, k, "}") = tagLabelSetParserCase(p, k, "}")
  BY DEF Read, At
<1>2. [p EXCEPT !.state = "done"] = At("done", a, v)
  BY DEF At
<1> QED BY <1>1, <1>2 DEF tagLabelSetParserCase

\* The runes of a value, and its end.
LEMMA ReadValueRune ==
  ASSUME NEW a, NEW v, NEW k, NEW r
  PROVE  r \notin {",", "}"} =>
           Read(At("tagValue", a, v), k, r) = Step(At("tagValue", a, Append(v, r)), k, TRUE)
<1> DEFINE p == At("tagValue", a, v)
<1>1. Read(p, k, r) = tagValueParserCase(p, k, r)
  BY DEF Read, At
<1>2. [p EXCEPT !.value = Append(@, r)] = At("tagValue", a, Append(v, r))
  BY DEF At
<1> QED BY <1>1, <1>2 DEF tagValueParserCase

\* A comma or a brace ends the value, which is stored under a key that is valid.
LEMMA ReadValueEnd ==
  ASSUME NEW a, NEW v, NEW k, NEW r
  PROVE  r \in {",", "}"} => Read(At("tagValue", a, v), k, r) =
           IF Trim(a) = Name \/ ValidLabelName(Trim(a))
           THEN Step(At("tagLabelSet", << >>, v), With(k, Trim(a), Trim(v)), TRUE)
           ELSE Step(At("tagLabelSet", a, v), k, FALSE)
<1> DEFINE p == At("tagValue", a, v)
           q == At("tagLabelSet", a, v)
<1>1. Read(p, k, r) = tagValueParserCase(p, k, r)
  BY DEF Read, At
<1>2. p.key = a /\ p.value = v
  BY DEF At
<1>3. [p EXCEPT !.state = "tagLabelSet"] = q
  BY DEF At
<1>4. [q EXCEPT !.key = << >>] = At("tagLabelSet", << >>, v)
  BY DEF At
<1> QED BY <1>1, <1>2, <1>3, <1>4 DEF tagValueParserCase, IsLabelNameReserved

\* After the set the runes are skipped.
LEMMA ReadDone ==
  ASSUME NEW a, NEW v, NEW k, NEW r
  PROVE  Read(At("done", a, v), k, r) = Step(At("done", a, v), k, TRUE)
BY DEF At, Read

\* What a step yields.
LEMMA StepFields ==
  ASSUME NEW p, NEW k, NEW b
  PROVE  Step(p, k, b).parser = p /\ Step(p, k, b).labels = k /\ Step(p, k, b).ok = b
BY DEF Step

\* A step says whether it failed.
LEMMA StepFails ==
  ASSUME NEW p, NEW k
  PROVE  ~Step(p, k, FALSE).ok /\ Step(p, k, TRUE).ok
BY DEF Step

\* A parser that has not failed reads on.
LEMMA FeedOn ==
  ASSUME NEW p, NEW k, NEW r
  PROVE  Feed(Step(p, k, TRUE), r) = Read(p, k, r)
BY DEF Feed, Step

\* A parser that has failed stays so.
LEMMA FeedFailed ==
  ASSUME NEW st, NEW r, ~st.ok
  PROVE  Feed(st, r) = st
BY DEF Feed

-----------------------------------------------------------------------------
(***************************************************************************)
(* A pooled parser gives what a new one gives.                             *)
(***************************************************************************)

\* While a call of Parse runs the parser is where a new one would be after the
\* runes it has read, whatever the pool gave it.
InStep ==
  /\ input \in Text
  /\ call = "parsing" =>
       Fed[input].ok /\ parser = Fed[input].parser /\ labels = Fed[input].labels
  /\ call = "parsed" => Parse(input).ok /\ labels = Parse(input).labels
  /\ call = "failed" => ~Parse(input).ok

\* The runes of requests are in the alphabet, and so is the brace Parse appends.
LEMMA RunesInAlphabet == Runes \subseteq Alphabet /\ "{" \in Alphabet
BY DEF Alphabet

\* At first no call runs.
LEMMA InitInStep == Init => InStep
BY EmptySeq DEF Init, InStep, Text

\* Every step of a request keeps the pooled parser in step with a new one.
LEMMA NextInStep == InStep /\ [Next]_vars => InStep'
<1> SUFFICES ASSUME InStep, [Next]_vars PROVE InStep'
  OBVIOUS
<1>1. CASE Begin
  <2>1. Fed[<< >>] = Step(NewParser, NoLabels, TRUE)
    BY FedStep DEF Fresh
  <2>2. << >> \in Text
    BY EmptySeq DEF Text
  <2>3. /\ Fed[<< >>].ok
        /\ Fed[<< >>].parser = NewParser
        /\ Fed[<< >>].labels = NoLabels
    BY <2>1 DEF Step
  <2> QED BY <1>1, <2>2, <2>3 DEF Begin, Reset, InStep
<1>2. ASSUME NEW r \in Runes, ReadRune(r, FALSE) PROVE InStep'
  <2> DEFINE st == Read(parser, labels, r)
             t == Append(input, r)
  <2>1. r \in Alphabet /\ input \in Text
    BY RunesInAlphabet DEF InStep
  <2>2. t \in Text /\ Fed[t] = Feed(Fed[input], r)
    BY <2>1, FedStep
  <2>3. Fed[t] = st
    BY <1>2, <2>2 DEF Feed, ReadRune, InStep
  <2>4. input' = t /\ parser' = st.parser /\ labels' = st.labels
    BY <1>2 DEF ReadRune
  <2>5. CASE ~st.ok
    <3>1. call' = "failed"
      BY <1>2, <2>5 DEF ReadRune
    <3>2. Parse(t) = Feed(Fed[t], "{")
      BY <2>2, FedStep, RunesInAlphabet DEF Parse
    <3>3. ~Parse(t).ok
      BY <2>3, <2>5, <3>2 DEF Feed
    <3> QED BY <2>2, <2>4, <3>1, <3>3 DEF InStep
  <2>6. CASE st.ok
    <3>1. call' = "parsing"
      BY <1>2, <2>6 DEF ReadRune
    <3> QED BY <2>2, <2>3, <2>4, <2>6, <3>1 DEF InStep
  <2> QED BY <2>5, <2>6
<1>3. CASE ReadRune("{", TRUE)
  <2> DEFINE st == Read(parser, labels, "{")
  <2>1. Parse(input) = Feed(Fed[input], "{")
    BY FedStep, RunesInAlphabet DEF Parse, InStep
  <2>2. Parse(input) = st
    BY <1>3, <2>1 DEF Feed, ReadRune, InStep
  <2>3. input' = input /\ labels' = st.labels
    BY <1>3 DEF ReadRune
  <2>4. CASE ~st.ok
    BY <1>3, <2>2, <2>3, <2>4 DEF ReadRune, InStep
  <2>5. CASE st.ok
    BY <1>3, <2>2, <2>3, <2>5 DEF ReadRune, InStep
  <2> QED BY <2>4, <2>5
<1>4. ASSUME NEW p \in Peers, Ingest(p) PROVE InStep'
  BY <1>4 DEF Ingest, InStep
<1>5. CASE UNCHANGED vars
  BY <1>5 DEF vars, InStep, Parse
<1> QED BY <1>1, <1>2, <1>3, <1>4, <1>5 DEF Next

\* A pooled parser gives what a new one gives, for every alphabet, every length
\* of names and every sequence of requests before (parser.reset, sync.Pool).
THEOREM ParserReused == Spec => []PoolIndependent
<1>1. InStep => PoolIndependent
  BY DEF InStep, PoolIndependent
<1> QED BY <1>1, InitInStep, NextInStep, PTL DEF Spec

-----------------------------------------------------------------------------
(***************************************************************************)
(* What the parser lets through.                                           *)
(***************************************************************************)

\* A value that is written and read as it is.
Clean(v) == v \in Text /\ ToSet(v) \cap {",", "}"} = {} /\ Trim(v) = v

CleanLabels(k) ==
  /\ IsFiniteSet(DOMAIN k)
  /\ k = [key \in DOMAIN k |-> k[key]]
  /\ \A key \in DOMAIN k : key \in Text /\ (key = Name \/ ValidLabelName(key)) /\ Clean(k[key])

\* A parser that has not failed: it has a name once it is past the name, and
\* the value it reads has not ended.
Sound(t, a, v, k) ==
  /\ t \in {"name", "tagLabelSet", "tagValue", "done"}
  /\ a \in Text /\ v \in Text
  /\ CleanLabels(k)
  /\ t # "name" => Name \in DOMAIN k
  /\ t = "tagValue" => ToSet(v) \cap {",", "}"} = {}

\* What an assignment to a map stores, and what it leaves alone.
LEMMA WithLabel ==
  ASSUME NEW k, NEW key, NEW v
  PROVE  /\ DOMAIN With(k, key, v) = DOMAIN k \cup {key}
         /\ With(k, key, v)[key] = v
         /\ \A j \in DOMAIN k : j # key => With(k, key, v)[j] = k[j]
         /\ With(k, key, v) = [j \in DOMAIN With(k, key, v) |-> With(k, key, v)[j]]
BY DEF With

\* Labels that are clean stay so when a clean one is stored.
LEMMA WithClean ==
  ASSUME NEW k, NEW key, NEW v, CleanLabels(k),
         key \in Text, key = Name \/ ValidLabelName(key), Clean(v)
  PROVE  CleanLabels(With(k, key, v))
<1> DEFINE w == With(k, key, v)
<1>1. /\ DOMAIN w = DOMAIN k \cup {key}
      /\ w[key] = v
      /\ \A j \in DOMAIN k : j # key => w[j] = k[j]
      /\ w = [j \in DOMAIN w |-> w[j]]
  BY DEF With
<1> HIDE DEF w
<1>2. IsFiniteSet(DOMAIN w)
  BY <1>1, FS_AddElement DEF CleanLabels
<1>3. \A j \in DOMAIN w : j \in Text /\ (j = Name \/ ValidLabelName(j)) /\ Clean(w[j])
  BY <1>1 DEF CleanLabels
<1>4. CleanLabels(w)
  BY <1>1, <1>2, <1>3 DEF CleanLabels
<1> QED BY <1>4 DEF w

\* A rune is of the text it is appended to.
LEMMA AppendRunes ==
  ASSUME NEW S, NEW s \in Seq(S), NEW r \in S
  PROVE  ToSet(Append(s, r)) = ToSet(s) \cup {r}
<1>1. /\ DOMAIN Append(s, r) = 1 .. Len(s) + 1
      /\ \A i \in 1 .. Len(s) : Append(s, r)[i] = s[i]
      /\ Append(s, r)[Len(s) + 1] = r
      /\ DOMAIN s = 1 .. Len(s)
      /\ Len(s) \in Nat
  BY AppendProperties, LenProperties
<1>2. 1 .. Len(s) + 1 = (1 .. Len(s)) \cup {Len(s) + 1}
  BY <1>1
<1> QED BY <1>1, <1>2 DEF ToSet

\* The parser fails on r or stays sound, and a brace ends the name.
SoundOn(t, a, v, k, r) ==
  \/ ~Read(At(t, a, v), k, r).ok
  \/ \E u, b, w, l : /\ Sound(u, b, w, l)
                     /\ Read(At(t, a, v), k, r) = Step(At(u, b, w), l, TRUE)
                     /\ r = "{" => u # "name"

\* One lemma for each state of the parser: what a sound one yields while the name is read.
LEMMA SoundName ==
  ASSUME NEW a, NEW v, NEW k, NEW r \in Alphabet, Sound("name", a, v, k)
  PROVE  SoundOn("name", a, v, k, r)
<1>1. CASE r # "{"
  <2>1. Append(v, r) \in Text
    BY AppendFrontLast DEF Text, Sound
  <2>2. Sound("name", a, Append(v, r), k)
    BY <2>1 DEF Sound
  <2>3. Read(At("name", a, v), k, r) = Step(At("name", a, Append(v, r)), k, TRUE)
    BY <1>1, ReadNameRune
  <2> QED BY <1>1, <2>2, <2>3 DEF SoundOn
<1>2. CASE r = "{" /\ ValidServiceName(Trim(v))
  <2> DEFINE l == With(k, Name, Trim(v))
  <2>1. Trim(v) \in Text /\ Trim(Trim(v)) = Trim(v)
    BY TrimProperties DEF Text, Sound
  <2>2. ToSet(Trim(v)) \cap {",", "}"} = {}
    BY <1>2 DEF ValidServiceName, ServiceNameRunes, LabelNameRunes
  <2>3. Name \in Text
    <3>1. "N" \in Alphabet
      BY DEF Alphabet, ServiceNameRunes, LabelNameRunes
    <3> QED BY <3>1 DEF Name, Text
  <2>4. Clean(Trim(v)) /\ CleanLabels(k)
    BY <2>1, <2>2 DEF Clean, Sound
  <2>5. CleanLabels(l) /\ Name \in DOMAIN l
    <3>1. CleanLabels(l)
      BY <2>3, <2>4, WithClean
    <3>2. DOMAIN l = DOMAIN k \cup {Name}
      BY WithLabel
    <3> QED BY <3>1, <3>2
  <2>6. Sound("tagLabelSet", a, v, l)
    <3> HIDE DEF l
    <3> QED BY <2>5 DEF Sound
  <2>7. Read(At("name", a, v), k, "{") = Step(At("tagLabelSet", a, v), l, TRUE)
    BY <1>2, ReadNameEnd
  <2>8. "tagLabelSet" # "name"
    OBVIOUS
  <2> HIDE DEF l
  <2> QED BY <1>2, <2>6, <2>7, <2>8 DEF SoundOn
<1>3. CASE r = "{" /\ ~ValidServiceName(Trim(v))
  <2>1. Read(At("name", a, v), k, "{") = Step(At("tagLabelSet", a, v), k, FALSE)
    BY <1>3, ReadNameEnd
  <2> QED BY <1>3, <2>1, StepFails DEF SoundOn
<1> QED BY <1>1, <1>2, <1>3

\* The same while a key is read.
LEMMA SoundKey ==
  ASSUME NEW a, NEW v, NEW k, NEW r \in Alphabet, Sound("tagLabelSet", a, v, k)
  PROVE  SoundOn("tagLabelSet", a, v, k, r)
<1>1. CASE r = "}"
  <2>1. Sound("done", a, v, k)
    BY DEF Sound
  <2>2. Read(At("tagLabelSet", a, v), k, "}") = Step(At("done", a, v), k, TRUE)
    BY ReadSetEnd
  <2> QED BY <1>1, <2>1, <2>2 DEF SoundOn
<1>2. CASE r = "="
  <2>1. ToSet(<< >>) = {} /\ << >> \in Text
    BY EmptySeq DEF ToSet, Text
  <2>2. Sound("tagValue", a, << >>, k)
    BY <2>1 DEF Sound
  <2>3. Read(At("tagLabelSet", a, v), k, "=") = Step(At("tagValue", a, << >>), k, TRUE)
    BY ReadKeyEnd
  <2>4. "tagValue" # "name"
    OBVIOUS
  <2> QED BY <1>2, <2>2, <2>3, <2>4 DEF SoundOn
<1>3. CASE r \notin {"}", "="}
  <2>1. Append(a, r) \in Text
    BY AppendFrontLast DEF Text, Sound
  <2>2. Sound("tagLabelSet", Append(a, r), v, k)
    BY <2>1 DEF Sound
  <2>3. Read(At("tagLabelSet", a, v), k, r) = Step(At("tagLabelSet", Append(a, r), v), k, TRUE)
    BY <1>3, ReadKeyRune
  <2>4. "tagLabelSet" # "name"
    OBVIOUS
  <2> QED BY <2>2, <2>3, <2>4 DEF SoundOn
<1> QED BY <1>1, <1>2, <1>3

\* The same while a value is read.
LEMMA SoundValue ==
  ASSUME NEW a, NEW v, NEW k, NEW r \in Alphabet, Sound("tagValue", a, v, k)
  PROVE  SoundOn("tagValue", a, v, k, r)
<1>1. CASE r \notin {",", "}"}
  <2>1. Append(v, r) \in Text /\ ToSet(Append(v, r)) = ToSet(v) \cup {r}
    BY AppendFrontLast, AppendRunes DEF Sound, Text
  <2>2. Sound("tagValue", a, Append(v, r), k)
    BY <1>1, <2>1 DEF Sound
  <2>3. Read(At("tagValue", a, v), k, r) = Step(At("tagValue", a, Append(v, r)), k, TRUE)
    BY <1>1, ReadValueRune
  <2>4. "tagValue" # "name"
    OBVIOUS
  <2> QED BY <2>2, <2>3, <2>4 DEF SoundOn
<1>2. CASE r \in {",", "}"} /\ (Trim(a) = Name \/ ValidLabelName(Trim(a)))
  <2> DEFINE l == With(k, Trim(a), Trim(v))
  <2>1. /\ Trim(v) \in Text /\ Trim(Trim(v)) = Trim(v) /\ Trim(a) \in Text
        /\ ToSet(Trim(v)) \subseteq ToSet(v)
    BY TrimProperties DEF Text, Sound
  <2>2. Clean(Trim(v)) /\ CleanLabels(k) /\ Name \in DOMAIN k
    BY <2>1 DEF Clean, Sound
  <2>3. CleanLabels(l) /\ Name \in DOMAIN l
    <3>1. CleanLabels(l)
      BY <1>2, <2>1, <2>2, WithClean
    <3>2. DOMAIN l = DOMAIN k \cup {Trim(a)}
      BY WithLabel
    <3> QED BY <2>2, <3>1, <3>2
  <2>4. << >> \in Text /\ v \in Text
    BY EmptySeq DEF Text, Sound
  <2>5. Sound("tagLabelSet", << >>, v, l)
    <3> HIDE DEF l
    <3> QED BY <2>3, <2>4 DEF Sound
  <2>6. Read(At("tagValue", a, v), k, r) = Step(At("tagLabelSet", << >>, v), l, TRUE)
    BY <1>2, ReadValueEnd
  <2>7. "tagLabelSet" # "name"
    OBVIOUS
  <2> HIDE DEF l
  <2> QED BY <2>5, <2>6, <2>7 DEF SoundOn
<1>3. CASE r \in {",", "}"} /\ ~(Trim(a) = Name \/ ValidLabelName(Trim(a)))
  <2>1. Read(At("tagValue", a, v), k, r) = Step(At("tagLabelSet", a, v), k, FALSE)
    BY <1>3, ReadValueEnd
  <2> QED BY <2>1, StepFails DEF SoundOn
<1> QED BY <1>1, <1>2, <1>3

\* What a step of a sound parser yields, if it does not fail.
LEMMA SoundRead ==
  ASSUME NEW t, NEW a, NEW v, NEW k, NEW r \in Alphabet, Sound(t, a, v, k)
  PROVE  SoundOn(t, a, v, k, r)
<1>1. CASE t = "name"
  BY <1>1, SoundName
<1>2. CASE t = "tagLabelSet"
  BY <1>2, SoundKey
<1>3. CASE t = "tagValue"
  BY <1>3, SoundValue
<1>4. CASE t = "done"
  <2>1. Read(At("done", a, v), k, r) = Step(At("done", a, v), k, TRUE)
    BY ReadDone
  <2>2. "done" # "name"
    OBVIOUS
  <2>3. SoundOn("done", a, v, k, r)
    BY <1>4, <2>1, <2>2 DEF SoundOn
  <2> QED BY <1>4, <2>3
<1> QED BY <1>1, <1>2, <1>3, <1>4 DEF Sound

SoundAfter(st) ==
  \E t, a, v, k : Sound(t, a, v, k) /\ st = Step(At(t, a, v), k, TRUE)

\* A parser that has not failed is sound, after any text.
LEMMA FedSound == \A s \in Text : Fed[s].ok => SoundAfter(Fed[s])
<1> DEFINE G == {s \in Text : Fed[s].ok => SoundAfter(Fed[s])}
<1>1. << >> \in G
  <2>1. << >> \in Text
    BY EmptySeq DEF Text
  <2>2. NewParser = At("name", << >>, << >>)
    BY DEF NewParser, At
  <2>3. DOMAIN NoLabels = {} /\ NoLabels = [key \in {} |-> NoLabels[key]]
    BY DEF NoLabels
  <2>4. CleanLabels(NoLabels)
    BY <2>3, FS_EmptySet DEF CleanLabels
  <2>5. Sound("name", << >>, << >>, NoLabels)
    BY <2>1, <2>4 DEF Sound
  <2>6. Fed[<< >>] = Step(At("name", << >>, << >>), NoLabels, TRUE)
    BY <2>2, FedStep DEF Fresh
  <2>7. SoundAfter(Fed[<< >>])
    BY <2>5, <2>6 DEF SoundAfter
  <2> QED BY <2>1, <2>7
<1>2. ASSUME NEW s \in Text, NEW r \in Alphabet, s \in G PROVE Append(s, r) \in G
  <2>1. Append(s, r) \in Text /\ Fed[Append(s, r)] = Feed(Fed[s], r)
    BY FedStep
  <2>2. CASE ~Fed[s].ok
    BY <2>1, <2>2, FeedFailed
  <2>3. CASE Fed[s].ok
    <3>1. PICK t, a, v, k : Sound(t, a, v, k) /\ Fed[s] = Step(At(t, a, v), k, TRUE)
      BY <1>2, <2>3 DEF SoundAfter
    <3>2. Fed[Append(s, r)] = Read(At(t, a, v), k, r)
      BY <2>1, <3>1, FeedOn
    <3>3. SoundOn(t, a, v, k, r)
      BY <3>1, SoundRead
    <3>4. Fed[Append(s, r)].ok => SoundAfter(Fed[Append(s, r)])
      BY <3>2, <3>3 DEF SoundOn, SoundAfter
    <3> QED BY <2>1, <3>4
  <2> QED BY <2>2, <2>3
<1>3. Text \subseteq G
  <2> HIDE DEF G
  <2> QED BY <1>1, <1>2, SeqInduction DEF Text
<1> QED BY <1>3

\* What Parse returns without an error is clean and has a name.
LEMMA ParseSound ==
  ASSUME NEW s \in Text, Parse(s).ok
  PROVE  CleanLabels(Parse(s).labels) /\ Name \in DOMAIN Parse(s).labels
<1>1. Parse(s) = Feed(Fed[s], "{")
  BY FedStep, RunesInAlphabet DEF Parse
<1>2. Fed[s].ok
  BY <1>1, FeedFailed
<1>3. PICK t, a, v, k : Sound(t, a, v, k) /\ Fed[s] = Step(At(t, a, v), k, TRUE)
  BY <1>2, FedSound DEF SoundAfter
<1>4. Parse(s) = Read(At(t, a, v), k, "{")
  BY <1>1, <1>3, FeedOn
<1>5. PICK u, b, w, l : /\ Sound(u, b, w, l)
                       /\ Parse(s) = Step(At(u, b, w), l, TRUE)
                       /\ u # "name"
  <2>1. SoundOn(t, a, v, k, "{")
    BY <1>3, SoundRead, RunesInAlphabet
  <2> QED BY <1>4, <2>1 DEF SoundOn
<1>6. Parse(s).labels = l
  BY <1>5 DEF Step
<1> QED BY <1>5, <1>6 DEF Sound

\* What Parse lets through, for every text (tagValueParserCase).
THEOREM ParsedClean == Spec => []ParsedIsClean
<1>1. InStep => ParsedIsClean
  <2> SUFFICES ASSUME InStep, call = "parsed" PROVE ParsedIsClean
    BY DEF ParsedIsClean
  <2>1. CleanLabels(labels) /\ Name \in DOMAIN labels
    BY ParseSound DEF InStep
  <2> QED BY <2>1 DEF ParsedIsClean, CleanLabels, Clean
<1> QED BY <1>1, InitInStep, NextInStep, PTL DEF Spec

-----------------------------------------------------------------------------
(***************************************************************************)
(* Parse reads what Normalized writes.                                     *)
(***************************************************************************)

\* A rune appended to the second of two texts.
LEMMA ConcatAppend ==
  ASSUME NEW S, NEW s \in Seq(S), NEW t \in Seq(S), NEW r \in S
  PROVE  s \o Append(t, r) = Append(s \o t, r)
<1>1. <<r>> \in Seq(S) /\ s \o t \in Seq(S)
  BY ConcatProperties
<1>2. Append(t, r) = t \o <<r>> /\ Append(s \o t, r) = (s \o t) \o <<r>>
  BY <1>1, AppendIsConcat
<1>3. s \o (t \o <<r>>) = (s \o t) \o <<r>>
  BY <1>1, ConcatAssociative
<1> QED BY <1>2, <1>3

\* A text whose runes are all of one kind.
LEMMA TextOf ==
  ASSUME NEW S, NEW T, NEW s \in Seq(S), ToSet(s) \subseteq T
  PROVE  s \in Seq(T)
<1>1. Len(s) \in Nat /\ s \in [1 .. Len(s) -> S]
  BY LenProperties
<1>2. \A i \in 1 .. Len(s) : s[i] \in T
  BY <1>1 DEF ToSet
<1>3. s \in [1 .. Len(s) -> T]
  BY <1>1, <1>2
<1> QED BY <1>1, <1>3, SeqDef

\* After text s a new parser is at t, with the buffers a and v, and has stored l.
Reads(s, t, a, v, l) == s \in Text /\ Fed[s] = Step(At(t, a, v), l, TRUE)

\* One more rune read.
LEMMA ReadsOn ==
  ASSUME NEW s, NEW t, NEW a, NEW v, NEW l, NEW r \in Alphabet, Reads(s, t, a, v, l),
         NEW u, NEW b, NEW w, NEW m, Read(At(t, a, v), l, r) = Step(At(u, b, w), m, TRUE)
  PROVE  Reads(Append(s, r), u, b, w, m)
<1>1. Append(s, r) \in Text /\ Fed[Append(s, r)] = Feed(Fed[s], r)
  BY FedStep DEF Reads
<1>2. Fed[s] = Step(At(t, a, v), l, TRUE)
  BY DEF Reads
<1>3. Feed(Step(At(t, a, v), l, TRUE), r) = Read(At(t, a, v), l, r)
  BY FeedOn
<1>4. Fed[Append(s, r)] = Step(At(u, b, w), m, TRUE)
  BY <1>1, <1>2, <1>3
<1> QED BY <1>1, <1>4 DEF Reads

\* The runes of a name are collected.
LEMMA NameFed ==
  ASSUME NEW n \in Seq(Alphabet \ {"{"})
  PROVE  Reads(n, "name", << >>, n, NoLabels)
<1> DEFINE S == Alphabet \ {"{"}
           G == {x \in Seq(S) : Reads(x, "name", << >>, x, NoLabels)}
<1>1. << >> \in G
  <2>1. << >> \in Seq(S) /\ << >> \in Text
    BY EmptySeq DEF Text
  <2>2. NewParser = At("name", << >>, << >>)
    BY DEF NewParser, At
  <2> QED BY <2>1, <2>2, FedStep DEF Fresh, Reads
<1>2. ASSUME NEW x \in Seq(S), NEW r \in S, x \in G PROVE Append(x, r) \in G
  <2>1. Append(x, r) \in Seq(S)
    BY AppendFrontLast
  <2>2. r \in Alphabet /\ r # "{"
    OBVIOUS
  <2>3. Read(At("name", << >>, x), NoLabels, r)
          = Step(At("name", << >>, Append(x, r)), NoLabels, TRUE)
    BY <2>2, ReadNameRune
  <2>4. Reads(x, "name", << >>, x, NoLabels)
    BY <1>2
  <2>5. Reads(Append(x, r), "name", << >>, Append(x, r), NoLabels)
    BY <2>2, <2>3, <2>4, ReadsOn
  <2> QED BY <2>1, <2>5
<1>3. Seq(S) \subseteq G
  <2> HIDE DEF G, S
  <2> QED BY <1>1, <1>2, SeqInduction
<1> QED BY <1>3

\* The runes of a key are collected.
LEMMA KeyFed ==
  ASSUME NEW s, NEW v, NEW l, Reads(s, "tagLabelSet", << >>, v, l),
         NEW key \in Seq(LabelNameRunes)
  PROVE  Reads(s \o key, "tagLabelSet", key, v, l)
<1> DEFINE S == LabelNameRunes
           G == {x \in Seq(S) : Reads(s \o x, "tagLabelSet", x, v, l)}
<1>0. s \in Seq(Alphabet)
  BY DEF Reads, Text
<1>1. << >> \in G
  <2>1. << >> \in Seq(S) /\ s \o << >> = s
    BY <1>0, EmptySeq, ConcatEmptySeq
  <2> QED BY <2>1
<1>2. ASSUME NEW x \in Seq(S), NEW r \in S, x \in G PROVE Append(x, r) \in G
  <2>1. Append(x, r) \in Seq(S)
    BY AppendFrontLast
  <2>2. S \subseteq Alphabet /\ r \notin {"}", "="}
    BY DEF LabelNameRunes, ServiceNameRunes, Alphabet
  <2>3. x \in Seq(Alphabet) /\ r \in Alphabet
    BY <2>2, SeqMonotonic
  <2>4. s \o Append(x, r) = Append(s \o x, r)
    BY <1>0, <2>3, ConcatAppend
  <2>5. Read(At("tagLabelSet", x, v), l, r)
          = Step(At("tagLabelSet", Append(x, r), v), l, TRUE)
    BY <2>2, ReadKeyRune
  <2>6. Reads(s \o x, "tagLabelSet", x, v, l)
    BY <1>2
  <2>7. Reads(Append(s \o x, r), "tagLabelSet", Append(x, r), v, l)
    BY <2>3, <2>5, <2>6, ReadsOn
  <2>8. Reads(s \o Append(x, r), "tagLabelSet", Append(x, r), v, l)
    BY <2>4, <2>7
  <2> QED BY <2>1, <2>8
<1>3. Seq(S) \subseteq G
  <2> HIDE DEF G, S
  <2> QED BY <1>1, <1>2, SeqInduction
<1> QED BY <1>3

\* The runes that do not end a value.
ValueRunes == Alphabet \ {",", "}"}

\* The runes of a value are collected.
LEMMA ValueFed ==
  ASSUME NEW s, NEW a, NEW l, Reads(s, "tagValue", a, << >>, l), NEW v \in Seq(ValueRunes)
  PROVE  Reads(s \o v, "tagValue", a, v, l)
<1> DEFINE S == ValueRunes
           G == {x \in Seq(S) : Reads(s \o x, "tagValue", a, x, l)}
<1>0. s \in Seq(Alphabet)
  BY DEF Reads, Text
<1>1. << >> \in G
  <2>1. << >> \in Seq(S) /\ s \o << >> = s
    BY <1>0, EmptySeq, ConcatEmptySeq
  <2> QED BY <2>1
<1>2. ASSUME NEW x \in Seq(S), NEW r \in S, x \in G PROVE Append(x, r) \in G
  <2>1. Append(x, r) \in Seq(S)
    BY AppendFrontLast
  <2>2. S \subseteq Alphabet
    BY DEF ValueRunes
  <2>3. x \in Seq(Alphabet) /\ r \in Alphabet
    BY <2>2, SeqMonotonic
  <2>4. r \notin {",", "}"}
    BY DEF ValueRunes
  <2>5. s \o Append(x, r) = Append(s \o x, r)
    BY <1>0, <2>3, ConcatAppend
  <2>6. Read(At("tagValue", a, x), l, r) = Step(At("tagValue", a, Append(x, r)), l, TRUE)
    BY <2>4, ReadValueRune
  <2>7. Reads(s \o x, "tagValue", a, x, l)
    BY <1>2
  <2>8. Reads(Append(s \o x, r), "tagValue", a, Append(x, r), l)
    BY <2>3, <2>6, <2>7, ReadsOn
  <2>9. Reads(s \o Append(x, r), "tagValue", a, Append(x, r), l)
    BY <2>5, <2>8
  <2> QED BY <2>1, <2>9
<1>3. Seq(S) \subseteq G
  <2> HIDE DEF G, S
  <2> QED BY <1>1, <1>2, SeqInduction
<1> QED BY <1>3

\* Append is concatenation with one rune.
LEMMA AppendOne ==
  ASSUME NEW S, NEW s \in Seq(S), NEW r \in S
  PROVE  <<r>> \in Seq(S) /\ s \o <<r>> = Append(s, r)
BY AppendIsConcat

\* Concatenation is associative, in the direction in which it is needed here.
LEMMA Associative ==
  ASSUME NEW S, NEW s \in Seq(S), NEW t \in Seq(S), NEW u \in Seq(S)
  PROVE  s \o (t \o u) = (s \o t) \o u
<1>1. (s \o t) \o u = s \o (t \o u)
  BY ConcatAssociative
<1> QED BY <1>1

\* A label as it is written in the name of a profile.
Writable(key, v) ==
  /\ key \in Text /\ ValidLabelName(key)
  /\ v \in Text /\ ToSet(v) \cap {",", "}"} = {} /\ Trim(v) = v

\* A label is read, up to the rune that ends its value.
LEMMA LabelFed ==
  ASSUME NEW s, NEW w, NEW l, NEW key, NEW v, Reads(s, "tagLabelSet", << >>, w, l),
         Writable(key, v)
  PROVE  /\ (key \o <<"=">>) \o v \in Seq(Alphabet)
         /\ Reads(s \o ((key \o <<"=">>) \o v), "tagValue", key, v, l)
<1> DEFINE t == Append(s \o key, "=")
           u == Append(key, "=")
<1>1. /\ key \in Seq(LabelNameRunes)
      /\ key \in Seq(Alphabet) /\ v \in Seq(Alphabet) /\ s \in Seq(Alphabet)
  BY TextOf DEF Writable, ValidLabelName, Text, Reads
<1>2. v \in Seq(ValueRunes)
  <2>1. ToSet(v) \subseteq Alphabet
    <3>1. \A i \in DOMAIN v : v[i] \in Alphabet
      BY <1>1, LenProperties
    <3> QED BY <3>1 DEF ToSet
  <2>2. ToSet(v) \subseteq ValueRunes
    BY <2>1 DEF Writable, ValueRunes
  <2> QED BY <1>1, <2>2, TextOf
<1>3. "=" \in Alphabet
  BY DEF Alphabet
<1>4. Reads(s \o key, "tagLabelSet", key, w, l)
  BY <1>1, KeyFed
<1>5. Read(At("tagLabelSet", key, w), l, "=") = Step(At("tagValue", key, << >>), l, TRUE)
  BY ReadKeyEnd
<1>6. Reads(t, "tagValue", key, << >>, l)
  BY <1>3, <1>4, <1>5, ReadsOn
<1>7. Reads(t \o v, "tagValue", key, v, l)
  <2> HIDE DEF t
  <2> QED BY <1>2, <1>6, ValueFed
<1>8. key \o <<"=">> = u /\ u \in Seq(Alphabet)
  BY <1>1, <1>3, AppendOne, AppendProperties
<1>9. s \o u = t
  BY <1>1, <1>3, ConcatAppend
<1> HIDE DEF t, u
<1>10. u \o v \in Seq(Alphabet)
  BY <1>1, <1>8, ConcatProperties
<1>11. s \o (u \o v) = (s \o u) \o v
  <2>1. s \in Seq(Alphabet) /\ u \in Seq(Alphabet) /\ v \in Seq(Alphabet)
    BY <1>1, <1>8
  <2> QED BY <2>1, Associative
<1> QED BY <1>7, <1>8, <1>9, <1>10, <1>11

\* A label name is not changed by TrimSpace.
LEMMA LabelNameTrimmed ==
  ASSUME NEW key \in Text, ValidLabelName(key)
  PROVE  Trim(key) = key
<1>1. " " \notin ToSet(key)
  BY DEF ValidLabelName, LabelNameRunes
<1> QED BY <1>1, TrimNoSpace DEF Text

\* The rune that ends a value stores the label.
LEMMA EndFed ==
  ASSUME NEW s, NEW l, NEW key, NEW v, NEW r \in {",", "}"},
         Reads(s, "tagValue", key, v, l), Writable(key, v)
  PROVE  Reads(Append(s, r), "tagLabelSet", << >>, v, With(l, key, v))
<1>1. r \in Alphabet
  BY DEF Alphabet
<1>2. Trim(key) = key /\ Trim(v) = v /\ ValidLabelName(key)
  BY LabelNameTrimmed DEF Writable
<1>3. Read(At("tagValue", key, v), l, r)
        = Step(At("tagLabelSet", << >>, v), With(l, key, v), TRUE)
  BY <1>2, ReadValueEnd
<1> QED BY <1>1, <1>3, ReadsOn

\* A label that follows another is read, with the comma between them.
LEMMA NextLabelFed ==
  ASSUME NEW s, NEW l, NEW key, NEW v, NEW next, NEW w,
         Reads(s, "tagValue", key, v, l), Writable(key, v), Writable(next, w)
  PROVE  /\ <<",">> \o ((next \o <<"=">>) \o w) \in Seq(Alphabet)
         /\ Reads(s \o (<<",">> \o ((next \o <<"=">>) \o w)),
                  "tagValue", next, w, With(l, key, v))
<1> DEFINE t == Append(s, ",")
           x == (next \o <<"=">>) \o w
           comma == <<",">>
<1>1. Reads(t, "tagLabelSet", << >>, v, With(l, key, v))
  <2>1. "," \in {",", "}"}
    OBVIOUS
  <2> QED BY <2>1, EndFed
<1>2. "," \in Alphabet /\ s \in Seq(Alphabet)
  BY DEF Alphabet, Reads, Text
<1>3. comma \in Seq(Alphabet) /\ s \o comma = t
  BY <1>2, AppendOne
<1> HIDE DEF t
<1>4. x \in Seq(Alphabet) /\ Reads(t \o x, "tagValue", next, w, With(l, key, v))
  BY <1>1, LabelFed
<1> HIDE DEF x, comma
<1>5. comma \o x \in Seq(Alphabet)
  BY <1>3, <1>4, ConcatProperties
<1>7. s \o (comma \o x) = (s \o comma) \o x
  <2>1. s \in Seq(Alphabet) /\ comma \in Seq(Alphabet) /\ x \in Seq(Alphabet)
    BY <1>2, <1>3, <1>4
  <2> QED BY <2>1, Associative
<1>6. Reads(s \o (comma \o x), "tagValue", next, w, With(l, key, v))
  BY <1>3, <1>4, <1>7
<1> QED BY <1>5, <1>6 DEF comma, x

\* The labels of the name and of the first i keys.
Part(k, keys, i) == [key \in {Name} \cup {keys[j] : j \in 1 .. i} |-> k[key]]

\* Storing the i-th label completes the first i of them.
LEMMA PartNext ==
  ASSUME NEW k, NEW keys, NEW i \in Nat, i # 0, keys[i] # Name
  PROVE  With(Part(k, keys, i - 1), keys[i], k[keys[i]]) = Part(k, keys, i)
<1>1. {keys[j] : j \in 1 .. i} = {keys[j] : j \in 1 .. i - 1} \cup {keys[i]}
  <2>1. 1 .. i = (1 .. i - 1) \cup {i}
    OBVIOUS
  <2> QED BY <2>1
<1> QED BY <1>1 DEF With, Part

\* After the i-th label the parser is at the end of its value and has stored
\* the labels before it.
Reached(k, keys, pre, f, i) ==
  /\ f[i] \in Seq(Alphabet)
  /\ Reads(pre \o f[i], "tagValue", keys[i], k[keys[i]], Part(k, keys, i - 1))

\* The first label is reached after its own text.
LEMMA ReachedFirst ==
  ASSUME NEW k, NEW keys, NEW f, NEW pre, NEW w,
         Writable(keys[1], k[keys[1]]),
         Reads(pre, "tagLabelSet", << >>, w, Part(k, keys, 0)),
         f[1] = Label(k, keys[1])
  PROVE  Reached(k, keys, pre, f, 1)
<1> DEFINE key == keys[1]
           v == k[keys[1]]
           x == (key \o <<"=">>) \o v
<1>1. x \in Seq(Alphabet) /\ Reads(pre \o x, "tagValue", key, v, Part(k, keys, 0))
  <2>1. Writable(key, v)
    OBVIOUS
  <2> HIDE DEF key, v
  <2> QED BY <2>1, LabelFed
<1>2. f[1] = x
  BY DEF Label
<1>3. 1 - 1 = 0
  OBVIOUS
<1> HIDE DEF x
<1> QED BY <1>1, <1>2, <1>3 DEF Reached

\* The position before the next.
LEMMA Before == \A i \in Nat : (i + 1) - 1 = i /\ i + 1 \in Nat
OBVIOUS

\* Texts joined are texts, in whichever order they are joined.
LEMMA TextJoined ==
  \A s, t, u \in Seq(Alphabet) :
    t \o u \in Seq(Alphabet) /\ s \o (t \o u) = (s \o t) \o u
BY ConcatProperties, Associative

\* Where the first position of a sequence is, and where those that follow one are.
LEMMA Positions ==
  \A c \in Nat, i \in Nat :
    /\ 0 \notin 1 .. c
    /\ i + 1 \in 1 .. c /\ i = 0 => i + 1 = 1 /\ 1 \in 1 .. c
    /\ i + 1 \in 1 .. c /\ i # 0 => i \in 1 .. c /\ i + 1 \in 2 .. c
OBVIOUS

\* The comma stores a label, and the text of the next one reaches that.
LEMMA ReachedNext ==
  ASSUME NEW k, NEW keys, NEW f, NEW pre \in Seq(Alphabet), NEW i \in Nat, i # 0,
         keys[i] # Name, Writable(keys[i], k[keys[i]]), Writable(keys[i + 1], k[keys[i + 1]]),
         f[i + 1] = f[i] \o (<<",">> \o Label(k, keys[i + 1])),
         Reached(k, keys, pre, f, i)
  PROVE  Reached(k, keys, pre, f, i + 1)
<1> DEFINE key == keys[i]
           v == k[keys[i]]
           next == keys[i + 1]
           w == k[keys[i + 1]]
           y == f[i]
           s == pre \o y
           l == Part(k, keys, i - 1)
           x == <<",">> \o ((next \o <<"=">>) \o w)
<1>1. y \in Seq(Alphabet) /\ Reads(s, "tagValue", key, v, l)
  BY DEF Reached
<1>2. Writable(key, v) /\ Writable(next, w)
  OBVIOUS
<1>3. With(l, key, v) = Part(k, keys, i)
  BY PartNext
<1>4. f[i + 1] = y \o x
  BY DEF Label
<1> HIDE DEF key, v, next, w, s, l
<1>5. x \in Seq(Alphabet) /\ Reads(s \o x, "tagValue", next, w, With(l, key, v))
  BY <1>1, <1>2, NextLabelFed
<1> HIDE DEF x, y
<1>6. y \o x \in Seq(Alphabet) /\ pre \o (y \o x) = (pre \o y) \o x
  BY <1>1, <1>5, TextJoined
<1>8. Reads(pre \o f[i + 1], "tagValue", next, w, Part(k, keys, i))
  BY <1>3, <1>4, <1>5, <1>6 DEF s
<1>9. (i + 1) - 1 = i
  BY Before
<1>10. Reads(pre \o f[i + 1], "tagValue", next, w, Part(k, keys, (i + 1) - 1))
  BY <1>8, <1>9
<1> QED BY <1>4, <1>6, <1>10 DEF Reached, next, w

\* All the labels are read, one after the other.
LEMMA LabelsFed ==
  ASSUME NEW k, NEW c \in Nat, NEW keys, NEW f, NEW pre \in Seq(Alphabet), NEW w,
         \A i \in 1 .. c : keys[i] # Name /\ Writable(keys[i], k[keys[i]]),
         Reads(pre, "tagLabelSet", << >>, w, Part(k, keys, 0)),
         f[1] = Label(k, keys[1]),
         \A i \in 2 .. c : f[i] = f[i - 1] \o (<<",">> \o Label(k, keys[i]))
  PROVE  \A i \in 1 .. c : Reached(k, keys, pre, f, i)
<1> DEFINE G == {i \in Nat : i \in 1 .. c => Reached(k, keys, pre, f, i)}
<1>1. 0 \in G
  <2>1. 0 \notin 1 .. c /\ 0 \in Nat
    BY Positions
  <2> QED BY <2>1
<1>2. ASSUME NEW i \in Nat, i \in G PROVE i + 1 \in G
  <2>1. SUFFICES ASSUME i + 1 \in 1 .. c PROVE Reached(k, keys, pre, f, i + 1)
    BY Before
  <2>2. CASE i = 0
    <3>1. i + 1 = 1 /\ 1 \in 1 .. c
      BY <2>1, <2>2, Positions
    <3>2. Writable(keys[1], k[keys[1]])
      BY <3>1
    <3>3. Reached(k, keys, pre, f, 1)
      BY <3>2, ReachedFirst
    <3> QED BY <3>1, <3>3
  <2>3. CASE i # 0
    <3>1. i \in 1 .. c /\ i + 1 \in 2 .. c
      BY <2>1, <2>3, Positions
    <3>2. Reached(k, keys, pre, f, i)
      BY <1>2, <3>1
    <3>3. f[i + 1] = f[i] \o (<<",">> \o Label(k, keys[i + 1]))
      BY <3>1, Before
    <3>4. /\ keys[i] # Name /\ Writable(keys[i], k[keys[i]])
          /\ Writable(keys[i + 1], k[keys[i + 1]])
      BY <2>1, <3>1
    <3> QED BY <2>3, <3>2, <3>3, <3>4, ReachedNext
  <2> QED BY <2>2, <2>3
<1>3. Nat \subseteq G
  <2> HIDE DEF G
  <2> QED BY <1>1, <1>2, Induction
<1>4. \A i \in 1 .. c : i \in Nat
  BY InRange
<1> QED BY <1>3, <1>4

\* FlattenSeq appends the texts one after the other.
LEMMA FlattenExists ==
  ASSUME NEW ss
  PROVE  \A n \in Nat : \E f : f = [i \in 1 .. n |-> IF i = 1 THEN ss[i] ELSE f[i - 1] \o ss[i]]
<1> DEFINE Flat(f, n) == f = [i \in 1 .. n |-> IF i = 1 THEN ss[i] ELSE f[i - 1] \o ss[i]]
           G == {n \in Nat : \E f : Flat(f, n)}
<1>1. 0 \in G
  <2> DEFINE f == [i \in 1 .. 0 |-> ss]
  <2>1. 1 .. 0 = {}
    OBVIOUS
  <2>2. Flat(f, 0)
    BY <2>1
  <2> QED BY <2>2
<1>2. ASSUME NEW n \in Nat, n \in G PROVE n + 1 \in G
  <2>1. PICK f : Flat(f, n)
    BY <1>2
  <2> DEFINE g == [i \in 1 .. n + 1 |-> IF i = 1 THEN ss[i] ELSE f[i - 1] \o ss[i]]
  <2>2. \A i \in 1 .. n : g[i] = f[i]
    <3>1. \A i \in 1 .. n : i \in 1 .. n + 1
      OBVIOUS
    <3>2. \A i \in 1 .. n : f[i] = IF i = 1 THEN ss[i] ELSE f[i - 1] \o ss[i]
      BY <2>1
    <3> QED BY <3>1, <3>2
  <2>3. \A i \in 1 .. n + 1 : i # 1 => i - 1 \in 1 .. n
    OBVIOUS
  <2>4. \A i \in 1 .. n + 1 : i # 1 => g[i - 1] = f[i - 1]
    BY <2>2, <2>3
  <2>5. Flat(g, n + 1)
    <3> HIDE DEF g
    <3>1. g = [i \in 1 .. n + 1 |-> IF i = 1 THEN ss[i] ELSE f[i - 1] \o ss[i]]
      BY DEF g
    <3> QED BY <2>4, <3>1
  <2>6. n + 1 \in Nat
    OBVIOUS
  <2> HIDE DEF g
  <2> QED BY <2>5, <2>6
<1>3. Nat \subseteq G
  <2> HIDE DEF G
  <2> QED BY <1>1, <1>2, Induction
<1> QED BY <1>3

\* Nothing joined is nothing.
LEMMA FlattenedNone ==
  ASSUME NEW ss, Len(ss) = 0
  PROVE  FlattenSeq(ss) = ss
BY DEF FlattenSeq

\* Texts joined are the last of a series of texts, each the one before with one more.
LEMMA Flattened ==
  ASSUME NEW ss, NEW n \in Nat, n # 0, Len(ss) = n
  PROVE  \E f : /\ f[1] = ss[1]
                /\ \A i \in 2 .. n : f[i] = f[i - 1] \o ss[i]
                /\ FlattenSeq(ss) = f[n]
<1> DEFINE f == CHOOSE g : g = [i \in 1 .. n |-> IF i = 1 THEN ss[i] ELSE g[i - 1] \o ss[i]]
<1>1. f = [i \in 1 .. n |-> IF i = 1 THEN ss[i] ELSE f[i - 1] \o ss[i]]
  BY FlattenExists
<1>2. FlattenSeq(ss) = f[n]
  BY DEF FlattenSeq
<1> HIDE DEF f
<1>3. \A i \in 1 .. n : f[i] = IF i = 1 THEN ss[i] ELSE f[i - 1] \o ss[i]
  BY <1>1
<1>4. 1 \in 1 .. n /\ \A i \in 2 .. n : i \in 1 .. n /\ i # 1
  OBVIOUS
<1>5. f[1] = ss[1] /\ \A i \in 2 .. n : f[i] = f[i - 1] \o ss[i]
  BY <1>3, <1>4
<1> QED BY <1>2, <1>5

\* SetToSeq lists the elements of a finite set.
LEMMA SetListed ==
  ASSUME NEW S, IsFiniteSet(S)
  PROVE  /\ Cardinality(S) \in Nat
         /\ SetToSeq(S) \in [1 .. Cardinality(S) -> S]
         /\ \A x \in S : \E i \in 1 .. Cardinality(S) : SetToSeq(S)[i] = x
<1> DEFINE c == Cardinality(S)
           D == 1 .. c
           s == SetToSeq(S)
<1>1. c \in Nat /\ ExistsBijection(D, S)
  BY FS_CardinalityType
<1>2. IsFiniteSet(D) /\ Cardinality(D) = c
  BY <1>1, FS_Interval, 1 \in Int, c \in Int, c - 1 + 1 = c
<1>3. PICK b : b \in Injection(D, S)
  BY <1>1 DEF ExistsBijection, Bijection
<1>4. b \in [D -> S] /\ IsInjective(b)
  BY <1>3 DEF Injection
<1>5. s \in [D -> S] /\ IsInjective(s)
  BY <1>4 DEF SetToSeq
<1>6. s \in Injection(D, S)
  BY <1>5 DEF Injection
<1>7. s \in Surjection(D, S)
  BY <1>2, <1>6, FS_Injection
<1>8. \A x \in S : \E i \in D : s[i] = x
  BY <1>7 DEF Surjection
<1> QED BY <1>1, <1>5, <1>8

\* The texts of the labels, as Normalized joins them.
Tags(k, keys) == [i \in DOMAIN keys |-> IF i = 1 THEN Label(k, keys[i])
                                               ELSE <<",">> \o Label(k, keys[i])]

\* There are as many texts as labels.
LEMMA TagsJoined ==
  ASSUME NEW k, NEW c \in Nat, NEW keys, DOMAIN keys = 1 .. c,
         \A i \in 1 .. c : Writable(keys[i], k[keys[i]])
  PROVE  Len(Tags(k, keys)) = c /\ (c = 0 => Tags(k, keys) = << >>)
<1> DEFINE x(i) == IF i = 1 THEN Label(k, keys[i]) ELSE <<",">> \o Label(k, keys[i])
           T == {x(i) : i \in 1 .. c}
           tags == [i \in 1 .. c |-> x(i)]
<1>1. tags \in [1 .. c -> T]
  OBVIOUS
<1>2. Tags(k, keys) = tags
  BY DEF Tags
<1> HIDE DEF tags, T
<1>3. tags \in Seq(T)
  BY <1>1, SeqDef
<1>4. Len(tags) \in Nat /\ DOMAIN tags = 1 .. Len(tags) /\ DOMAIN tags = 1 .. c
  BY <1>1, <1>3, LenProperties
<1>5. Len(tags) = c
  BY <1>4
<1>6. c = 0 => tags = << >>
  BY <1>3, <1>5, EmptySeq
<1> QED BY <1>2, <1>5, <1>6

\* The texts of the labels are read after the name.
LEMMA TagsFed ==
  ASSUME NEW k, NEW c \in Nat, NEW keys, NEW pre \in Seq(Alphabet), NEW w,
         DOMAIN keys = 1 .. c,
         \A i \in 1 .. c : keys[i] # Name /\ Writable(keys[i], k[keys[i]]),
         Reads(pre, "tagLabelSet", << >>, w, Part(k, keys, 0))
  PROVE  /\ FlattenSeq(Tags(k, keys)) \in Seq(Alphabet)
         /\ c = 0 => FlattenSeq(Tags(k, keys)) = << >>
         /\ c # 0 => Reads(pre \o FlattenSeq(Tags(k, keys)), "tagValue", keys[c], k[keys[c]],
                          Part(k, keys, c - 1))
<1> DEFINE tags == Tags(k, keys)
<1>1. Len(tags) = c /\ (c = 0 => tags = << >>)
  BY TagsJoined
<1>2. CASE c = 0
  <2>1. FlattenSeq(tags) = tags
    BY <1>1, <1>2, FlattenedNone
  <2>2. << >> \in Seq(Alphabet)
    BY EmptySeq
  <2> QED BY <1>1, <1>2, <2>1, <2>2
<1>3. CASE c # 0
  <2>1. \A i \in 1 .. c : tags[i] = IF i = 1 THEN Label(k, keys[i])
                                            ELSE <<",">> \o Label(k, keys[i])
    BY DEF Tags
  <2> HIDE DEF tags
  <2>2. PICK f : /\ f[1] = tags[1]
                 /\ \A i \in 2 .. c : f[i] = f[i - 1] \o tags[i]
                 /\ FlattenSeq(tags) = f[c]
    BY <1>1, <1>3, Flattened
  <2>3. 1 \in 1 .. c /\ c \in 1 .. c /\ \A i \in 2 .. c : i \in 1 .. c /\ i # 1
    BY <1>3
  <2>4. f[1] = Label(k, keys[1])
    BY <2>1, <2>2, <2>3
  <2>5. \A i \in 2 .. c : f[i] = f[i - 1] \o (<<",">> \o Label(k, keys[i]))
    BY <2>1, <2>2, <2>3
  <2>6. \A i \in 1 .. c : Reached(k, keys, pre, f, i)
    BY <2>4, <2>5, LabelsFed
  <2>7. Reached(k, keys, pre, f, c)
    BY <2>3, <2>6
  <2> QED BY <1>3, <2>2, <2>7 DEF Reached, tags
<1> QED BY <1>2, <1>3

\* The name is read, up to the brace that ends it.
LEMMA NameEndFed ==
  ASSUME NEW n \in Seq(Alphabet), ValidServiceName(n), Trim(n) = n
  PROVE  Reads(Append(n, "{"), "tagLabelSet", << >>, n, With(NoLabels, Name, n))
<1>1. ToSet(n) \subseteq Alphabet \ {"{"}
  BY DEF ValidServiceName, ServiceNameRunes, LabelNameRunes, Alphabet
<1>2. n \in Seq(Alphabet \ {"{"})
  BY <1>1, TextOf
<1>3. Reads(n, "name", << >>, n, NoLabels)
  BY <1>2, NameFed
<1>4. Read(At("name", << >>, n), NoLabels, "{")
        = Step(At("tagLabelSet", << >>, n), With(NoLabels, Name, n), TRUE)
  BY ReadNameEnd
<1> QED BY <1>3, <1>4, ReadsOn, RunesInAlphabet

\* A new parser has stored l when it has read s, and reads no name or value.
Ended(s, l) == \E t, v : t \in {"tagLabelSet", "done"} /\ Reads(s, t, << >>, v, l)

\* A parser that has read the last brace or waits for a key has ended its labels.
LEMMA EndedAt ==
  ASSUME NEW s, NEW t \in {"tagLabelSet", "done"}, NEW v, NEW l, Reads(s, t, << >>, v, l)
  PROVE  Ended(s, l)
BY DEF Ended

\* The last brace is read.
LEMMA LastFed ==
  ASSUME NEW k, NEW c \in Nat, NEW keys, NEW s, NEW w,
         \A i \in 1 .. c : keys[i] # Name /\ Writable(keys[i], k[keys[i]]),
         c = 0 => Reads(s, "tagLabelSet", << >>, w, Part(k, keys, 0)),
         c # 0 => Reads(s, "tagValue", keys[c], k[keys[c]], Part(k, keys, c - 1))
  PROVE  Ended(Append(s, "}"), Part(k, keys, c))
<1>1. CASE c = 0
  <2>1. "}" \in Alphabet
    BY DEF Alphabet
  <2>2. Read(At("tagLabelSet", << >>, w), Part(k, keys, 0), "}")
          = Step(At("done", << >>, w), Part(k, keys, 0), TRUE)
    BY ReadSetEnd
  <2>3. Reads(Append(s, "}"), "done", << >>, w, Part(k, keys, 0))
    BY <1>1, <2>1, <2>2, ReadsOn
  <2>4. "done" \in {"tagLabelSet", "done"}
    OBVIOUS
  <2>5. Reads(Append(s, "}"), "done", << >>, w, Part(k, keys, c))
    BY <1>1, <2>3
  <2> QED BY <2>4, <2>5, EndedAt
<1>2. CASE c # 0
  <2> DEFINE key == keys[c]
             v == k[keys[c]]
             l == Part(k, keys, c - 1)
  <2>1. c \in 1 .. c
    BY <1>2
  <2>2. Writable(key, v) /\ key # Name
    BY <2>1
  <2>3. With(l, key, v) = Part(k, keys, c)
    BY <1>2, <2>2, PartNext
  <2>4. Reads(s, "tagValue", key, v, l)
    BY <1>2
  <2> HIDE DEF key, v, l
  <2>5. "}" \in {",", "}"}
    OBVIOUS
  <2>6. Reads(Append(s, "}"), "tagLabelSet", << >>, v, With(l, key, v))
    BY <2>2, <2>4, <2>5, EndFed
  <2>7. "tagLabelSet" \in {"tagLabelSet", "done"}
    OBVIOUS
  <2>8. Reads(Append(s, "}"), "tagLabelSet", << >>, v, Part(k, keys, c))
    BY <2>3, <2>6
  <2> QED BY <2>7, <2>8, EndedAt
<1> QED BY <1>1, <1>2

\* Labels that Parse lets through are written as they are read.
LEMMA CleanWritable ==
  ASSUME NEW k, CleanLabels(k), NEW key \in DOMAIN k, key # Name
  PROVE  Writable(key, k[key])
BY DEF CleanLabels, Clean, Writable

\* Before the first label the map holds the name alone.
LEMMA PartFirst ==
  ASSUME NEW k, NEW keys
  PROVE  Part(k, keys, 0) = With(NoLabels, Name, k[Name])
<1>1. {keys[j] : j \in 1 .. 0} = {}
  OBVIOUS
<1> QED BY <1>1 DEF Part, With, NoLabels

\* With all the keys the labels are complete.
LEMMA PartAll ==
  ASSUME NEW k, Name \in DOMAIN k, k = [key \in DOMAIN k |-> k[key]], NEW c \in Nat,
         NEW keys \in [1 .. c -> DOMAIN k \ {Name}],
         \A key \in DOMAIN k \ {Name} : \E i \in 1 .. c : keys[i] = key
  PROVE  Part(k, keys, c) = k
<1>1. {Name} \cup {keys[j] : j \in 1 .. c} = DOMAIN k
  OBVIOUS
<1> QED BY <1>1 DEF Part

\* The text of the labels between the braces.
TagsText(k) == FlattenSeq(Tags(k, SetToSeq(DOMAIN k \ {Name})))

\* Normalized writes the name and a brace, and a new parser that reads what it
\* writes has stored the labels.
LEMMA NormalizedFed ==
  ASSUME NEW k, CleanLabels(k), Name \in DOMAIN k, ValidServiceName(k[Name])
  PROVE  /\ Ended(Normalized(k), k)
         /\ TagsText(k) \in Seq(Alphabet)
         /\ Normalized(k) = (Append(k[Name], "{") \o TagsText(k)) \o <<"}">>
<1> DEFINE S == DOMAIN k \ {Name}
           keys == SetToSeq(S)
           c == Cardinality(S)
           app == k[Name]
           pre == Append(app, "{")
           flat == FlattenSeq(Tags(k, keys))
           s == pre \o flat
           n == Append(s, "}")
<1>1. app \in Seq(Alphabet) /\ Trim(app) = app /\ ValidServiceName(app)
  BY DEF CleanLabels, Clean, Text
<1>2. IsFiniteSet(S)
  BY FS_Subset, S \subseteq DOMAIN k DEF CleanLabels
<1>3. /\ c \in Nat
      /\ keys \in [1 .. c -> S]
      /\ \A key \in S : \E i \in 1 .. c : keys[i] = key
  BY <1>2, SetListed
<1>4. Normalized(k) = ((app \o <<"{">>) \o flat) \o <<"}">> /\ flat = TagsText(k)
  BY DEF Normalized, Tags, TagsText
<1> HIDE DEF keys, c, app
<1>5. \A i \in 1 .. c : keys[i] # Name /\ Writable(keys[i], k[keys[i]])
  BY <1>3, CleanWritable
<1>6. Part(k, keys, 0) = With(NoLabels, Name, app)
  BY PartFirst DEF app
<1>7. Reads(pre, "tagLabelSet", << >>, app, Part(k, keys, 0))
  BY <1>1, <1>6, NameEndFed
<1>8. DOMAIN keys = 1 .. c
  BY <1>3
<1> HIDE DEF pre
<1>9. pre \in Seq(Alphabet)
  BY <1>7 DEF Reads, Text
<1>10. /\ flat \in Seq(Alphabet)
       /\ c = 0 => flat = << >>
       /\ c # 0 => Reads(s, "tagValue", keys[c], k[keys[c]], Part(k, keys, c - 1))
  BY <1>3, <1>5, <1>7, <1>8, <1>9, TagsFed
<1> HIDE DEF flat
<1>11. c = 0 => s = pre
  BY <1>9, <1>10, ConcatEmptySeq
<1>12. c = 0 => Reads(s, "tagLabelSet", << >>, app, Part(k, keys, 0))
  BY <1>7, <1>11
<1>13. s \in Seq(Alphabet)
  BY <1>9, <1>10, ConcatProperties
<1> HIDE DEF s
<1>14. Ended(n, Part(k, keys, c))
  BY <1>3, <1>5, <1>10, <1>12, LastFed
<1>15. Part(k, keys, c) = k
  BY <1>3, PartAll DEF CleanLabels
<1>16. Ended(n, k)
  BY <1>14, <1>15
<1>17. Normalized(k) = n
  <2>1. "{" \in Alphabet /\ "}" \in Alphabet
    BY DEF Alphabet
  <2>2. app \o <<"{">> = pre
    BY <1>1, <2>1, AppendOne DEF pre
  <2>3. s \o <<"}">> = n
    BY <1>13, <2>1, AppendOne
  <2> QED BY <1>4, <2>2, <2>3 DEF s
<1>18. flat \in Seq(Alphabet) /\ Normalized(k) = (pre \o flat) \o <<"}">>
  <2>1. "{" \in Alphabet
    BY DEF Alphabet
  <2>2. app \o <<"{">> = pre
    BY <1>1, <2>1, AppendOne DEF pre
  <2> QED BY <1>4, <1>10, <2>2
<1> QED BY <1>4, <1>16, <1>17, <1>18 DEF pre, app

\* Parse gives back the labels that Normalized has written.
LEMMA RoundTrip ==
  ASSUME NEW k, CleanLabels(k), Name \in DOMAIN k, ValidServiceName(k[Name])
  PROVE  /\ Normalized(k) \in Text
         /\ Parse(Normalized(k)).ok
         /\ Parse(Normalized(k)).labels = k
<1> DEFINE n == Normalized(k)
<1>1. Ended(n, k)
  BY NormalizedFed
<1> HIDE DEF n
<1>2. PICK t, v : t \in {"tagLabelSet", "done"} /\ Reads(n, t, << >>, v, k)
  BY <1>1 DEF Ended
<1>3. n \in Text
  BY <1>2 DEF Reads
<1>4. \E a : Reads(Append(n, "{"), t, a, v, k)
  <2>1. "{" \in Alphabet
    BY RunesInAlphabet
  <2>2. CASE t = "tagLabelSet"
    <3>1. "{" \notin {"}", "="}
      OBVIOUS
    <3>2. Read(At("tagLabelSet", << >>, v), k, "{")
            = Step(At("tagLabelSet", Append(<< >>, "{"), v), k, TRUE)
      BY <3>1, ReadKeyRune
    <3>3. Reads(n, "tagLabelSet", << >>, v, k)
      BY <1>2, <2>2
    <3>4. Reads(Append(n, "{"), "tagLabelSet", Append(<< >>, "{"), v, k)
      BY <2>1, <3>2, <3>3, ReadsOn
    <3> QED BY <2>2, <3>4
  <2>3. CASE t = "done"
    <3>1. Read(At("done", << >>, v), k, "{") = Step(At("done", << >>, v), k, TRUE)
      BY ReadDone
    <3>2. Reads(n, "done", << >>, v, k)
      BY <1>2, <2>3
    <3>3. Reads(Append(n, "{"), "done", << >>, v, k)
      BY <2>1, <3>1, <3>2, ReadsOn
    <3> QED BY <2>3, <3>3
  <2> QED BY <1>2, <2>2, <2>3
<1>5. PICK a : Parse(n) = Step(At(t, a, v), k, TRUE)
  BY <1>4 DEF Reads, Parse
<1>6. Parse(n).ok /\ Parse(n).labels = k
  BY <1>5 DEF Step
<1> QED BY <1>3, <1>6 DEF n

\* A parser that has failed does so over whatever follows.
LEMMA FailedFed ==
  ASSUME NEW s \in Text, ~Fed[s].ok, NEW rest \in Seq(Alphabet)
  PROVE  s \o rest \in Text /\ ~Fed[s \o rest].ok
<1> DEFINE S == Alphabet
           G == {x \in Seq(S) : s \o x \in Text /\ ~Fed[s \o x].ok}
<1>0. s \in Seq(S)
  BY DEF Text
<1>1. << >> \in G
  <2>1. << >> \in Seq(S) /\ s \o << >> = s
    BY <1>0, EmptySeq, ConcatEmptySeq
  <2> QED BY <2>1
<1>2. ASSUME NEW x \in Seq(S), NEW r \in S, x \in G PROVE Append(x, r) \in G
  <2>1. Append(x, r) \in Seq(S)
    BY AppendFrontLast
  <2>2. s \o Append(x, r) = Append(s \o x, r)
    BY <1>0, ConcatAppend
  <2>3. Append(s \o x, r) \in Text /\ Fed[Append(s \o x, r)] = Feed(Fed[s \o x], r)
    BY <1>2, FedStep
  <2>4. ~Fed[Append(s \o x, r)].ok
    BY <1>2, <2>3, FeedFailed
  <2> QED BY <2>1, <2>2, <2>3, <2>4
<1>3. Seq(S) \subseteq G
  <2> HIDE DEF G, S
  <2> QED BY <1>1, <1>2, SeqInduction
<1> QED BY <1>3

\* The text of the labels does not depend on the name.
LEMMA TagsTextOf ==
  ASSUME NEW k, CleanLabels(k), Name \in DOMAIN k
  PROVE  TagsText(k) \in Seq(Alphabet)
<1> DEFINE n == <<"x">>
           w == With(k, Name, n)
           keys == SetToSeq(DOMAIN k \ {Name})
<1>1. n \in Text /\ ToSet(n) = {"x"} /\ n # << >>
  BY DEF Text, Alphabet, ServiceNameRunes, LabelNameRunes, ToSet
<1>2. Trim(n) = n
  BY <1>1, TrimNoSpace, "x" # " " DEF Text
<1>3. ValidServiceName(n) /\ Clean(n)
  BY <1>1, <1>2 DEF ValidServiceName, ServiceNameRunes, LabelNameRunes, Clean
<1>4. Name \in Text
  BY DEF CleanLabels
<1>5. CleanLabels(w)
  BY <1>3, <1>4, WithClean
<1>6. /\ DOMAIN w = DOMAIN k
      /\ w[Name] = n
      /\ \A key \in DOMAIN k : key # Name => w[key] = k[key]
  BY DEF With
<1> HIDE DEF w, n
<1>7. TagsText(w) \in Seq(Alphabet)
  BY <1>3, <1>5, <1>6, NormalizedFed
<1>8. keys \in [1 .. Cardinality(DOMAIN k \ {Name}) -> DOMAIN k \ {Name}]
  BY SetListed, FS_Subset, DOMAIN k \ {Name} \subseteq DOMAIN k DEF CleanLabels
<1> HIDE DEF keys
<1>9. \A i \in DOMAIN keys : keys[i] \in DOMAIN k \ {Name}
  BY <1>8
<1>10. \A i \in DOMAIN keys : Label(w, keys[i]) = Label(k, keys[i])
  BY <1>6, <1>9 DEF Label
<1>11. Tags(w, keys) = Tags(k, keys)
  BY <1>10 DEF Tags
<1> QED BY <1>6, <1>7, <1>11 DEF TagsText, keys

\* Parse refuses labels with a name that is not valid, if no brace cuts it short.
LEMMA Refused ==
  ASSUME NEW k, CleanLabels(k), Name \in DOMAIN k, "{" \notin ToSet(k[Name]),
         ~ValidServiceName(k[Name])
  PROVE  ~Parse(Normalized(k)).ok
<1> DEFINE n == k[Name]
           pre == Append(n, "{")
           flat == TagsText(k)
<1>1. n \in Seq(Alphabet) /\ Trim(n) = n
  BY DEF CleanLabels, Clean, Text
<1>2. ToSet(n) \subseteq Alphabet \ {"{"}
  <2>1. n \in [1 .. Len(n) -> Alphabet]
    BY <1>1, LenProperties
  <2> HIDE DEF n
  <2>2. ToSet(n) \subseteq Alphabet
    BY <2>1 DEF ToSet
  <2> QED BY <2>2 DEF n
<1>3. Reads(n, "name", << >>, n, NoLabels)
  BY <1>1, <1>2, TextOf, NameFed
<1>4. Read(At("name", << >>, n), NoLabels, "{") = Step(At("tagLabelSet", << >>, n), NoLabels, FALSE)
  BY <1>1, ReadNameEnd
<1>5. pre \in Text /\ Fed[pre] = Feed(Fed[n], "{")
  BY <1>3, FedStep, RunesInAlphabet DEF Reads
<1>6. Fed[pre] = Step(At("tagLabelSet", << >>, n), NoLabels, FALSE)
  BY <1>3, <1>4, <1>5, FeedOn DEF Reads
<1>7. ~Fed[pre].ok
  BY <1>6, StepFails
<1>8. flat \in Seq(Alphabet)
  BY TagsTextOf
<1>9. "{" \in Alphabet /\ "}" \in Alphabet
  BY DEF Alphabet
<1>10. Normalized(k) = (pre \o flat) \o <<"}">>
  <2>1. Normalized(k) = ((n \o <<"{">>) \o flat) \o <<"}">>
    BY DEF Normalized, Tags, TagsText
  <2>2. n \o <<"{">> = pre
    BY <1>1, <1>9, AppendOne
  <2> QED BY <2>1, <2>2
<1> HIDE DEF n, pre, flat
<1>11. pre \o flat \in Text /\ ~Fed[pre \o flat].ok
  BY <1>5, <1>7, <1>8, FailedFed
<1>12. <<"}">> \in Seq(Alphabet) /\ <<"{">> \in Seq(Alphabet)
  BY <1>9, <1>11, AppendOne DEF Text
<1>13. Normalized(k) \in Text /\ ~Fed[Normalized(k)].ok
  BY <1>10, <1>11, <1>12, FailedFed
<1>14. Fed[Append(Normalized(k), "{")] = Feed(Fed[Normalized(k)], "{")
  BY <1>9, <1>13, FedStep
<1> QED BY <1>13, <1>14, FeedFailed DEF Parse

-----------------------------------------------------------------------------
(***************************************************************************)
(* The labels ingest forwards.                                             *)
(***************************************************************************)

\* The keys of the labels of an agent are valid.
LEMMA PeerLabels ==
  ASSUME NEW p \in Peers
  PROVE  /\ IsFiniteSet(DOMAIN p)
         /\ \A key \in DOMAIN p : key \in Text /\ ValidLabelName(key) /\ p[key] \in Text
<1>0. IsFiniteSet(DOMAIN p)
  BY LabelSetAssumption
<1> SUFFICES ASSUME NEW key \in DOMAIN p
             PROVE  key \in Text /\ ValidLabelName(key) /\ p[key] \in Text
  BY <1>0
<1>1. key \in Seq({"x", "p"}) /\ key # << >> /\ p[key] \in Text
  BY LabelSetAssumption
<1>2. \A i \in DOMAIN key : key[i] \in {"x", "p"}
  BY <1>1, LenProperties
<1>3. ToSet(key) \subseteq {"x", "p"}
  BY <1>2 DEF ToSet
<1>4. ToSet(Name) = {"N"}
  BY DEF ToSet, Name
<1>5. key # Name
  <2>1. "N" \notin {"x", "p"}
    OBVIOUS
  <2> QED BY <1>3, <1>4, <2>1
<1>6. ValidLabelName(key)
  BY <1>1, <1>3, <1>5 DEF ValidLabelName, LabelNameRunes, IsLabelNameReserved
<1>7. key \in Text
  <2>1. {"x", "p"} \subseteq Alphabet
    BY DEF Alphabet, ServiceNameRunes, LabelNameRunes
  <2>2. ToSet(key) \subseteq Alphabet
    BY <1>3, <2>1
  <2> QED BY <1>1, <2>2, TextOf DEF Text
<1> QED BY <1>1, <1>6, <1>7

\* Labels ingest forwards: those that are not of the agent are clean.
Written(k, p) ==
  /\ IsFiniteSet(DOMAIN k)
  /\ k = [key \in DOMAIN k |-> k[key]]
  /\ Name \in DOMAIN k
  /\ \A key \in DOMAIN k :
       /\ key \in Text /\ (key = Name \/ ValidLabelName(key)) /\ k[key] \in Text
       /\ key \notin DOMAIN p => Clean(k[key])
  /\ \A key \in DOMAIN p : key \in DOMAIN k /\ k[key] = p[key]

\* If the values of the agent are unbroken all the labels are clean.
LEMMA WrittenClean ==
  ASSUME NEW k, NEW p, Written(k, p), \A key \in DOMAIN p : Unbroken(p[key])
  PROVE  CleanLabels(k)
<1>1. ASSUME NEW key \in DOMAIN k PROVE Clean(k[key])
  BY <1>1 DEF Written, Clean, Unbroken
<1> QED BY <1>1 DEF Written, CleanLabels

\* What is known of the labels between Parse and the end of the request.
Kept ==
  /\ InStep
  /\ call = "parsed" => CleanLabels(labels) /\ Name \in DOMAIN labels
  /\ call = "sent" => Written(labels, peer) /\ name = Normalized(labels)

\* At first nothing has been parsed.
LEMMA InitKept == Init => Kept
BY InitInStep DEF Init, Kept

\* Every step of a request keeps its labels clean, but for those of the agent once
\* it is sent.
LEMMA NextKept == Kept /\ [Next]_vars => Kept'
<1> SUFFICES ASSUME Kept, [Next]_vars PROVE Kept'
  OBVIOUS
<1>1. InStep'
  BY NextInStep DEF Kept
<1>2. CASE Begin
  BY <1>1, <1>2 DEF Begin, Kept
<1>3. ASSUME call' = "parsed" PROVE CleanLabels(labels') /\ Name \in DOMAIN labels'
  <2>1. input' \in Text /\ Parse(input').ok /\ labels' = Parse(input').labels
    BY <1>1, <1>3 DEF InStep, Parse
  <2> QED BY <2>1, ParseSound
<1>4. ASSUME NEW r, NEW last, ReadRune(r, last) PROVE Kept'
  <2>1. call' \in {"failed", "parsed", "parsing"}
    BY <1>4 DEF ReadRune
  <2> QED BY <1>1, <1>3, <2>1 DEF Kept
<1>5. ASSUME NEW p \in Peers, Ingest(p) PROVE Kept'
  <2> DEFINE k == [key \in DOMAIN p \cup DOMAIN labels |->
                     IF key \in DOMAIN p THEN p[key] ELSE labels[key]]
  <2>1. CleanLabels(labels) /\ Name \in DOMAIN labels
    BY <1>5 DEF Ingest, Kept
  <2>2. IsFiniteSet(DOMAIN p \cup DOMAIN labels)
    BY <2>1, PeerLabels, FS_Union DEF CleanLabels
  <2>3. /\ DOMAIN k = DOMAIN p \cup DOMAIN labels
        /\ k = [key \in DOMAIN k |-> k[key]]
        /\ \A key \in DOMAIN p : k[key] = p[key]
        /\ \A key \in DOMAIN labels : key \notin DOMAIN p => k[key] = labels[key]
    OBVIOUS
  <2>4. labels' = k /\ peer' = p /\ name' = Normalized(labels') /\ call' = "sent"
    BY <1>5 DEF Ingest
  <2> HIDE DEF k
  <2>5. ASSUME NEW key \in DOMAIN k
        PROVE  /\ key \in Text /\ (key = Name \/ ValidLabelName(key)) /\ k[key] \in Text
               /\ key \notin DOMAIN p => Clean(k[key])
    <3>1. CASE key \in DOMAIN p
      BY <2>3, <3>1, PeerLabels
    <3>2. CASE key \notin DOMAIN p
      BY <2>1, <2>3, <3>2 DEF CleanLabels, Clean
    <3> QED BY <3>1, <3>2
  <2>6. Written(k, p)
    BY <2>1, <2>2, <2>3, <2>5 DEF Written
  <2> QED BY <1>1, <2>4, <2>6 DEF Kept
<1>6. CASE UNCHANGED vars
  BY <1>1, <1>6 DEF vars, Kept
<1> QED BY <1>2, <1>4, <1>5, <1>6 DEF Next

\* Clean labels whose name no brace cuts short are read as they are written, or
\* refused for their name.
LEMMA CleanMeansTheSame ==
  ASSUME NEW k, CleanLabels(k), Name \in DOMAIN k, "{" \notin ToSet(k[Name])
  PROVE  /\ Parse(Normalized(k)).ok <=> ValidServiceName(k[Name])
         /\ Parse(Normalized(k)).ok => Parse(Normalized(k)).labels = k
<1>1. CASE ValidServiceName(k[Name])
  BY <1>1, RoundTrip
<1>2. CASE ~ValidServiceName(k[Name])
  BY <1>2, Refused
<1> QED BY <1>1, <1>2

\* Whoever parses a normalized name with this code sees the labels that were
\* normalized, or refuses their service name: what a request brought, and what
\* ingest forwards, if no brace cuts the name short and no value of the agent is
\* broken (LabelSet.Normalized, Parse).
THEOREM SameMeaning == Spec => []NormalizedMeansTheSame
<1>1. Kept => NormalizedMeansTheSame
  <2> SUFFICES ASSUME Kept, call \in {"parsed", "sent"}, Plain(labels)
               PROVE  /\ Parse(Normalized(labels)).ok <=> ValidServiceName(labels[Name])
                      /\ Parse(Normalized(labels)).ok => Parse(Normalized(labels)).labels = labels
    BY DEF NormalizedMeansTheSame
  <2>1. CASE call = "parsed"
    BY <2>1, CleanMeansTheSame DEF Kept, Plain
  <2>2. CASE call = "sent"
    <3>1. Written(labels, peer)
      BY <2>2 DEF Kept
    <3>2. CleanLabels(labels) /\ Name \in DOMAIN labels
      BY <3>1, WrittenClean DEF Written, Plain
    <3> QED BY <3>2, CleanMeansTheSame DEF Plain
  <2> QED BY <2>1, <2>2
<1> QED BY <1>1, InitKept, NextKept, PTL DEF Spec

\* A forwarded name that parses carries the identity of the agent, unless the
\* request has a reserved __name__ with a brace in it or a value of the agent is
\* broken (ingest).
THEOREM IdentityKept == Spec => []PeerIdentityKept
<1>1. Kept => PeerIdentityKept
  <2> SUFFICES ASSUME Kept, call = "sent", Parse(name).ok, "{" \notin ToSet(labels[Name]),
                      \A key \in DOMAIN peer : Unbroken(peer[key])
               PROVE  \A key \in DOMAIN peer : /\ key \in DOMAIN Parse(name).labels
                                               /\ Parse(name).labels[key] = peer[key]
    BY DEF PeerIdentityKept
  <2>1. Written(labels, peer) /\ name = Normalized(labels)
    BY DEF Kept
  <2>2. CleanLabels(labels) /\ Name \in DOMAIN labels
    BY <2>1, WrittenClean DEF Written
  <2>3. Parse(name).labels = labels
    BY <2>1, <2>2, CleanMeansTheSame
  <2> QED BY <2>1, <2>3 DEF Written
<1> QED BY <1>1, InitKept, NextKept, PTL DEF Spec

-----------------------------------------------------------------------------
(***************************************************************************)
(* The keys of trees.                                                      *)
(***************************************************************************)

\* The positions of a text are positions of the text with a brace and more after it.
LEMMA Within ==
  \A m \in Nat, l \in Nat : \A n :
    /\ 1 \in 1 .. m /\ n = m + 1 => 1 \in 1 .. n /\ m \in 1 .. n
    /\ n = (m + 1) + l => m + 1 \in 1 .. n /\ \A i \in 1 .. m : i \in 1 .. n
    /\ m + 1 <= m + 1 /\ \A i \in 1 .. m : i <= m + 1
OBVIOUS

\* Append leaves the runes before it where they are.
LEMMA AppendElements ==
  ASSUME NEW S, NEW s \in Seq(S), NEW r \in S
  PROVE  Append(s, r)[Len(s) + 1] = r /\ \A i \in 1 .. Len(s) : Append(s, r)[i] = s[i]
BY AppendProperties

\* Tuples of runes are texts.
LEMMA TupleSeq ==
  ASSUME NEW S, NEW a \in S, NEW b \in S, NEW c \in S, NEW d \in S
  PROVE  <<a>> \in Seq(S) /\ <<a, b, c, d>> \in Seq(S)
OBVIOUS

\* The position right after the m-th, found from its bounds.
LEMMA Following == \A m \in Nat, j \in Nat : 1 <= j /\ j \notin 1 .. m /\ j <= m + 1 => j - 1 = m
OBVIOUS

\* What precedes the first brace of a text.
LEMMA BeforeBrace ==
  ASSUME NEW S, NEW n \in Seq(S), n # << >>, "{" \notin ToSet(n), "{" \in S,
         NEW rest \in Seq(S)
  PROVE  FromTreeToDictLabelSet(Append(n, "{") \o rest) = n
<1> DEFINE pre == Append(n, "{")
           k == pre \o rest
           m == Len(n)
           T == {i \in DOMAIN k : k[i] = "{"}
<1>1. m \in Nat /\ 1 \in 1 .. m /\ m \in 1 .. m /\ DOMAIN n = 1 .. m
  BY NonEmpty
<1>2. /\ pre \in Seq(S) /\ Len(pre) = m + 1
      /\ \A i \in 1 .. m : pre[i] = n[i]
      /\ pre[m + 1] = "{"
  <2>1. pre \in Seq(S) /\ Len(pre) = Len(n) + 1
    BY AppendProperties
  <2>2. \A i \in 1 .. Len(n) : pre[i] = n[i]
    BY AppendElements
  <2>3. pre[Len(n) + 1] = "{"
    BY AppendElements
  <2> QED BY <2>1, <2>2, <2>3
<1>3. /\ k \in Seq(S) /\ Len(k) = Len(pre) + Len(rest)
      /\ \A i \in 1 .. Len(pre) + Len(rest) :
           k[i] = IF i <= Len(pre) THEN pre[i] ELSE rest[i - Len(pre)]
  BY <1>2, ConcatProperties
<1>4. SubSeq(k, 1, m) = n
  <2>1. n \o <<"{">> = pre /\ <<"{">> \in Seq(S)
    BY AppendOne
  <2>2. 1 \in 1 .. Len(pre) /\ m \in 1 .. Len(pre)
    BY <1>1, <1>2, Within
  <2>3. SubSeq(k, 1, m) = SubSeq(pre, 1, m)
    BY <1>2, <2>2, SubSeqOfConcat1
  <2>4. SubSeq(n \o <<"{">>, 1, m) = SubSeq(n, 1, m)
    BY <1>1, <2>1, SubSeqOfConcat1
  <2>5. SubSeq(n, 1, m) = n
    BY SubSeqFull
  <2> QED BY <2>1, <2>3, <2>4, <2>5
<1>5. Len(k) \in Nat /\ DOMAIN k = 1 .. Len(k) /\ Len(rest) \in Nat
  BY <1>3, LenProperties
<1> HIDE DEF pre, k, m, T
<1>6. m + 1 \in 1 .. Len(k) /\ \A i \in 1 .. m : i \in 1 .. Len(k)
  <2>1. Len(k) = (m + 1) + Len(rest)
    BY <1>2, <1>3
  <2> QED BY <1>1, <1>5, <2>1, Within
<1>7. k[m + 1] = "{" /\ \A i \in 1 .. m : k[i] = n[i]
  <2>1. \A i \in 1 .. Len(k) : i <= m + 1 => k[i] = pre[i]
    BY <1>2, <1>3
  <2>2. m + 1 <= m + 1 /\ \A i \in 1 .. m : i <= m + 1
    BY <1>1, Within
  <2> QED BY <1>2, <1>6, <2>1, <2>2
<1>8. \A i \in 1 .. m : k[i] # "{"
  BY <1>1, <1>7 DEF ToSet
<1>9. m + 1 \in T /\ T \in SUBSET (1 .. Len(k)) /\ \A i \in T : i \notin 1 .. m
  BY <1>5, <1>6, <1>7, <1>8 DEF T
<1>10. Min(T) \in T /\ Min(T) <= m + 1
  BY <1>5, <1>9, MinMax
<1> DEFINE j == Min(T)
<1>11. j \in 1 .. Len(k) /\ j \notin 1 .. m /\ j <= m + 1
  BY <1>9, <1>10
<1>12. FromTreeToDictLabelSet(k) = SubSeq(k, 1, j - 1)
  BY DEF FromTreeToDictLabelSet, T
<1> HIDE DEF j
<1>13. j \in Nat /\ 1 <= j
  BY <1>5, <1>11, InRange
<1>14. j - 1 = m
  BY <1>1, <1>11, <1>13, Following
<1> QED BY <1>4, <1>12, <1>14 DEF k, pre

\* FromTreeToDictLabelSet gives back the service name of a tree key of labels that
\* ValidateLabelSet accepts.
THEOREM NameFromTree == Spec => []DictLabelSetFromTree
<1>1. Kept => DictLabelSetFromTree
  <2> SUFFICES ASSUME Kept, call = "parsed", ValidLabelSet(labels)
               PROVE  FromTreeToDictLabelSet(TreeLabelSet(Normalized(labels), "1", "2"))
                        = labels[Name]
    BY DEF DictLabelSetFromTree
  <2> DEFINE S == Alphabet \cup {":", "1", "2"}
             n == labels[Name]
             pre == Append(n, "{")
             tail == <<":", "1", ":", "2">>
             end == <<"}">>
  <2>1. CleanLabels(labels) /\ Name \in DOMAIN labels
    BY DEF Kept
  <2>3. n \in Seq(Alphabet) /\ ValidServiceName(n)
    BY <2>1 DEF CleanLabels, Clean, ValidLabelSet, Text
  <2>2. PICK flat \in Seq(Alphabet) : Normalized(labels) = (pre \o flat) \o end
    BY <2>1, <2>3, NormalizedFed
  <2>4. n # << >> /\ "{" \notin ToSet(n)
    BY <2>3 DEF ValidServiceName, ServiceNameRunes, LabelNameRunes
  <2>5. "{" \in S /\ "}" \in S /\ ":" \in S /\ "1" \in S /\ "2" \in S /\ Alphabet \subseteq S
    BY DEF Alphabet
  <2>6. end \in Seq(S) /\ tail \in Seq(S)
    <3> HIDE DEF S
    <3>1. end \in Seq(S)
      BY <2>5, TupleSeq
    <3>2. tail \in Seq(S)
      BY <2>5, TupleSeq
    <3> QED BY <3>1, <3>2
  <2>7. n \in Seq(S) /\ flat \in Seq(S)
    BY <2>2, <2>3, <2>5, SeqMonotonic
  <2>8. TreeLabelSet(Normalized(labels), "1", "2") = ((pre \o flat) \o end) \o tail
    BY <2>2 DEF TreeLabelSet
  <2>9. pre \in Seq(S)
    BY <2>5, <2>7, AppendProperties
  <2> HIDE DEF S, n, pre, tail, end
  <2>10. pre \o flat \in Seq(S) /\ end \o tail \in Seq(S) /\ flat \o (end \o tail) \in Seq(S)
    BY <2>6, <2>7, <2>9, ConcatProperties
  <2>11. (pre \o flat) \o (end \o tail) = ((pre \o flat) \o end) \o tail
    BY <2>6, <2>10, Associative
  <2>12. pre \o (flat \o (end \o tail)) = (pre \o flat) \o (end \o tail)
    <3> DEFINE z == end \o tail
    <3>1. z \in Seq(S)
      BY <2>10
    <3> HIDE DEF z
    <3>2. pre \o (flat \o z) = (pre \o flat) \o z
      BY <2>7, <2>9, <3>1, Associative
    <3> QED BY <3>2 DEF z
  <2>13. FromTreeToDictLabelSet(pre \o (flat \o (end \o tail))) = n
    BY <2>4, <2>5, <2>7, <2>10, BeforeBrace DEF pre
  <2> QED BY <2>8, <2>11, <2>12, <2>13 DEF n
<1> QED BY <1>1, InitKept, NextKept, PTL DEF Spec

=============================================================================
