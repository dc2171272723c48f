------------------------------ MODULE ShellProofs ------------------------------
(***************************************************************************)
(* Theorems about Shell, for all lines, any number of commands and any     *)
(* limit on descriptors, whatever fails and whenever the programs end.     *)
(***************************************************************************)
EXTENDS Shell, FiniteSetTheorems, SequenceTheorems, WellFoundedInduction, TLAPS

-----------------------------------------------------------------------------
(* Induction over the tokens of a line, from the well-founded order of Nat *)

LessNat == {ss \in Nat \X Nat : ss[1] < ss[2]}

LEMMA Smallest ==
  ASSUME NEW T \in SUBSET Nat, T # {}
  PROVE  \E m \in T : \A k \in T : m <= k
<1>1. OpToRel(<, Nat) = LessNat
  BY DEF OpToRel, LessNat
<1>2. IsWellFoundedOn(LessNat, Nat)
  BY <1>1, NatLessThanWellFounded
<1>3. PICK m \in T : \A k \in T : ~(<<k, m>> \in LessNat)
  BY <1>2, WFMin
<1>4. ASSUME NEW k \in T PROVE m <= k
  <2>1. k \in Nat /\ m \in Nat
    OBVIOUS
  <2>2. k < m => <<k, m>> \in LessNat
    BY <2>1 DEF LessNat
  <2> QED
    BY <1>3, <2>1, <2>2
<1> QED
  BY <1>4

LEMMA SetInduction ==
  ASSUME NEW S \in SUBSET Nat, 0 \in S, \A n \in S : n + 1 \in S
  PROVE  S = Nat
<1> SUFFICES ASSUME Nat \ S # {} PROVE FALSE
  OBVIOUS
<1>1. PICK m \in Nat \ S : \A k \in Nat \ S : m <= k
  BY Smallest
<1>2. m # 0 /\ m - 1 \in Nat /\ m - 1 \notin Nat \ S
  BY <1>1
<1> QED
  BY <1>2

-----------------------------------------------------------------------------
(* The loop over the tokens *)

\* after is where the loop is after each token, up to token n.
Passes(after, tokens, n) ==
  after = [x \in 0 .. n |-> IF x = 0 THEN Start(tokens)
                            ELSE TakeToken(tokens, after[x - 1], x)]

LEMMA PassesExist ==
  ASSUME NEW tokens, NEW n \in Nat
  PROVE  \E after : Passes(after, tokens, n)
<1> DEFINE S == {m \in Nat : \E after : Passes(after, tokens, m)}
<1>1. 0 \in S
  <2>1. Passes([x \in 0 .. 0 |-> Start(tokens)], tokens, 0)
    BY DEF Passes
  <2> QED
    BY <2>1
<1>2. ASSUME NEW m \in S PROVE m + 1 \in S
  <2>1. PICK f : Passes(f, tokens, m)
    OBVIOUS
  <2> DEFINE more == TakeToken(tokens, f[m], m + 1)
             g == [x \in 0 .. m + 1 |-> IF x = m + 1 THEN more ELSE f[x]]
  <2>2. \A x \in 0 .. m :
          f[x] = IF x = 0 THEN Start(tokens) ELSE TakeToken(tokens, f[x - 1], x)
    BY <2>1 DEF Passes
  <2> HIDE DEF more
  <2>3. ASSUME NEW x \in 0 .. m + 1
        PROVE  g[x] = IF x = 0 THEN Start(tokens) ELSE TakeToken(tokens, g[x - 1], x)
    <3>1. CASE x = m + 1
      <4>1. g[x] = more /\ g[x - 1] = f[m] /\ x # 0
        BY <3>1
      <4> HIDE DEF g
      <4> QED
        BY <3>1, <4>1 DEF more
    <3>2. CASE x # m + 1
      <4>1. x \in 0 .. m /\ g[x] = f[x]
        BY <3>2
      <4>2. x # 0 => x - 1 \in 0 .. m + 1 /\ x - 1 # m + 1
        BY <4>1
      <4>3. x # 0 => g[x - 1] = f[x - 1]
        BY <4>2
      <4> HIDE DEF g
      <4> QED
        BY <2>2, <4>1, <4>3
    <3> QED
      BY <3>1, <3>2
  <2>4. g = [x \in 0 .. m + 1 |-> g[x]]
    OBVIOUS
  <2> HIDE DEF g
  <2>5. Passes(g, tokens, m + 1)
    BY <2>3, <2>4 DEF Passes
  <2> QED
    BY <2>5
<1>3. S = Nat
  <2>1. S \in SUBSET Nat
    OBVIOUS
  <2> HIDE DEF S
  <2> QED
    BY <1>1, <1>2, <2>1, SetInduction
<1> QED
  BY <1>3

LEMMA ParseDef ==
  ASSUME NEW tokens, Len(tokens) \in Nat
  PROVE  \E after : /\ after[0] = Start(tokens)
                    /\ \A x \in 1 .. Len(tokens) :
                         after[x] = TakeToken(tokens, after[x - 1], x)
                    /\ Parse(tokens) = after[Len(tokens)]
<1> DEFINE n == Len(tokens)
           t == CHOOSE after : Passes(after, tokens, n)
<1>1. Passes(t, tokens, n)
  BY PassesExist
<1>2. Parse(tokens) = t[n]
  BY DEF Parse, Passes
<1> HIDE DEF t
<1>3. \A x \in 0 .. n : t[x] = IF x = 0 THEN Start(tokens)
                               ELSE TakeToken(tokens, t[x - 1], x)
  BY <1>1 DEF Passes
<1>4. t[0] = Start(tokens)
  BY <1>3
<1>5. \A x \in 1 .. n : x \in 0 .. n /\ x # 0
  OBVIOUS
<1> QED
  BY <1>2, <1>3, <1>4, <1>5

\* How many commands end before position x.
Ended(tokens, x) == Cardinality(Bars(tokens, x))

LEMMA EndedCounts ==
  ASSUME NEW tokens, NEW n \in Nat, DOMAIN tokens = 1 .. n
  PROVE  /\ \A x \in Nat : Ended(tokens, x) \in Nat
         /\ Ended(tokens, 1) = 0
         /\ \A x \in Nat, j \in Nat : x <= j => Ended(tokens, x) <= Ended(tokens, j)
         /\ \A x \in Nat, j \in Nat :
              x <= j => (Ended(tokens, x) = Ended(tokens, j) <=> Bars(tokens, x) = Bars(tokens, j))
         /\ \A x \in 1 .. n :
              Ended(tokens, x + 1) = IF tokens[x] = "|" THEN Ended(tokens, x) + 1
                                     ELSE Ended(tokens, x)
<1>1. ASSUME NEW x \in Nat
      PROVE  IsFiniteSet(Bars(tokens, x)) /\ Ended(tokens, x) \in Nat
  <2>1. IsFiniteSet(1 .. n)
    BY FS_Interval
  <2>2. Bars(tokens, x) \in SUBSET (1 .. n)
    BY DEF Bars
  <2> QED
    BY <2>1, <2>2, FS_Subset, FS_CardinalityType DEF Ended
<1>2. Ended(tokens, 1) = 0
  <2>1. Bars(tokens, 1) = {}
    BY DEF Bars
  <2> QED
    BY <2>1, FS_EmptySet DEF Ended
<1>3. ASSUME NEW x \in Nat, NEW j \in Nat, x <= j
      PROVE  /\ Ended(tokens, x) <= Ended(tokens, j)
             /\ Ended(tokens, x) = Ended(tokens, j) <=> Bars(tokens, x) = Bars(tokens, j)
  <2>1. Bars(tokens, x) \in SUBSET Bars(tokens, j)
    BY <1>3 DEF Bars
  <2> QED
    BY <1>1, <2>1, FS_Subset DEF Ended
<1>4. ASSUME NEW x \in 1 .. n
      PROVE  Ended(tokens, x + 1) = IF tokens[x] = "|" THEN Ended(tokens, x) + 1
                                    ELSE Ended(tokens, x)
  <2>1. CASE tokens[x] = "|"
    <3>1. Bars(tokens, x + 1) = Bars(tokens, x) \cup {x} /\ x \notin Bars(tokens, x)
      BY <2>1 DEF Bars
    <3>2. IsFiniteSet(Bars(tokens, x))
      BY <1>1
    <3> QED
      BY <2>1, <3>1, <3>2, FS_AddElement DEF Ended
  <2>2. CASE tokens[x] # "|"
    <3>1. Bars(tokens, x + 1) = Bars(tokens, x)
      BY <2>2 DEF Bars
    <3> QED
      BY <2>2, <3>1 DEF Ended
  <2> QED
    BY <2>1, <2>2
<1> QED
  BY <1>1, <1>2, <1>3, <1>4

-----------------------------------------------------------------------------
(* Lists of commands and of words *)

IsList(f, m) == f = [s \in 1 .. m |-> f[s]]
Longer(f, m, c) == [s \in 1 .. m + 1 |-> IF s = m + 1 THEN c ELSE f[s]]
Changed(f, m, c) == [s \in 1 .. m |-> IF s = m THEN c ELSE f[s]]

LEMMA ListOps ==
  ASSUME NEW f, NEW m \in Nat \ {0}, IsList(f, m), NEW c
  PROVE  /\ Last(f) = f[m]
         /\ Append(f, c) = Longer(f, m, c)
         /\ Append(Front(f), c) = Changed(f, m, c)
<1> DEFINE X == {f[s] : s \in 1 .. m} \cup {c}
           g == [s \in 1 .. m - 1 |-> f[s]]
<1>1. f \in Seq(X) /\ Len(f) = m
  <2>1. f \in [1 .. m -> X]
    BY DEF IsList
  <2> HIDE DEF X
  <2>2. f \in Seq(X)
    BY <2>1, SeqDef
  <2> QED
    BY <2>1, <2>2, LenProperties
<1>2. Last(f) = f[m]
  BY <1>1 DEF Last
<1>3. Append(f, c) = [s \in 1 .. m + 1 |-> IF s = m + 1 THEN c ELSE f[s]]
  <2> DEFINE h == Append(f, c)
  <2>1. c \in X
    OBVIOUS
  <2> HIDE DEF X
  <2>2. /\ h \in Seq(X) /\ Len(h) = m + 1
        /\ \A s \in 1 .. m : h[s] = f[s]
        /\ h[m + 1] = c
    BY <1>1, <2>1, AppendProperties
  <2>3. h = [s \in 1 .. m + 1 |-> h[s]]
    BY <2>2, LenProperties
  <2> HIDE DEF h
  <2>4. \A s \in 1 .. m + 1 : h[s] = IF s = m + 1 THEN c ELSE f[s]
    BY <2>2
  <2>5. h = [s \in 1 .. m + 1 |-> IF s = m + 1 THEN c ELSE f[s]]
    BY <2>3, <2>4
  <2> QED
    BY <2>5 DEF h
<1>4. Front(f) = g /\ g \in Seq(X) /\ Len(g) = m - 1
  <2>1. g \in [1 .. m - 1 -> X] /\ m - 1 \in Nat
    OBVIOUS
  <2> HIDE DEF X
  <2>2. g \in Seq(X)
    BY <2>1, SeqDef
  <2>3. Len(g) = m - 1
    BY <2>1, <2>2, LenProperties
  <2>4. Front(f) = SubSeq(f, 1, m - 1)
    BY <1>1 DEF Front
  <2> DEFINE q == SubSeq(f, 1, m - 1)
  <2>5. /\ q \in Seq(X) /\ Len(q) = m - 1
        /\ \A s \in 1 .. m - 1 : q[s] = f[s]
    <3>1. 1 \in Int /\ m - 1 \in Int /\ \A s \in 1 .. m - 1 : f[s] \in X
      BY <1>1, LenProperties
    <3> DEFINE e == m - 1
    <3>2. e \in Int /\ \A s \in 1 .. e : f[s] \in X
      BY <3>1
    <3> HIDE DEF e
    <3>5. /\ SubSeq(f, 1, e) \in Seq(X)
          /\ Len(SubSeq(f, 1, e)) = IF 1 <= e THEN e - 1 + 1 ELSE 0
          /\ \A s \in 1 .. e - 1 + 1 : SubSeq(f, 1, e)[s] = f[1 + s - 1]
      BY <1>1, <3>2
    <3>6. e - 1 + 1 = e
      BY <3>2
    <3> HIDE DEF q
    <3>3. ~(1 <= e) => e = 0
      BY DEF e
    <3>4. \A s \in 1 .. m - 1 : 1 + s - 1 = s
      OBVIOUS
    <3> QED
      BY <3>3, <3>4, <3>5, <3>6 DEF q, e
  <2>6. q = [s \in 1 .. m - 1 |-> q[s]]
    BY <2>5, LenProperties
  <2> HIDE DEF q
  <2>7. q = [s \in 1 .. m - 1 |-> f[s]]
    BY <2>5, <2>6
  <2> QED
    BY <2>2, <2>3, <2>4, <2>7 DEF q
<1>5. Append(g, c) = [s \in 1 .. m |-> IF s = m THEN c ELSE f[s]]
  <2> DEFINE h == Append(g, c)
  <2>1. c \in X
    OBVIOUS
  <2>2. \A s \in 1 .. m - 1 : g[s] = f[s]
    OBVIOUS
  <2> HIDE DEF X, g
  <2>3. /\ h \in Seq(X) /\ Len(h) = m
        /\ \A s \in 1 .. m - 1 : h[s] = g[s]
        /\ h[m] = c
    <3>1. /\ h \in Seq(X) /\ Len(h) = Len(g) + 1
          /\ \A s \in 1 .. Len(g) : h[s] = g[s]
          /\ h[Len(g) + 1] = c
      BY <1>4, <2>1, AppendProperties
    <3>2. Len(g) + 1 = m
      BY <1>4
    <3> HIDE DEF h
    <3> QED
      BY <1>4, <3>1, <3>2
  <2>4. h = [s \in 1 .. m |-> h[s]]
    BY <2>3, LenProperties
  <2> HIDE DEF h
  <2>5. \A s \in 1 .. m : h[s] = IF s = m THEN c ELSE f[s]
    <3>1. \A s \in 1 .. m : s # m => s \in 1 .. m - 1
      OBVIOUS
    <3> QED
      BY <2>2, <2>3, <3>1
  <2>6. h = [s \in 1 .. m |-> IF s = m THEN c ELSE f[s]]
    BY <2>4, <2>5
  <2> QED
    BY <2>6 DEF h
<1> QED
  BY <1>2, <1>3, <1>4, <1>5 DEF Longer, Changed

\* One more word, behind the others.
LEMMA OneMoreWord ==
  ASSUME NEW tokens, NEW k \in Nat \ {0}, NEW S \in SUBSET (1 .. k - 1)
  PROVE  /\ Cardinality(S) \in Nat
         /\ Append(WordsAt(tokens, S), tokens[k]) = WordsAt(tokens, S \cup {k})
<1> DEFINE m == Cardinality(S)
           T == S \cup {k}
           f == WordsAt(tokens, S)
<1>1. IsFiniteSet(S) /\ m \in Nat /\ Cardinality(T) = m + 1
  <2>1. IsFiniteSet(1 .. k - 1)
    BY FS_Interval
  <2>2. IsFiniteSet(S)
    BY <2>1, FS_Subset
  <2>3. k \notin S
    OBVIOUS
  <2> QED
    BY <2>2, <2>3, FS_CardinalityType, FS_AddElement
<1>2. \A x \in S : {j \in T : j <= x} = {j \in S : j <= x}
  OBVIOUS
<1>3. \A x \in S : Cardinality({j \in S : j <= x}) \in Nat /\ Cardinality({j \in S : j <= x}) <= m
  <2> SUFFICES ASSUME NEW x \in S
               PROVE  Cardinality({j \in S : j <= x}) \in Nat
                      /\ Cardinality({j \in S : j <= x}) <= m
    OBVIOUS
  <2>1. {j \in S : j <= x} \in SUBSET S
    OBVIOUS
  <2> QED
    BY <1>1, <2>1, FS_Subset, FS_CardinalityType
<1>4. {j \in T : j <= k} = T
  <2>1. \A j \in S : j <= k
    OBVIOUS
  <2>2. k <= k
    OBVIOUS
  <2> QED
    BY <2>1, <2>2
<1>5. \A n \in 1 .. m : Ranked(T, n) = Ranked(S, n)
  <2> SUFFICES ASSUME NEW n \in 1 .. m PROVE Ranked(T, n) = Ranked(S, n)
    OBVIOUS
  <2>1. Cardinality({j \in T : j <= k}) # n
    BY <1>1, <1>4
  <2>2. \A x \in S : Cardinality({j \in T : j <= x}) = Cardinality({j \in S : j <= x})
    BY <1>2
  <2> QED
    BY <2>1, <2>2 DEF Ranked
<1>6. Ranked(T, m + 1) = {k}
  <2>1. Cardinality({j \in T : j <= k}) = m + 1
    BY <1>1, <1>4
  <2>2. \A x \in S : Cardinality({j \in T : j <= x}) # m + 1
    BY <1>1, <1>2, <1>3
  <2> QED
    BY <2>1, <2>2 DEF Ranked
<1>7. f = [n \in 1 .. m |-> tokens[CHOOSE x \in Ranked(S, n) : TRUE]]
  BY DEF WordsAt
<1>8. WordsAt(tokens, T) = [n \in 1 .. m + 1 |-> tokens[CHOOSE x \in Ranked(T, n) : TRUE]]
  BY <1>1 DEF WordsAt
<1> DEFINE g == WordsAt(tokens, T)
<1> HIDE DEF m, T, f, g
<1>9. \A n \in 1 .. m : g[n] = f[n]
  BY <1>1, <1>5, <1>7, <1>8 DEF g
<1>10. g[m + 1] = tokens[k]
  <2>1. (CHOOSE x \in {k} : TRUE) = k
    OBVIOUS
  <2>2. g[m + 1] = tokens[CHOOSE x \in Ranked(T, m + 1) : TRUE]
    BY <1>1, <1>8 DEF g
  <2> QED
    BY <1>6, <2>1, <2>2
<1>11. g = [n \in 1 .. m + 1 |-> g[n]] /\ f = [n \in 1 .. m |-> f[n]]
  BY <1>7, <1>8 DEF g
<1>12. Append(f, tokens[k]) = g
  <2> DEFINE X == {f[n] : n \in 1 .. m} \cup {tokens[k]}
             h == Append(f, tokens[k])
  <2>1. f \in [1 .. m -> X] /\ tokens[k] \in X
    BY <1>11
  <2> HIDE DEF X
  <2>2. f \in Seq(X) /\ Len(f) = m
    <3>1. f \in Seq(X)
      BY <1>1, <2>1, SeqDef
    <3> QED
      BY <1>1, <2>1, <3>1, LenProperties
  <2>3. /\ h \in Seq(X) /\ Len(h) = m + 1
        /\ \A n \in 1 .. m : h[n] = f[n]
        /\ h[m + 1] = tokens[k]
    BY <2>1, <2>2, AppendProperties
  <2>4. h = [n \in 1 .. m + 1 |-> h[n]]
    BY <2>3, LenProperties
  <2> HIDE DEF h
  <2>5. \A n \in 1 .. m + 1 : h[n] = g[n]
    BY <1>1, <1>9, <1>10, <2>3
  <2>6. h = g
    BY <1>11, <2>4, <2>5
  <2> QED
    BY <2>6 DEF h
<1> QED
  BY <1>1, <1>12 DEF m, T, f, g

-----------------------------------------------------------------------------
(* What the loop has made of the tokens up to token k *)

UpTo(S, k) == {x \in S : x <= k}

RecordUpTo(tokens, s, k) ==
  [inFile |-> FileOf(tokens, UpTo(Redirections(tokens, s, "<"), k)),
   outFile |-> FileOf(tokens, UpTo(Redirections(tokens, s, ">"), k)),
   cmd |-> WordsAt(tokens, UpTo(Arguments(tokens, s), k))]

RecordsUpTo(tokens, k) ==
  [s \in 1 .. 1 + Ended(tokens, k + 1) |-> RecordUpTo(tokens, s, k)]

IsBar(tokens, x) == tokens[x] = "|"
IsInput(tokens, x) == tokens[x] = "<"
IsOutput(tokens, x) == tokens[x] = ">"
IsRedirection(tokens, x) == IsInput(tokens, x) \/ IsOutput(tokens, x)
SameKind(tokens, x, j) ==
  (IsInput(tokens, x) /\ IsInput(tokens, j)) \/ (IsOutput(tokens, x) /\ IsOutput(tokens, j))

GrammaticalUpTo(tokens, k) ==
  /\ WordAt(tokens, 1)
  /\ \A x \in 1 .. k : is_operator(tokens[x]) => WordAt(tokens, x + 1)
  /\ \A x \in 1 .. k, j \in 1 .. k :
       x < j /\ SameKind(tokens, x, j) => Bars(tokens, x) # Bars(tokens, j)

LoopAt(tokens, p, k) ==
  /\ p = [commands |-> p.commands, taken |-> p.taken, valid |-> p.valid]
  /\ p.valid \in BOOLEAN /\ p.taken \in BOOLEAN
  /\ p.valid <=> GrammaticalUpTo(tokens, k)
  /\ p.valid => /\ p.taken <=> k > 0 /\ IsRedirection(tokens, k)
                /\ p.commands = RecordsUpTo(tokens, k)

LEMMA Kinds ==
  ASSUME NEW tokens, NEW x
  PROVE  /\ is_operator(tokens[x]) <=> IsBar(tokens, x) \/ IsRedirection(tokens, x)
         /\ ~(IsBar(tokens, x) /\ IsRedirection(tokens, x))
         /\ ~(IsInput(tokens, x) /\ IsOutput(tokens, x))
BY DEF is_operator, Operators, IsBar, IsRedirection, IsInput, IsOutput

LEMMA UpToNext ==
  ASSUME NEW n \in Nat, NEW S \in SUBSET (1 .. n), NEW k \in 1 .. n
  PROVE  /\ k \notin S => UpTo(S, k) = UpTo(S, k - 1)
         /\ k \in S => UpTo(S, k) = UpTo(S, k - 1) \cup {k}
         /\ UpTo(S, k - 1) \in SUBSET (1 .. k - 1)
<1>1. \A x \in S : x \in Int /\ (x <= k - 1 <=> x <= k /\ x # k) /\ 1 <= x
  OBVIOUS
<1>2. k <= k
  OBVIOUS
<1>3. k \notin S => UpTo(S, k) = UpTo(S, k - 1)
  BY <1>1 DEF UpTo
<1>4. k \in S => UpTo(S, k) = UpTo(S, k - 1) \cup {k}
  BY <1>1, <1>2 DEF UpTo
<1>5. UpTo(S, k - 1) \in SUBSET (1 .. k - 1)
  <2>1. \A x \in UpTo(S, k - 1) : x \in Int /\ 1 <= x /\ x <= k - 1
    BY <1>1 DEF UpTo
  <2> QED
    BY <2>1
<1> QED
  BY <1>3, <1>4, <1>5

LEMMA UpToSame ==
  ASSUME NEW n \in Nat, NEW k \in 1 .. n
  PROVE  \A S \in SUBSET (1 .. n) : k \notin S => UpTo(S, k) = UpTo(S, k - 1)
BY UpToNext

LEMMA Members ==
  ASSUME NEW tokens, NEW n \in Nat, DOMAIN tokens = 1 .. n, NEW k \in 1 .. n, NEW s \in Nat
  PROVE  /\ k \in Redirections(tokens, s, "<") <=> s = 1 + Ended(tokens, k) /\ IsInput(tokens, k)
         /\ k \in Redirections(tokens, s, ">") <=> s = 1 + Ended(tokens, k) /\ IsOutput(tokens, k)
         /\ k \in Arguments(tokens, s) <=>
              /\ s = 1 + Ended(tokens, k) /\ ~is_operator(tokens[k])
              /\ k > 1 => ~IsRedirection(tokens, k - 1)
         /\ Redirections(tokens, s, "<") \in SUBSET (1 .. n)
         /\ Redirections(tokens, s, ">") \in SUBSET (1 .. n)
         /\ Arguments(tokens, s) \in SUBSET (1 .. n)
<1>1. k \in Nat /\ Ended(tokens, k) \in Nat
  BY EndedCounts
<1>2. Ended(tokens, k) = s - 1 <=> s = 1 + Ended(tokens, k)
  BY <1>1
<1>3. k \in Stage(tokens, s) <=> s = 1 + Ended(tokens, k)
  BY <1>2 DEF Stage, Ended
<1>4. Stage(tokens, s) \in SUBSET (1 .. n)
  BY DEF Stage
<1>5. tokens[k - 1] \notin {"<", ">"} <=> ~IsRedirection(tokens, k - 1)
  BY DEF IsRedirection, IsInput, IsOutput
<1> QED
  BY <1>3, <1>4, <1>5 DEF Redirections, Arguments, IsArgument, IsInput, IsOutput

LEMMA RecordSame ==
  ASSUME NEW tokens, NEW n \in Nat, DOMAIN tokens = 1 .. n, NEW k \in 1 .. n, NEW s \in Nat,
         k \notin Redirections(tokens, s, "<"), k \notin Redirections(tokens, s, ">"),
         k \notin Arguments(tokens, s)
  PROVE  RecordUpTo(tokens, s, k) = RecordUpTo(tokens, s, k - 1)
<1>1. /\ UpTo(Redirections(tokens, s, "<"), k) = UpTo(Redirections(tokens, s, "<"), k - 1)
      /\ UpTo(Redirections(tokens, s, ">"), k) = UpTo(Redirections(tokens, s, ">"), k - 1)
      /\ UpTo(Arguments(tokens, s), k) = UpTo(Arguments(tokens, s), k - 1)
  <2> DEFINE in == Redirections(tokens, s, "<")
             out == Redirections(tokens, s, ">")
             words == Arguments(tokens, s)
  <2>1. in \in SUBSET (1 .. n) /\ out \in SUBSET (1 .. n) /\ words \in SUBSET (1 .. n)
    BY Members
  <2>2. k \notin in /\ k \notin out /\ k \notin words
    OBVIOUS
  <2> HIDE DEF in, out, words
  <2>3. \A S \in SUBSET (1 .. n) : k \notin S => UpTo(S, k) = UpTo(S, k - 1)
    BY UpToNext
  <2>4. UpTo(in, k) = UpTo(in, k - 1) /\ UpTo(out, k) = UpTo(out, k - 1)
        /\ UpTo(words, k) = UpTo(words, k - 1)
    BY <2>1, <2>2, <2>3
  <2> QED
    BY <2>4 DEF in, out, words
<1> QED
  BY <1>1 DEF RecordUpTo

\* A file is given for a redirection exactly if there was one of its kind.
IsGiven(file) == file # ""

LEMMA FileGiven ==
  ASSUME NEW tokens, NEW at, \A x \in at : IsGiven(tokens[1 + x])
  PROVE  IsGiven(FileOf(tokens, at)) <=> at # {}
<1>1. CASE at = {}
  BY <1>1 DEF FileOf, IsGiven
<1>2. CASE at # {}
  <2> DEFINE x == CHOOSE x \in at : TRUE
  <2>1. x \in at
    BY <1>2
  <2>2. FileOf(tokens, at) = tokens[1 + x]
    BY <1>2 DEF FileOf
  <2> HIDE DEF x
  <2> QED
    BY <1>2, <2>1, <2>2
<1> QED
  BY <1>1, <1>2

\* What the grammar asks of one token more.
LEMMA GrammarNext ==
  ASSUME NEW tokens, NEW n \in Nat, DOMAIN tokens = 1 .. n, NEW k \in 1 .. n
  PROVE  GrammaticalUpTo(tokens, k) <=>
           /\ GrammaticalUpTo(tokens, k - 1)
           /\ is_operator(tokens[k]) => WordAt(tokens, k + 1)
           /\ \A x \in 1 .. k - 1 :
                SameKind(tokens, x, k) => Ended(tokens, x) # Ended(tokens, k)
<1>1. \A x \in 1 .. k - 1 : Ended(tokens, x) = Ended(tokens, k) <=> Bars(tokens, x) = Bars(tokens, k)
  <2> SUFFICES ASSUME NEW x \in 1 .. k - 1
               PROVE  Ended(tokens, x) = Ended(tokens, k) <=> Bars(tokens, x) = Bars(tokens, k)
    OBVIOUS
  <2>1. x \in Nat /\ k \in Nat /\ x <= k
    OBVIOUS
  <2> QED
    BY <2>1, EndedCounts
<1>2. \A x \in 1 .. k : x \in 1 .. k - 1 \/ x = k
  OBVIOUS
<1>3. \A x \in 1 .. k - 1 : x \in 1 .. k /\ x < k /\ ~(k < x)
  OBVIOUS
<1>4. k \in 1 .. k /\ ~(k < k)
  OBVIOUS
<1> QED
  BY <1>1, <1>2, <1>3, <1>4 DEF GrammaticalUpTo

LEMMA RecordsNow ==
  ASSUME NEW tokens, NEW n \in Nat, DOMAIN tokens = 1 .. n, NEW k \in 1 .. n, NEW m,
         m = 1 + Ended(tokens, k)
  PROVE  /\ m \in Nat \ {0}
         /\ RecordsUpTo(tokens, k - 1) = [s \in 1 .. m |-> RecordUpTo(tokens, s, k - 1)]
         /\ IsBar(tokens, k) =>
              RecordsUpTo(tokens, k) = [s \in 1 .. m + 1 |-> RecordUpTo(tokens, s, k)]
         /\ ~IsBar(tokens, k) =>
              RecordsUpTo(tokens, k) = [s \in 1 .. m |-> RecordUpTo(tokens, s, k)]
<1>1. /\ k \in Nat /\ Ended(tokens, k) \in Nat /\ (k - 1) + 1 = k
      /\ Ended(tokens, k + 1) = IF IsBar(tokens, k) THEN Ended(tokens, k) + 1
                                ELSE Ended(tokens, k)
  <2>1. k \in Nat /\ (k - 1) + 1 = k
    OBVIOUS
  <2> QED
    BY <2>1, EndedCounts DEF IsBar
<1>2. 1 + Ended(tokens, (k - 1) + 1) = m
  BY <1>1
<1>3. /\ IsBar(tokens, k) => 1 + Ended(tokens, k + 1) = m + 1
      /\ ~IsBar(tokens, k) => 1 + Ended(tokens, k + 1) = m
  BY <1>1
<1> QED
  BY <1>1, <1>2, <1>3 DEF RecordsUpTo

LEMMA OtherRecords ==
  ASSUME NEW tokens, NEW n \in Nat, DOMAIN tokens = 1 .. n, NEW k \in 1 .. n,
         NEW s \in Nat, s # 1 + Ended(tokens, k)
  PROVE  RecordUpTo(tokens, s, k) = RecordUpTo(tokens, s, k - 1)
<1>1. /\ k \notin Redirections(tokens, s, "<") /\ k \notin Redirections(tokens, s, ">")
      /\ k \notin Arguments(tokens, s)
  BY Members
<1> QED
  BY <1>1, RecordSame

\* A token that is no bar changes the record of its command alone.
LEMMA LastReplaced ==
  ASSUME NEW tokens, NEW n \in Nat, DOMAIN tokens = 1 .. n, NEW k \in 1 .. n, NEW m,
         m = 1 + Ended(tokens, k), NEW f, f = RecordsUpTo(tokens, k - 1), ~IsBar(tokens, k)
  PROVE  /\ Last(f) = RecordUpTo(tokens, m, k - 1)
         /\ Append(Front(f), RecordUpTo(tokens, m, k)) = RecordsUpTo(tokens, k)
<1> DEFINE d == RecordUpTo(tokens, m, k)
<1>1. /\ m \in Nat \ {0}
      /\ f = [s \in 1 .. m |-> RecordUpTo(tokens, s, k - 1)]
      /\ RecordsUpTo(tokens, k) = [s \in 1 .. m |-> RecordUpTo(tokens, s, k)]
  BY RecordsNow
<1>2. f = [s \in 1 .. m |-> f[s]] /\ f[m] = RecordUpTo(tokens, m, k - 1)
  BY <1>1
<1>3. Last(f) = f[m] /\ Append(Front(f), d) = Changed(f, m, d)
  <2>1. m \in Nat \ {0} /\ IsList(f, m)
    BY <1>1, <1>2 DEF IsList
  <2> HIDE DEF d
  <2> QED
    BY <2>1, ListOps
<1>4. ASSUME NEW s \in 1 .. m
      PROVE  (IF s = m THEN d ELSE f[s]) = RecordUpTo(tokens, s, k)
  <2>1. s \in Nat /\ f[s] = RecordUpTo(tokens, s, k - 1)
    BY <1>1
  <2>2. s # m => RecordUpTo(tokens, s, k) = RecordUpTo(tokens, s, k - 1)
    BY <2>1, OtherRecords
  <2> QED
    BY <2>1, <2>2
<1>5. Append(Front(f), d) = RecordsUpTo(tokens, k)
  BY <1>1, <1>3, <1>4 DEF Changed
<1> QED
  BY <1>2, <1>3, <1>5

\* A bar adds a record in which there is nothing yet.
LEMMA RecordAdded ==
  ASSUME NEW tokens, NEW n \in Nat, DOMAIN tokens = 1 .. n, NEW k \in 1 .. n,
         NEW f, f = RecordsUpTo(tokens, k - 1), IsBar(tokens, k)
  PROVE  Append(f, Command(<<>>)) = RecordsUpTo(tokens, k)
<1> DEFINE m == 1 + Ended(tokens, k)
           d == Command(<<>>)
<1>1. /\ m \in Nat \ {0}
      /\ f = [s \in 1 .. m |-> RecordUpTo(tokens, s, k - 1)]
      /\ RecordsUpTo(tokens, k) = [s \in 1 .. m + 1 |-> RecordUpTo(tokens, s, k)]
  BY RecordsNow
<1>2. Append(f, d) = Longer(f, m, d)
  <2>1. IsList(f, m)
    BY <1>1 DEF IsList
  <2> HIDE DEF d, m
  <2> QED
    BY <1>1, <2>1, ListOps
<1>3. ASSUME NEW s \in 1 .. m
      PROVE  f[s] = RecordUpTo(tokens, s, k)
  <2>1. s \in Nat /\ f[s] = RecordUpTo(tokens, s, k - 1)
    BY <1>1
  <2>2. /\ k \notin Redirections(tokens, s, "<") /\ k \notin Redirections(tokens, s, ">")
        /\ k \notin Arguments(tokens, s)
    <3>1. is_operator(tokens[k]) /\ ~IsInput(tokens, k) /\ ~IsOutput(tokens, k)
      BY Kinds DEF IsRedirection
    <3> QED
      BY <2>1, <3>1, Members
  <2> QED
    BY <2>1, <2>2, RecordSame
<1>4. RecordUpTo(tokens, m + 1, k) = d
  <2> DEFINE in == UpTo(Redirections(tokens, m + 1, "<"), k)
             out == UpTo(Redirections(tokens, m + 1, ">"), k)
             words == UpTo(Arguments(tokens, m + 1), k)
  <2>1. ASSUME NEW x \in 1 .. n, x <= k
        PROVE  /\ x \notin Redirections(tokens, m + 1, "<")
               /\ x \notin Redirections(tokens, m + 1, ">")
               /\ x \notin Arguments(tokens, m + 1)
    <3>1. /\ x \in Nat /\ k \in Nat /\ Ended(tokens, x) \in Nat /\ Ended(tokens, k) \in Nat
          /\ Ended(tokens, x) <= Ended(tokens, k)
      <4>1. x \in Nat /\ k \in Nat
        OBVIOUS
      <4> QED
        BY <2>1, <4>1, EndedCounts
    <3>2. m + 1 \in Nat /\ m + 1 # 1 + Ended(tokens, x)
      BY <3>1
    <3> HIDE DEF m
    <3> QED
      BY <3>2, Members
  <2>2. in = {} /\ out = {} /\ words = {}
    <3>1. m + 1 \in Nat
      BY <1>1
    <3> HIDE DEF m
    <3>2. /\ Redirections(tokens, m + 1, "<") \in SUBSET (1 .. n)
          /\ Redirections(tokens, m + 1, ">") \in SUBSET (1 .. n)
          /\ Arguments(tokens, m + 1) \in SUBSET (1 .. n)
      BY <3>1, Members
    <3> QED
      BY <2>1, <3>2 DEF UpTo
  <2>3. FileOf(tokens, {}) = ""
    BY DEF FileOf
  <2>4. WordsAt(tokens, {}) = <<>>
    BY FS_EmptySet DEF WordsAt
  <2>5. RecordUpTo(tokens, m + 1, k) = [inFile |-> FileOf(tokens, in),
                                        outFile |-> FileOf(tokens, out),
                                        cmd |-> WordsAt(tokens, words)]
    BY DEF RecordUpTo
  <2> HIDE DEF in, out, words, m
  <2> QED
    BY <2>2, <2>3, <2>4, <2>5 DEF Command
<1>5. \A s \in 1 .. m + 1 : (IF s = m + 1 THEN d ELSE f[s]) = RecordUpTo(tokens, s, k)
  <2>1. \A s \in 1 .. m + 1 : s # m + 1 => s \in 1 .. m
    BY <1>1
  <2> HIDE DEF m, d
  <2> QED
    BY <1>3, <1>4, <2>1
<1> HIDE DEF m, d
<1>6. Append(f, d) = RecordsUpTo(tokens, k)
  BY <1>1, <1>2, <1>5 DEF Longer
<1> QED
  BY <1>6 DEF d

\* What happens to the record of the command at hand.
LEMMA WordAdded ==
  ASSUME NEW tokens, NEW n \in Nat, DOMAIN tokens = 1 .. n, NEW k \in 1 .. n, NEW m,
         m = 1 + Ended(tokens, k), ~is_operator(tokens[k]),
         k > 1 => ~IsRedirection(tokens, k - 1)
  PROVE  [RecordUpTo(tokens, m, k - 1) EXCEPT !.cmd = Append(@, tokens[k])]
           = RecordUpTo(tokens, m, k)
<1> DEFINE in == Redirections(tokens, m, "<")
           out == Redirections(tokens, m, ">")
           words == Arguments(tokens, m)
<1>1. m \in Nat /\ ~IsInput(tokens, k) /\ ~IsOutput(tokens, k)
  <2>1. k \in Nat /\ Ended(tokens, k) \in Nat
    BY EndedCounts
  <2> QED
    BY <2>1, Kinds DEF IsRedirection
<1>2. /\ k \notin in /\ k \notin out /\ k \in words
      /\ in \in SUBSET (1 .. n) /\ out \in SUBSET (1 .. n) /\ words \in SUBSET (1 .. n)
  BY <1>1, Members
<1>3. /\ RecordUpTo(tokens, m, k) = [inFile |-> FileOf(tokens, UpTo(in, k)),
                                     outFile |-> FileOf(tokens, UpTo(out, k)),
                                     cmd |-> WordsAt(tokens, UpTo(words, k))]
      /\ RecordUpTo(tokens, m, k - 1) = [inFile |-> FileOf(tokens, UpTo(in, k - 1)),
                                         outFile |-> FileOf(tokens, UpTo(out, k - 1)),
                                         cmd |-> WordsAt(tokens, UpTo(words, k - 1))]
  BY DEF RecordUpTo
<1> HIDE DEF in, out, words
<1>4. UpTo(in, k) = UpTo(in, k - 1) /\ UpTo(out, k) = UpTo(out, k - 1)
  <2>1. \A S \in SUBSET (1 .. n) : k \notin S => UpTo(S, k) = UpTo(S, k - 1)
    BY UpToSame
  <2> QED
    BY <1>2, <2>1
<1>5. Append(WordsAt(tokens, UpTo(words, k - 1)), tokens[k]) = WordsAt(tokens, UpTo(words, k))
  <2>1. /\ UpTo(words, k) = UpTo(words, k - 1) \cup {k}
        /\ UpTo(words, k - 1) \in SUBSET (1 .. k - 1)
    BY <1>2, UpToNext
  <2>2. k \in Nat \ {0}
    OBVIOUS
  <2>3. Append(WordsAt(tokens, UpTo(words, k - 1)), tokens[k])
          = WordsAt(tokens, UpTo(words, k - 1) \cup {k})
    BY <2>1, <2>2, OneMoreWord
  <2> QED
    BY <2>1, <2>3
<1> DEFINE before == UpTo(words, k - 1)
           now == WordsAt(tokens, UpTo(words, k))
<1>6. Append(WordsAt(tokens, before), tokens[k]) = now
  BY <1>5
<1>7. RecordUpTo(tokens, m, k) = [inFile |-> FileOf(tokens, UpTo(in, k - 1)),
                                  outFile |-> FileOf(tokens, UpTo(out, k - 1)),
                                  cmd |-> now]
  BY <1>3, <1>4
<1>8. RecordUpTo(tokens, m, k - 1) = [inFile |-> FileOf(tokens, UpTo(in, k - 1)),
                                      outFile |-> FileOf(tokens, UpTo(out, k - 1)),
                                      cmd |-> WordsAt(tokens, before)]
  BY <1>3
<1> DEFINE r == RecordUpTo(tokens, m, k - 1)
           old == WordsAt(tokens, before)
<1>9. r.cmd = old /\ Append(old, tokens[k]) = now
  BY <1>6, <1>8
<1> HIDE DEF before, now, old
<1>10. [r EXCEPT !.cmd = now] = RecordUpTo(tokens, m, k)
  BY <1>7, <1>8
<1> HIDE DEF r
<1>11. Append(r.cmd, tokens[k]) = now
  BY <1>9
<1>12. [r EXCEPT !.cmd = Append(r.cmd, tokens[k])] = RecordUpTo(tokens, m, k)
  BY <1>10, <1>11, Zenon
<1> QED
  BY <1>12, Zenon DEF r

LEMMA NextIsFile ==
  ASSUME NEW tokens, NEW n \in Nat, DOMAIN tokens = 1 .. n, NEW k \in 1 .. n,
         NEW S \in SUBSET (1 .. n), UpTo(S, k - 1) = {}, k \in S
  PROVE  FileOf(tokens, UpTo(S, k)) = tokens[k + 1]
<1>1. UpTo(S, k) = {k}
  BY UpToNext
<1>2. (CHOOSE x \in {k} : TRUE) = k
  OBVIOUS
<1>3. FileOf(tokens, {k}) = tokens[1 + k]
  BY <1>2 DEF FileOf
<1> QED
  BY <1>1, <1>3

\* The file of an input redirection, and of an output redirection.
LEMMA InputAdded ==
  ASSUME NEW tokens, NEW n \in Nat, DOMAIN tokens = 1 .. n, NEW k \in 1 .. n, NEW m,
         m = 1 + Ended(tokens, k), IsInput(tokens, k),
         UpTo(Redirections(tokens, m, "<"), k - 1) = {}
  PROVE  [RecordUpTo(tokens, m, k - 1) EXCEPT !.inFile = tokens[k + 1]]
           = RecordUpTo(tokens, m, k)
<1> DEFINE in == Redirections(tokens, m, "<")
           out == Redirections(tokens, m, ">")
           words == Arguments(tokens, m)
<1>1. m \in Nat /\ ~IsOutput(tokens, k) /\ is_operator(tokens[k])
  <2>1. k \in Nat /\ Ended(tokens, k) \in Nat
    BY EndedCounts
  <2> QED
    BY <2>1, Kinds DEF IsRedirection
<1>2. /\ k \in in /\ k \notin out /\ k \notin words
      /\ in \in SUBSET (1 .. n) /\ out \in SUBSET (1 .. n) /\ words \in SUBSET (1 .. n)
  BY <1>1, Members
<1>3. /\ RecordUpTo(tokens, m, k) = [inFile |-> FileOf(tokens, UpTo(in, k)),
                                     outFile |-> FileOf(tokens, UpTo(out, k)),
                                     cmd |-> WordsAt(tokens, UpTo(words, k))]
      /\ RecordUpTo(tokens, m, k - 1) = [inFile |-> FileOf(tokens, UpTo(in, k - 1)),
                                         outFile |-> FileOf(tokens, UpTo(out, k - 1)),
                                         cmd |-> WordsAt(tokens, UpTo(words, k - 1))]
  BY DEF RecordUpTo
<1>4. UpTo(in, k - 1) = {}
  OBVIOUS
<1> HIDE DEF in, out, words
<1>5. UpTo(out, k) = UpTo(out, k - 1) /\ UpTo(words, k) = UpTo(words, k - 1)
  <2>1. \A S \in SUBSET (1 .. n) : k \notin S => UpTo(S, k) = UpTo(S, k - 1)
    BY UpToSame
  <2> QED
    BY <1>2, <2>1
<1>6. FileOf(tokens, UpTo(in, k)) = tokens[k + 1]
  BY <1>2, <1>4, NextIsFile
<1> QED
  BY <1>3, <1>5, <1>6

LEMMA OutputAdded ==
  ASSUME NEW tokens, NEW n \in Nat, DOMAIN tokens = 1 .. n, NEW k \in 1 .. n, NEW m,
         m = 1 + Ended(tokens, k), IsOutput(tokens, k),
         UpTo(Redirections(tokens, m, ">"), k - 1) = {}
  PROVE  [RecordUpTo(tokens, m, k - 1) EXCEPT !.outFile = tokens[k + 1]]
           = RecordUpTo(tokens, m, k)
<1> DEFINE in == Redirections(tokens, m, "<")
           out == Redirections(tokens, m, ">")
           words == Arguments(tokens, m)
<1>1. m \in Nat /\ ~IsInput(tokens, k) /\ is_operator(tokens[k])
  <2>1. k \in Nat /\ Ended(tokens, k) \in Nat
    BY EndedCounts
  <2> QED
    BY <2>1, Kinds DEF IsRedirection
<1>2. /\ k \notin in /\ k \in out /\ k \notin words
      /\ in \in SUBSET (1 .. n) /\ out \in SUBSET (1 .. n) /\ words \in SUBSET (1 .. n)
  BY <1>1, Members
<1>3. /\ RecordUpTo(tokens, m, k) = [inFile |-> FileOf(tokens, UpTo(in, k)),
                                     outFile |-> FileOf(tokens, UpTo(out, k)),
                                     cmd |-> WordsAt(tokens, UpTo(words, k))]
      /\ RecordUpTo(tokens, m, k - 1) = [inFile |-> FileOf(tokens, UpTo(in, k - 1)),
                                         outFile |-> FileOf(tokens, UpTo(out, k - 1)),
                                         cmd |-> WordsAt(tokens, UpTo(words, k - 1))]
  BY DEF RecordUpTo
<1>4. UpTo(out, k - 1) = {}
  OBVIOUS
<1> HIDE DEF in, out, words
<1>5. UpTo(in, k) = UpTo(in, k - 1) /\ UpTo(words, k) = UpTo(words, k - 1)
  <2>1. \A S \in SUBSET (1 .. n) : k \notin S => UpTo(S, k) = UpTo(S, k - 1)
    BY UpToSame
  <2> QED
    BY <1>2, <2>1
<1>6. FileOf(tokens, UpTo(out, k)) = tokens[k + 1]
  BY <1>2, <1>4, NextIsFile
<1> QED
  BY <1>3, <1>5, <1>6

\* A second redirection of a kind is seen by the file name of the first.
LEMMA GivenBefore ==
  ASSUME NEW tokens, NEW n \in Nat, DOMAIN tokens = 1 .. n, NEW k \in 1 .. n, NEW m,
         \A x \in 1 .. n : IsGiven(tokens[x]),
         m = 1 + Ended(tokens, k), GrammaticalUpTo(tokens, k - 1)
  PROVE  /\ IsInput(tokens, k) =>
              /\ IsGiven(RecordUpTo(tokens, m, k - 1).inFile) <=>
                   \E x \in 1 .. k - 1 : /\ SameKind(tokens, x, k)
                                         /\ Ended(tokens, x) = Ended(tokens, k)
              /\ ~IsGiven(RecordUpTo(tokens, m, k - 1).inFile) <=>
                   UpTo(Redirections(tokens, m, "<"), k - 1) = {}
         /\ IsOutput(tokens, k) =>
              /\ IsGiven(RecordUpTo(tokens, m, k - 1).outFile) <=>
                   \E x \in 1 .. k - 1 : /\ SameKind(tokens, x, k)
                                         /\ Ended(tokens, x) = Ended(tokens, k)
              /\ ~IsGiven(RecordUpTo(tokens, m, k - 1).outFile) <=>
                   UpTo(Redirections(tokens, m, ">"), k - 1) = {}
<1> DEFINE in == UpTo(Redirections(tokens, m, "<"), k - 1)
           out == UpTo(Redirections(tokens, m, ">"), k - 1)
<1>1. k \in Nat /\ Ended(tokens, k) \in Nat /\ m \in Nat
  <2>1. k \in Nat /\ Ended(tokens, k) \in Nat
    BY EndedCounts
  <2> QED
    BY <2>1
<1>2. ASSUME NEW x
      PROVE  /\ x \in in <=> x \in 1 .. k - 1 /\ IsInput(tokens, x) /\ Ended(tokens, x) = Ended(tokens, k)
             /\ x \in out <=> x \in 1 .. k - 1 /\ IsOutput(tokens, x) /\ Ended(tokens, x) = Ended(tokens, k)
  <2>1. x \in in \/ x \in out => x \in 1 .. n /\ x <= k - 1
    <3>1. /\ Redirections(tokens, m, "<") \in SUBSET (1 .. n)
          /\ Redirections(tokens, m, ">") \in SUBSET (1 .. n)
      BY <1>1, Members
    <3> QED
      BY <3>1 DEF UpTo
  <2>2. x \in 1 .. k - 1 <=> x \in 1 .. n /\ x <= k - 1
    OBVIOUS
  <2> SUFFICES ASSUME x \in 1 .. n, x <= k - 1
               PROVE  /\ x \in in <=> IsInput(tokens, x) /\ Ended(tokens, x) = Ended(tokens, k)
                      /\ x \in out <=> IsOutput(tokens, x) /\ Ended(tokens, x) = Ended(tokens, k)
    BY <2>1, <2>2
  <2>3. /\ x \in Redirections(tokens, m, "<") <=> m = 1 + Ended(tokens, x) /\ IsInput(tokens, x)
        /\ x \in Redirections(tokens, m, ">") <=> m = 1 + Ended(tokens, x) /\ IsOutput(tokens, x)
    BY <1>1, Members
  <2>4. m = 1 + Ended(tokens, x) <=> Ended(tokens, x) = Ended(tokens, k)
    <3>1. x \in Nat
      OBVIOUS
    <3>2. Ended(tokens, x) \in Nat
      BY <3>1, EndedCounts
    <3> QED
      BY <1>1, <3>2
  <2> QED
    BY <2>3, <2>4 DEF UpTo
<1>3. \A x \in in \cup out : IsGiven(tokens[1 + x])
  <2> SUFFICES ASSUME NEW x \in in \cup out PROVE IsGiven(tokens[1 + x])
    OBVIOUS
  <2>1. x \in 1 .. k - 1 /\ IsRedirection(tokens, x)
    BY <1>2 DEF IsRedirection
  <2>2. WordAt(tokens, x + 1)
    BY <2>1, Kinds DEF GrammaticalUpTo
  <2>3. x + 1 \in 1 .. n /\ 1 + x = x + 1
    BY <2>1, <2>2 DEF WordAt
  <2> QED
    BY <2>3
<1>4. RecordUpTo(tokens, m, k - 1).inFile = FileOf(tokens, in)
      /\ RecordUpTo(tokens, m, k - 1).outFile = FileOf(tokens, out)
  BY DEF RecordUpTo
<1>5. IsInput(tokens, k) => \A x : SameKind(tokens, x, k) <=> IsInput(tokens, x)
  BY Kinds DEF SameKind
<1>6. IsOutput(tokens, k) => \A x : SameKind(tokens, x, k) <=> IsOutput(tokens, x)
  BY Kinds DEF SameKind
<1> HIDE DEF in, out
<1>7. IsGiven(FileOf(tokens, in)) <=> in # {}
  BY <1>3, FileGiven
<1>8. IsGiven(FileOf(tokens, out)) <=> out # {}
  BY <1>3, FileGiven
<1>9. in # {} <=> \E x : x \in in
  OBVIOUS
<1>10. out # {} <=> \E x : x \in out
  OBVIOUS
<1>11. IsInput(tokens, k) =>
         /\ IsGiven(FileOf(tokens, in)) <=>
              \E x \in 1 .. k - 1 : SameKind(tokens, x, k) /\ Ended(tokens, x) = Ended(tokens, k)
         /\ ~IsGiven(FileOf(tokens, in)) <=> in = {}
  BY <1>2, <1>5, <1>7, <1>9
<1>12. IsOutput(tokens, k) =>
         /\ IsGiven(FileOf(tokens, out)) <=>
              \E x \in 1 .. k - 1 : SameKind(tokens, x, k) /\ Ended(tokens, x) = Ended(tokens, k)
         /\ ~IsGiven(FileOf(tokens, out)) <=> out = {}
  BY <1>2, <1>6, <1>8, <1>10
<1> QED
  BY <1>4, <1>11, <1>12 DEF in, out

LEMMA TakeDef ==
  ASSUME NEW tokens, NEW p, NEW k
  PROVE  /\ ~p.valid => TakeToken(tokens, p, k) = p
         /\ p.valid /\ p.taken => TakeToken(tokens, p, k) = [p EXCEPT !.taken = FALSE]
         /\ p.valid /\ ~p.taken /\ IsBar(tokens, k) =>
              TakeToken(tokens, p, k) = Pipe(tokens, p, k)
         /\ p.valid /\ ~p.taken /\ IsRedirection(tokens, k) =>
              TakeToken(tokens, p, k) = Redirect(tokens, p, k)
         /\ p.valid /\ ~p.taken /\ ~is_operator(tokens[k]) =>
              TakeToken(tokens, p, k) = Word(tokens, p, k)
BY Kinds, Zenon DEF TakeToken, IsBar

State(list, taken, valid) == [commands |-> list, taken |-> taken, valid |-> valid]

LEMMA InvalidState ==
  ASSUME NEW list, NEW taken, NEW valid
  PROVE  Invalid(State(list, taken, valid)) = State(list, taken, FALSE)
<1> DEFINE no == FALSE
<1> HIDE DEF no
<1>1. [State(list, taken, valid) EXCEPT !.valid = no] = State(list, taken, no)
  BY DEF State
<1> QED
  BY <1>1, Zenon DEF Invalid, no

SetTaken(p) == [p EXCEPT !.taken = TRUE]

LEMMA TakenState ==
  ASSUME NEW list, NEW taken, NEW valid
  PROVE  SetTaken(State(list, taken, valid)) = State(list, TRUE, valid)
<1> DEFINE yes == TRUE
<1> HIDE DEF yes
<1>1. [State(list, taken, valid) EXCEPT !.taken = yes] = State(list, yes, valid)
  BY DEF State
<1> QED
  BY <1>1, Zenon DEF SetTaken, yes

LEMMA WithLastState ==
  ASSUME NEW list, NEW taken, NEW valid, NEW d
  PROVE  WithLast(State(list, taken, valid), d)
           = State(Append(Front(list), d), taken, valid)
<1> DEFINE p == State(list, taken, valid)
           new == Append(Front(list), d)
<1>1. p.commands = list
  BY DEF State
<1>2. WithLast(p, d) = [p EXCEPT !.commands = new]
  <2> HIDE DEF p
  <2> QED
    BY <1>1, Zenon DEF WithLast
<1> HIDE DEF new
<1>3. [p EXCEPT !.commands = new] = State(new, taken, valid)
  BY DEF State
<1> HIDE DEF p
<1>4. WithLast(p, d) = State(new, taken, valid)
  BY <1>2, <1>3
<1> QED
  BY <1>4 DEF p, new

LEMMA RedirectDef ==
  ASSUME NEW tokens, NEW p, NEW k
  PROVE  /\ IsInput(tokens, k) =>
              Redirect(tokens, p, k) =
                IF IsGiven(Last(p.commands).inFile) \/ ~WordAt(tokens, k + 1) THEN Invalid(p)
                ELSE SetTaken(WithLast(p, [Last(p.commands) EXCEPT !.inFile = tokens[k + 1]]))
         /\ IsOutput(tokens, k) =>
              Redirect(tokens, p, k) =
                IF IsGiven(Last(p.commands).outFile) \/ ~WordAt(tokens, k + 1) THEN Invalid(p)
                ELSE SetTaken(WithLast(p, [Last(p.commands) EXCEPT !.outFile = tokens[k + 1]]))
<1>1. IsOutput(tokens, k) => ~IsInput(tokens, k)
  BY Kinds
<1> QED
  BY <1>1, Zenon DEF Redirect, SetTaken, IsInput, IsGiven

\* The loop goes from one token to the next.
LEMMA TokenTaken ==
  ASSUME NEW tokens, NEW n \in Nat, DOMAIN tokens = 1 .. n, NEW k \in 1 .. n, NEW p,
         \A x \in 1 .. n : IsGiven(tokens[x]), LoopAt(tokens, p, k - 1)
  PROVE  LoopAt(tokens, TakeToken(tokens, p, k), k)
<1> DEFINE q == TakeToken(tokens, p, k)
           m == 1 + Ended(tokens, k)
           list == p.commands
           new == RecordsUpTo(tokens, k)
           clash == \E x \in 1 .. k - 1 :
                      SameKind(tokens, x, k) /\ Ended(tokens, x) = Ended(tokens, k)
           old == RecordUpTo(tokens, m, k - 1)
           now == RecordUpTo(tokens, m, k)
<1>1. /\ p = State(list, p.taken, p.valid)
      /\ p.valid \in BOOLEAN /\ p.taken \in BOOLEAN
      /\ p.valid <=> GrammaticalUpTo(tokens, k - 1)
      /\ p.valid => /\ p.taken <=> k - 1 > 0 /\ IsRedirection(tokens, k - 1)
                    /\ list = RecordsUpTo(tokens, k - 1)
  BY DEF LoopAt, State
<1>2. GrammaticalUpTo(tokens, k) <=>
        /\ p.valid
        /\ is_operator(tokens[k]) => WordAt(tokens, k + 1)
        /\ ~clash
  <2> HIDE DEF q, m, list, new, old, now
  <2> QED
    BY <1>1, GrammarNext
<1>3. ~IsRedirection(tokens, k) => ~clash
  BY DEF SameKind, IsRedirection
<1> HIDE DEF clash
<1>4. k > 0
  OBVIOUS
<1>5. SUFFICES \E l : \E taken \in BOOLEAN, valid \in BOOLEAN :
                 /\ q = State(l, taken, valid)
                 /\ valid <=> GrammaticalUpTo(tokens, k)
                 /\ valid => (taken <=> IsRedirection(tokens, k)) /\ l = new
  <2> SUFFICES ASSUME NEW taken \in BOOLEAN, NEW valid \in BOOLEAN, NEW l,
                      /\ q = State(l, taken, valid)
                      /\ valid <=> GrammaticalUpTo(tokens, k)
                      /\ valid => (taken <=> IsRedirection(tokens, k)) /\ l = new
               PROVE  LoopAt(tokens, q, k)
    OBVIOUS
  <2>1. q.commands = l /\ q.taken = taken /\ q.valid = valid
    BY DEF State
  <2> HIDE DEF q
  <2> QED
    BY <1>4, <2>1 DEF LoopAt, State
<1>6. CASE ~p.valid
  <2>1. q = State(list, p.taken, FALSE) /\ ~GrammaticalUpTo(tokens, k)
    BY <1>1, <1>2, <1>6, TakeDef
  <2> HIDE DEF q, list, new
  <2> QED
    BY <1>1, <2>1
<1>7. CASE p.valid /\ p.taken
  <2>1. q = State(list, FALSE, TRUE)
    BY <1>1, <1>7, TakeDef DEF State
  <2>2. k - 1 > 0 /\ IsRedirection(tokens, k - 1)
    BY <1>1, <1>7
  <2>3. ~is_operator(tokens[k])
    <3>1. k - 1 \in 1 .. k - 1 /\ k - 1 + 1 = k /\ is_operator(tokens[k - 1])
      BY <2>2, Kinds
    <3>2. WordAt(tokens, k - 1 + 1)
      BY <1>1, <1>7, <3>1 DEF GrammaticalUpTo
    <3> QED
      BY <3>1, <3>2 DEF WordAt
  <2>4. ~IsRedirection(tokens, k) /\ ~IsBar(tokens, k) /\ ~IsInput(tokens, k) /\ ~IsOutput(tokens, k)
    BY <2>3, Kinds DEF IsRedirection
  <2>5. GrammaticalUpTo(tokens, k)
    BY <1>2, <1>3, <1>7, <2>3, <2>4
  <2>6. old = now
    <3>1. m \in Nat /\ k > 1
      <4>1. k \in Nat /\ Ended(tokens, k) \in Nat
        BY EndedCounts
      <4> QED
        BY <2>2, <4>1
    <3> HIDE DEF m
    <3>2. /\ k \notin Redirections(tokens, m, "<") /\ k \notin Redirections(tokens, m, ">")
          /\ k \notin Arguments(tokens, m)
      BY <2>2, <2>4, <3>1, Members
    <3> QED
      BY <3>1, <3>2, RecordSame
  <2>7. list = new
    <3>1. list = RecordsUpTo(tokens, k - 1)
      BY <1>1, <1>7
    <3>2. /\ m \in Nat \ {0}
          /\ RecordsUpTo(tokens, k - 1) = [s \in 1 .. m |-> RecordUpTo(tokens, s, k - 1)]
          /\ new = [s \in 1 .. m |-> RecordUpTo(tokens, s, k)]
      BY <2>4, RecordsNow
    <3>3. ASSUME NEW s \in 1 .. m
          PROVE  RecordUpTo(tokens, s, k - 1) = RecordUpTo(tokens, s, k)
      <4>1. s \in Nat
        BY <3>2
      <4>2. s # m => RecordUpTo(tokens, s, k - 1) = RecordUpTo(tokens, s, k)
        BY <4>1, OtherRecords
      <4> QED
        BY <2>6, <4>2
    <3> HIDE DEF list, new, m
    <3> QED
      BY <3>1, <3>2, <3>3
  <2> HIDE DEF q, list, new
  <2> QED
    BY <2>1, <2>4, <2>5, <2>7
<1>8. CASE p.valid /\ ~p.taken /\ IsBar(tokens, k)
  <2>1. q = Pipe(tokens, p, k)
    BY <1>8, TakeDef
  <2>2. is_operator(tokens[k]) /\ ~IsRedirection(tokens, k)
    BY <1>8, Kinds
  <2>3. GrammaticalUpTo(tokens, k) <=> WordAt(tokens, k + 1)
    BY <1>2, <1>3, <1>8, <2>2
  <2>4. CASE ~WordAt(tokens, k + 1)
    <3>1. q = State(list, FALSE, FALSE)
      BY <1>1, <1>8, <2>1, <2>4 DEF Pipe, Invalid, State
    <3> HIDE DEF q, list, new
    <3> QED
      BY <2>3, <2>4, <3>1
  <2>5. CASE WordAt(tokens, k + 1)
    <3>1. q = State(Append(list, Command(<<>>)), FALSE, TRUE)
      BY <1>1, <1>8, <2>1, <2>5 DEF Pipe, State
    <3>2. Append(list, Command(<<>>)) = new
      BY <1>1, <1>8, RecordAdded
    <3> HIDE DEF q, list, new
    <3> QED
      BY <2>2, <2>3, <2>5, <3>1, <3>2
  <2> QED
    BY <2>4, <2>5
<1>9. CASE p.valid /\ ~p.taken /\ ~is_operator(tokens[k])
  <2>1. q = Word(tokens, p, k)
    BY <1>9, TakeDef
  <2>2. ~IsRedirection(tokens, k) /\ ~IsBar(tokens, k)
    BY <1>9, Kinds
  <2>3. GrammaticalUpTo(tokens, k)
    BY <1>2, <1>3, <1>9, <2>2
  <2>4. Last(list) = old /\ Append(Front(list), now) = new
    BY <1>1, <1>9, <2>2, LastReplaced
  <2>5. [old EXCEPT !.cmd = Append(@, tokens[k])] = now
    <3>1. k > 1 => ~IsRedirection(tokens, k - 1)
      BY <1>1, <1>9
    <3> QED
      BY <1>9, <3>1, WordAdded
  <2>6. q = State(new, FALSE, TRUE)
    <3>1. q = WithLast(p, [Last(list) EXCEPT !.cmd = Append(@, tokens[k])])
      BY <2>1 DEF Word
    <3> HIDE DEF old, now, new, q
    <3>2. q = WithLast(p, now)
      BY <2>4, <2>5, <3>1
    <3>3. p = State(list, FALSE, TRUE)
      BY <1>1, <1>9
    <3> HIDE DEF list
    <3>4. WithLast(p, now) = State(Append(Front(list), now), FALSE, TRUE)
      BY <3>3, WithLastState
    <3> QED
      BY <2>4, <3>2, <3>4
  <2> HIDE DEF q, new
  <2> QED
    BY <2>2, <2>3, <2>6
<1>10. CASE p.valid /\ ~p.taken /\ IsInput(tokens, k)
  <2>1. /\ q = Redirect(tokens, p, k) /\ p = State(list, FALSE, TRUE)
        /\ IsRedirection(tokens, k) /\ is_operator(tokens[k]) /\ ~IsBar(tokens, k)
    <3>1. IsRedirection(tokens, k)
      BY <1>10 DEF IsRedirection
    <3> QED
      <4>1. q = Redirect(tokens, p, k)
        BY <1>10, <3>1, TakeDef
      <4>2. is_operator(tokens[k]) /\ ~IsBar(tokens, k)
        BY <3>1, Kinds
      <4>3. p = State(list, FALSE, TRUE)
        BY <1>1, <1>10
      <4> QED
        BY <3>1, <4>1, <4>2, <4>3
  <2>2. GrammaticalUpTo(tokens, k) <=> WordAt(tokens, k + 1) /\ ~clash
    BY <1>2, <1>10, <2>1
  <2>3. Last(list) = old /\ Append(Front(list), now) = new
    BY <1>1, <1>10, <2>1, LastReplaced
  <2>4. /\ IsGiven(old.inFile) <=> clash
        /\ ~clash => UpTo(Redirections(tokens, m, "<"), k - 1) = {}
    BY <1>1, <1>10, GivenBefore DEF clash
  <2>5. q = IF IsGiven(old.inFile) \/ ~WordAt(tokens, k + 1) THEN Invalid(p)
            ELSE SetTaken(WithLast(p, [old EXCEPT !.inFile = tokens[k + 1]]))
    <3>1. Redirect(tokens, p, k) =
            IF IsGiven(Last(list).inFile) \/ ~WordAt(tokens, k + 1) THEN Invalid(p)
            ELSE SetTaken(WithLast(p, [Last(list) EXCEPT !.inFile = tokens[k + 1]]))
      BY <1>10, RedirectDef
    <3> HIDE DEF q, list, old
    <3> QED
      BY <2>1, <2>3, <3>1
  <2>6. CASE GrammaticalUpTo(tokens, k)
    <3>1. [old EXCEPT !.inFile = tokens[k + 1]] = now
      BY <1>10, <2>2, <2>4, <2>6, InputAdded
    <3>2. q = SetTaken(WithLast(p, [old EXCEPT !.inFile = tokens[k + 1]]))
      BY <2>2, <2>4, <2>5, <2>6
    <3> HIDE DEF q, list, old, now, new
    <3>3. WithLast(p, now) = State(new, FALSE, TRUE)
      BY <2>1, <2>3, WithLastState
    <3>4. q = State(new, TRUE, TRUE)
      BY <3>1, <3>2, <3>3, TakenState
    <3> QED
      BY <2>1, <2>6, <3>4
  <2>7. CASE ~GrammaticalUpTo(tokens, k)
    <3>1. q = Invalid(p)
      BY <2>2, <2>4, <2>5, <2>7
    <3> HIDE DEF q, list, old, now, new
    <3>2. q = State(list, FALSE, FALSE)
      BY <2>1, <3>1, InvalidState
    <3> QED
      BY <2>7, <3>2
  <2> QED
    BY <2>6, <2>7
<1>11. CASE p.valid /\ ~p.taken /\ IsOutput(tokens, k)
  <2>1. /\ q = Redirect(tokens, p, k) /\ p = State(list, FALSE, TRUE)
        /\ IsRedirection(tokens, k) /\ is_operator(tokens[k]) /\ ~IsBar(tokens, k)
    <3>1. IsRedirection(tokens, k)
      BY <1>11 DEF IsRedirection
    <3> QED
      <4>1. q = Redirect(tokens, p, k)
        BY <1>11, <3>1, TakeDef
      <4>2. is_operator(tokens[k]) /\ ~IsBar(tokens, k)
        BY <3>1, Kinds
      <4>3. p = State(list, FALSE, TRUE)
        BY <1>1, <1>11
      <4> QED
        BY <3>1, <4>1, <4>2, <4>3
  <2>2. GrammaticalUpTo(tokens, k) <=> WordAt(tokens, k + 1) /\ ~clash
    BY <1>2, <1>11, <2>1
  <2>3. Last(list) = old /\ Append(Front(list), now) = new
    BY <1>1, <1>11, <2>1, LastReplaced
  <2>4. /\ IsGiven(old.outFile) <=> clash
        /\ ~clash => UpTo(Redirections(tokens, m, ">"), k - 1) = {}
    BY <1>1, <1>11, GivenBefore DEF clash
  <2>5. q = IF IsGiven(old.outFile) \/ ~WordAt(tokens, k + 1) THEN Invalid(p)
            ELSE SetTaken(WithLast(p, [old EXCEPT !.outFile = tokens[k + 1]]))
    <3>1. Redirect(tokens, p, k) =
            IF IsGiven(Last(list).outFile) \/ ~WordAt(tokens, k + 1) THEN Invalid(p)
            ELSE SetTaken(WithLast(p, [Last(list) EXCEPT !.outFile = tokens[k + 1]]))
      BY <1>11, RedirectDef
    <3> HIDE DEF q, list, old
    <3> QED
      BY <2>1, <2>3, <3>1
  <2>6. CASE GrammaticalUpTo(tokens, k)
    <3>1. [old EXCEPT !.outFile = tokens[k + 1]] = now
      BY <1>11, <2>2, <2>4, <2>6, OutputAdded
    <3>2. q = SetTaken(WithLast(p, [old EXCEPT !.outFile = tokens[k + 1]]))
      BY <2>2, <2>4, <2>5, <2>6
    <3> HIDE DEF q, list, old, now, new
    <3>3. WithLast(p, now) = State(new, FALSE, TRUE)
      BY <2>1, <2>3, WithLastState
    <3>4. q = State(new, TRUE, TRUE)
      BY <3>1, <3>2, <3>3, TakenState
    <3> QED
      BY <2>1, <2>6, <3>4
  <2>7. CASE ~GrammaticalUpTo(tokens, k)
    <3>1. q = Invalid(p)
      BY <2>2, <2>4, <2>5, <2>7
    <3> HIDE DEF q, list, old, now, new
    <3>2. q = State(list, FALSE, FALSE)
      BY <2>1, <3>1, InvalidState
    <3> QED
      BY <2>7, <3>2
  <2> QED
    BY <2>6, <2>7
<1> QED
  BY <1>1, <1>6, <1>7, <1>8, <1>9, <1>10, <1>11, Kinds DEF IsRedirection

\* Before the first token there is one command, without a word.
LEMMA LoopStarts ==
  ASSUME NEW tokens, NEW n \in Nat, DOMAIN tokens = 1 .. n
  PROVE  LoopAt(tokens, Start(tokens), 0)
<1> DEFINE list == <<Command(<<>>)>>
           ok == tokens # <<>> /\ WordAt(tokens, 1)
<1>1. Start(tokens) = State(list, FALSE, ok)
  BY Zenon DEF Start, State
<1>2. ok <=> GrammaticalUpTo(tokens, 0)
  <2>1. WordAt(tokens, 1) => tokens # <<>>
    <3>1. DOMAIN <<>> = {}
      OBVIOUS
    <3>2. WordAt(tokens, 1) => 1 \in DOMAIN tokens
      BY DEF WordAt
    <3> QED
      BY <3>1, <3>2, Zenon
  <2>2. 1 .. 0 = {}
    OBVIOUS
  <2> QED
    BY <2>1, <2>2, Zenon DEF GrammaticalUpTo
<1>3. list = RecordsUpTo(tokens, 0)
  <2>1. Ended(tokens, 0 + 1) = 0
    BY EndedCounts
  <2>2. RecordUpTo(tokens, 1, 0) = Command(<<>>)
    <3>1. Stage(tokens, 1) \in SUBSET (1 .. n)
      BY DEF Stage
    <3>2. UpTo(Redirections(tokens, 1, "<"), 0) = {}
      BY <3>1 DEF UpTo, Redirections
    <3>3. UpTo(Redirections(tokens, 1, ">"), 0) = {}
      BY <3>1 DEF UpTo, Redirections
    <3>4. UpTo(Arguments(tokens, 1), 0) = {}
      BY <3>1 DEF UpTo, Arguments
    <3>5. WordsAt(tokens, {}) = <<>>
      <4>1. Cardinality({}) = 0
        BY FS_EmptySet
      <4>2. WordsAt(tokens, {}) = [m \in 1 .. 0 |-> tokens[CHOOSE x \in Ranked({}, m) : TRUE]]
        BY <4>1 DEF WordsAt
      <4>3. 1 .. 0 = {}
        OBVIOUS
      <4> QED
        BY <4>2, <4>3
    <3>6. FileOf(tokens, {}) = ""
      BY DEF FileOf
    <3> QED
      BY <3>2, <3>3, <3>4, <3>5, <3>6, Zenon DEF RecordUpTo, Command
  <2>3. RecordsUpTo(tokens, 0) = [s \in 1 .. 1 |-> RecordUpTo(tokens, s, 0)]
    <3>1. 1 + 0 = 1
      OBVIOUS
    <3> QED
      BY <2>1, <3>1, Zenon DEF RecordsUpTo
  <2> DEFINE c == Command(<<>>)
             g == [s \in 1 .. 1 |-> RecordUpTo(tokens, s, 0)]
  <2>4. \A s \in 1 .. 1 : s = 1
    OBVIOUS
  <2>5. g = [s \in 1 .. 1 |-> c]
    BY <2>2, <2>4, Zenon
  <2> HIDE DEF c
  <2>6. <<c>> = [s \in 1 .. 1 |-> c]
    OBVIOUS
  <2> QED
    BY <2>3, <2>5, <2>6 DEF c
<1> HIDE DEF list, ok
<1>4. ok \in BOOLEAN
  BY DEF ok, WordAt
<1>5. /\ State(list, FALSE, ok) = [commands |-> list, taken |-> FALSE, valid |-> ok]
      /\ State(list, FALSE, ok).commands = list
      /\ State(list, FALSE, ok).taken = FALSE
      /\ State(list, FALSE, ok).valid = ok
  BY Zenon DEF State
<1>6. ~(0 > 0)
  OBVIOUS
<1> QED
  BY <1>1, <1>2, <1>3, <1>4, <1>5, <1>6, Zenon DEF LoopAt

\* The loop ends with what the tokens mean.
LEMMA LoopEnds ==
  ASSUME NEW tokens, NEW n \in Nat, DOMAIN tokens = 1 .. n, Len(tokens) = n,
         \A x \in 1 .. n : IsGiven(tokens[x])
  PROVE  LoopAt(tokens, Parse(tokens), n)
<1>1. PICK after : /\ after[0] = Start(tokens)
                   /\ \A x \in 1 .. n : after[x] = TakeToken(tokens, after[x - 1], x)
                   /\ Parse(tokens) = after[n]
  BY ParseDef, Zenon
<1> DEFINE S == {k \in Nat : k <= n => LoopAt(tokens, after[k], k)}
<1>2. 0 \in S
  BY <1>1, LoopStarts
<1>3. ASSUME NEW k \in S PROVE k + 1 \in S
  <2>1. CASE k + 1 <= n
    <3>1. k \in Nat /\ k + 1 \in 1 .. n /\ (k + 1) - 1 = k /\ k <= n
      BY <2>1
    <3>2. LoopAt(tokens, after[k], (k + 1) - 1)
      BY <3>1
    <3>3. after[k + 1] = TakeToken(tokens, after[k], k + 1)
      BY <1>1, <3>1
    <3>4. LoopAt(tokens, TakeToken(tokens, after[k], k + 1), k + 1)
      BY <3>1, <3>2, TokenTaken
    <3> QED
      BY <3>1, <3>3, <3>4
  <2> QED
    BY <2>1
<1>4. S = Nat
  <2>1. S \in SUBSET Nat
    OBVIOUS
  <2> HIDE DEF S
  <2> QED
    BY <1>2, <1>3, <2>1, SetInduction
<1>5. LoopAt(tokens, after[n], n)
  BY <1>4
<1> QED
  BY <1>1, <1>5

\* A command that begins with a word has one.
LEMMA WholeGrammar ==
  ASSUME NEW tokens, NEW n \in Nat, DOMAIN tokens = 1 .. n
  PROVE  GrammaticalUpTo(tokens, n) <=> Grammatical(tokens) /\ WordsFirst(tokens)
<1>1. \A x, j : SameKind(tokens, x, j) <=>
                  tokens[x] = tokens[j] /\ tokens[x] \in {"<", ">"}
  BY Zenon DEF SameKind, IsInput, IsOutput
<1>2. \A x : is_operator(tokens[x]) <=> tokens[x] \in {"<", ">"} \/ tokens[x] = "|"
  BY DEF is_operator, Operators
<1>3. 1 \in Starts(tokens) /\ \A x \in 1 .. n : tokens[x] = "|" => x + 1 \in Starts(tokens)
  BY DEF Starts
<1>4. \A m \in Starts(tokens) : m > 1 =>
        \E x \in 1 .. n : tokens[x] = "|" /\ m = x + 1 /\ m - 1 = x
  BY DEF Starts
<1>5. ASSUME GrammaticalUpTo(tokens, n)
      PROVE  Grammatical(tokens) /\ WordsFirst(tokens)
  <2>1. \A m \in Starts(tokens) : WordAt(tokens, m)
    BY <1>2, <1>5, Zenon DEF GrammaticalUpTo, Starts
  <2>2. ASSUME NEW m \in Starts(tokens)
        PROVE  m \in DOMAIN tokens /\ IsArgument(tokens, m)
    <3>1. m \in DOMAIN tokens /\ ~is_operator(tokens[m])
      BY <2>1 DEF WordAt
    <3>2. m > 1 => tokens[m - 1] = "|"
      BY <1>4
    <3> QED
      BY <3>1, <3>2 DEF IsArgument
  <2>3. \A x \in DOMAIN tokens : tokens[x] \in {"<", ">"} => WordAt(tokens, x + 1)
    BY <1>2, <1>5, Zenon DEF GrammaticalUpTo
  <2>4. \A x, j \in DOMAIN tokens :
          /\ x < j /\ tokens[x] = tokens[j] /\ tokens[x] \in {"<", ">"}
          => Bars(tokens, x) # Bars(tokens, j)
    BY <1>1, <1>5, Zenon DEF GrammaticalUpTo
  <2> QED
    BY <2>1, <2>2, <2>3, <2>4, Zenon DEF Grammatical, WordsFirst
<1>6. ASSUME Grammatical(tokens), WordsFirst(tokens)
      PROVE  GrammaticalUpTo(tokens, n)
  <2>1. WordAt(tokens, 1)
    BY <1>3, <1>6 DEF WordsFirst
  <2>2. \A x \in 1 .. n : is_operator(tokens[x]) => WordAt(tokens, x + 1)
    BY <1>2, <1>3, <1>6, Zenon DEF Grammatical, WordsFirst
  <2>3. \A x \in 1 .. n, j \in 1 .. n :
          x < j /\ SameKind(tokens, x, j) => Bars(tokens, x) # Bars(tokens, j)
    BY <1>1, <1>6, Zenon DEF Grammatical
  <2> QED
    BY <2>1, <2>2, <2>3, Zenon DEF GrammaticalUpTo
<1> QED
  BY <1>5, <1>6

LEMMA WholeLine ==
  ASSUME NEW tokens, NEW n \in Nat, DOMAIN tokens = 1 .. n, Len(tokens) = n
  PROVE  /\ GrammaticalUpTo(tokens, n) <=> Grammatical(tokens) /\ WordsFirst(tokens)
         /\ RecordsUpTo(tokens, n) = Meaning(tokens)
<1>1. GrammaticalUpTo(tokens, n) <=> Grammatical(tokens) /\ WordsFirst(tokens)
  BY WholeGrammar
<1>2. ASSUME NEW s \in Nat PROVE RecordUpTo(tokens, s, n) =
        [inFile |-> FileOf(tokens, Redirections(tokens, s, "<")),
         outFile |-> FileOf(tokens, Redirections(tokens, s, ">")),
         cmd |-> WordsAt(tokens, Arguments(tokens, s))]
  <2>1. Stage(tokens, s) \in SUBSET (1 .. n)
    BY DEF Stage
  <2>2. \A S \in SUBSET (1 .. n) : UpTo(S, n) = S
    <3>1. \A x \in 1 .. n : x <= n
      OBVIOUS
    <3> QED
      BY <3>1, Zenon DEF UpTo
  <2>3. /\ Redirections(tokens, s, "<") \in SUBSET (1 .. n)
        /\ Redirections(tokens, s, ">") \in SUBSET (1 .. n)
        /\ Arguments(tokens, s) \in SUBSET (1 .. n)
    BY <2>1, Zenon DEF Redirections, Arguments
  <2> QED
    BY <2>2, <2>3, Zenon DEF RecordUpTo
<1>3. \A s \in 1 .. 1 + Ended(tokens, n + 1) : s \in Nat
  BY EndedCounts
<1> QED
  BY <1>1, <1>2, <1>3, Zenon DEF RecordsUpTo, Meaning, Ended

\* The commands of a line are those the language gives it, if they begin with
\* words.
LEMMA CommandsOfLine ==
  ASSUME NEW tokens \in Seq(STRING \ {""})
  PROVE  Commands(tokens) = IF Grammatical(tokens) /\ WordsFirst(tokens)
                            THEN Meaning(tokens) ELSE <<>>
<1> DEFINE n == Len(tokens)
<1>1. n \in Nat /\ DOMAIN tokens = 1 .. n
  BY LenProperties
<1>2. \A x \in 1 .. n : IsGiven(tokens[x])
  <2>1. \A x \in 1 .. n : tokens[x] \in STRING \ {""}
    BY ElementOfSeq
  <2> QED
    BY <2>1, Zenon DEF IsGiven
<1> HIDE DEF n
<1>3. LoopAt(tokens, Parse(tokens), n)
  BY <1>1, <1>2, LoopEnds DEF n
<1>4. /\ GrammaticalUpTo(tokens, n) <=> Grammatical(tokens) /\ WordsFirst(tokens)
      /\ RecordsUpTo(tokens, n) = Meaning(tokens)
  BY <1>1, WholeLine DEF n
<1> QED
  BY <1>3, <1>4, Zenon DEF LoopAt, Commands

-----------------------------------------------------------------------------

USE ShellAssumption

-----------------------------------------------------------------------------
(* The inductive invariant, from which LineLeavesNothing follows *)

\* How far the loops are: a pipe between each command and the next, at most
\* one child and one status for each command, and nothing at the prompt.
LoopInv ==
  /\ phase = "prompt" => i = 1 /\ pipes = <<>> /\ p_ids = <<>> /\ reported = <<>>
  /\ phase = "pipe" => i = Len(pipes) + 1 /\ p_ids = <<>>
  /\ phase \in {"fork", "close", "wait"} => Len(pipes) >= Len(commands) - 1
  /\ phase = "fork" => Len(p_ids) < i
  /\ phase = "wait" => i = Len(reported) + 1
  /\ phase # "wait" /\ phase # "cleanup" => reported = <<>>
  /\ Len(pipes) <= Len(commands)
  /\ Len(p_ids) <= Len(commands)
  /\ Len(reported) <= Len(p_ids)

\* The pipes whose ends the shell still holds.
Unclosed == CASE phase \in {"pipe", "fork"} -> DOMAIN pipes
              [] phase = "close" -> {k \in DOMAIN pipes : k >= i}
              [] OTHER -> {}

\* A descriptor of the shell is closed, is one it was started with, or is the
\* end of a pipe that it has not come to close.
DescriptorInv ==
  \A d \in Descriptors :
    fds[0][d] # Closed =>
      \/ d <= 2 /\ fds[0][d] = Terminal
      \/ \E k \in Unclosed : d \in {pipes[k][1], pipes[k][2]}

\* Every child is in p_ids, only a fork makes one, and the children before the
\* counter of the last loop are reaped.
ChildrenInv ==
  /\ \A s \in Stages : state[s] # "absent" => \E n \in DOMAIN p_ids : p_ids[n] = s
  /\ phase = "fork" => \A s \in Stages : s >= i => state[s] = "absent"
  /\ phase = "wait" => \A n \in DOMAIN p_ids : n < i => state[p_ids[n]] = "reaped"
  /\ phase \in {"prompt", "pipe", "cleanup", "ended"} =>
       \A s \in Stages : state[s] \in {"absent", "reaped"}

\* As long as no fork has failed the children have the numbers of the commands.
NamesInv ==
  /\ \A n \in Stages :
       (\A c \in 1 .. n : state[c] # "absent") =>
         n \in DOMAIN p_ids /\ p_ids[n] = n
  /\ \A n \in DOMAIN reported : reported[n] = [name |-> n, of |-> p_ids[n]]

\* What a child has to do ends with exec, and one that is to take its input
\* from a pipe, or to write to one, has that pipe.
AllowedSteps(s) == {step \in Steps : /\ step = "dup in" => s - 1 \in DOMAIN pipes
                                     /\ step = "dup out" => s \in DOMAIN pipes}
PlanInv ==
  \A s \in Stages : state[s] = "child" =>
    /\ todo[s] \in Seq(AllowedSteps(s))
    /\ todo[s] # <<>> /\ todo[s][Len(todo[s])] = "exec"

ShellInv == LoopInv /\ DescriptorInv /\ ChildrenInv /\ NamesInv /\ PlanInv

-----------------------------------------------------------------------------
(* Descriptor tables *)

Entries == [what : {"closed", "terminal", "reader", "writer", "in", "out"},
            pipe : 0 .. MaxCommands, cloexec : BOOLEAN]
Tables == [Descriptors -> Entries]

LEMMA EntryTypes ==
  /\ Closed \in Entries /\ Terminal \in Entries /\ Terminal # Closed
  /\ Entry("in", 0, FALSE) \in Entries /\ Entry("out", 0, FALSE) \in Entries
  /\ \A k \in Stages : /\ Entry("reader", k, O_CLOEXEC) \in Entries
                       /\ Entry("writer", k, O_CLOEXEC) \in Entries
BY DEF Entries, Entry, Closed, Terminal, O_CLOEXEC, Stages

LEMMA CloseAllType ==
  ASSUME NEW table \in Tables, NEW S PROVE CloseAll(table, S) \in Tables
BY EntryTypes DEF CloseAll, Tables

LEMMA OpenType ==
  ASSUME NEW table \in Tables, NEW e \in Entries PROVE Open(table, e) \in Tables
BY DEF Open, Tables

LEMMA MoveType ==
  ASSUME NEW table \in Tables, NEW d \in Descriptors, NEW onto
  PROVE  Move(table, d, onto) \in Tables
<1>1. [table[d] EXCEPT !.cloexec = FALSE] \in Entries
  BY DEF Tables, Entries
<1>2. Dup2(table, d, onto) \in Tables
  BY <1>1 DEF Dup2, Tables
<1> QED
  BY <1>2, CloseAllType DEF Move

LEMMA ReopenType ==
  ASSUME NEW table \in Tables, NEW d, NEW e \in Entries
  PROVE  Reopen(table, d, e) \in Tables
BY CloseAllType, OpenType DEF Reopen

\* A set of numbers that is not empty has a least one.
LEMMA LeastNumber ==
  ASSUME NEW S \in SUBSET Nat, S # {} PROVE Min(S) \in S
<1> DEFINE R == {p \in Nat \X Nat : p[1] < p[2]}
<1>0. IsWellFoundedOn(R, Nat)
  BY NatLessThanWellFounded, Zenon DEF OpToRel
<1>1. PICK x \in S : \A y \in S : ~(<<y, x>> \in R)
  <2> HIDE DEF R
  <2> QED
    BY <1>0, WFMin
<1>2. ASSUME NEW y \in S PROVE x <= y
  <2>1. x \in Nat /\ y \in Nat /\ ~(<<y, x>> \in R)
    BY <1>1
  <2>2. y < x => <<y, x>> \in R
    BY <2>1
  <2> HIDE DEF R
  <2> QED
    BY <2>1, <2>2
<1> QED
  BY <1>2 DEF Min

\* While descriptors are free, a new one is one of them.
LEMMA NewIsFree ==
  ASSUME NEW table, Free(table) # {}
  PROVE  NewDescriptor(table) \in Free(table)
<1>1. Free(table) \in SUBSET Nat
  BY DEF Free, Descriptors
<1> QED
  BY <1>1, LeastNumber DEF NewDescriptor

\* If two are free, there is still one when the first has been taken.
LEMMA TwoAreFree ==
  ASSUME NEW table \in Tables, Cardinality(Free(table)) >= 2,
         NEW e \in Entries, e # Closed
  PROVE  /\ NewDescriptor(table) \in Descriptors
         /\ NewDescriptor(Open(table, e)) \in Descriptors
<1> DEFINE r == NewDescriptor(table)
<1>1. IsFiniteSet(Free(table))
  <2>1. IsFiniteSet(Descriptors)
    BY FS_Interval DEF Descriptors
  <2>2. Free(table) \in SUBSET Descriptors
    BY DEF Free
  <2> QED
    BY <2>1, <2>2, FS_Subset
<1>2. Free(table) # {}
  <2> SUFFICES ASSUME Free(table) = {} PROVE FALSE
    OBVIOUS
  <2>1. Cardinality(Free(table)) = 0
    BY FS_EmptySet
  <2> QED
    BY <2>1
<1>3. r \in Free(table)
  BY <1>2, NewIsFree
<1>4. Free(Open(table, e)) = Free(table) \ {r}
  BY <1>3 DEF Free, Open, Tables
<1>5. Cardinality(Free(table) \ {r}) = Cardinality(Free(table)) - 1
  BY <1>1, <1>3, FS_RemoveElement
<1>6. Free(Open(table, e)) # {}
  <2>1. Cardinality(Free(table)) \in Nat
    BY <1>1, FS_CardinalityType
  <2>2. Cardinality(Free(Open(table, e))) # 0
    BY <1>4, <1>5, <2>1
  <2> QED
    BY <2>2, FS_EmptySet
<1>7. NewDescriptor(Open(table, e)) \in Free(Open(table, e))
  BY <1>6, NewIsFree
<1> QED
  BY <1>3, <1>7 DEF Free

-----------------------------------------------------------------------------
(* What a child has to do *)

LEMMA OneStep ==
  ASSUME NEW A, NEW x \in A
  PROVE  <<x>> \in Seq(A) /\ Len(<<x>>) = 1 /\ <<x>>[1] = x
<1>1. <<x>> \in Seq(A)
  OBVIOUS
<1> QED
  BY <1>1

LEMMA Appended ==
  ASSUME NEW A, NEW s \in Seq(A), NEW x \in A
  PROVE  /\ Append(s, x) \in Seq(A) /\ Len(Append(s, x)) = Len(s) + 1
         /\ DOMAIN Append(s, x) = 1 .. Len(s) + 1
         /\ \A n \in DOMAIN s : Append(s, x)[n] = s[n]
         /\ Append(s, x)[Len(s) + 1] = x
OBVIOUS

LEMMA IfType ==
  ASSUME NEW A, NEW x, NEW condition \in BOOLEAN, condition => x \in A
  PROVE  If(condition, x) \in Seq(A)
<1>1. CASE condition
  BY <1>1, OneStep DEF If
<1>2. CASE ~condition
  BY <1>2, EmptySeq DEF If
<1> QED
  BY <1>1, <1>2

\* A child is given a plan that it can carry out.
LEMMA PlanType ==
  ASSUME TypeOK, LoopInv, phase = "fork", i <= Len(commands)
  PROVE  /\ ChildSteps(i) \in Seq(AllowedSteps(i))
         /\ ChildSteps(i) # <<>> /\ ChildSteps(i)[Len(ChildSteps(i))] = "exec"
<1> DEFINE A == AllowedSteps(i)
           a == If(i > 1, "dup in")
           b == If(i <= Len(pipes), "dup out")
           c == If(commands[i].inFile # "", "open in")
           d == If(commands[i].outFile # "", "open out")
           e == a \o b \o c \o d
<1>1. i \in Nat \ {0} /\ Len(pipes) \in Nat /\ DOMAIN pipes = 1 .. Len(pipes)
  BY DEF TypeOK
<1>2. i - 1 <= Len(pipes)
  BY <1>1 DEF LoopInv, TypeOK
<1>3. /\ i > 1 => "dup in" \in A
      /\ i <= Len(pipes) => "dup out" \in A
      /\ "open in" \in A /\ "open out" \in A /\ "exec" \in A
  BY <1>1, <1>2 DEF AllowedSteps, Steps
<1> HIDE DEF A
<1>4. a \in Seq(A) /\ b \in Seq(A) /\ c \in Seq(A) /\ d \in Seq(A)
  <2> DEFINE first == i > 1
             last == i <= Len(pipes)
             in == commands[i].inFile # ""
             out == commands[i].outFile # ""
  <2>0. /\ first \in BOOLEAN /\ last \in BOOLEAN
        /\ in \in BOOLEAN /\ out \in BOOLEAN
    OBVIOUS
  <2>1. (first => "dup in" \in A) /\ (last => "dup out" \in A)
    BY <1>3
  <2>2. /\ a = If(first, "dup in") /\ b = If(last, "dup out")
        /\ c = If(in, "open in") /\ d = If(out, "open out")
    OBVIOUS
  <2> HIDE DEF first, last, in, out, a, b, c, d
  <2>3. If(first, "dup in") \in Seq(A)
    BY <2>0, <2>1, IfType
  <2>4. If(last, "dup out") \in Seq(A)
    BY <2>0, <2>1, IfType
  <2>5. If(in, "open in") \in Seq(A)
    BY <1>3, <2>0, IfType
  <2>6. If(out, "open out") \in Seq(A)
    BY <1>3, <2>0, IfType
  <2> QED
    BY <2>2, <2>3, <2>4, <2>5, <2>6
<1> HIDE DEF a, b, c, d
<1>5. e \in Seq(A)
  BY <1>4
<1>6. ChildSteps(i) = e \o <<"exec">>
  BY DEF ChildSteps, a, b, c, d
<1> HIDE DEF e
<1>7. Len(<<"exec">>) = 1 /\ <<"exec">>[1] = "exec" /\ <<"exec">> \in Seq(A)
  BY <1>3, OneStep
<1> DEFINE x == ChildSteps(i)
<1>8. x \in Seq(A) /\ Len(x) = Len(e) + 1 /\ x[Len(x)] = "exec"
  BY <1>5, <1>6, <1>7
<1>9. x # <<>>
  BY <1>5, <1>8
<1> QED
  BY <1>8, <1>9 DEF A

\* The rest of a plan is one, as long as exec is still to come.
LEMMA RestOfPlan ==
  ASSUME PlanInv, NEW s \in Stages, state[s] = "child", Head(todo[s]) # "exec"
  PROVE  /\ Tail(todo[s]) \in Seq(AllowedSteps(s))
         /\ Tail(todo[s]) # <<>>
         /\ Tail(todo[s])[Len(Tail(todo[s]))] = "exec"
<1> DEFINE x == todo[s]
           A == AllowedSteps(s)
<1>1. x \in Seq(A) /\ x # <<>> /\ x[Len(x)] = "exec"
  BY DEF PlanInv
<1> HIDE DEF x, A
<1>2. Head(x) # "exec"
  BY DEF x
<1>3. Len(x) \in Nat /\ Len(x) > 1
  BY <1>1, <1>2
<1>4. /\ Tail(x) \in Seq(A) /\ Len(Tail(x)) = Len(x) - 1
      /\ \A n \in 1 .. Len(x) - 1 : Tail(x)[n] = x[n + 1]
  BY <1>1, <1>3, HeadTailProperties
<1>5. Tail(x) # <<>>
  <2> SUFFICES ASSUME Tail(x) = <<>> PROVE FALSE
    OBVIOUS
  <2>1. Len(Tail(x)) = 0
    BY EmptySeq
  <2> QED
    BY <1>3, <1>4, <2>1
<1>6. Tail(x)[Len(Tail(x))] = "exec"
  BY <1>1, <1>3, <1>4
<1> QED
  BY <1>4, <1>5, <1>6 DEF x, A

\* The next step is one the child can take.
LEMMA NextStepAllowed ==
  ASSUME TypeOK, PlanInv, NEW s \in Stages, state[s] = "child"
  PROVE  Head(todo[s]) \in AllowedSteps(s)
BY DEF PlanInv

-----------------------------------------------------------------------------
(* Types *)

LEMMA TypeInit == Init => TypeOK
<1> SUFFICES ASSUME Init PROVE TypeOK
  OBVIOUS
<1>1. fds \in [Processes -> Tables]
  BY EntryTypes DEF Init, Tables
<1>2. pipes \in Seq(Descriptors \X Descriptors) /\ p_ids \in Seq(Stages)
      /\ reported \in Seq([name : Stages, of : Stages])
  BY EmptySeq DEF Init
<1>3. Len(commands) = 0
  BY EmptySeq DEF Init
<1>4. todo \in [Stages -> Seq(Steps)]
  BY EmptySeq DEF Init, NoStages
<1> QED
  BY <1>1, <1>2, <1>3, <1>4 DEF Init, TypeOK, NoStages, Tables, Entries

\* The facts that are needed of the types.
LEMMA Typed ==
  ASSUME TypeOK
  PROVE  /\ fds \in [Processes -> Tables] /\ fds[0] \in Tables
         /\ Len(pipes) \in Nat /\ DOMAIN pipes = 1 .. Len(pipes)
         /\ Len(p_ids) \in Nat /\ DOMAIN p_ids = 1 .. Len(p_ids)
         /\ Len(reported) \in Nat /\ DOMAIN reported = 1 .. Len(reported)
         /\ Len(commands) \in Nat /\ Len(commands) <= MaxCommands
         /\ i \in Nat /\ i >= 1
<1>1. fds \in [Processes -> Tables]
  BY DEF TypeOK, Tables, Entries
<1> QED
  BY <1>1 DEF TypeOK, Processes

\* A step of a child or a program leaves the variables of the shell alone.
LEMMA ChildTypes ==
  ASSUME TypeOK,
         UNCHANGED <<phase, line, commands, i, pipes, p_ids, reported>>,
         fds' \in [Processes -> Tables],
         todo' \in [Stages -> Seq(Steps)],
         state' \in [Stages -> {"absent", "child", "program", "zombie", "reaped"}],
         toWrite' \in [Stages -> 0 .. MaxWrites],
         buffer' \in [Stages -> 0 .. PipeSize]
  PROVE  TypeOK'
BY DEF TypeOK, Tables, Entries

LEMMA StageIsProcess == Stages \subseteq Processes /\ 0 \in Processes
BY DEF Stages, Processes

\* The end of a process keeps the types of what it changes.
LEMMA EndTypes ==
  ASSUME TypeOK, NEW s \in Stages, End(s)
  PROVE  /\ fds' \in [Processes -> Tables]
         /\ todo' \in [Stages -> Seq(Steps)]
         /\ state' \in [Stages -> {"absent", "child", "program", "zombie", "reaped"}]
         /\ toWrite' \in [Stages -> 0 .. MaxWrites]
<1>1. NoDescriptors \in Tables
  BY EntryTypes DEF NoDescriptors, Tables
<1>2. fds' \in [Processes -> Tables]
  BY <1>1, Typed DEF End
<1>3. todo' \in [Stages -> Seq(Steps)]
  <2>1. <<>> \in Seq(Steps)
    BY EmptySeq
  <2> QED
    BY <2>1 DEF End, TypeOK
<1>4. state' \in [Stages -> {"absent", "child", "program", "zombie", "reaped"}]
  BY DEF End, TypeOK
<1>5. toWrite' \in [Stages -> 0 .. MaxWrites]
  BY DEF End, TypeOK
<1> QED
  BY <1>2, <1>3, <1>4, <1>5

\* A step of the setup of a child, given the table it makes.
LEMMA SetupTypes ==
  ASSUME TypeOK, PlanInv, NEW s \in Stages, NEW step, step # "exec",
         NEW table, step \in AllowedSteps(s) => table \in Tables,
         Setup(s, step, table)
  PROVE  TypeOK'
<1>1. state[s] = "child" /\ Head(todo[s]) = step
  BY DEF Setup
<1>2. table \in Tables
  BY <1>1, NextStepAllowed
<1>3. /\ UNCHANGED <<phase, line, commands, i, pipes, p_ids, reported>>
      /\ buffer' \in [Stages -> 0 .. PipeSize]
  BY DEF Setup, TypeOK
<1>4. CASE End(s)
  BY <1>3, <1>4, EndTypes, ChildTypes
<1>5. CASE ~End(s)
  <2>1. fds' \in [Processes -> Tables]
    BY <1>2, <1>5, Typed DEF Setup
  <2>2. Tail(todo[s]) \in Seq(Steps)
    <3>1. Tail(todo[s]) \in Seq(AllowedSteps(s))
      BY <1>1, RestOfPlan
    <3>2. AllowedSteps(s) \subseteq Steps
      BY DEF AllowedSteps
    <3> QED
      BY <3>1, <3>2, SeqMonotonic
  <2>3. todo' \in [Stages -> Seq(Steps)]
    BY <1>5, <2>2 DEF Setup, TypeOK
  <2>4. /\ state' \in [Stages -> {"absent", "child", "program", "zombie", "reaped"}]
        /\ toWrite' \in [Stages -> 0 .. MaxWrites]
    BY <1>5 DEF Setup, TypeOK
  <2> QED
    BY <1>3, <2>1, <2>3, <2>4, ChildTypes
<1> QED
  BY <1>4, <1>5

\* An end of a pipe that a child is to use is a descriptor.
LEMMA PipeEndTypes ==
  ASSUME TypeOK, NEW k \in DOMAIN pipes
  PROVE  pipes[k][1] \in Descriptors /\ pipes[k][2] \in Descriptors
<1>1. pipes[k] \in Descriptors \X Descriptors
  BY DEF TypeOK
<1> QED
  BY <1>1

-----------------------------------------------------------------------------
(* The steps of the children and the programs *)

\* What such a step may do: take a step of a plan, or let one become a program
\* or end.
Quiet ==
  /\ UNCHANGED <<phase, line, commands, i, pipes, p_ids, reported>>
  /\ fds'[0] = fds[0]
  /\ \A t \in Stages :
       \/ /\ state'[t] = state[t]
          /\ state[t] = "child" =>
               \/ todo'[t] = todo[t]
               \/ Head(todo[t]) # "exec" /\ todo'[t] = Tail(todo[t])
       \/ /\ state[t] \in {"child", "program"}
          /\ state'[t] \in {"program", "zombie"}

LEMMA QuietKeeps ==
  ASSUME TypeOK, ShellInv, Quiet PROVE ShellInv'
<1>1. LoopInv'
  BY DEF Quiet, ShellInv, LoopInv
<1>2. DescriptorInv'
  BY DEF Quiet, ShellInv, DescriptorInv, Unclosed
<1>3. ChildrenInv'
  <2>1. \A t \in Stages : /\ state'[t] = "absent" <=> state[t] = "absent"
                          /\ state[t] = "reaped" => state'[t] = "reaped"
    BY DEF Quiet
  <2>2. \A n \in DOMAIN p_ids : p_ids[n] \in Stages
    BY DEF TypeOK
  <2>3. ASSUME phase' \in {"prompt", "pipe", "cleanup", "ended"}, NEW s \in Stages
        PROVE  state'[s] \in {"absent", "reaped"}
    <3>1. state[s] \in {"absent", "reaped"}
      BY <2>3 DEF Quiet, ShellInv, ChildrenInv
    <3> QED
      BY <2>1, <3>1
  <2> QED
    BY <2>1, <2>2, <2>3 DEF Quiet, ShellInv, ChildrenInv
<1>4. NamesInv'
  <2>1. \A t \in Stages : state'[t] = "absent" <=> state[t] = "absent"
    BY DEF Quiet
  <2>2. \A n \in Stages : 1 .. n \subseteq Stages
    BY DEF Stages
  <2> QED
    BY <2>1, <2>2 DEF Quiet, ShellInv, NamesInv
<1>5. PlanInv'
  <2> SUFFICES ASSUME NEW s \in Stages, state'[s] = "child"
               PROVE  /\ todo'[s] \in Seq(AllowedSteps(s)')
                      /\ todo'[s] # <<>> /\ todo'[s][Len(todo'[s])] = "exec"
    BY DEF PlanInv
  <2>1. /\ state[s] = "child"
        /\ \/ todo'[s] = todo[s]
           \/ Head(todo[s]) # "exec" /\ todo'[s] = Tail(todo[s])
    BY DEF Quiet
  <2>2. AllowedSteps(s)' = AllowedSteps(s)
    BY DEF Quiet, AllowedSteps
  <2>3. CASE todo'[s] = todo[s]
    BY <2>1, <2>2, <2>3 DEF ShellInv, PlanInv
  <2>4. CASE Head(todo[s]) # "exec" /\ todo'[s] = Tail(todo[s])
    BY <2>1, <2>2, <2>4, RestOfPlan DEF ShellInv
  <2> QED
    BY <2>1, <2>3, <2>4
<1> QED
  BY <1>1, <1>2, <1>3, <1>4, <1>5 DEF ShellInv

\* The table of the shell is its own.
LEMMA OwnTable ==
  ASSUME TypeOK, NEW s \in Stages, NEW t, fds' = [fds EXCEPT ![s] = t]
  PROVE  fds'[0] = fds[0]
<1>1. s # 0
  BY DEF Stages
<1>2. fds \in [Processes -> Tables] /\ 0 \in Processes
  BY Typed, StageIsProcess
<1> QED
  BY <1>1, <1>2

LEMMA EndIsQuiet ==
  ASSUME TypeOK, NEW s \in Stages, state[s] \in {"child", "program"}, End(s),
         UNCHANGED <<phase, line, commands, i, pipes, p_ids, reported>>
  PROVE  Quiet
<1>1. fds'[0] = fds[0]
  BY Typed DEF End, Stages
<1>2. ASSUME NEW t \in Stages
      PROVE  \/ state'[t] = state[t] /\ todo'[t] = todo[t]
             \/ /\ state[t] \in {"child", "program"}
                /\ state'[t] = "zombie"
  BY DEF End, TypeOK
<1> QED
  BY <1>1, <1>2 DEF Quiet

LEMMA SetupIsQuiet ==
  ASSUME TypeOK, NEW s \in Stages, NEW step, step # "exec", NEW table,
         Setup(s, step, table)
  PROVE  Quiet
<1>1. /\ state[s] = "child" /\ Head(todo[s]) = step
      /\ UNCHANGED <<phase, line, commands, i, pipes, p_ids, reported>>
  BY DEF Setup
<1>2. CASE End(s)
  BY <1>1, <1>2, EndIsQuiet
<1>3. CASE ~End(s)
  <2>1. fds'[0] = fds[0]
    BY <1>3, OwnTable DEF Setup
  <2>2. state' = state /\ todo' = [todo EXCEPT ![s] = Tail(@)]
    BY <1>3 DEF Setup
  <2>3. ASSUME NEW t \in Stages
        PROVE  \/ todo'[t] = todo[t]
               \/ Head(todo[t]) # "exec" /\ todo'[t] = Tail(todo[t])
    BY <1>1, <2>2 DEF TypeOK
  <2> QED
    BY <1>1, <2>1, <2>2, <2>3 DEF Quiet
<1> QED
  BY <1>2, <1>3

LEMMA SetupKeeps ==
  ASSUME TypeOK, ShellInv, NEW s \in Stages,
         DupIn(s) \/ DupOut(s) \/ OpenIn(s) \/ OpenOut(s)
  PROVE  TypeOK' /\ ShellInv'
<1>0. PlanInv
  BY DEF ShellInv
<1>1. fds[s] \in Tables
  BY Typed, StageIsProcess
<1>2. CASE DupIn(s)
  <2> DEFINE t == Move(fds[s], pipes[s - 1][1], 0)
  <2>1. "dup in" \in AllowedSteps(s) => t \in Tables
    BY <1>1, PipeEndTypes, MoveType DEF AllowedSteps
  <2>2. Setup(s, "dup in", t)
    BY <1>2 DEF DupIn
  <2> HIDE DEF t
  <2> QED
    BY <1>0, <2>1, <2>2, SetupTypes, SetupIsQuiet, QuietKeeps
<1>3. CASE DupOut(s)
  <2> DEFINE t == Move(fds[s], pipes[s][2], 1)
  <2>1. "dup out" \in AllowedSteps(s) => t \in Tables
    BY <1>1, PipeEndTypes, MoveType DEF AllowedSteps
  <2>2. Setup(s, "dup out", t)
    BY <1>3 DEF DupOut
  <2> HIDE DEF t
  <2> QED
    BY <1>0, <2>1, <2>2, SetupTypes, SetupIsQuiet, QuietKeeps
<1>4. CASE OpenIn(s)
  <2> DEFINE t == Reopen(fds[s], 0, Entry("in", 0, FALSE))
  <2>1. t \in Tables
    BY <1>1, EntryTypes, ReopenType
  <2>2. Setup(s, "open in", t)
    BY <1>4 DEF OpenIn
  <2> HIDE DEF t
  <2> QED
    BY <1>0, <2>1, <2>2, SetupTypes, SetupIsQuiet, QuietKeeps
<1>5. CASE OpenOut(s)
  <2> DEFINE t == Reopen(fds[s], 1, Entry("out", 0, FALSE))
  <2>1. t \in Tables
    BY <1>1, EntryTypes, ReopenType
  <2>2. Setup(s, "open out", t)
    BY <1>5 DEF OpenOut
  <2> HIDE DEF t
  <2> QED
    BY <1>0, <2>1, <2>2, SetupTypes, SetupIsQuiet, QuietKeeps
<1> QED
  BY <1>2, <1>3, <1>4, <1>5

LEMMA ExecKeeps ==
  ASSUME TypeOK, ShellInv, NEW s \in Stages, Exec(s)
  PROVE  TypeOK' /\ ShellInv'
<1>1. /\ state[s] = "child" /\ buffer' \in [Stages -> 0 .. PipeSize]
      /\ UNCHANGED <<phase, line, commands, i, pipes, p_ids, reported>>
  BY DEF Exec, TypeOK
<1>2. CASE End(s)
  BY <1>1, <1>2, EndTypes, ChildTypes, EndIsQuiet, QuietKeeps
<1>3. CASE ~End(s)
  <2> DEFINE t == CloseAll(fds[s], {d \in Descriptors : fds[s][d].cloexec})
  <2>1. t \in Tables
    BY Typed, StageIsProcess, CloseAllType
  <2>2. fds' = [fds EXCEPT ![s] = t]
    BY <1>3, Typed, StageIsProcess DEF Exec
  <2> HIDE DEF t
  <2>3. fds' \in [Processes -> Tables] /\ fds'[0] = fds[0]
    <3>1. fds'[0] = fds[0]
      BY <2>2, OwnTable
    <3> QED
      BY <2>1, <2>2, <3>1, Typed
  <2>4. /\ state' = [state EXCEPT ![s] = "program"]
        /\ todo' = [todo EXCEPT ![s] = <<>>]
    BY <1>3 DEF Exec
  <2>5. PICK n \in 0 .. MaxWrites : toWrite' = [toWrite EXCEPT ![s] = n]
    BY <1>3 DEF Exec
  <2>6. todo' \in [Stages -> Seq(Steps)]
    <3>1. <<>> \in Seq(Steps)
      BY EmptySeq
    <3> QED
      BY <2>4, <3>1 DEF TypeOK
  <2>7. state' \in [Stages -> {"absent", "child", "program", "zombie", "reaped"}]
    BY <2>4 DEF TypeOK
  <2>8. toWrite' \in [Stages -> 0 .. MaxWrites]
    BY <2>5 DEF TypeOK
  <2>9. ASSUME NEW u \in Stages
        PROVE  \/ state'[u] = state[u] /\ todo'[u] = todo[u]
               \/ state[u] = "child" /\ state'[u] = "program"
    BY <1>1, <2>4 DEF TypeOK
  <2>10. Quiet
    BY <1>1, <2>3, <2>9 DEF Quiet
  <2> QED
    BY <1>1, <2>3, <2>6, <2>7, <2>8, <2>10, ChildTypes, QuietKeeps
<1> QED
  BY <1>2, <1>3

LEMMA ProgramKeeps ==
  ASSUME TypeOK, ShellInv, NEW s \in Stages, Read(s) \/ Write(s) \/ Exit(s)
  PROVE  TypeOK' /\ ShellInv'
<1>1. /\ state[s] = "program"
      /\ UNCHANGED <<phase, line, commands, i, pipes, p_ids, reported>>
  BY DEF Read, Write, Exit
<1>2. CASE End(s)
  <2>1. buffer' = buffer \/ ~(Write(s) \/ Exit(s))
    <3>1. ~(state'[s] = state[s])
      BY <1>1, <1>2 DEF End, TypeOK
    <3> QED
      BY <3>1 DEF Write, Exit
  <2>2. ~Read(s)
    <3>1. ~(state'[s] = state[s])
      BY <1>1, <1>2 DEF End, TypeOK
    <3> QED
      BY <3>1 DEF Read
  <2>3. buffer' \in [Stages -> 0 .. PipeSize]
    BY <2>1, <2>2 DEF TypeOK
  <2> QED
    BY <1>1, <1>2, <2>3, EndTypes, ChildTypes, EndIsQuiet, QuietKeeps
<1>3. CASE ~End(s)
  <2>1. UNCHANGED <<fds, todo, state>>
    BY <1>3 DEF Read, Write, Exit
  <2>2. /\ fds' \in [Processes -> Tables] /\ todo' \in [Stages -> Seq(Steps)]
        /\ state' \in [Stages -> {"absent", "child", "program", "zombie", "reaped"}]
    BY <2>1, Typed DEF TypeOK
  <2>3. /\ toWrite' \in [Stages -> 0 .. MaxWrites]
        /\ buffer' \in [Stages -> 0 .. PipeSize]
    <3>1. CASE Read(s)
      <4> DEFINE k == Input(s).pipe
      <4>1. buffer[k] > 0 /\ buffer' = [buffer EXCEPT ![k] = buffer[k] - 1]
            /\ buffer \in [Stages -> 0 .. PipeSize]
        BY <3>1 DEF Read, TypeOK
      <4> HIDE DEF k
      <4>2. buffer' \in [Stages -> 0 .. PipeSize]
        <5>1. CASE k \in Stages
          <6>1. buffer[k] - 1 \in 0 .. PipeSize
            BY <4>1, <5>1
          <6> QED
            BY <4>1, <6>1
        <5>2. CASE k \notin Stages
          BY <4>1, <5>2
        <5> QED
          BY <5>1, <5>2
      <4> QED
        BY <3>1, <4>2 DEF Read, TypeOK
    <3>2. CASE Write(s)
      <4> DEFINE k == fds[s][1].pipe
      <4>1. /\ buffer[k] < PipeSize /\ buffer' = [buffer EXCEPT ![k] = buffer[k] + 1]
            /\ toWrite[s] > 0 /\ toWrite' = [toWrite EXCEPT ![s] = @ - 1]
            /\ buffer \in [Stages -> 0 .. PipeSize]
        BY <1>3, <3>2 DEF Write, TypeOK
      <4> HIDE DEF k
      <4>2. buffer' \in [Stages -> 0 .. PipeSize]
        <5>1. CASE k \in Stages
          <6>1. buffer[k] + 1 \in 0 .. PipeSize
            BY <4>1, <5>1
          <6> QED
            BY <4>1, <6>1
        <5>2. CASE k \notin Stages
          BY <4>1, <5>2
        <5> QED
          BY <5>1, <5>2
      <4>3. toWrite' \in [Stages -> 0 .. MaxWrites]
        BY <4>1 DEF TypeOK
      <4> QED
        BY <4>2, <4>3
    <3> QED
      BY <1>3, <3>1, <3>2 DEF Exit
  <2>4. Quiet
    BY <1>1, <2>1 DEF Quiet
  <2> QED
    BY <1>1, <2>2, <2>3, <2>4, ChildTypes, QuietKeeps
<1> QED
  BY <1>2, <1>3

-----------------------------------------------------------------------------
(* The steps of the shell *)

\* One that makes no process leaves the plans alone.
LEMMA PlansKept ==
  ASSUME PlanInv, state' = state, todo' = todo, pipes' = pipes PROVE PlanInv'
BY DEF PlanInv, AllowedSteps

\* One that does not change how the children are numbered keeps NamesInv.
LEMMA NamesKept ==
  ASSUME NamesInv, UNCHANGED <<p_ids, state, reported>> PROVE NamesInv'
BY DEF NamesInv

LEMMA PromptKeeps ==
  ASSUME TypeOK, ShellInv, EndOfInput \/ \E tokens \in Lines : ReadLine(tokens)
  PROVE  TypeOK' /\ ShellInv'
<1>1. /\ UNCHANGED <<i, pipes, p_ids, fds, todo, state, toWrite, buffer, reported>>
      /\ phase = "prompt" /\ phase' \in {"ended", "cleanup", "pipe"}
      /\ line' \in Lines \cup {<<>>}
      /\ commands' = commands \/ \E l \in Lines : commands' = Commands(l)
  BY DEF EndOfInput, ReadLine, children, TypeOK
<1>2. Len(commands') \in 0 .. MaxCommands
  BY <1>1 DEF TypeOK
<1>3. TypeOK'
  BY <1>1, <1>2 DEF TypeOK
<1>4. /\ i = 1 /\ pipes = <<>> /\ p_ids = <<>> /\ reported = <<>>
      /\ Len(pipes) = 0 /\ Len(p_ids) = 0 /\ Len(reported) = 0
  BY <1>1, EmptySeq DEF ShellInv, LoopInv
<1>5. LoopInv'
  BY <1>1, <1>2, <1>4 DEF LoopInv
<1>6. DescriptorInv'
  <2>1. Unclosed = {}
    BY <1>1 DEF Unclosed
  <2> QED
    BY <1>1, <2>1 DEF ShellInv, DescriptorInv
<1>7. ChildrenInv'
  BY <1>1 DEF ShellInv, ChildrenInv
<1> QED
  BY <1>1, <1>3, <1>5, <1>6, <1>7, NamesKept, PlansKept DEF ShellInv

LEMMA CleanupKeeps ==
  ASSUME TypeOK, ShellInv, Cleanup PROVE TypeOK' /\ ShellInv'
<1>1. /\ phase = "cleanup" /\ phase' = "prompt" /\ fds' = fds /\ i' = 1
      /\ line' = <<>> /\ commands' = <<>> /\ pipes' = <<>> /\ p_ids' = <<>>
      /\ reported' = <<>> /\ todo' = NoStages(<<>>)
      /\ state' = NoStages("absent") /\ toWrite' = NoStages(0)
      /\ buffer' = NoStages(0)
  BY DEF Cleanup
<1>2. /\ Len(commands') = 0 /\ Len(pipes') = 0 /\ Len(p_ids') = 0
      /\ Len(reported') = 0
  BY <1>1, EmptySeq
<1>3. TypeOK'
  <2>1. /\ pipes' \in Seq(Descriptors \X Descriptors) /\ p_ids' \in Seq(Stages)
        /\ reported' \in Seq([name : Stages, of : Stages])
    BY <1>1, EmptySeq
  <2>2. todo' \in [Stages -> Seq(Steps)]
    BY <1>1, EmptySeq DEF NoStages
  <2> QED
    BY <1>1, <1>2, <2>1, <2>2 DEF TypeOK, NoStages
<1>4. LoopInv'
  BY <1>1, <1>2 DEF LoopInv
<1>5. DescriptorInv'
  <2>1. Unclosed = {}
    BY <1>1 DEF Unclosed
  <2> QED
    BY <1>1, <2>1 DEF ShellInv, DescriptorInv
<1>6. ChildrenInv'
  BY <1>1 DEF ChildrenInv, NoStages
<1>7. NamesInv'
  <2>1. \A n \in Stages : 1 \in 1 .. n /\ 1 \in Stages /\ state'[1] = "absent"
    BY <1>1 DEF Stages, NoStages
  <2>2. DOMAIN reported' = {}
    BY <1>1
  <2> QED
    BY <2>1, <2>2 DEF NamesInv
<1>8. PlanInv'
  BY <1>1 DEF PlanInv, NoStages
<1> QED
  BY <1>3, <1>4, <1>5, <1>6, <1>7, <1>8 DEF ShellInv

LEMMA CreatePipeKeeps ==
  ASSUME TypeOK, ShellInv, CreatePipe PROVE TypeOK' /\ ShellInv'
<1>1. /\ phase = "pipe" /\ i < Len(commands)
      /\ UNCHANGED <<line, commands, p_ids, todo, state, toWrite, buffer, reported>>
      /\ p_ids = <<>> /\ reported = <<>> /\ Len(pipes) = i - 1
      /\ \A s \in Stages : state[s] \in {"absent", "reaped"}
  BY Typed DEF CreatePipe, children, ShellInv, LoopInv, ChildrenInv
<1>2. \A d \in Descriptors :
        fds[0][d] # Closed =>
          \/ d <= 2 /\ fds[0][d] = Terminal
          \/ \E k \in DOMAIN pipes : d \in {pipes[k][1], pipes[k][2]}
  BY <1>1 DEF ShellInv, DescriptorInv, Unclosed
<1>3. Len(p_ids) = 0 /\ Len(reported) = 0
  BY <1>1, EmptySeq
<1>4. NamesInv'
  BY <1>1, NamesKept DEF ShellInv
<1>5. PlanInv'
  BY <1>1 DEF PlanInv
<1>6. CASE phase' = "cleanup"
  <2>1. PICK a, b \in Descriptors :
          fds' = [fds EXCEPT ![0] = CloseAll(fds[0], PipeEnds \cup {a, b})]
    BY <1>1, <1>6 DEF CreatePipe
  <2>2. i' = i /\ pipes' = pipes
    BY <1>1, <1>6 DEF CreatePipe
  <2> DEFINE t == CloseAll(fds[0], PipeEnds \cup {a, b})
  <2>3. t \in Tables
    BY Typed, CloseAllType
  <2>4. \A d \in Descriptors : t[d] # Closed => d <= 2 /\ t[d] = Terminal
    <3>1. \A d \in Descriptors : t[d] # Closed => d \notin PipeEnds /\ t[d] = fds[0][d]
      BY DEF CloseAll
    <3>2. \A k \in DOMAIN pipes : {pipes[k][1], pipes[k][2]} \subseteq PipeEnds
      BY DEF PipeEnds
    <3> HIDE DEF t
    <3> QED
      BY <1>2, <3>1, <3>2
  <2>5. fds' = [fds EXCEPT ![0] = t]
    BY <2>1
  <2> HIDE DEF t
  <2>6. fds' \in [Processes -> Tables] /\ fds'[0] = t
    BY <2>3, <2>5, Typed, StageIsProcess
  <2>7. TypeOK'
    BY <1>1, <1>6, <2>2, <2>6 DEF TypeOK, Tables, Entries
  <2>8. LoopInv'
    BY <1>1, <1>3, <1>6, <2>2, Typed DEF LoopInv
  <2>9. DescriptorInv'
    BY <2>4, <2>6 DEF DescriptorInv
  <2>10. ChildrenInv'
    BY <1>1, <1>6 DEF ShellInv, ChildrenInv
  <2> QED
    BY <1>4, <1>5, <2>7, <2>8, <2>9, <2>10 DEF ShellInv
<1>7. CASE phase' # "cleanup"
  <2> DEFINE r == NewDescriptor(fds[0])
             t == Open(fds[0], Entry("reader", i, O_CLOEXEC))
             w == NewDescriptor(t)
             u == Open(t, Entry("writer", i, O_CLOEXEC))
  <2>1. /\ Cardinality(Free(fds[0])) >= 2 /\ i' = i + 1 /\ phase' = phase
        /\ pipes' = Append(pipes, <<r, w>>) /\ fds' = [fds EXCEPT ![0] = u]
    BY <1>7 DEF CreatePipe
  <2>2. i \in Stages
    BY <1>1, Typed DEF Stages
  <2>3. /\ Entry("reader", i, O_CLOEXEC) \in Entries
        /\ Entry("writer", i, O_CLOEXEC) \in Entries
        /\ Entry("reader", i, O_CLOEXEC) # Closed
    BY <2>2, EntryTypes DEF Entry, Closed
  <2>4. r \in Descriptors /\ w \in Descriptors
    BY <2>1, <2>3, Typed, TwoAreFree
  <2>5. t \in Tables /\ u \in Tables
    BY <2>3, Typed, OpenType
  <2>6. \A d \in Descriptors : u[d] # Closed => d \in {r, w} \/ u[d] = fds[0][d]
    BY <2>5, Typed DEF Open, Tables
  <2> HIDE DEF r, t, w, u
  <2>7. fds' \in [Processes -> Tables] /\ fds'[0] = u
    BY <2>1, <2>5, Typed, StageIsProcess
  <2>8. /\ pipes' \in Seq(Descriptors \X Descriptors)
        /\ Len(pipes') = Len(pipes) + 1 /\ DOMAIN pipes' = 1 .. Len(pipes) + 1
        /\ \A k \in DOMAIN pipes : pipes'[k] = pipes[k]
        /\ pipes'[Len(pipes) + 1] = <<r, w>>
    <3>1. pipes \in Seq(Descriptors \X Descriptors)
      BY DEF TypeOK
    <3>2. <<r, w>> \in Descriptors \X Descriptors
      BY <2>4
    <3> QED
      BY <3>1, <3>2, <2>1
  <2>9. i' \in 1 .. MaxCommands + 1
    BY <1>1, <2>1, Typed
  <2>10. TypeOK'
    BY <1>1, <2>1, <2>7, <2>8, <2>9 DEF TypeOK, Tables, Entries
  <2>11. LoopInv'
    BY <1>1, <1>3, <2>1, <2>8, Typed DEF LoopInv
  <2>12. DescriptorInv'
    <3> SUFFICES ASSUME NEW d \in Descriptors, fds'[0][d] # Closed
                 PROVE  \/ d <= 2 /\ fds'[0][d] = Terminal
                        \/ \E k \in DOMAIN pipes' : d \in {pipes'[k][1], pipes'[k][2]}
      BY <1>1, <2>1 DEF DescriptorInv, Unclosed
    <3>1. CASE d \in {r, w}
      <4> DEFINE k == Len(pipes) + 1
      <4>1. k \in DOMAIN pipes' /\ pipes'[k][1] = r /\ pipes'[k][2] = w
        BY <2>8, Typed
      <4> HIDE DEF k
      <4> QED
        BY <3>1, <4>1
    <3>2. CASE d \notin {r, w}
      <4>1. fds'[0][d] = fds[0][d]
        BY <2>6, <2>7, <3>2
      <4>2. \A k \in DOMAIN pipes : k \in DOMAIN pipes' /\ pipes'[k] = pipes[k]
        BY <2>8, Typed
      <4> QED
        BY <1>2, <4>1, <4>2
    <3> QED
      BY <3>1, <3>2
  <2>13. ChildrenInv'
    BY <1>1, <2>1 DEF ShellInv, ChildrenInv
  <2> QED
    BY <1>4, <1>5, <2>10, <2>11, <2>12, <2>13 DEF ShellInv
<1> QED
  BY <1>6, <1>7

LEMMA PipesCreatedKeeps ==
  ASSUME TypeOK, ShellInv, PipesCreated PROVE TypeOK' /\ ShellInv'
<1>1. /\ phase = "pipe" /\ i >= Len(commands) /\ phase' = "fork" /\ i' = 1
      /\ UNCHANGED <<line, commands, pipes, p_ids, fds, todo, state, toWrite,
                     buffer, reported>>
      /\ p_ids = <<>> /\ Len(p_ids) = 0
      /\ \A s \in Stages : state[s] \in {"absent", "reaped"}
  BY EmptySeq DEF PipesCreated, children, ShellInv, LoopInv, ChildrenInv
<1>2. TypeOK'
  BY <1>1 DEF TypeOK
<1>3. LoopInv'
  BY <1>1, Typed DEF ShellInv, LoopInv
<1>4. DescriptorInv'
  BY <1>1 DEF ShellInv, DescriptorInv, Unclosed
<1>5. ChildrenInv'
  <2>1. \A s \in Stages : state[s] = "absent"
    BY <1>1 DEF ShellInv, ChildrenInv
  <2> QED
    BY <1>1, <2>1 DEF ChildrenInv
<1> QED
  BY <1>1, <1>2, <1>3, <1>4, <1>5, NamesKept, PlansKept DEF ShellInv

LEMMA AllForkedKeeps ==
  ASSUME TypeOK, ShellInv, AllForked PROVE TypeOK' /\ ShellInv'
<1>1. /\ phase = "fork" /\ phase' = "close" /\ i' = 1
      /\ UNCHANGED <<line, commands, pipes, p_ids, fds, todo, state, toWrite,
                     buffer, reported>>
  BY DEF AllForked, children
<1>2. TypeOK'
  BY <1>1 DEF TypeOK
<1>3. LoopInv'
  BY <1>1 DEF ShellInv, LoopInv
<1>4. DescriptorInv'
  <2>1. Unclosed = DOMAIN pipes /\ Unclosed' = DOMAIN pipes
    BY <1>1, Typed DEF Unclosed
  <2> QED
    BY <1>1, <2>1 DEF ShellInv, DescriptorInv
<1>5. ChildrenInv'
  BY <1>1 DEF ShellInv, ChildrenInv
<1> QED
  BY <1>1, <1>2, <1>3, <1>4, <1>5, NamesKept, PlansKept DEF ShellInv

LEMMA ClosePipeKeeps ==
  ASSUME TypeOK, ShellInv, ClosePipe PROVE TypeOK' /\ ShellInv'
<1>1. /\ phase = "close"
      /\ UNCHANGED <<line, commands, pipes, p_ids, todo, state, toWrite, buffer,
                     reported>>
  BY DEF ClosePipe, children
<1>2. NamesInv' /\ PlanInv'
  BY <1>1, NamesKept, PlansKept DEF ShellInv
<1>3. \A d \in Descriptors :
        fds[0][d] # Closed =>
          \/ d <= 2 /\ fds[0][d] = Terminal
          \/ \E k \in DOMAIN pipes : k >= i /\ d \in {pipes[k][1], pipes[k][2]}
  BY <1>1 DEF ShellInv, DescriptorInv, Unclosed
<1>4. reported = <<>> /\ Len(reported) = 0
  BY <1>1, EmptySeq DEF ShellInv, LoopInv
<1>5. CASE i <= Len(pipes)
  <2> DEFINE t == CloseAll(fds[0], {pipes[i][1], pipes[i][2]})
  <2>1. t \in Tables
    BY Typed, CloseAllType
  <2>2. \A d \in Descriptors :
          t[d] # Closed => /\ d \notin {pipes[i][1], pipes[i][2]}
                           /\ t[d] = fds[0][d]
    BY DEF CloseAll
  <2>3. fds' = [fds EXCEPT ![0] = t] /\ i' = i + 1 /\ phase' = phase
    BY <1>5, Typed DEF ClosePipe
  <2> HIDE DEF t
  <2>4. fds' \in [Processes -> Tables] /\ fds'[0] = t
    BY <2>1, <2>3, Typed, StageIsProcess
  <2>5. Len(pipes) <= Len(commands)
    BY DEF ShellInv, LoopInv
  <2>6. i' \in 1 .. MaxCommands + 1
    BY <1>5, <2>3, <2>5, Typed
  <2>7. TypeOK'
    BY <1>1, <2>3, <2>4, <2>6 DEF TypeOK, Tables, Entries
  <2>8. LoopInv'
    BY <1>1, <2>3 DEF ShellInv, LoopInv
  <2>9. DescriptorInv'
    <3> SUFFICES ASSUME NEW d \in Descriptors, fds'[0][d] # Closed
                 PROVE  \/ d <= 2 /\ fds'[0][d] = Terminal
                        \/ \E k \in DOMAIN pipes :
                             k >= i + 1 /\ d \in {pipes[k][1], pipes[k][2]}
      BY <1>1, <2>3 DEF DescriptorInv, Unclosed
    <3>1. d \notin {pipes[i][1], pipes[i][2]} /\ fds'[0][d] = fds[0][d]
      BY <2>2, <2>4
    <3>2. ASSUME NEW k \in DOMAIN pipes, k >= i, d \in {pipes[k][1], pipes[k][2]}
          PROVE  k >= i + 1
      <4>1. k # i
        BY <3>1, <3>2
      <4> QED
        BY <3>2, <4>1, Typed
    <3> QED
      BY <1>3, <3>1, <3>2
  <2>10. ChildrenInv'
    BY <1>1, <2>3 DEF ShellInv, ChildrenInv
  <2> QED
    BY <1>2, <2>7, <2>8, <2>9, <2>10 DEF ShellInv
<1>6. CASE i > Len(pipes)
  <2>1. phase' = "wait" /\ i' = 1 /\ fds' = fds
    BY <1>6, Typed DEF ClosePipe
  <2>2. TypeOK'
    BY <1>1, <2>1 DEF TypeOK
  <2>3. LoopInv'
    BY <1>1, <1>4, <2>1 DEF ShellInv, LoopInv
  <2>4. DescriptorInv'
    <3>1. ~\E k \in DOMAIN pipes : k >= i
      BY <1>6, Typed
    <3> QED
      BY <1>3, <2>1, <3>1 DEF DescriptorInv
  <2>5. ChildrenInv'
    <3>1. \A n \in DOMAIN p_ids : ~(n < 1)
      BY Typed
    <3> QED
      BY <1>1, <2>1, <3>1 DEF ShellInv, ChildrenInv
  <2> QED
    BY <1>2, <2>2, <2>3, <2>4, <2>5 DEF ShellInv
<1> QED
  BY <1>5, <1>6, Typed

LEMMA WaitKeeps ==
  ASSUME TypeOK, ShellInv, Wait PROVE TypeOK' /\ ShellInv'
<1>1. /\ phase = "wait"
      /\ UNCHANGED <<line, commands, pipes, p_ids, fds, todo, toWrite, buffer>>
      /\ i = Len(reported) + 1
      /\ Len(p_ids) <= Len(commands) /\ Len(reported) <= Len(p_ids)
  BY DEF Wait, ShellInv, LoopInv
<1>2. DescriptorInv'
  <2>1. Unclosed = {} /\ phase' \in {"wait", "cleanup"}
    BY <1>1 DEF Unclosed, Wait
  <2> QED
    BY <1>1, <2>1 DEF ShellInv, DescriptorInv
<1>3. \A n \in DOMAIN p_ids : n < i => state[p_ids[n]] = "reaped"
  BY <1>1 DEF ShellInv, ChildrenInv
<1>4. CASE i <= Len(p_ids)
  <2> DEFINE s == p_ids[i]
             entry == [name |-> i, of |-> s]
  <2>1. /\ state[s] = "zombie" /\ state' = [state EXCEPT ![s] = "reaped"]
        /\ reported' = Append(reported, entry) /\ i' = i + 1 /\ phase' = phase
    BY <1>4, Typed DEF Wait, Awaited
  <2>2. i \in DOMAIN p_ids /\ s \in Stages
    BY <1>4, Typed DEF TypeOK
  <2>3. i \in Stages
    BY <1>1, <1>4, Typed DEF Stages
  <2>4. entry \in [name : Stages, of : Stages]
    BY <2>2, <2>3
  <2> HIDE DEF entry
  <2>5. /\ reported' \in Seq([name : Stages, of : Stages])
        /\ Len(reported') = Len(reported) + 1
        /\ DOMAIN reported' = 1 .. Len(reported) + 1
        /\ \A n \in DOMAIN reported : reported'[n] = reported[n]
        /\ reported'[Len(reported) + 1] = entry
    <3> DEFINE A == [name : Stages, of : Stages]
    <3>1. reported \in Seq(A) /\ entry \in A
      BY <2>4 DEF TypeOK
    <3> HIDE DEF A
    <3>2. Append(reported, entry) \in Seq(A)
      BY <3>1, Appended
    <3> QED
      BY <2>1, <3>1, <3>2, Appended DEF A
  <2>6. i' \in 1 .. MaxCommands + 1
    BY <1>1, <1>4, <2>1, Typed
  <2>7. TypeOK'
    <3>1. state' \in [Stages -> {"absent", "child", "program", "zombie", "reaped"}]
      BY <2>1 DEF TypeOK
    <3> QED
      BY <1>1, <2>1, <2>5, <2>6, <3>1 DEF TypeOK
  <2>8. LoopInv'
    BY <1>1, <1>4, <2>1, <2>5, Typed DEF ShellInv, LoopInv
  <2> HIDE DEF s
  <2>9. \A t \in Stages : /\ state'[t] = "absent" <=> state[t] = "absent"
                          /\ state[t] = "reaped" => state'[t] = "reaped"
                          /\ state'[t] # "child" \/ state[t] = "child"
    BY <2>1, <2>2 DEF TypeOK
  <2>10. \A n \in DOMAIN p_ids : p_ids[n] \in Stages
    BY DEF TypeOK
  <2>11. ChildrenInv'
    <3>1. ASSUME NEW n \in DOMAIN p_ids, n < i + 1
          PROVE  state'[p_ids[n]] = "reaped"
      <4>1. n < i \/ n = i
        BY <3>1, Typed
      <4>2. state'[s] = "reaped"
        BY <2>1, <2>2 DEF TypeOK
      <4> QED
        BY <1>3, <2>9, <2>10, <4>1, <4>2 DEF s
    <3> QED
      BY <1>1, <2>1, <2>9, <3>1 DEF ShellInv, ChildrenInv
  <2>12. NamesInv'
    <3>1. \A n \in Stages : 1 .. n \subseteq Stages
      BY DEF Stages
    <3>2. \A n \in Stages :
            (\A c \in 1 .. n : state'[c] # "absent") =>
              n \in DOMAIN p_ids' /\ p_ids'[n] = n
      BY <1>1, <2>9, <3>1 DEF ShellInv, NamesInv
    <3>3. ASSUME NEW n \in DOMAIN reported'
          PROVE  reported'[n] = [name |-> n, of |-> p_ids'[n]]
      <4>1. n \in DOMAIN reported \/ n = Len(reported) + 1
        BY <2>5, Typed
      <4>2. CASE n \in DOMAIN reported
        BY <1>1, <2>5, <4>2 DEF ShellInv, NamesInv
      <4>3. CASE n = Len(reported) + 1
        BY <1>1, <2>5, <4>3 DEF entry, s
      <4> QED
        BY <4>1, <4>2, <4>3
    <3> QED
      BY <3>2, <3>3 DEF NamesInv
  <2>13. PlanInv'
    BY <1>1, <2>9 DEF ShellInv, PlanInv, AllowedSteps
  <2> QED
    BY <1>2, <2>7, <2>8, <2>11, <2>12, <2>13 DEF ShellInv
<1>5. CASE i > Len(p_ids)
  <2>0. ~(i <= Len(p_ids))
    BY <1>5, Typed
  <2>1. phase' = "cleanup" /\ UNCHANGED <<i, state, reported>>
    BY <2>0 DEF Wait
  <2>2. TypeOK'
    BY <1>1, <2>1 DEF TypeOK
  <2>3. LoopInv'
    BY <1>1, <2>1 DEF ShellInv, LoopInv
  <2>4. ChildrenInv'
    <3>1. \A n \in DOMAIN p_ids : state[p_ids[n]] = "reaped"
      BY <1>3, <1>5, Typed
    <3>2. \A s \in Stages : state[s] \in {"absent", "reaped"}
      BY <3>1 DEF ShellInv, ChildrenInv
    <3> QED
      BY <1>1, <2>1, <3>2 DEF ShellInv, ChildrenInv
  <2> QED
    BY <1>1, <1>2, <2>1, <2>2, <2>3, <2>4, NamesKept, PlansKept DEF ShellInv
<1> QED
  BY <1>4, <1>5, Typed

LEMMA ForkKeeps ==
  ASSUME TypeOK, ShellInv, Fork PROVE TypeOK' /\ ShellInv'
<1>1. /\ phase = "fork" /\ phase' = phase /\ i <= Len(commands) /\ i' = i + 1
      /\ UNCHANGED <<line, commands, pipes, toWrite, buffer, reported>>
      /\ reported = <<>> /\ Len(reported) = 0 /\ DOMAIN reported = {}
      /\ Len(p_ids) < i
  BY EmptySeq DEF Fork, ShellInv, LoopInv
<1>2. i \in Stages /\ i' \in 1 .. MaxCommands + 1
  BY <1>1, Typed DEF Stages
<1>3. \A s \in Stages : s >= i => state[s] = "absent"
  BY <1>1 DEF ShellInv, ChildrenInv
<1>4. /\ \A s \in Stages : state[s] # "absent" => \E n \in DOMAIN p_ids : p_ids[n] = s
      /\ \A n \in Stages : (\A c \in 1 .. n : state[c] # "absent") =>
                             n \in DOMAIN p_ids /\ p_ids[n] = n
  BY DEF ShellInv, ChildrenInv, NamesInv
<1>5. CASE UNCHANGED <<p_ids, fds, todo, state>>
  <2>1. TypeOK'
    BY <1>1, <1>2, <1>5 DEF TypeOK
  <2>2. LoopInv'
    BY <1>1, <1>5, Typed DEF ShellInv, LoopInv
  <2>3. DescriptorInv'
    BY <1>1, <1>5 DEF ShellInv, DescriptorInv, Unclosed
  <2>4. ChildrenInv'
    <3>1. \A s \in Stages : s >= i + 1 => s >= i
      BY <1>2 DEF Stages
    <3> QED
      BY <1>1, <1>3, <1>4, <1>5, <3>1 DEF ChildrenInv
  <2> QED
    BY <1>1, <1>5, <2>1, <2>2, <2>3, <2>4, NamesKept, PlansKept DEF ShellInv
<1>6. CASE ~UNCHANGED <<p_ids, fds, todo, state>>
  <2>1. /\ p_ids' = Append(p_ids, i) /\ fds' = [fds EXCEPT ![i] = fds[0]]
        /\ todo' = [todo EXCEPT ![i] = ChildSteps(i)]
        /\ state' = [state EXCEPT ![i] = "child"]
    BY <1>6 DEF Fork
  <2>2. /\ p_ids' \in Seq(Stages) /\ Len(p_ids') = Len(p_ids) + 1
        /\ DOMAIN p_ids' = 1 .. Len(p_ids) + 1
        /\ \A n \in DOMAIN p_ids : n \in DOMAIN p_ids' /\ p_ids'[n] = p_ids[n]
        /\ p_ids'[Len(p_ids) + 1] = i
    <3>1. p_ids \in Seq(Stages)
      BY DEF TypeOK
    <3>2. /\ Append(p_ids, i) \in Seq(Stages)
          /\ Len(Append(p_ids, i)) = Len(p_ids) + 1
          /\ DOMAIN Append(p_ids, i) = 1 .. Len(p_ids) + 1
          /\ \A n \in DOMAIN p_ids : Append(p_ids, i)[n] = p_ids[n]
          /\ Append(p_ids, i)[Len(p_ids) + 1] = i
      BY <1>2, <3>1, Appended
    <3> QED
      BY <2>1, <3>2, Typed
  <2>3. fds' \in [Processes -> Tables]
    BY <2>1, Typed
  <2>4. /\ ChildSteps(i) \in Seq(AllowedSteps(i)) /\ ChildSteps(i) # <<>>
        /\ ChildSteps(i)[Len(ChildSteps(i))] = "exec"
    BY <1>1, PlanType DEF ShellInv
  <2>5. todo' \in [Stages -> Seq(Steps)]
    <3>1. AllowedSteps(i) \subseteq Steps
      BY DEF AllowedSteps
    <3>2. ChildSteps(i) \in Seq(Steps)
      BY <2>4, <3>1, SeqMonotonic
    <3> QED
      BY <2>1, <3>2 DEF TypeOK
  <2>6. state' \in [Stages -> {"absent", "child", "program", "zombie", "reaped"}]
    BY <2>1 DEF TypeOK
  <2>7. TypeOK'
    BY <1>1, <1>2, <2>2, <2>3, <2>5, <2>6 DEF TypeOK, Tables, Entries
  <2>8. \A s \in Stages : state'[s] = IF s = i THEN "child" ELSE state[s]
    BY <2>1 DEF TypeOK
  <2>9. LoopInv'
    BY <1>1, <2>2, Typed DEF ShellInv, LoopInv
  <2>10. DescriptorInv'
    <3>1. fds'[0] = fds[0]
      BY <1>2, <2>1, OwnTable
    <3> QED
      BY <1>1, <3>1 DEF ShellInv, DescriptorInv, Unclosed
  <2>11. ChildrenInv'
    <3>1. ASSUME NEW s \in Stages, state'[s] # "absent"
          PROVE  \E n \in DOMAIN p_ids' : p_ids'[n] = s
      <4>1. CASE s = i
        <5>1. Len(p_ids) + 1 \in DOMAIN p_ids'
          BY <2>2, Typed
        <5> QED
          BY <2>2, <4>1, <5>1
      <4>2. CASE s # i
        <5>1. state[s] # "absent"
          BY <2>8, <3>1, <4>2
        <5>2. PICK n \in DOMAIN p_ids : p_ids[n] = s
          BY <1>4, <5>1
        <5> QED
          BY <2>2, <5>2
      <4> QED
        BY <4>1, <4>2
    <3>2. ASSUME NEW s \in Stages, s >= i + 1 PROVE state'[s] = "absent"
      <4>1. s >= i /\ s # i
        BY <1>2, <3>2 DEF Stages
      <4> QED
        BY <1>3, <2>8, <4>1
    <3> QED
      BY <1>1, <3>1, <3>2 DEF ChildrenInv
  <2>12. NamesInv'
    <3> SUFFICES ASSUME NEW n \in Stages, \A c \in 1 .. n : state'[c] # "absent"
                 PROVE  n \in DOMAIN p_ids' /\ p_ids'[n] = n
      BY <1>1 DEF NamesInv
    <3>1. n \in Nat /\ n >= 1 /\ i \in Nat /\ \A c \in 1 .. n : c \in Stages
      BY <1>2 DEF Stages
    <3>2. CASE n < i
      <4>1. \A c \in 1 .. n : state[c] # "absent"
        BY <2>8, <3>1, <3>2
      <4> QED
        BY <1>4, <2>2, <4>1
    <3>3. CASE n = i
      <4>1. Len(p_ids) = i - 1
        <5>1. CASE i = 1
          BY <1>1, <5>1, Typed
        <5>2. CASE i # 1
          <6>1. i - 1 \in Stages
            BY <1>2, <5>2 DEF Stages
          <6>2. \A c \in 1 .. i - 1 : state[c] # "absent"
            BY <2>8, <3>1, <3>3
          <6>3. i - 1 \in DOMAIN p_ids
            BY <1>4, <6>1, <6>2
          <6> QED
            BY <1>1, <3>1, <6>3, Typed
        <5> QED
          BY <5>1, <5>2
      <4> QED
        BY <2>2, <3>1, <3>3, <4>1
    <3>4. CASE n > i
      <4>1. n \in 1 .. n /\ n # i /\ n >= i
        BY <3>1, <3>4
      <4> QED
        BY <1>3, <2>8, <4>1
    <3> QED
      BY <3>1, <3>2, <3>3, <3>4
  <2>13. PlanInv'
    <3> SUFFICES ASSUME NEW s \in Stages, state'[s] = "child"
                 PROVE  /\ todo'[s] \in Seq(AllowedSteps(s))
                        /\ todo'[s] # <<>> /\ todo'[s][Len(todo'[s])] = "exec"
      BY <1>1 DEF PlanInv, AllowedSteps
    <3>1. CASE s = i
      <4>1. todo'[s] = ChildSteps(i)
        BY <2>1, <3>1 DEF TypeOK
      <4> QED
        BY <2>4, <3>1, <4>1
    <3>2. CASE s # i
      <4>1. todo'[s] = todo[s] /\ state[s] = "child"
        BY <2>1, <2>8, <3>2 DEF TypeOK
      <4> QED
        BY <4>1 DEF ShellInv, PlanInv
    <3> QED
      BY <3>1, <3>2
  <2> QED
    BY <2>7, <2>9, <2>10, <2>11, <2>12, <2>13 DEF ShellInv
<1> QED
  BY <1>5, <1>6

-----------------------------------------------------------------------------
(* Theorems *)

LEMMA ShellInit == Init => ShellInv
<1> SUFFICES ASSUME Init PROVE ShellInv
  OBVIOUS
<1>1. Len(<<>>) = 0
  BY EmptySeq
<1>2. LoopInv
  BY <1>1 DEF Init, LoopInv
<1>3. DescriptorInv
  <2>1. 0 \in Processes
    BY StageIsProcess
  <2> QED
    BY <2>1 DEF Init, DescriptorInv, Descriptors
<1>4. ChildrenInv
  BY DEF Init, ChildrenInv, NoStages
<1>5. NamesInv
  <2>1. \A n \in Stages : 1 \in 1 .. n /\ 1 \in Stages /\ state[1] = "absent"
    BY DEF Stages, Init, NoStages
  <2>2. DOMAIN reported = {}
    BY DEF Init
  <2> QED
    BY <2>1, <2>2 DEF NamesInv
<1>6. PlanInv
  BY DEF Init, PlanInv, NoStages
<1> QED
  BY <1>2, <1>3, <1>4, <1>5, <1>6 DEF ShellInv

LEMMA ShellStepKeeps ==
  TypeOK /\ ShellInv /\ [Next]_vars => TypeOK' /\ ShellInv'
<1> SUFFICES ASSUME TypeOK, ShellInv, [Next]_vars PROVE TypeOK' /\ ShellInv'
  OBVIOUS
<1>1. CASE EndOfInput \/ \E tokens \in Lines : ReadLine(tokens)
  BY <1>1, PromptKeeps
<1>2. CASE ShellStep
  BY <1>2, CreatePipeKeeps, PipesCreatedKeeps, ForkKeeps, AllForkedKeeps,
     ClosePipeKeeps, WaitKeeps, CleanupKeeps DEF ShellStep
<1>3. ASSUME NEW s \in Stages, ChildStep(s) \/ Read(s) \/ Write(s) \/ Exit(s)
      PROVE  TypeOK' /\ ShellInv'
  BY <1>3, SetupKeeps, ExecKeeps, ProgramKeeps DEF ChildStep
<1>4. CASE UNCHANGED vars
  <2>1. TypeOK'
    BY <1>4 DEF vars, TypeOK
  <2>2. Quiet
    BY <1>4 DEF vars, Quiet
  <2> QED
    BY <2>1, <2>2, QuietKeeps
<1> QED
  BY <1>1, <1>2, <1>3, <1>4 DEF Next

\* Whatever fails, the table, the plans and the lists keep their types; in
\* particular a child only ever uses the end of a pipe that was made.
THEOREM TypeCorrect == Spec => []TypeOK
BY TypeInit, ShellInit, ShellStepKeeps, PTL DEF Spec

\* When a line is done, whatever failed, no descriptor and no child is left,
\* and the statuses bear the right names if no fork has failed.
THEOREM NothingIsLeft == Spec => []LineLeavesNothing
<1>1. TypeOK /\ ShellInv => LineLeavesNothing
  <2> SUFFICES ASSUME TypeOK, ShellInv PROVE LineLeavesNothing
    OBVIOUS
  <2>1. ASSUME phase \in {"cleanup", "prompt"}
        PROVE  /\ \A d \in Descriptors :
                    fds[0][d] # Closed => d <= 2 /\ fds[0][d] = Terminal
               /\ \A s \in Stages : state[s] \in {"absent", "reaped"}
    <3>1. Unclosed = {}
      BY <2>1 DEF Unclosed
    <3> QED
      BY <2>1, <3>1 DEF ShellInv, DescriptorInv, ChildrenInv
  <2>2. ASSUME NEW n \in DOMAIN reported, \A c \in 1 .. n : state[c] # "absent"
        PROVE  reported[n] = [name |-> n, of |-> n]
    <3>1. n \in Stages
      BY Typed DEF ShellInv, LoopInv, Stages
    <3>2. p_ids[n] = n
      BY <2>2, <3>1 DEF ShellInv, NamesInv
    <3> QED
      BY <3>2 DEF ShellInv, NamesInv
  <2> QED
    BY <2>1, <2>2 DEF LineLeavesNothing
<1> QED
  BY <1>1, TypeInit, ShellInit, ShellStepKeeps, PTL DEF Spec

-----------------------------------------------------------------------------
(* What a child has to do, and what its descriptors then lead to *)

\* The steps, what the command says of its files, and what the child does next.
DUP_IN == "dup in"
DUP_OUT == "dup out"
OPEN_IN == "open in"
OPEN_OUT == "open out"
EXEC == "exec"
ReadsFile(s) == commands[s].inFile # ""
WritesFile(s) == commands[s].outFile # ""
NextIs(s, step) == Head(todo[s]) = step

\* What the descriptors lead to: a file, or an end of a pipe that pipe2 made.
FileIn == Entry("in", 0, FALSE)
FileOut == Entry("out", 0, FALSE)
ReadEnd(k) == Entry("reader", k, O_CLOEXEC)
WriteEnd(k) == Entry("writer", k, O_CLOEXEC)

\* The steps R of a plan that are still to be done.
MovesIn(R) == "dup in" \in R
MovesOut(R) == "dup out" \in R
OpensIn(R) == "open in" \in R
OpensOut(R) == "open out" \in R
Without(R, step) == R \ {step}

\* The plan of a child of which the steps R, and exec, are still to be done.
Plan(R) ==
  If(MovesIn(R), "dup in") \o (If(MovesOut(R), "dup out") \o
    (If(OpensIn(R), "open in") \o
      (If(OpensOut(R), "open out") \o <<"exec">>)))

\* The child for command s has the steps R still to do: steps that the command
\* calls for, and none that comes after one of them is done already.
StandsAt(s, R) ==
  /\ todo[s] = Plan(R)
  /\ MovesIn(R) => s > 1
  /\ MovesOut(R) => s <= Len(pipes)
  /\ OpensIn(R) => ReadsFile(s)
  /\ OpensOut(R) => WritesFile(s)
  /\ MovesIn(R) => (MovesOut(R) <=> s <= Len(pipes))
  /\ MovesIn(R) \/ MovesOut(R) =>
       (OpensIn(R) <=> ReadsFile(s))
  /\ MovesIn(R) \/ MovesOut(R) \/ OpensIn(R) =>
       (OpensOut(R) <=> WritesFile(s))

\* A descriptor that a program will not find.
GoneAfterExec(entry) == entry = Closed \/ entry.cloexec

\* What the descriptors of that child lead to.  All but the first three are
\* closed or will be by execv.
ChildTable(s, R) ==
  /\ fds[s][0] = IF ReadsFile(s) /\ ~OpensIn(R)
                 THEN FileIn
                 ELSE IF s > 1 /\ ~MovesIn(R) THEN Reader(s - 1) ELSE Terminal
  /\ fds[s][1] = IF WritesFile(s) /\ ~OpensOut(R)
                 THEN FileOut
                 ELSE IF s <= Len(pipes) /\ ~MovesOut(R) THEN Writer(s)
                 ELSE Terminal
  /\ fds[s][2] = Terminal
  /\ \A n \in Descriptors : n > 2 => GoneAfterExec(fds[s][n])
  /\ MovesIn(R) =>
       /\ pipes[s - 1][1] > 2
       /\ fds[s][pipes[s - 1][1]] = ReadEnd(s - 1)
  /\ MovesOut(R) =>
       /\ pipes[s][2] > 2
       /\ fds[s][pipes[s][2]] = WriteEnd(s)

ShellWired ==
  \A k \in Unclosed :
    /\ pipes[k][1] > 2 /\ fds[0][pipes[k][1]] = ReadEnd(k)
    /\ pipes[k][2] > 2 /\ fds[0][pipes[k][2]] = WriteEnd(k)

ChildWired(s) == \E R \in SUBSET Steps : StandsAt(s, R) /\ ChildTable(s, R)

IsWriter(entry) == entry.what = "writer"

\* What a program is to find, as StdioConnected says it.
ProgramTable(s) == [d \in Descriptors |-> CASE d = 0 -> StandardInput(s)
                                             [] d = 1 -> StandardOutput(s)
                                             [] d = 2 -> Terminal
                                             [] OTHER -> Closed]

\* The pipes fit the commands; a process that is gone, or is not there yet, has
\* no descriptors; and only a program writes.
ProcessInv ==
  /\ Len(pipes) = 0 \/ Len(pipes) < Len(commands)
  /\ \A s \in Stages :
       state[s] \in {"absent", "zombie", "reaped"} => fds[s] = NoDescriptors
  /\ \A s \in Stages :
       toWrite[s] # 0 => state[s] = "program" /\ IsWriter(fds[s][1])

WiringInv ==
  Intact => ShellWired /\ \A s \in Stages : state[s] = "child" => ChildWired(s)

BufferInv ==
  /\ phase \in {"prompt", "pipe", "ended"} => buffer = NoStages(0)
  /\ \A s \in 1 .. Len(commands) :
       WritesFile(s) /\ Intact => buffer[s] = 0

LEMMA PartsOfPlan ==
  ASSUME NEW R
  PROVE  /\ If(MovesIn(R), "dup in") \in Seq(Steps) /\ If(MovesOut(R), "dup out") \in Seq(Steps)
         /\ If(OpensIn(R), "open in") \in Seq(Steps) /\ If(OpensOut(R), "open out") \in Seq(Steps)
         /\ <<"exec">> \in Seq(Steps)
<1>1. /\ "dup in" \in Steps /\ "dup out" \in Steps /\ "open in" \in Steps
      /\ "open out" \in Steps /\ "exec" \in Steps
  BY DEF Steps
<1> HIDE DEF Steps
<1>2. ASSUME NEW x \in Steps PROVE If(x \in R, x) \in Seq(Steps)
  BY OneStep, EmptySeq DEF If
<1>4. <<"exec">> \in Seq(Steps)
  BY <1>1, OneStep
<1> QED
  BY <1>1, <1>2, <1>4 DEF MovesIn, MovesOut, OpensIn, OpensOut

LEMMA FirstOf ==
  ASSUME NEW A, NEW x \in A, NEW t \in Seq(A)
  PROVE  Head(<<x>> \o t) = x /\ Tail(<<x>> \o t) = t
<1>1. <<x>> \in Seq(A) /\ Len(<<x>>) = 1 /\ <<x>>[1] = x
  BY OneStep
<1> DEFINE u == <<x>> \o t
<1>2. u \in Seq(A) /\ Len(u) = 1 + Len(t) /\ u[1] = x
      /\ \A n \in 1 .. Len(t) : u[n + 1] = t[n]
  BY <1>1, ConcatProperties
<1> HIDE DEF u
<1>3. u # <<>>
  BY <1>2
<1>4. Head(u) = x
  BY <1>2
<1>5. Tail(u) = t
  BY <1>2, <1>3
<1> QED
  BY <1>4, <1>5 DEF u

LEMMA EmptyFirst ==
  ASSUME NEW A, NEW t \in Seq(A) PROVE <<>> \o t = t
BY ConcatEmptySeq

\* The next step of a plan, and what is left after it.
LEMMA PlanSteps ==
  ASSUME NEW R
  PROVE  /\ Plan(R) \in Seq(Steps)
         /\ MovesIn(R) =>
              Head(Plan(R)) = "dup in" /\ Tail(Plan(R)) = Plan(Without(R, DUP_IN))
         /\ ~MovesIn(R) /\ MovesOut(R) =>
              Head(Plan(R)) = "dup out" /\ Tail(Plan(R)) = Plan(Without(R, DUP_OUT))
         /\ ~MovesIn(R) /\ ~MovesOut(R) /\ OpensIn(R) =>
              Head(Plan(R)) = "open in" /\ Tail(Plan(R)) = Plan(Without(R, OPEN_IN))
         /\ ~MovesIn(R) /\ ~MovesOut(R) /\ ~OpensIn(R) /\ OpensOut(R) =>
              Head(Plan(R)) = "open out" /\ Tail(Plan(R)) = Plan(Without(R, OPEN_OUT))
         /\ ~MovesIn(R) /\ ~MovesOut(R) /\ ~OpensIn(R) /\ ~OpensOut(R) =>
              Head(Plan(R)) = "exec"
<1> DEFINE e == <<"exec">>
           t == If(OpensOut(R), "open out") \o e
           u == If(OpensIn(R), "open in") \o t
           v == If(MovesOut(R), "dup out") \o u
           w == If(MovesIn(R), "dup in") \o v
<1>1. /\ If(MovesIn(R), "dup in") \in Seq(Steps) /\ If(MovesOut(R), "dup out") \in Seq(Steps)
      /\ If(OpensIn(R), "open in") \in Seq(Steps) /\ If(OpensOut(R), "open out") \in Seq(Steps)
      /\ e \in Seq(Steps)
  BY PartsOfPlan
<1>2. /\ "dup in" \in Steps /\ "dup out" \in Steps /\ "open in" \in Steps
      /\ "open out" \in Steps /\ "exec" \in Steps
  BY DEF Steps
<1>3. Head(e) = "exec"
  BY DEF e
<1> HIDE DEF e, Steps
<1>4. t \in Seq(Steps)
  BY <1>1, ConcatProperties
<1>5. (OpensOut(R) => Head(t) = "open out" /\ Tail(t) = e) /\ (~OpensOut(R) => t = e)
  BY <1>1, <1>2, FirstOf, EmptyFirst DEF If
<1> HIDE DEF t
<1>7. u \in Seq(Steps)
  BY <1>1, <1>4, ConcatProperties
<1>8. (OpensIn(R) => Head(u) = "open in" /\ Tail(u) = t) /\ (~OpensIn(R) => u = t)
  BY <1>2, <1>4, FirstOf, EmptyFirst DEF If
<1> HIDE DEF u
<1>9. v \in Seq(Steps)
  BY <1>1, <1>7, ConcatProperties
<1>10. (MovesOut(R) => Head(v) = "dup out" /\ Tail(v) = u) /\ (~MovesOut(R) => v = u)
  BY <1>2, <1>7, FirstOf, EmptyFirst DEF If
<1> HIDE DEF v
<1>11. w \in Seq(Steps)
  BY <1>1, <1>9, ConcatProperties
<1>12. (MovesIn(R) => Head(w) = "dup in" /\ Tail(w) = v) /\ (~MovesIn(R) => w = v)
  BY <1>2, <1>9, FirstOf, EmptyFirst DEF If
<1> HIDE DEF w
<1>13. Plan(R) = w
  BY DEF Plan, w, v, u, t, e
<1>14. MovesIn(R) => Tail(w) = Plan(Without(R, DUP_IN))
  <2>1. Plan(Without(R, DUP_IN)) = <<>> \o v
    BY DEF Plan, If, Without, DUP_IN, DUP_OUT, OPEN_IN, OPEN_OUT, MovesIn, MovesOut, OpensIn, OpensOut, v, u, t, e
  <2> QED
    BY <1>9, <1>12, <2>1, EmptyFirst
<1>15. ~MovesIn(R) /\ MovesOut(R) => Tail(v) = Plan(Without(R, DUP_OUT))
  <2>1. ~MovesIn(R) => Plan(Without(R, DUP_OUT)) = <<>> \o (<<>> \o u)
    BY DEF Plan, If, Without, DUP_IN, DUP_OUT, OPEN_IN, OPEN_OUT, MovesIn, MovesOut, OpensIn, OpensOut, u, t, e
  <2> QED
    BY <1>7, <1>10, <2>1, EmptyFirst
<1>16. ~MovesIn(R) /\ ~MovesOut(R) /\ OpensIn(R) =>
         Tail(u) = Plan(Without(R, OPEN_IN))
  <2>1. ~MovesIn(R) /\ ~MovesOut(R) =>
          Plan(Without(R, OPEN_IN)) = <<>> \o (<<>> \o (<<>> \o t))
    BY DEF Plan, If, Without, DUP_IN, DUP_OUT, OPEN_IN, OPEN_OUT, MovesIn, MovesOut, OpensIn, OpensOut, t, e
  <2> QED
    BY <1>4, <1>8, <2>1, EmptyFirst
<1>17. ~MovesIn(R) /\ ~MovesOut(R) /\ ~OpensIn(R) /\ OpensOut(R) =>
         Tail(t) = Plan(Without(R, OPEN_OUT))
  <2>1. ~MovesIn(R) /\ ~MovesOut(R) /\ ~OpensIn(R) =>
          Plan(Without(R, OPEN_OUT)) = <<>> \o (<<>> \o (<<>> \o (<<>> \o e)))
    BY DEF Plan, If, Without, DUP_IN, DUP_OUT, OPEN_IN, OPEN_OUT, MovesIn, MovesOut, OpensIn, OpensOut, e
  <2> QED
    BY <1>1, <1>5, <2>1, EmptyFirst
<1> QED
  BY <1>3, <1>5, <1>8, <1>10, <1>11, <1>12, <1>13, <1>14, <1>15, <1>16, <1>17

\* A step that is done is the only one that is no more to be done.
LEMMA OneStepLess ==
  ASSUME NEW R
  PROVE  /\ \A step : R \in SUBSET Steps => Without(R, step) \in SUBSET Steps
         /\ LET Q == Without(R, DUP_IN)
            IN  /\ ~MovesIn(Q) /\ (MovesOut(Q) <=> MovesOut(R))
                /\ (OpensIn(Q) <=> OpensIn(R)) /\ (OpensOut(Q) <=> OpensOut(R))
         /\ LET Q == Without(R, DUP_OUT)
            IN  /\ ~MovesOut(Q) /\ (MovesIn(Q) <=> MovesIn(R))
                /\ (OpensIn(Q) <=> OpensIn(R)) /\ (OpensOut(Q) <=> OpensOut(R))
         /\ LET Q == Without(R, OPEN_IN)
            IN  /\ ~OpensIn(Q) /\ (MovesIn(Q) <=> MovesIn(R))
                /\ (MovesOut(Q) <=> MovesOut(R)) /\ (OpensOut(Q) <=> OpensOut(R))
         /\ LET Q == Without(R, OPEN_OUT)
            IN  /\ ~OpensOut(Q) /\ (MovesIn(Q) <=> MovesIn(R))
                /\ (MovesOut(Q) <=> MovesOut(R)) /\ (OpensIn(Q) <=> OpensIn(R))
BY DEF Without, MovesIn, MovesOut, OpensIn, OpensOut, DUP_IN, DUP_OUT, OPEN_IN, OPEN_OUT

-----------------------------------------------------------------------------
(* What the calls of a child do to its table *)

LEMMA LowestIsNew ==
  ASSUME NEW table, NEW n \in Descriptors, table[n] = Closed,
         \A m \in Descriptors : m < n => table[m] # Closed
  PROVE  NewDescriptor(table) = n
<1>1. Free(table) \in SUBSET Nat /\ n \in Free(table) /\ n \in Nat
  BY DEF Free, Descriptors
<1>2. \A m \in Free(table) : n <= m
  BY <1>1 DEF Free
<1>3. \A m \in Free(table) : (\A k \in Free(table) : m <= k) => m = n
  BY <1>1, <1>2
<1> QED
  BY <1>1, <1>2, <1>3 DEF NewDescriptor, Min

\* With two free descriptors, those of a new pipe are free ones.
LEMMA SomeIsFree ==
  ASSUME NEW table, Cardinality(Free(table)) >= 2
  PROVE  NewDescriptor(table) \in Free(table)
<1>1. Free(table) # {}
  <2> SUFFICES ASSUME Free(table) = {} PROVE FALSE
    OBVIOUS
  <2>1. Cardinality(Free(table)) = 0
    BY FS_EmptySet
  <2> QED
    BY <2>1
<1> QED
  BY <1>1, NewIsFree

LEMMA OneIsLeft ==
  ASSUME NEW table \in Tables, Cardinality(Free(table)) >= 2,
         NEW e \in Entries, e # Closed
  PROVE  NewDescriptor(Open(table, e)) \in Free(Open(table, e))
<1> DEFINE r == NewDescriptor(table)
<1>1. IsFiniteSet(Free(table)) /\ r \in Free(table)
  <2>1. IsFiniteSet(Descriptors)
    BY FS_Interval DEF Descriptors
  <2>2. Free(table) \in SUBSET Descriptors
    BY DEF Free
  <2> QED
    BY <2>1, <2>2, FS_Subset, SomeIsFree
<1>2. Free(Open(table, e)) = Free(table) \ {r}
  BY <1>1 DEF Free, Open, Tables
<1>3. Cardinality(Free(table) \ {r}) = Cardinality(Free(table)) - 1
  BY <1>1, FS_RemoveElement
<1>4. Free(Open(table, e)) # {}
  <2>1. Cardinality(Free(table)) \in Nat
    BY <1>1, FS_CardinalityType
  <2>2. Cardinality(Free(Open(table, e))) # 0
    BY <1>2, <1>3, <2>1
  <2> QED
    BY <2>2, FS_EmptySet
<1> QED
  BY <1>4, NewIsFree

LEMMA MovedTable ==
  ASSUME NEW table \in Tables, NEW d \in Descriptors, NEW onto \in Descriptors, d # onto
  PROVE  LET new == Move(table, d, onto)
         IN  /\ new \in Tables
             /\ new[onto] = [table[d] EXCEPT !.cloexec = FALSE]
             /\ new[d] = Closed
             /\ \A n \in Descriptors : n # d /\ n # onto => new[n] = table[n]
<1> DEFINE e == [table[d] EXCEPT !.cloexec = FALSE]
           t == [table EXCEPT ![onto] = e]
<1>1. Dup2(table, d, onto) = t
  BY DEF Dup2
<1> HIDE DEF e
<1>2. t[onto] = e /\ \A n \in Descriptors : n # onto => t[n] = table[n]
  BY DEF Tables
<1> HIDE DEF t
<1>3. Move(table, d, onto) = [n \in Descriptors |-> IF n \in {d} THEN Closed ELSE t[n]]
  BY <1>1 DEF Move, CloseAll
<1>4. Move(table, d, onto) \in Tables
  BY MoveType
<1> HIDE DEF Closed
<1> QED
  BY <1>2, <1>3, <1>4 DEF e

LEMMA ReopenedTable ==
  ASSUME NEW table \in Tables, NEW n \in {0, 1}, n = 1 => table[0] # Closed,
         NEW e \in Entries
  PROVE  LET new == Reopen(table, n, e)
         IN  /\ new \in Tables
             /\ new[n] = e
             /\ \A m \in Descriptors : m # n => new[m] = table[m]
<1> DEFINE t == CloseAll(table, {n})
<1>1. /\ t \in Tables /\ t[n] = Closed /\ n \in Descriptors
      /\ \A m \in Descriptors : m # n => t[m] = table[m]
  BY CloseAllType DEF CloseAll, Descriptors
<1> HIDE DEF t
<1>2. \A m \in Descriptors : m < n => t[m] # Closed
  BY <1>1 DEF Descriptors
<1>3. NewDescriptor(t) = n
  BY <1>1, <1>2, LowestIsNew
<1>4. Reopen(table, n, e) = [t EXCEPT ![n] = e]
  BY <1>3 DEF Reopen, Open, t
<1>5. Reopen(table, n, e) \in Tables
  BY ReopenType
<1> QED
  BY <1>1, <1>4, <1>5 DEF Tables

\* The entries that the tables are made of are told apart.
LEMMA EntriesDiffer ==
  /\ Terminal # Closed
  /\ \A k, l : /\ ReadEnd(k) # WriteEnd(l)
               /\ ReadEnd(k) # Terminal
               /\ WriteEnd(k) # Terminal
               /\ ReadEnd(k) # Closed
               /\ WriteEnd(k) # Closed
               /\ ReadEnd(k) = ReadEnd(l) => k = l
               /\ WriteEnd(k) = WriteEnd(l) => k = l
               /\ Reader(k) # Closed /\ Writer(k) # Closed
  /\ FileIn # Closed /\ FileOut # Closed
<1>1. /\ Terminal # Closed
      /\ FileIn # Closed /\ FileOut # Closed
  BY DEF Entry, Terminal, Closed, FileIn, FileOut
<1>2. ASSUME NEW k, NEW l
      PROVE  /\ ReadEnd(k) # WriteEnd(l)
             /\ ReadEnd(k) # Terminal
             /\ WriteEnd(k) # Terminal
             /\ ReadEnd(k) # Closed
             /\ WriteEnd(k) # Closed
             /\ Reader(k) # Closed /\ Writer(k) # Closed
  BY DEF Entry, Terminal, Closed, Reader, Writer, ReadEnd, WriteEnd
<1>3. ASSUME NEW k, NEW l
      PROVE  /\ ReadEnd(k) = ReadEnd(l) => k = l
             /\ WriteEnd(k) = WriteEnd(l) => k = l
  BY DEF Entry, ReadEnd, WriteEnd
<1> QED
  BY <1>1, <1>2, <1>3

\* A duplicate has not the flag.
LEMMA Duplicate ==
  ASSUME NEW k \in Stages
  PROVE  /\ [ReadEnd(k) EXCEPT !.cloexec = FALSE] = Reader(k)
         /\ [WriteEnd(k) EXCEPT !.cloexec = FALSE] = Writer(k)
<1>1. ASSUME NEW e \in Entries
      PROVE  LET f == [e EXCEPT !.cloexec = FALSE]
             IN  /\ f \in Entries
                 /\ f.what = e.what /\ f.pipe = e.pipe /\ f.cloexec = FALSE
  BY DEF Entries
<1>2. \A e, f \in Entries :
        e.what = f.what /\ e.pipe = f.pipe /\ e.cloexec = f.cloexec => e = f
  BY DEF Entries
<1>3. /\ Reader(k) \in Entries /\ Writer(k) \in Entries
      /\ Reader(k).what = "reader" /\ Reader(k).pipe = k /\ Reader(k).cloexec = FALSE
      /\ Writer(k).what = "writer" /\ Writer(k).pipe = k /\ Writer(k).cloexec = FALSE
  BY DEF Reader, Writer, Entry, Entries, Stages
<1>4. /\ ReadEnd(k) \in Entries
      /\ WriteEnd(k) \in Entries
      /\ ReadEnd(k).what = "reader"
      /\ ReadEnd(k).pipe = k
      /\ WriteEnd(k).what = "writer"
      /\ WriteEnd(k).pipe = k
  BY EntryTypes DEF Entry, ReadEnd, WriteEnd
<1> DEFINE r == ReadEnd(k)
           w == WriteEnd(k)
           rr == [r EXCEPT !.cloexec = FALSE]
           ww == [w EXCEPT !.cloexec = FALSE]
<1>5. /\ r \in Entries /\ w \in Entries
      /\ r.what = "reader" /\ r.pipe = k /\ w.what = "writer" /\ w.pipe = k
  BY <1>4
<1> HIDE DEF Entries, r, w
<1>6. /\ rr \in Entries /\ rr.what = "reader" /\ rr.pipe = k /\ rr.cloexec = FALSE
  BY <1>1, <1>5
<1>7. /\ ww \in Entries /\ ww.what = "writer" /\ ww.pipe = k /\ ww.cloexec = FALSE
  BY <1>1, <1>5
<1> HIDE DEF rr, ww
<1>8. rr = Reader(k)
  BY <1>2, <1>3, <1>6
<1>9. ww = Writer(k)
  BY <1>2, <1>3, <1>7
<1> QED
  BY <1>8, <1>9 DEF rr, ww, r, w

-----------------------------------------------------------------------------
(* A step of one process leaves the wiring of the others alone *)

Local(s) ==
  /\ UNCHANGED <<phase, line, commands, i, pipes>>
  /\ \A p \in Processes \ {s} : fds'[p] = fds[p]
  /\ \A t \in Stages \ {s} :
       state'[t] = state[t] /\ todo'[t] = todo[t] /\ toWrite'[t] = toWrite[t]

LEMMA OthersKept ==
  ASSUME NEW s \in Stages, Local(s)
  PROVE  /\ Intact' = Intact
         /\ ShellWired' = ShellWired
         /\ \A t \in Stages \ {s} : ChildWired(t) => ChildWired(t)'
<1>1. fds'[0] = fds[0]
  BY StageIsProcess DEF Local, Stages
<1>2. Intact' = Intact
  BY <1>1 DEF Intact
<1>3. Unclosed' = Unclosed
  BY DEF Unclosed, Local
<1>4. ShellWired' = ShellWired
  BY <1>1, <1>3 DEF ShellWired, Local
<1>5. ASSUME NEW t \in Stages \ {s}, ChildWired(t) PROVE ChildWired(t)'
  <2>1. /\ fds'[t] = fds[t] /\ todo'[t] = todo[t] /\ UNCHANGED <<commands, pipes>>
        /\ ReadsFile(t)' = ReadsFile(t) /\ WritesFile(t)' = WritesFile(t)
    BY StageIsProcess DEF Local, ReadsFile, WritesFile
  <2>2. PICK R \in SUBSET Steps : StandsAt(t, R) /\ ChildTable(t, R)
    BY <1>5 DEF ChildWired
  <2>3. StandsAt(t, R)'
    BY <2>1, <2>2 DEF StandsAt
  <2>4. ChildTable(t, R)'
    BY <2>1, <2>2 DEF ChildTable
  <2> QED
    BY <2>3, <2>4 DEF ChildWired
<1> QED
  BY <1>2, <1>4, <1>5

-----------------------------------------------------------------------------
(* The steps of a child connect it *)

\* The next step of a child tells how far it is.
LEMMA WhereItStands ==
  ASSUME NEW s, NEW R, StandsAt(s, R)
  PROVE  /\ NextIs(s, DUP_IN) => MovesIn(R)
         /\ NextIs(s, DUP_OUT) => ~MovesIn(R) /\ MovesOut(R)
         /\ NextIs(s, OPEN_IN) =>
              ~MovesIn(R) /\ ~MovesOut(R) /\ OpensIn(R)
         /\ NextIs(s, OPEN_OUT) =>
              ~MovesIn(R) /\ ~MovesOut(R) /\ ~OpensIn(R) /\ OpensOut(R)
         /\ NextIs(s, EXEC) =>
              ~MovesIn(R) /\ ~MovesOut(R) /\ ~OpensIn(R) /\ ~OpensOut(R)
<1>1. todo[s] = Plan(R)
  BY DEF StandsAt
<1> QED
  BY <1>1, PlanSteps DEF NextIs, DUP_IN, DUP_OUT, OPEN_IN, OPEN_OUT, EXEC

\* A call that succeeded: the table of the child is t.
StepDone(s, t) ==
  /\ fds' = [fds EXCEPT ![s] = t]
  /\ todo' = [todo EXCEPT ![s] = Tail(@)]
  /\ UNCHANGED <<commands, pipes>>

LEMMA StepTaken ==
  ASSUME TypeOK, NEW s \in Stages, NEW t, StepDone(s, t)
  PROVE  /\ fds'[s] = t /\ todo'[s] = Tail(todo[s]) /\ UNCHANGED <<commands, pipes>>
         /\ ReadsFile(s)' = ReadsFile(s) /\ WritesFile(s)' = WritesFile(s)
<1>1. fds'[s] = t /\ todo'[s] = Tail(todo[s]) /\ UNCHANGED <<commands, pipes>>
  BY Typed, StageIsProcess DEF StepDone, TypeOK
<1>2. ReadsFile(s)' = ReadsFile(s) /\ WritesFile(s)' = WritesFile(s)
  BY <1>1 DEF ReadsFile, WritesFile
<1> QED
  BY <1>1, <1>2

LEMMA DupInConnects ==
  ASSUME TypeOK, NEW s \in Stages, s - 1 \in DOMAIN pipes, ChildWired(s),
         NextIs(s, DUP_IN),
         StepDone(s, Move(fds[s], pipes[s - 1][1], 0))
  PROVE  ChildWired(s)'
<1>1. PICK R \in SUBSET Steps : StandsAt(s, R) /\ ChildTable(s, R)
  BY DEF ChildWired
<1>2. MovesIn(R)
  BY <1>1, WhereItStands
<1> DEFINE x == pipes[s - 1][1]
           t == Move(fds[s], x, 0)
<1>3. x \in Descriptors /\ 0 \in Descriptors /\ x > 2 /\ x # 0
  BY <1>1, <1>2, PipeEndTypes DEF ChildTable, Descriptors
<1>4. fds[s] \in Tables /\ fds[s][x] = ReadEnd(s - 1)
  BY <1>1, <1>2, Typed, StageIsProcess DEF ChildTable
<1>5. s - 1 \in Stages /\ s > 1
  BY <1>1, <1>2, Typed DEF StandsAt, Stages
<1> HIDE DEF x
<1>6. t[0] = Reader(s - 1) /\ t[x] = Closed
      /\ \A n \in Descriptors : n # x /\ n # 0 => t[n] = fds[s][n]
  BY <1>3, <1>4, <1>5, MovedTable, Duplicate
<1>7. /\ fds'[s] = t /\ todo'[s] = Tail(todo[s]) /\ UNCHANGED <<commands, pipes>>
      /\ ReadsFile(s)' = ReadsFile(s) /\ WritesFile(s)' = WritesFile(s)
  BY StepTaken DEF StepDone, x
<1> HIDE DEF t
<1>8. StandsAt(s, Without(R, DUP_IN))'
  <2>1. todo'[s] = Plan(Without(R, DUP_IN))
    BY <1>1, <1>2, <1>7, PlanSteps DEF StandsAt
  <2> QED
    BY <1>1, <1>2, <1>7, <2>1, OneStepLess DEF StandsAt
<1>9. ChildTable(s, Without(R, DUP_IN))'
  <2>1. fds'[s][0] = Reader(s - 1) /\ (OpensIn(R) <=> ReadsFile(s))
    BY <1>1, <1>2, <1>6, <1>7 DEF StandsAt
  <2>2. 1 \in Descriptors /\ 2 \in Descriptors /\ x # 1 /\ x # 2
    BY <1>3 DEF Descriptors
  <2>3. fds'[s][1] = fds[s][1] /\ fds'[s][2] = fds[s][2]
    BY <1>6, <1>7, <2>2
  <2>4. \A n \in Descriptors : n > 2 => GoneAfterExec(fds'[s][n])
    <3>1. GoneAfterExec(Closed) /\ \A n \in Descriptors : n > 2 => n # 0
      BY DEF Descriptors, GoneAfterExec
    <3> QED
      BY <1>1, <1>6, <1>7, <3>1 DEF ChildTable
  <2>5. ASSUME MovesOut(R)
        PROVE  pipes[s][2] > 2 /\ fds'[s][pipes[s][2]] = WriteEnd(s)
    <3>1. pipes[s][2] > 2 /\ fds[s][pipes[s][2]] = WriteEnd(s)
      BY <1>1, <2>5 DEF ChildTable
    <3>2. s \in DOMAIN pipes
      BY <1>1, <2>5, Typed DEF StandsAt, Stages
    <3>3. pipes[s][2] \in Descriptors /\ pipes[s][2] # 0
      BY <3>1, <3>2, PipeEndTypes DEF Descriptors
    <3>4. pipes[s][2] # x
      BY <1>4, <3>1, EntriesDiffer
    <3> QED
      BY <1>6, <1>7, <3>1, <3>3, <3>4
  <2> QED
    BY <1>1, <1>2, <1>5, <1>7, <2>1, <2>3, <2>4, <2>5, OneStepLess DEF ChildTable
<1> QED
  <2> Without(R, DUP_IN) \in SUBSET Steps
    BY OneStepLess
  <2> QED
    BY <1>8, <1>9, OneStepLess DEF ChildWired

LEMMA DupOutConnects ==
  ASSUME TypeOK, NEW s \in Stages, s \in DOMAIN pipes, ChildWired(s),
         NextIs(s, DUP_OUT),
         StepDone(s, Move(fds[s], pipes[s][2], 1))
  PROVE  ChildWired(s)'
<1>1. PICK R \in SUBSET Steps : StandsAt(s, R) /\ ChildTable(s, R)
  BY DEF ChildWired
<1>2. ~MovesIn(R) /\ MovesOut(R)
  BY <1>1, WhereItStands
<1> DEFINE x == pipes[s][2]
           t == Move(fds[s], x, 1)
<1>3. x \in Descriptors /\ 1 \in Descriptors /\ x > 2 /\ x # 1
  BY <1>1, <1>2, PipeEndTypes DEF ChildTable, Descriptors
<1>4. fds[s] \in Tables /\ fds[s][x] = WriteEnd(s)
  BY <1>1, <1>2, Typed, StageIsProcess DEF ChildTable
<1> HIDE DEF x
<1>5. t[1] = Writer(s) /\ t[x] = Closed
      /\ \A n \in Descriptors : n # x /\ n # 1 => t[n] = fds[s][n]
  BY <1>3, <1>4, MovedTable, Duplicate
<1>6. /\ fds'[s] = t /\ todo'[s] = Tail(todo[s]) /\ UNCHANGED <<commands, pipes>>
      /\ ReadsFile(s)' = ReadsFile(s) /\ WritesFile(s)' = WritesFile(s)
  BY StepTaken DEF StepDone, x
<1> HIDE DEF t
<1>7. StandsAt(s, Without(R, DUP_OUT))'
  <2>1. todo'[s] = Plan(Without(R, DUP_OUT))
    BY <1>1, <1>2, <1>6, PlanSteps DEF StandsAt
  <2> QED
    BY <1>1, <1>2, <1>6, <2>1, OneStepLess DEF StandsAt
<1>8. ChildTable(s, Without(R, DUP_OUT))'
  <2>1. fds'[s][1] = Writer(s) /\ (OpensOut(R) <=> WritesFile(s)) /\ s <= Len(pipes)
    BY <1>1, <1>2, <1>5, <1>6 DEF StandsAt
  <2>2. 0 \in Descriptors /\ 2 \in Descriptors /\ x # 0 /\ x # 2
    BY <1>3 DEF Descriptors
  <2>3. fds'[s][0] = fds[s][0] /\ fds'[s][2] = fds[s][2]
    BY <1>5, <1>6, <2>2
  <2>4. \A n \in Descriptors : n > 2 => GoneAfterExec(fds'[s][n])
    <3>1. GoneAfterExec(Closed) /\ \A n \in Descriptors : n > 2 => n # 1
      BY DEF Descriptors, GoneAfterExec
    <3> QED
      BY <1>1, <1>5, <1>6, <3>1 DEF ChildTable
  <2> QED
    BY <1>1, <1>2, <1>6, <2>1, <2>3, <2>4, OneStepLess DEF ChildTable
<1> QED
  BY <1>7, <1>8, OneStepLess DEF ChildWired

LEMMA OpenInConnects ==
  ASSUME TypeOK, NEW s \in Stages, ChildWired(s), NextIs(s, OPEN_IN),
         StepDone(s, Reopen(fds[s], 0, FileIn))
  PROVE  ChildWired(s)'
<1>1. PICK R \in SUBSET Steps : StandsAt(s, R) /\ ChildTable(s, R)
  BY DEF ChildWired
<1>2. ~MovesIn(R) /\ ~MovesOut(R) /\ OpensIn(R)
  BY <1>1, WhereItStands
<1> DEFINE t == Reopen(fds[s], 0, FileIn)
<1>3. FileIn \in Entries /\ fds[s] \in Tables
  BY EntryTypes, Typed, StageIsProcess DEF FileIn
<1>4. t[0] = FileIn /\ \A n \in Descriptors : n # 0 => t[n] = fds[s][n]
  BY <1>3, ReopenedTable
<1>5. /\ fds'[s] = t /\ todo'[s] = Tail(todo[s]) /\ UNCHANGED <<commands, pipes>>
      /\ ReadsFile(s)' = ReadsFile(s) /\ WritesFile(s)' = WritesFile(s)
  BY StepTaken DEF StepDone
<1> HIDE DEF t
<1>6. StandsAt(s, Without(R, OPEN_IN))'
  <2>1. todo'[s] = Plan(Without(R, OPEN_IN))
    BY <1>1, <1>2, <1>5, PlanSteps DEF StandsAt
  <2> QED
    BY <1>1, <1>2, <1>5, <2>1, OneStepLess DEF StandsAt
<1>7. ChildTable(s, Without(R, OPEN_IN))'
  <2>1. fds'[s][0] = FileIn /\ ReadsFile(s)
    BY <1>1, <1>2, <1>4, <1>5 DEF StandsAt
  <2>2. 1 \in Descriptors /\ 2 \in Descriptors
    BY DEF Descriptors
  <2>3. fds'[s][1] = fds[s][1] /\ fds'[s][2] = fds[s][2]
    BY <1>4, <1>5, <2>2
  <2>4. \A n \in Descriptors : n > 2 => GoneAfterExec(fds'[s][n])
    <3>1. \A n \in Descriptors : n > 2 => n # 0
      BY DEF Descriptors
    <3> QED
      BY <1>1, <1>4, <1>5, <3>1 DEF ChildTable
  <2> QED
    BY <1>1, <1>2, <1>5, <2>1, <2>3, <2>4, OneStepLess DEF ChildTable
<1> QED
  BY <1>6, <1>7, OneStepLess DEF ChildWired

LEMMA OpenOutConnects ==
  ASSUME TypeOK, NEW s \in Stages, ChildWired(s), NextIs(s, OPEN_OUT),
         StepDone(s, Reopen(fds[s], 1, FileOut))
  PROVE  ChildWired(s)'
<1>1. PICK R \in SUBSET Steps : StandsAt(s, R) /\ ChildTable(s, R)
  BY DEF ChildWired
<1>2. ~MovesIn(R) /\ ~MovesOut(R) /\ ~OpensIn(R) /\ OpensOut(R)
  BY <1>1, WhereItStands
<1> DEFINE t == Reopen(fds[s], 1, FileOut)
<1>3. FileOut \in Entries /\ fds[s] \in Tables
  BY EntryTypes, Typed, StageIsProcess DEF FileOut
<1>4. fds[s][0] # Closed
  BY <1>1, EntriesDiffer DEF ChildTable
<1>5. t[1] = FileOut /\ \A n \in Descriptors : n # 1 => t[n] = fds[s][n]
  BY <1>3, <1>4, ReopenedTable
<1>6. /\ fds'[s] = t /\ todo'[s] = Tail(todo[s]) /\ UNCHANGED <<commands, pipes>>
      /\ ReadsFile(s)' = ReadsFile(s) /\ WritesFile(s)' = WritesFile(s)
  BY StepTaken DEF StepDone
<1> HIDE DEF t
<1>7. StandsAt(s, Without(R, OPEN_OUT))'
  <2>1. todo'[s] = Plan(Without(R, OPEN_OUT))
    BY <1>1, <1>2, <1>6, PlanSteps DEF StandsAt
  <2> QED
    BY <1>2, <1>6, <2>1, OneStepLess DEF StandsAt
<1>8. ChildTable(s, Without(R, OPEN_OUT))'
  <2>1. fds'[s][1] = FileOut /\ WritesFile(s)
    BY <1>1, <1>2, <1>5, <1>6 DEF StandsAt
  <2>2. 0 \in Descriptors /\ 2 \in Descriptors
    BY DEF Descriptors
  <2>3. fds'[s][0] = fds[s][0] /\ fds'[s][2] = fds[s][2]
    BY <1>5, <1>6, <2>2
  <2>4. \A n \in Descriptors : n > 2 => GoneAfterExec(fds'[s][n])
    <3>1. GoneAfterExec(Closed) /\ \A n \in Descriptors : n > 2 => n # 1
      BY DEF Descriptors, GoneAfterExec
    <3> QED
      BY <1>1, <1>5, <1>6, <3>1 DEF ChildTable
  <2> QED
    BY <1>1, <1>2, <1>6, <2>1, <2>3, <2>4, OneStepLess DEF ChildTable
<1> QED
  BY <1>7, <1>8, OneStepLess DEF ChildWired

-----------------------------------------------------------------------------
(* The children and the programs keep the wiring *)

\* The last command is the one without a pipe, once the pipes are made.
LEMMA LastHasNoPipe ==
  ASSUME TypeOK, ShellInv, ProcessInv, NEW s \in Stages,
         state[s] \notin {"absent", "reaped"}
  PROVE  s <= Len(pipes) <=> s < Len(commands)
<1>1. phase \in {"fork", "close", "wait"}
  BY DEF ShellInv, ChildrenInv, TypeOK
<1>2. Len(pipes) >= Len(commands) - 1
  BY <1>1 DEF ShellInv, LoopInv
<1>3. Len(pipes) = 0 \/ Len(pipes) < Len(commands)
  BY DEF ProcessInv
<1>4. s \in Nat /\ s >= 1
  BY DEF Stages
<1> QED
  BY <1>2, <1>3, <1>4, Typed

StdioFits(s) ==
  /\ StandardInput(s) = IF ReadsFile(s) THEN FileIn
                        ELSE IF s > 1 THEN Reader(s - 1) ELSE Terminal
  /\ StandardOutput(s) = IF WritesFile(s) THEN FileOut
                         ELSE IF s < Len(commands) THEN Writer(s) ELSE Terminal

LEMMA StandardFiles == ASSUME NEW s PROVE StdioFits(s) /\ StdioFits(s)'
<1>1. StdioFits(s)
  BY DEF StdioFits, StandardInput, StandardOutput, ReadsFile, WritesFile, FileIn, FileOut
<1>2. StdioFits(s)'
  BY DEF StdioFits, StandardInput, StandardOutput, ReadsFile, WritesFile, FileIn, FileOut
<1> QED
  BY <1>1, <1>2

LEMMA ProgramTables ==
  StdioConnected <=>
    \A s \in Stages : state[s] = "program" /\ Intact => fds[s] = ProgramTable(s)
BY DEF StdioConnected, ProgramTable

\* A process that changes only what is its own keeps the wiring of all if it
\* keeps its own.
LEMMA LocalConnects ==
  ASSUME TypeOK, ProcessInv, WiringInv, StdioConnected, NEW s \in Stages, Local(s),
         state'[s] \in {"absent", "zombie", "reaped"} => fds'[s] = NoDescriptors,
         toWrite'[s] # 0 => state'[s] = "program" /\ IsWriter(fds'[s][1]),
         Intact /\ state'[s] = "child" => ChildWired(s)',
         Intact /\ state'[s] = "program" => fds'[s] = ProgramTable(s)
  PROVE  ProcessInv' /\ WiringInv' /\ StdioConnected'
<1>1. /\ Intact' = Intact /\ ShellWired' = ShellWired
      /\ \A t \in Stages \ {s} : ChildWired(t) => ChildWired(t)'
  BY OthersKept
<1>2. \A t \in Stages \ {s} :
        fds'[t] = fds[t] /\ state'[t] = state[t] /\ toWrite'[t] = toWrite[t]
  BY StageIsProcess DEF Local
<1>3. UNCHANGED <<commands, pipes>>
  BY DEF Local
<1>4. ProcessInv'
  <2>1. Len(pipes)' = 0 \/ Len(pipes)' < Len(commands)'
    BY <1>3 DEF ProcessInv
  <2>2. ASSUME NEW t \in Stages, state'[t] \in {"absent", "zombie", "reaped"}
        PROVE  fds'[t] = NoDescriptors
    BY <1>2, <2>2 DEF ProcessInv
  <2>3. ASSUME NEW t \in Stages, toWrite'[t] # 0
        PROVE  state'[t] = "program" /\ IsWriter(fds'[t][1])
    BY <1>2, <2>3 DEF ProcessInv
  <2> QED
    BY <2>1, <2>2, <2>3 DEF ProcessInv, IsWriter, NoDescriptors
<1>5. WiringInv'
  BY <1>1, <1>2 DEF WiringInv
<1>6. StdioConnected'
  <2>1. \A t \in Stages : ProgramTable(t)' = ProgramTable(t)
    <3>1. \A t \in Stages : ReadsFile(t)' = ReadsFile(t) /\ WritesFile(t)' = WritesFile(t)
      BY <1>3 DEF ReadsFile, WritesFile
    <3>2. \A t \in Stages : /\ StandardInput(t)' = StandardInput(t)
                            /\ StandardOutput(t)' = StandardOutput(t)
      BY <1>3, <3>1, StandardFiles DEF StdioFits, Reader, Writer, FileIn, FileOut, Terminal
    <3> QED
      BY <3>2 DEF ProgramTable
  <2>2. ASSUME NEW t \in Stages, state'[t] = "program", Intact'
        PROVE  fds'[t] = ProgramTable(t)'
    <3>1. CASE t = s
      BY <1>1, <2>1, <2>2, <3>1
    <3>2. CASE t # s
      BY <1>1, <1>2, <2>1, <2>2, <3>2, ProgramTables
    <3> QED
      BY <3>1, <3>2
  <2> QED
    BY <2>2 DEF StdioConnected, ProgramTable
<1> QED
  BY <1>4, <1>5, <1>6

\* A process that ends closes everything.
LEMMA EndConnects ==
  ASSUME TypeOK, ProcessInv, WiringInv, StdioConnected, NEW s \in Stages, End(s),
         UNCHANGED <<phase, line, commands, i, pipes>>
  PROVE  ProcessInv' /\ WiringInv' /\ StdioConnected'
<1>1. /\ fds'[s] = NoDescriptors /\ state'[s] = "zombie" /\ toWrite'[s] = 0
      /\ \A p \in Processes \ {s} : fds'[p] = fds[p]
  BY Typed, StageIsProcess DEF End, TypeOK
<1>2. \A t \in Stages \ {s} :
        state'[t] = state[t] /\ todo'[t] = todo[t] /\ toWrite'[t] = toWrite[t]
  BY DEF End, TypeOK
<1>3. Local(s)
  BY <1>1, <1>2 DEF Local
<1> QED
  BY <1>1, <1>3, LocalConnects

LEMMA SetupConnects ==
  ASSUME TypeOK, ProcessInv, WiringInv, StdioConnected, NEW s \in Stages,
         NEW step, NEW t, Setup(s, step, t),
         Intact /\ ChildWired(s) /\ Head(todo[s]) = step /\ StepDone(s, t)
           => ChildWired(s)'
  PROVE  ProcessInv' /\ WiringInv' /\ StdioConnected'
<1>1. /\ state[s] = "child" /\ Head(todo[s]) = step
      /\ UNCHANGED <<phase, line, commands, i, pipes>>
  BY DEF Setup
<1>2. CASE End(s)
  BY <1>1, <1>2, EndConnects
<1>3. CASE ~End(s)
  <2>1. /\ fds' = [fds EXCEPT ![s] = t] /\ todo' = [todo EXCEPT ![s] = Tail(@)]
        /\ UNCHANGED <<state, toWrite>>
    BY <1>3 DEF Setup
  <2>2. StepDone(s, t)
    BY <1>1, <2>1 DEF StepDone
  <2>3. Local(s)
    <3>1. \A p \in Processes \ {s} : fds'[p] = fds[p]
      BY <2>1, Typed
    <3>2. \A u \in Stages \ {s} : todo'[u] = todo[u]
      BY <2>1 DEF TypeOK
    <3> QED
      BY <1>1, <2>1, <3>1, <3>2 DEF Local
  <2>4. toWrite'[s] = 0 /\ state'[s] = "child"
    BY <1>1, <2>1 DEF ProcessInv
  <2>5. Intact => ChildWired(s)
    BY <1>1 DEF WiringInv
  <2> QED
    BY <1>1, <2>2, <2>3, <2>4, <2>5, LocalConnects
<1> QED
  BY <1>2, <1>3

LEMMA ChildConnects ==
  ASSUME TypeOK, ShellInv, ProcessInv, WiringInv, StdioConnected, NEW s \in Stages,
         DupIn(s) \/ DupOut(s) \/ OpenIn(s) \/ OpenOut(s)
  PROVE  ProcessInv' /\ WiringInv' /\ StdioConnected'
<1>1. CASE DupIn(s)
  <2> DEFINE t == Move(fds[s], pipes[s - 1][1], 0)
  <2>1. Setup(s, "dup in", t)
    BY <1>1 DEF DupIn
  <2>2. s - 1 \in DOMAIN pipes
    BY <2>1, NextStepAllowed DEF Setup, ShellInv, AllowedSteps
  <2>3. Head(todo[s]) = "dup in" => NextIs(s, DUP_IN)
    BY DEF NextIs, DUP_IN
  <2>4. ASSUME ChildWired(s), NextIs(s, DUP_IN), StepDone(s, t) PROVE ChildWired(s)'
    BY <2>2, <2>4, DupInConnects
  <2> HIDE DEF t
  <2> QED
    BY <2>1, <2>3, <2>4, SetupConnects
<1>2. CASE DupOut(s)
  <2> DEFINE t == Move(fds[s], pipes[s][2], 1)
  <2>1. Setup(s, "dup out", t)
    BY <1>2 DEF DupOut
  <2>2. s \in DOMAIN pipes
    BY <2>1, NextStepAllowed DEF Setup, ShellInv, AllowedSteps
  <2>3. Head(todo[s]) = "dup out" => NextIs(s, DUP_OUT)
    BY DEF NextIs, DUP_OUT
  <2>4. ASSUME ChildWired(s), NextIs(s, DUP_OUT), StepDone(s, t) PROVE ChildWired(s)'
    BY <2>2, <2>4, DupOutConnects
  <2> HIDE DEF t
  <2> QED
    BY <2>1, <2>3, <2>4, SetupConnects
<1>3. CASE OpenIn(s)
  <2> DEFINE t == Reopen(fds[s], 0, FileIn)
  <2>1. Setup(s, "open in", t)
    BY <1>3 DEF OpenIn, FileIn
  <2>3. Head(todo[s]) = "open in" => NextIs(s, OPEN_IN)
    BY DEF NextIs, OPEN_IN
  <2>4. ASSUME ChildWired(s), NextIs(s, OPEN_IN), StepDone(s, t) PROVE ChildWired(s)'
    BY <2>4, OpenInConnects
  <2> HIDE DEF t
  <2> QED
    BY <2>1, <2>3, <2>4, SetupConnects
<1>4. CASE OpenOut(s)
  <2> DEFINE t == Reopen(fds[s], 1, FileOut)
  <2>1. Setup(s, "open out", t)
    BY <1>4 DEF OpenOut, FileOut
  <2>3. Head(todo[s]) = "open out" => NextIs(s, OPEN_OUT)
    BY DEF NextIs, OPEN_OUT
  <2>4. ASSUME ChildWired(s), NextIs(s, OPEN_OUT), StepDone(s, t) PROVE ChildWired(s)'
    BY <2>4, OpenOutConnects
  <2> HIDE DEF t
  <2> QED
    BY <2>1, <2>3, <2>4, SetupConnects
<1> QED
  BY <1>1, <1>2, <1>3, <1>4

\* When exec closes what is to be closed, the table is that of the program.
LEMMA ExecTable ==
  ASSUME TypeOK, ShellInv, ProcessInv, NEW s \in Stages, state[s] = "child",
         ChildWired(s), NextIs(s, EXEC),
         NEW t, t = CloseAll(fds[s], {n \in Descriptors : fds[s][n].cloexec})
  PROVE  t = ProgramTable(s)
<1>1. PICK R \in SUBSET Steps : StandsAt(s, R) /\ ChildTable(s, R)
  BY DEF ChildWired
<1>2. ~MovesIn(R) /\ ~MovesOut(R) /\ ~OpensIn(R) /\ ~OpensOut(R)
  BY <1>1, WhereItStands
<1>3. s <= Len(pipes) <=> s < Len(commands)
  BY LastHasNoPipe
<1>4. /\ fds[s][0] = StandardInput(s) /\ fds[s][1] = StandardOutput(s)
      /\ fds[s][2] = Terminal
  BY <1>1, <1>2, <1>3, StandardFiles DEF ChildTable, StdioFits
<1>5. \A n \in Descriptors :
        t[n] = IF GoneAfterExec(fds[s][n]) THEN Closed ELSE fds[s][n]
  BY DEF CloseAll, GoneAfterExec
<1>6. /\ ~GoneAfterExec(Terminal) /\ ~GoneAfterExec(FileIn) /\ ~GoneAfterExec(FileOut)
      /\ \A k : ~GoneAfterExec(Reader(k)) /\ ~GoneAfterExec(Writer(k))
  BY DEF GoneAfterExec, Terminal, FileIn, FileOut, Reader, Writer, Entry, Closed
<1>7. ~GoneAfterExec(StandardInput(s)) /\ ~GoneAfterExec(StandardOutput(s))
  BY <1>6, StandardFiles DEF StdioFits
<1>8. /\ 0 \in Descriptors /\ 1 \in Descriptors /\ 2 \in Descriptors
      /\ \A n \in Descriptors : n \in Nat
  BY DEF Descriptors
<1>9. /\ t[0] = StandardInput(s) /\ t[1] = StandardOutput(s) /\ t[2] = Terminal
      /\ \A n \in Descriptors : n > 2 => t[n] = Closed
  BY <1>1, <1>4, <1>5, <1>6, <1>7, <1>8 DEF ChildTable
<1>10. t = [n \in Descriptors |-> t[n]]
  BY DEF CloseAll
<1>11. \A n \in Descriptors : n = 0 \/ n = 1 \/ n = 2 \/ n > 2
  BY <1>8
<1>12. \A n \in Descriptors : t[n] = CASE n = 0 -> StandardInput(s)
                                       [] n = 1 -> StandardOutput(s)
                                       [] n = 2 -> Terminal
                                       [] OTHER -> Closed
  BY <1>8, <1>9, <1>11
<1> QED
  BY <1>10, <1>12 DEF ProgramTable

LEMMA ExecConnects ==
  ASSUME TypeOK, ShellInv, ProcessInv, WiringInv, StdioConnected, NEW s \in Stages,
         Exec(s)
  PROVE  ProcessInv' /\ WiringInv' /\ StdioConnected'
<1>1. /\ state[s] = "child" /\ Head(todo[s]) = "exec"
      /\ UNCHANGED <<phase, line, commands, i, pipes>>
  BY DEF Exec
<1>2. CASE End(s)
  BY <1>1, <1>2, EndConnects
<1>3. CASE ~End(s)
  <2> DEFINE t == CloseAll(fds[s], {n \in Descriptors : fds[s][n].cloexec})
  <2>1. /\ fds' = [fds EXCEPT ![s] = t]
        /\ state' = [state EXCEPT ![s] = "program"]
        /\ todo' = [todo EXCEPT ![s] = <<>>]
        /\ \E n \in 0 .. MaxWrites :
             /\ fds'[s][1].what # "writer" => n = 0
             /\ toWrite' = [toWrite EXCEPT ![s] = n]
    BY <1>3, Typed, StageIsProcess DEF Exec
  <2>2. NextIs(s, EXEC)
    BY <1>1 DEF NextIs, EXEC
  <2>3. Intact => t = ProgramTable(s)
    <3>1. Intact => ChildWired(s)
      BY <1>1 DEF WiringInv
    <3> QED
      BY <1>1, <2>2, <3>1, ExecTable
  <2> HIDE DEF t
  <2>5. toWrite' = [toWrite EXCEPT ![s] = toWrite'[s]]
    BY <2>1 DEF TypeOK
  <2>6. toWrite'[s] # 0 => IsWriter(fds'[s][1])
    <3>1. PICK m \in 0 .. MaxWrites :
            /\ fds'[s][1].what # "writer" => m = 0
            /\ toWrite' = [toWrite EXCEPT ![s] = m]
      BY <2>1
    <3>2. toWrite'[s] = m
      BY <3>1 DEF TypeOK
    <3>3. ~IsWriter(fds'[s][1]) => m = 0
      BY <3>1 DEF IsWriter
    <3> QED
      BY <3>2, <3>3
  <2>7. fds'[s] = t /\ state'[s] = "program"
    BY <2>1, Typed, StageIsProcess DEF TypeOK
  <2>8. Local(s)
    <3>1. \A p \in Processes \ {s} : fds'[p] = fds[p]
      BY <2>1, Typed
    <3>2. \A u \in Stages \ {s} : state'[u] = state[u] /\ todo'[u] = todo[u]
      BY <2>1 DEF TypeOK
    <3>3. \A u \in Stages \ {s} : toWrite'[u] = toWrite[u]
      BY <2>5 DEF TypeOK
    <3> QED
      BY <1>1, <3>1, <3>2, <3>3 DEF Local
  <2> QED
    BY <2>3, <2>6, <2>7, <2>8, LocalConnects
<1> QED
  BY <1>2, <1>3

LEMMA ProgramConnects ==
  ASSUME TypeOK, ProcessInv, WiringInv, StdioConnected, NEW s \in Stages,
         Read(s) \/ Write(s) \/ Exit(s)
  PROVE  ProcessInv' /\ WiringInv' /\ StdioConnected'
<1>1. /\ state[s] = "program" /\ UNCHANGED <<phase, line, commands, i, pipes>>
  BY DEF Read, Write, Exit
<1>2. CASE End(s)
  BY <1>1, <1>2, EndConnects
<1>3. CASE ~End(s)
  <2>1. UNCHANGED <<fds, todo, state>>
    BY <1>3 DEF Read, Write, Exit
  <2>2. /\ \A u \in Stages \ {s} : toWrite'[u] = toWrite[u]
        /\ toWrite'[s] # 0 => toWrite[s] # 0
    <3>1. CASE toWrite' = toWrite
      BY <3>1
    <3>2. CASE toWrite' # toWrite
      <4>1. toWrite[s] > 0 /\ toWrite' = [toWrite EXCEPT ![s] = @ - 1]
        BY <1>3, <3>2 DEF Read, Write, Exit
      <4>2. toWrite[s] # 0
        BY <4>1 DEF TypeOK
      <4> QED
        BY <4>1, <4>2 DEF TypeOK
    <3> QED
      BY <3>1, <3>2
  <2>3. Local(s)
    BY <1>1, <2>1, <2>2 DEF Local
  <2>4. toWrite'[s] # 0 => IsWriter(fds'[s][1])
    BY <2>1, <2>2 DEF ProcessInv
  <2>5. Intact => fds'[s] = ProgramTable(s)
    BY <1>1, <2>1, ProgramTables
  <2> QED
    BY <1>1, <2>1, <2>3, <2>4, <2>5, LocalConnects
<1> QED
  BY <1>2, <1>3

-----------------------------------------------------------------------------
(* The steps of the shell keep the wiring *)

\* While no child is there, only the pipes of the shell matter.
LEMMA IdleConnects ==
  ASSUME TypeOK, ProcessInv,
         \A s \in Stages : /\ state[s] \in {"absent", "reaped"}
                           /\ state'[s] \in {"absent", "reaped"}
                           /\ fds'[s] = fds[s]
                           /\ toWrite'[s] \in {0, toWrite[s]},
         Len(pipes)' = 0 \/ Len(pipes)' < Len(commands)',
         Intact' => ShellWired'
  PROVE  ProcessInv' /\ WiringInv' /\ StdioConnected'
<1>1. ASSUME NEW s \in Stages
      PROVE  /\ state'[s] # "child" /\ state'[s] # "program"
             /\ fds'[s] = NoDescriptors /\ toWrite'[s] = 0
  BY DEF ProcessInv
<1>2. ProcessInv'
  <2>1. /\ \A s \in Stages :
             state'[s] \in {"absent", "zombie", "reaped"} => fds'[s] = NoDescriptors
        /\ \A s \in Stages :
             toWrite'[s] # 0 => state'[s] = "program" /\ IsWriter(fds[s][1])'
    BY <1>1
  <2> QED
    BY <2>1 DEF ProcessInv, NoDescriptors
<1>3. WiringInv'
  BY <1>1 DEF WiringInv
<1>4. StdioConnected'
  BY <1>1 DEF StdioConnected
<1> QED
  BY <1>2, <1>3, <1>4

\* The shell leaves the children alone, except that it reaps them.
LEMMA RunningConnects ==
  ASSUME TypeOK, ProcessInv, WiringInv, StdioConnected,
         UNCHANGED <<commands, pipes, todo, toWrite>>,
         \A s \in Stages : /\ fds'[s] = fds[s]
                           /\ \/ state'[s] = state[s]
                              \/ state[s] = "zombie" /\ state'[s] = "reaped",
         Intact' => Intact /\ ShellWired'
  PROVE  ProcessInv' /\ WiringInv' /\ StdioConnected'
<1>1. ProcessInv'
  <2>1. ASSUME NEW s \in Stages
        PROVE  /\ state'[s] \in {"absent", "zombie", "reaped"} =>
                    fds'[s] = NoDescriptors
               /\ toWrite'[s] # 0 => state'[s] = "program" /\ IsWriter(fds[s][1])'
    <3>1. IsWriter(fds[s][1])' = IsWriter(fds[s][1])
      BY DEF IsWriter
    <3> QED
      BY <3>1 DEF ProcessInv
  <2> QED
    BY <2>1 DEF ProcessInv, NoDescriptors
<1>2. WiringInv'
  <2>1. ASSUME NEW s \in Stages, state'[s] = "child", Intact' PROVE ChildWired(s)'
    <3>1. PICK R \in SUBSET Steps : StandsAt(s, R) /\ ChildTable(s, R)
      BY <2>1 DEF WiringInv, ChildWired
    <3>2. ReadsFile(s)' = ReadsFile(s) /\ WritesFile(s)' = WritesFile(s)
      BY DEF ReadsFile, WritesFile
    <3>3. StandsAt(s, R)'
      BY <3>1, <3>2 DEF StandsAt
    <3>4. ChildTable(s, R)'
      BY <3>1, <3>2 DEF ChildTable
    <3> QED
      BY <3>3, <3>4 DEF ChildWired
  <2> QED
    BY <2>1 DEF WiringInv
<1>3. StdioConnected'
  <2>1. ASSUME NEW s \in Stages, state'[s] = "program", Intact'
        PROVE  fds'[s] = ProgramTable(s)'
    <3>1. ReadsFile(s)' = ReadsFile(s) /\ WritesFile(s)' = WritesFile(s)
      BY DEF ReadsFile, WritesFile
    <3>2. StandardInput(s)' = StandardInput(s) /\ StandardOutput(s)' = StandardOutput(s)
      BY <3>1, StandardFiles DEF StdioFits, Reader, Writer, FileIn, FileOut, Terminal
    <3>3. ProgramTable(s)' = ProgramTable(s)
      BY <3>2 DEF ProgramTable
    <3> QED
      BY <2>1, <3>3, ProgramTables
  <2> QED
    BY <2>1 DEF StdioConnected, ProgramTable
<1> QED
  BY <1>1, <1>2, <1>3

LEMMA PromptConnects ==
  ASSUME TypeOK, ShellInv, ProcessInv, WiringInv,
         EndOfInput \/ (\E tokens \in Lines : ReadLine(tokens)) \/ Cleanup
  PROVE  ProcessInv' /\ WiringInv' /\ StdioConnected'
<1>1. phase \in {"prompt", "cleanup"}
  BY DEF EndOfInput, ReadLine, Cleanup
<1>2. \A s \in Stages : state[s] \in {"absent", "reaped"}
  BY <1>1 DEF ShellInv, ChildrenInv
<1>3. /\ fds' = fds
      /\ \/ state' = state /\ toWrite' = toWrite
         \/ state' = NoStages("absent") /\ toWrite' = NoStages(0)
  BY DEF EndOfInput, ReadLine, Cleanup, children
<1>4. pipes' = <<>>
  BY DEF EndOfInput, ReadLine, Cleanup, ShellInv, LoopInv
<1>5. Len(pipes)' = 0 /\ ShellWired'
  <2>1. Len(pipes') = 0 /\ DOMAIN pipes' = {}
    BY <1>4
  <2>2. Unclosed' = {}
    BY <2>1 DEF Unclosed
  <2> QED
    BY <2>1, <2>2 DEF ShellWired
<1>6. \A s \in Stages : /\ state'[s] \in {"absent", "reaped"} /\ fds'[s] = fds[s]
                        /\ toWrite'[s] \in {0, toWrite[s]}
  BY <1>2, <1>3 DEF NoStages
<1> QED
  BY <1>2, <1>5, <1>6, IdleConnects

LEMMA CreatePipeConnects ==
  ASSUME TypeOK, ShellInv, ProcessInv, WiringInv, CreatePipe
  PROVE  ProcessInv' /\ WiringInv' /\ StdioConnected'
<1>1. /\ phase = "pipe" /\ i < Len(commands) /\ Len(pipes) = i - 1
      /\ UNCHANGED <<commands, state, toWrite>>
  BY Typed DEF CreatePipe, children, ShellInv, LoopInv
<1>2. \A s \in Stages : state[s] \in {"absent", "reaped"}
  BY <1>1 DEF ShellInv, ChildrenInv
<1>3. CASE phase' = "cleanup"
  <2>1. PICK a, b \in Descriptors :
          fds' = [fds EXCEPT ![0] = CloseAll(fds[0], PipeEnds \cup {a, b})]
    BY <1>1, <1>3 DEF CreatePipe
  <2>2. \A s \in Stages : fds'[s] = fds[s]
    BY <2>1, Typed, StageIsProcess DEF Stages
  <2>3. ShellWired'
    BY <1>3 DEF ShellWired, Unclosed
  <2>4. pipes' = pipes
    BY <1>1, <1>3 DEF CreatePipe
  <2> QED
    BY <1>1, <1>2, <2>2, <2>3, <2>4, IdleConnects DEF ProcessInv
<1>4. CASE phase' # "cleanup"
  <2> DEFINE r == NewDescriptor(fds[0])
             t == Open(fds[0], ReadEnd(i))
             w == NewDescriptor(t)
             u == Open(t, WriteEnd(i))
  <2>1. /\ Cardinality(Free(fds[0])) >= 2 /\ i' = i + 1 /\ phase' = phase
        /\ pipes' = Append(pipes, <<r, w>>) /\ fds' = [fds EXCEPT ![0] = u]
    BY <1>4 DEF CreatePipe, ReadEnd, WriteEnd
  <2>2. i \in Stages
    BY <1>1, Typed DEF Stages
  <2>3. ReadEnd(i) \in Entries /\ WriteEnd(i) \in Entries /\ ReadEnd(i) # Closed
    BY <2>2, EntryTypes, EntriesDiffer DEF ReadEnd, WriteEnd
  <2>4. r \in Descriptors /\ w \in Descriptors
    BY <2>1, <2>3, Typed, TwoAreFree
  <2>5. t \in Tables /\ u \in Tables
    BY <2>3, Typed, OpenType
  <2>6. /\ t[r] = ReadEnd(i) /\ \A d \in Descriptors : d # r => t[d] = fds[0][d]
        /\ u[w] = WriteEnd(i) /\ \A d \in Descriptors : d # w => u[d] = t[d]
    BY <2>4, <2>5, Typed DEF Open, Tables
  <2>7. fds[0][r] = Closed /\ t[w] = Closed
    <3>1. r \in Free(fds[0])
      BY <2>1, <2>4, SomeIsFree
    <3>2. w \in Free(t)
      BY <2>1, <2>3, Typed, OneIsLeft
    <3> QED
      BY <3>1, <3>2 DEF Free
  <2> HIDE DEF r, t, w, u
  <2>8. fds'[0] = u /\ \A s \in Stages : fds'[s] = fds[s]
    BY <2>1, Typed, StageIsProcess DEF Stages
  <2>9. r # w /\ u[r] = ReadEnd(i) /\ fds[0][w] = Closed
    BY <2>3, <2>4, <2>6, <2>7
  <2>10. /\ Len(pipes') = i /\ DOMAIN pipes' = 1 .. i
         /\ \A k \in DOMAIN pipes : pipes'[k] = pipes[k]
         /\ pipes'[i] = <<r, w>>
    <3>1. pipes \in Seq(Descriptors \X Descriptors) /\ <<r, w>> \in Descriptors \X Descriptors
      BY <2>4 DEF TypeOK
    <3>2. /\ Len(pipes') = Len(pipes) + 1 /\ DOMAIN pipes' = 1 .. Len(pipes) + 1
          /\ \A k \in DOMAIN pipes : pipes'[k] = pipes[k]
          /\ pipes'[Len(pipes) + 1] = <<r, w>>
      BY <2>1, <3>1, Appended
    <3>3. Len(pipes) + 1 = i
      BY <1>1, Typed
    <3> QED
      BY <3>2, <3>3
  <2>11. ASSUME Intact' PROVE ShellWired'
    <3>1. r > 2 /\ w > 2
      <4>1. \A d \in 0 .. 2 : u[d] = Terminal
        BY <2>8, <2>11 DEF Intact
      <4>2. r \notin 0 .. 2 /\ w \notin 0 .. 2
        BY <2>6, <2>9, <4>1, EntriesDiffer
      <4> QED
        BY <2>4, <4>2 DEF Descriptors
    <3>2. \A d \in 0 .. 2 : fds[0][d] = Terminal
      <4>1. \A d \in 0 .. 2 : d \in Descriptors /\ d # r /\ d # w
        BY <3>1 DEF Descriptors
      <4> QED
        BY <2>6, <2>8, <2>11, <4>1 DEF Intact
    <3>3. ShellWired
      BY <3>2 DEF WiringInv, Intact
    <3>4. Unclosed' = 1 .. i /\ Unclosed = DOMAIN pipes /\ DOMAIN pipes = 1 .. i - 1
      BY <1>1, <2>1, <2>10, Typed DEF Unclosed
    <3>5. ASSUME NEW k \in 1 .. i
          PROVE  /\ pipes'[k][1] > 2 /\ fds'[0][pipes'[k][1]] = ReadEnd(k)
                 /\ pipes'[k][2] > 2 /\ fds'[0][pipes'[k][2]] = WriteEnd(k)
      <4>1. CASE k = i
        BY <2>6, <2>8, <2>9, <2>10, <3>1, <4>1
      <4>2. CASE k # i
        <5>1. k \in DOMAIN pipes /\ pipes'[k] = pipes[k] /\ k \in Unclosed
          BY <2>10, <3>4, <4>2, Typed
        <5>2. /\ pipes[k][1] > 2 /\ fds[0][pipes[k][1]] = ReadEnd(k)
              /\ pipes[k][2] > 2 /\ fds[0][pipes[k][2]] = WriteEnd(k)
          BY <3>3, <5>1 DEF ShellWired
        <5>3. pipes[k][1] \in Descriptors /\ pipes[k][2] \in Descriptors
          BY <5>1, PipeEndTypes
        <5>4. pipes[k][1] \notin {r, w} /\ pipes[k][2] \notin {r, w}
          BY <2>7, <2>9, <5>2, EntriesDiffer
        <5> QED
          BY <2>6, <2>8, <5>1, <5>2, <5>3, <5>4
      <4> QED
        BY <4>1, <4>2
    <3> QED
      BY <3>4, <3>5 DEF ShellWired, ReadEnd, WriteEnd
  <2>12. Len(pipes)' < Len(commands)'
    BY <1>1, <2>10
  <2> QED
    BY <1>1, <1>2, <2>8, <2>11, <2>12, IdleConnects
<1> QED
  BY <1>3, <1>4

LEMMA RunsConnect ==
  ASSUME TypeOK, ShellInv, ProcessInv, WiringInv, StdioConnected,
         PipesCreated \/ AllForked \/ ClosePipe \/ Wait
  PROVE  ProcessInv' /\ WiringInv' /\ StdioConnected'
<1>1. UNCHANGED <<commands, pipes, todo, toWrite>>
  BY DEF PipesCreated, AllForked, ClosePipe, Wait, children
<1>2. CASE PipesCreated \/ AllForked
  <2>1. UNCHANGED <<fds, state>>
    BY <1>2 DEF PipesCreated, AllForked, children
  <2>2. Unclosed' = DOMAIN pipes /\ Unclosed = DOMAIN pipes
    <3>1. CASE PipesCreated
      BY <1>1, <3>1, Typed DEF PipesCreated, Unclosed
    <3>2. CASE AllForked
      <4>1. \A k \in DOMAIN pipes : k >= 1
        BY Typed
      <4> QED
        BY <1>1, <3>2, <4>1 DEF AllForked, Unclosed
    <3> QED
      BY <1>2, <3>1, <3>2
  <2>3. Intact' => Intact /\ ShellWired'
    BY <1>1, <2>1, <2>2 DEF Intact, WiringInv, ShellWired
  <2> QED
    BY <1>1, <2>1, <2>3, RunningConnects
<1>3. CASE ClosePipe /\ i <= Len(pipes)
  <2> DEFINE t == CloseAll(fds[0], {pipes[i][1], pipes[i][2]})
  <2>1. /\ fds' = [fds EXCEPT ![0] = t] /\ i' = i + 1 /\ state' = state
        /\ phase = "close" /\ phase' = "close"
    BY <1>3, Typed DEF ClosePipe, children
  <2>2. \A d \in Descriptors :
          t[d] = IF d \in {pipes[i][1], pipes[i][2]} THEN Closed ELSE fds[0][d]
    BY DEF CloseAll
  <2> HIDE DEF t
  <2>3. fds'[0] = t /\ \A s \in Stages : fds'[s] = fds[s]
    BY <2>1, Typed, StageIsProcess DEF Stages
  <2>4. ASSUME Intact' PROVE Intact
    <3>1. \A d \in 0 .. 2 : d \in Descriptors /\ t[d] = Terminal
      BY <2>3, <2>4 DEF Intact, Descriptors
    <3> QED
      BY <2>2, <3>1, EntriesDiffer DEF Intact
  <2>5. ASSUME Intact' PROVE ShellWired'
    <3>1. ShellWired
      BY <2>4, <2>5 DEF WiringInv
    <3>2. i \in Unclosed /\ Unclosed' \subseteq Unclosed /\ i \notin Unclosed'
      BY <1>1, <1>3, <2>1, Typed DEF Unclosed
    <3>3. Unclosed \subseteq DOMAIN pipes
      BY <2>1 DEF Unclosed
    <3>4. ASSUME NEW k \in Unclosed'
          PROVE  /\ pipes[k][1] > 2 /\ t[pipes[k][1]] = ReadEnd(k)
                 /\ pipes[k][2] > 2 /\ t[pipes[k][2]] = WriteEnd(k)
      <4>1. /\ pipes[k][1] > 2 /\ fds[0][pipes[k][1]] = ReadEnd(k)
            /\ pipes[k][2] > 2 /\ fds[0][pipes[k][2]] = WriteEnd(k)
            /\ fds[0][pipes[i][1]] = ReadEnd(i) /\ fds[0][pipes[i][2]] = WriteEnd(i)
        BY <3>1, <3>2 DEF ShellWired
      <4>2. k # i
        BY <3>2
      <4>3. /\ pipes[k][1] \notin {pipes[i][1], pipes[i][2]}
            /\ pipes[k][2] \notin {pipes[i][1], pipes[i][2]}
        BY <4>1, <4>2, EntriesDiffer
      <4>4. pipes[k][1] \in Descriptors /\ pipes[k][2] \in Descriptors
        BY <3>2, <3>3, PipeEndTypes
      <4> QED
        BY <2>2, <4>1, <4>3, <4>4
    <3> QED
      BY <1>1, <2>3, <3>4 DEF ShellWired, ReadEnd, WriteEnd
  <2> QED
    BY <1>1, <2>1, <2>3, <2>4, <2>5, RunningConnects
<1>4. CASE ClosePipe /\ i > Len(pipes)
  <2>1. UNCHANGED <<fds, state>> /\ phase' = "wait"
    BY <1>4, Typed DEF ClosePipe, children
  <2>2. ShellWired' /\ (Intact' => Intact)
    BY <2>1 DEF ShellWired, Unclosed, Intact
  <2> QED
    BY <1>1, <2>1, <2>2, RunningConnects
<1>5. CASE Wait
  <2>1. UNCHANGED fds /\ phase' \in {"wait", "cleanup"}
    BY <1>5 DEF Wait
  <2>2. ShellWired' /\ (Intact' => Intact)
    BY <2>1 DEF ShellWired, Unclosed, Intact
  <2>3. \A s \in Stages : \/ state'[s] = state[s]
                          \/ state[s] = "zombie" /\ state'[s] = "reaped"
    BY <1>5 DEF Wait, TypeOK
  <2> QED
    BY <1>1, <2>1, <2>2, <2>3, RunningConnects
<1> QED
  BY <1>2, <1>3, <1>4, <1>5, Typed

\* The steps the child for command s has to do.
FromOther(s) == s > 1
ToOther(s) == s <= Len(pipes)
ToDo(s) == {step \in Steps : /\ step = "dup in" => FromOther(s)
                             /\ step = "dup out" => ToOther(s)
                             /\ step = "open in" => ReadsFile(s)
                             /\ step = "open out" => WritesFile(s)}

\* The steps of a plan joined from the left, as ChildSteps does, or from the right.
FromLeft(a, b, c, d, e) == (((a \o b) \o c) \o d) \o e
FromRight(a, b, c, d, e) == a \o (b \o (c \o (d \o e)))

Joined(a, b) == a \o b

LEMMA JoinedType ==
  ASSUME NEW S, NEW a \in Seq(S), NEW b \in Seq(S)
  PROVE  Joined(a, b) \in Seq(S)
BY DEF Joined

LEMMA Associative ==
  ASSUME NEW S, NEW a \in Seq(S), NEW b \in Seq(S), NEW c \in Seq(S)
  PROVE  Joined(Joined(a, b), c) = Joined(a, Joined(b, c))
<1> DEFINE x == (a \o b) \o c
           y == a \o (b \o c)
<1>1. /\ a \o b \in Seq(S) /\ Len(a \o b) = Len(a) + Len(b)
      /\ b \o c \in Seq(S) /\ Len(b \o c) = Len(b) + Len(c)
  OBVIOUS
<1>2. /\ x \in Seq(S) /\ Len(x) = Len(a) + Len(b) + Len(c)
      /\ y \in Seq(S) /\ Len(y) = Len(a) + Len(b) + Len(c)
  BY <1>1
<1>3. ASSUME NEW k \in 1 .. Len(a) + Len(b) + Len(c) PROVE x[k] = y[k]
  BY <1>1
<1> HIDE DEF x, y
<1>4. x = y
  BY <1>2, <1>3, SeqEqual
<1> QED
  BY <1>4 DEF x, y, Joined

LEMMA Regrouped ==
  ASSUME NEW S, NEW a \in Seq(S), NEW b \in Seq(S), NEW c \in Seq(S),
         NEW d \in Seq(S), NEW e \in Seq(S)
  PROVE  FromLeft(a, b, c, d, e) = FromRight(a, b, c, d, e)
<1>1. Joined(a, b) \in Seq(S) /\ Joined(d, e) \in Seq(S)
  BY JoinedType
<1>2. Joined(Joined(a, b), c) \in Seq(S) /\ Joined(c, Joined(d, e)) \in Seq(S)
  BY <1>1, JoinedType
<1>3. Joined(Joined(Joined(Joined(a, b), c), d), e)
        = Joined(Joined(Joined(a, b), c), Joined(d, e))
  BY <1>1, <1>2, Associative
<1>4. Joined(Joined(Joined(a, b), c), Joined(d, e))
        = Joined(Joined(a, b), Joined(c, Joined(d, e)))
  BY <1>1, <1>2, Associative
<1>5. Joined(Joined(a, b), Joined(c, Joined(d, e)))
        = Joined(a, Joined(b, Joined(c, Joined(d, e))))
  BY <1>1, <1>2, Associative
<1> QED
  BY <1>3, <1>4, <1>5, Zenon DEF Joined, FromLeft, FromRight

LEMMA NewChildSteps ==
  ASSUME NEW s
  PROVE  /\ ToDo(s) \in SUBSET Steps
         /\ MovesIn(ToDo(s)) <=> FromOther(s)
         /\ MovesOut(ToDo(s)) <=> ToOther(s)
         /\ OpensIn(ToDo(s)) <=> ReadsFile(s)
         /\ OpensOut(ToDo(s)) <=> WritesFile(s)
         /\ ChildSteps(s) = Plan(ToDo(s))
<1> DEFINE R == ToDo(s)
<1>1. /\ "dup in" \in R <=> FromOther(s)
      /\ "dup out" \in R <=> ToOther(s)
      /\ "open in" \in R <=> ReadsFile(s)
      /\ "open out" \in R <=> WritesFile(s)
  BY DEF ToDo, Steps
<1>2. R \in SUBSET Steps
  BY DEF ToDo
<1>3. /\ MovesIn(R) <=> FromOther(s)
      /\ MovesOut(R) <=> ToOther(s)
      /\ OpensIn(R) <=> ReadsFile(s)
      /\ OpensOut(R) <=> WritesFile(s)
  BY <1>1 DEF MovesIn, MovesOut, OpensIn, OpensOut
<1> HIDE DEF R
<1> DEFINE a == If(MovesIn(R), "dup in")
           b == If(MovesOut(R), "dup out")
           c == If(OpensIn(R), "open in")
           d == If(OpensOut(R), "open out")
           e == <<"exec">>
<1>4. a \in Seq(Steps) /\ b \in Seq(Steps) /\ c \in Seq(Steps) /\ d \in Seq(Steps)
      /\ e \in Seq(Steps)
  BY PartsOfPlan
<1>5. Plan(R) = FromRight(a, b, c, d, e)
  BY DEF Plan, FromRight
<1>6. ChildSteps(s) = FromLeft(a, b, c, d, e)
  <2>1. /\ a = If(s > 1, "dup in") /\ b = If(s <= Len(pipes), "dup out")
        /\ c = If(commands[s].inFile # "", "open in")
        /\ d = If(commands[s].outFile # "", "open out")
    BY <1>3 DEF If, FromOther, ToOther, ReadsFile, WritesFile
  <2> HIDE DEF a, b, c, d
  <2> QED
    BY <2>1 DEF ChildSteps, FromLeft
<1> HIDE DEF a, b, c, d, e
<1>7. FromLeft(a, b, c, d, e) = FromRight(a, b, c, d, e)
  BY <1>4, Regrouped
<1>8. ChildSteps(s) = Plan(R)
  BY <1>5, <1>6, <1>7
<1> QED
  BY <1>2, <1>3, <1>8 DEF R

\* A new child has the table of the shell: its three descriptors and, flagged,
\* the ends of all the pipes.
LEMMA NewChild ==
  ASSUME TypeOK, ShellInv, WiringInv, Intact, phase = "fork", NEW s \in Stages,
         s <= Len(pipes) + 1, UNCHANGED <<commands, pipes>>,
         fds'[s] = fds[0], todo'[s] = ChildSteps(s)
  PROVE  (ChildWired(s))'
<1>1. PICK R \in SUBSET Steps :
      /\ MovesIn(R) <=> s > 1
      /\ MovesOut(R) <=> s <= Len(pipes)
      /\ OpensIn(R) <=> ReadsFile(s)
      /\ OpensOut(R) <=> WritesFile(s)
      /\ todo'[s] = Plan(R)
  BY NewChildSteps DEF FromOther, ToOther
<1>2. ReadsFile(s)' = ReadsFile(s) /\ WritesFile(s)' = WritesFile(s)
  BY DEF ReadsFile, WritesFile
<1>3. Unclosed = DOMAIN pipes /\ ShellWired /\ DOMAIN pipes = 1 .. Len(pipes)
  <2>1. Unclosed = DOMAIN pipes
    BY DEF Unclosed
  <2>2. DOMAIN pipes = 1 .. Len(pipes)
    BY Typed
  <2>3. ShellWired
    BY DEF WiringInv
  <2> QED
    BY <2>1, <2>2, <2>3
<1>4. StandsAt(s, R)'
  BY <1>1, <1>2 DEF StandsAt
<1>5. ChildTable(s, R)'
  <2>1. fds'[s][0] = Terminal /\ fds'[s][1] = Terminal /\ fds'[s][2] = Terminal
    BY DEF Intact
  <2>2. ASSUME NEW n \in Descriptors, n > 2 PROVE GoneAfterExec(fds'[s][n])
    <3>1. CASE fds[0][n] = Closed
      BY <3>1 DEF GoneAfterExec
    <3>2. CASE fds[0][n] # Closed
      <4>1. ~(n <= 2)
        BY <2>2 DEF Descriptors
      <4>2. PICK k \in Unclosed : n \in {pipes[k][1], pipes[k][2]}
        BY <3>2, <4>1 DEF ShellInv, DescriptorInv
      <4>3. fds[0][n] = ReadEnd(k) \/ fds[0][n] = WriteEnd(k)
        BY <1>3, <4>2 DEF ShellWired
      <4>4. GoneAfterExec(ReadEnd(k)) /\ GoneAfterExec(WriteEnd(k))
        BY DEF GoneAfterExec, ReadEnd, WriteEnd, Entry, O_CLOEXEC
      <4> QED
        BY <4>3, <4>4
    <3> QED
      BY <3>1, <3>2
  <2>3. ASSUME s > 1
        PROVE  pipes[s - 1][1] > 2 /\ fds[0][pipes[s - 1][1]] = ReadEnd(s - 1)
    <3>1. s - 1 \in Unclosed
      BY <1>3, <2>3, Typed DEF Stages
    <3> QED
      BY <1>3, <3>1 DEF ShellWired
  <2>4. ASSUME s <= Len(pipes)
        PROVE  pipes[s][2] > 2 /\ fds[0][pipes[s][2]] = WriteEnd(s)
    <3>1. s \in Unclosed
      BY <1>3, <2>4, Typed DEF Stages
    <3> QED
      BY <1>3, <3>1 DEF ShellWired
  <2>5. /\ ~(ReadsFile(s)' /\ ~OpensIn(R)) /\ ~(s > 1 /\ ~MovesIn(R))
        /\ ~(WritesFile(s)' /\ ~OpensOut(R)) /\ ~(s <= Len(pipes)' /\ ~MovesOut(R))
    BY <1>1, <1>2
  <2>6. MovesIn(R) => pipes'[s - 1][1] > 2 /\ fds'[s][pipes'[s - 1][1]] = ReadEnd(s - 1)
    BY <1>1, <2>3
  <2>7. MovesOut(R) => pipes'[s][2] > 2 /\ fds'[s][pipes'[s][2]] = WriteEnd(s)
    BY <1>1, <2>4
  <2> QED
    BY <2>1, <2>2, <2>5, <2>6, <2>7 DEF ChildTable
<1>6. ChildWired(s)' = \E Q \in SUBSET Steps : StandsAt(s, Q)' /\ ChildTable(s, Q)'
  BY DEF ChildWired
<1> QED
  BY <1>1, <1>4, <1>5, <1>6

LEMMA ForkConnects ==
  ASSUME TypeOK, ShellInv, ProcessInv, WiringInv, StdioConnected, Fork
  PROVE  ProcessInv' /\ WiringInv' /\ StdioConnected'
<1>1. /\ phase = "fork" /\ phase' = phase /\ i <= Len(commands)
      /\ UNCHANGED <<commands, pipes, toWrite>>
      /\ Len(pipes) >= Len(commands) - 1
  BY DEF Fork, ShellInv, LoopInv
<1>2. PICK n \in Stages : n = i /\ n <= Len(pipes) + 1
  BY <1>1, Typed DEF Stages
<1>3. Unclosed' = Unclosed
  BY <1>1 DEF Unclosed
<1>4. CASE UNCHANGED <<p_ids, fds, todo, state>>
  <2>1. (Intact' => Intact) /\ (Intact => ShellWired')
    BY <1>1, <1>3, <1>4 DEF Intact, WiringInv, ShellWired
  <2> QED
    BY <1>1, <1>4, <2>1, RunningConnects
<1>5. CASE ~UNCHANGED <<p_ids, fds, todo, state>>
  <2>1. /\ fds' = [fds EXCEPT ![n] = fds[0]]
        /\ todo' = [todo EXCEPT ![n] = ChildSteps(n)]
        /\ state' = [state EXCEPT ![n] = "child"]
    BY <1>2, <1>5 DEF Fork
  <2>2. /\ fds'[n] = fds[0] /\ \A p \in Processes \ {n} : fds'[p] = fds[p]
        /\ todo'[n] = ChildSteps(n) /\ \A t \in Stages \ {n} : todo'[t] = todo[t]
        /\ state'[n] = "child" /\ \A t \in Stages \ {n} : state'[t] = state[t]
    BY <1>2, <2>1, Typed, StageIsProcess DEF TypeOK
  <2>3. fds'[0] = fds[0] /\ \A t \in Stages \ {n} : fds'[t] = fds[t]
    BY <1>2, <2>2, StageIsProcess DEF Stages
  <2>4. Intact' = Intact
    BY <2>3 DEF Intact
  <2>5. Intact => ShellWired'
    <3>1. Intact => ShellWired
      BY DEF WiringInv
    <3> QED
      BY <1>1, <1>3, <2>3, <3>1 DEF ShellWired
  <2>6. Intact => ChildWired(n)'
    <3>1. fds'[n] = fds[0] /\ todo'[n] = ChildSteps(n)
      BY <2>2
    <3> QED
      BY <1>1, <1>2, <3>1, NewChild
  <2>7. toWrite[n] = 0
    <3>1. state[n] = "absent"
      BY <1>1, <1>2 DEF ShellInv, ChildrenInv, Stages
    <3> QED
      BY <1>2, <3>1 DEF ProcessInv
  <2>8. \A t \in Stages : ReadsFile(t)' = ReadsFile(t) /\ WritesFile(t)' = WritesFile(t)
    BY <1>1 DEF ReadsFile, WritesFile
  <2>9. ProcessInv'
    <3>1. ASSUME NEW t \in Stages
          PROVE  /\ state'[t] \in {"absent", "zombie", "reaped"} =>
                      fds'[t] = NoDescriptors
                 /\ toWrite'[t] # 0 => state'[t] = "program" /\ IsWriter(fds'[t][1])
      BY <1>1, <2>2, <2>3, <2>7 DEF ProcessInv
    <3>2. Len(pipes)' = 0 \/ Len(pipes)' < Len(commands)'
      BY <1>1 DEF ProcessInv
    <3> QED
      BY <3>1, <3>2 DEF ProcessInv, IsWriter, NoDescriptors
  <2>10. WiringInv'
    <3>1. ASSUME NEW t \in Stages \ {n}, state'[t] = "child", Intact' PROVE ChildWired(t)'
      <4>1. PICK R \in SUBSET Steps : StandsAt(t, R) /\ ChildTable(t, R)
        BY <2>2, <2>4, <3>1 DEF WiringInv, ChildWired
      <4>2. fds'[t] = fds[t] /\ todo'[t] = todo[t]
        BY <2>2, <2>3
      <4>3. StandsAt(t, R)'
        BY <1>1, <2>8, <4>1, <4>2 DEF StandsAt
      <4>4. ChildTable(t, R)'
        BY <1>1, <2>8, <4>1, <4>2 DEF ChildTable
      <4> QED
        BY <4>3, <4>4 DEF ChildWired
    <3>2. ASSUME Intact'
          PROVE  ShellWired' /\ \A t \in Stages : state'[t] = "child" => ChildWired(t)'
      <4>1. ShellWired' /\ ChildWired(n)'
        <5>1. Intact
          BY <2>4, <3>2
        <5> QED
          BY <2>5, <2>6, <5>1
      <4>2. ASSUME NEW t \in Stages, state'[t] = "child" PROVE ChildWired(t)'
        <5>1. CASE t = n
          BY <4>1, <5>1
        <5>2. CASE t # n
          <6>1. t \in Stages \ {n} /\ state'[t] = "child" /\ Intact'
            BY <3>2, <4>2, <5>2
          <6> QED
            BY <3>1, <6>1
        <5> QED
          BY <5>1, <5>2
      <4> QED
        BY <4>1, <4>2
    <3> QED
      BY <3>2 DEF WiringInv
  <2>11. StdioConnected'
    <3>1. \A t \in Stages : /\ StandardInput(t)' = StandardInput(t)
                            /\ StandardOutput(t)' = StandardOutput(t)
      BY <1>1, <2>8, StandardFiles DEF StdioFits, Reader, Writer, FileIn, FileOut, Terminal
    <3>2. ASSUME NEW t \in Stages, state'[t] = "program", Intact'
          PROVE  fds'[t] = ProgramTable(t)'
      <4>1. ProgramTable(t)' = ProgramTable(t)
        BY <3>1 DEF ProgramTable
      <4>2. t # n /\ state[t] = "program"
        BY <2>2, <3>2
      <4> QED
        BY <2>3, <2>4, <3>2, <4>1, <4>2, ProgramTables
    <3> QED
      BY <3>2 DEF StdioConnected, ProgramTable
  <2> QED
    BY <2>9, <2>10, <2>11
<1> QED
  BY <1>4, <1>5

LEMMA ConnectInit == Init => ProcessInv /\ WiringInv /\ StdioConnected
<1> SUFFICES ASSUME Init PROVE ProcessInv /\ WiringInv /\ StdioConnected
  OBVIOUS
<1>1. /\ \A s \in Stages : fds[s] = NoDescriptors
      /\ \A s \in Stages : state[s] = "absent" /\ toWrite[s] = 0
  BY StageIsProcess DEF Init, NoStages, NoDescriptors, Stages
<1>2. Len(pipes) = 0 /\ Unclosed = {}
  BY DEF Init, Unclosed
<1>3. ProcessInv
  BY <1>1, <1>2 DEF ProcessInv
<1>4. WiringInv
  BY <1>1, <1>2 DEF WiringInv, ShellWired
<1>5. StdioConnected
  BY <1>1, ProgramTables
<1> QED
  BY <1>3, <1>4, <1>5

LEMMA ConnectStep ==
  TypeOK /\ ShellInv /\ ProcessInv /\ WiringInv /\ StdioConnected /\ [Next]_vars
    => ProcessInv' /\ WiringInv' /\ StdioConnected'
<1> SUFFICES ASSUME TypeOK, ShellInv, ProcessInv, WiringInv, StdioConnected, [Next]_vars
             PROVE  ProcessInv' /\ WiringInv' /\ StdioConnected'
  OBVIOUS
<1>1. CASE EndOfInput \/ (\E tokens \in Lines : ReadLine(tokens)) \/ Cleanup
  BY <1>1, PromptConnects
<1>2. CASE CreatePipe \/ Fork \/ PipesCreated \/ AllForked \/ ClosePipe \/ Wait
  BY <1>2, CreatePipeConnects, ForkConnects, RunsConnect
<1>3. ASSUME NEW s \in Stages, ChildStep(s)
      PROVE  ProcessInv' /\ WiringInv' /\ StdioConnected'
  BY <1>3, ChildConnects, ExecConnects DEF ChildStep
<1>4. ASSUME NEW s \in Stages, Read(s) \/ Write(s) \/ Exit(s)
      PROVE  ProcessInv' /\ WiringInv' /\ StdioConnected'
  BY <1>4, ProgramConnects
<1>5. CASE UNCHANGED vars
  <2>1. /\ UNCHANGED <<commands, pipes, todo, toWrite>>
        /\ UNCHANGED <<phase, i, fds, state>>
    BY <1>5 DEF vars
  <2>2. Unclosed' = Unclosed /\ (Intact' <=> Intact)
    BY <2>1 DEF Unclosed, Intact
  <2>3. Intact => ShellWired
    BY DEF WiringInv
  <2>4. Intact' => Intact /\ ShellWired'
    BY <2>1, <2>2, <2>3 DEF ShellWired
  <2> QED
    BY <2>1, <2>4, RunningConnects
<1> QED
  BY <1>1, <1>2, <1>3, <1>4, <1>5 DEF Next, ShellStep

\* When a program runs, and the shell has its descriptors, it finds what the
\* command and its place in the line say, and nothing else, whatever has failed
\* and in whichever order the children were scheduled.
THEOREM ProgramsConnected == Spec => []StdioConnected
BY TypeInit, ShellInit, ConnectInit, ShellStepKeeps, ConnectStep, PTL DEF Spec

-----------------------------------------------------------------------------
(* Nothing is ever in the pipe of a command whose output goes to a file *)

\* All but a write to a pipe that is empty.
LEMMA BufferKept ==
  ASSUME TypeOK, TypeOK', BufferInv, UNCHANGED commands,
         phase' \in {"prompt", "pipe", "ended"} =>
           phase \in {"prompt", "pipe", "ended"} /\ buffer' = buffer,
         Intact' => Intact,
         \A s \in Stages : buffer'[s] = buffer[s] \/ buffer[s] # 0
  PROVE  BufferInv'
<1>1. \A s \in 1 .. Len(commands) : s \in Stages
  BY Typed DEF Stages
<1>2. \A s \in Stages : WritesFile(s)' = WritesFile(s)
  BY DEF WritesFile
<1>3. ASSUME NEW s \in 1 .. Len(commands), WritesFile(s), Intact'
      PROVE  buffer'[s] = 0
  BY <1>1, <1>3 DEF BufferInv
<1>4. phase' \in {"prompt", "pipe", "ended"} => buffer' = NoStages(0)
  BY DEF BufferInv
<1> QED
  BY <1>1, <1>2, <1>3, <1>4 DEF BufferInv, NoStages

LEMMA BufferPrompt ==
  ASSUME TypeOK', buffer' = NoStages(0)
  PROVE  BufferInv'
<1>1. \A s \in 1 .. Len(commands)' : s \in Stages
  BY DEF Stages, TypeOK
<1> QED
  BY <1>1 DEF BufferInv, NoStages

\* A write goes to the pipe of the writer, whose output does not go to a file.
LEMMA BufferWrite ==
  ASSUME TypeOK, TypeOK', ShellInv, ProcessInv, StdioConnected, BufferInv,
         NEW s \in Stages, Write(s)
  PROVE  BufferInv'
<1>1. /\ state[s] = "program" /\ toWrite[s] # 0
      /\ UNCHANGED <<phase, commands>>
  BY DEF Write, TypeOK
<1>2. phase \notin {"prompt", "pipe", "ended"}
  BY <1>1 DEF ShellInv, ChildrenInv
<1>3. fds'[0] = fds[0]
  <2>1. CASE UNCHANGED fds
    BY <2>1
  <2>2. CASE fds' = [fds EXCEPT ![s] = NoDescriptors]
    BY <2>2, Typed, StageIsProcess DEF Stages
  <2> QED
    BY <2>1, <2>2 DEF Write, End
<1>4. Intact' = Intact
  BY <1>3 DEF Intact
<1>5. CASE UNCHANGED buffer
  BY <1>1, <1>2, <1>4, <1>5, BufferKept
<1>6. CASE ~UNCHANGED buffer
  <2> DEFINE k == fds[s][1].pipe
  <2>1. buffer' = [buffer EXCEPT ![k] = @ + 1]
    BY <1>6 DEF Write
  <2>2. ASSUME Intact PROVE k = s /\ ~WritesFile(s)
    <3>1. IsWriter(fds[s][1])
      BY <1>1 DEF ProcessInv
    <3>2. fds[s][1] = StandardOutput(s)
      <4>1. fds[s] = ProgramTable(s)
        BY <1>1, <2>2, ProgramTables
      <4> QED
        BY <4>1 DEF ProgramTable, Descriptors
    <3>3. ~IsWriter(FileOut) /\ ~IsWriter(Terminal) /\ Writer(s).pipe = s
      BY DEF IsWriter, FileOut, Terminal, Writer, Entry
    <3>4. StandardOutput(s) = Writer(s) /\ ~WritesFile(s)
      BY <3>1, <3>2, <3>3, StandardFiles DEF StdioFits
    <3> QED
      BY <3>2, <3>3, <3>4
  <2> HIDE DEF k
  <2>3. \A t \in Stages : t # k => buffer'[t] = buffer[t]
    BY <2>1 DEF TypeOK
  <2>4. \A t \in Stages : WritesFile(t)' = WritesFile(t)
    BY <1>1 DEF WritesFile
  <2>5. ASSUME NEW t \in 1 .. Len(commands), WritesFile(t), Intact'
        PROVE  buffer'[t] = 0
    <3>1. t \in Stages /\ buffer[t] = 0
      BY <1>4, <2>5, Typed DEF BufferInv, Stages
    <3>2. t # k
      BY <1>4, <2>2, <2>5
    <3> QED
      BY <2>3, <3>1, <3>2
  <2>6. \A t \in 1 .. Len(commands) : t \in Stages
    BY Typed DEF Stages
  <2> QED
    BY <1>1, <1>2, <2>4, <2>5, <2>6 DEF BufferInv
<1> QED
  BY <1>5, <1>6

LEMMA BufferStep ==
  ASSUME TypeOK, TypeOK', ShellInv, ProcessInv, StdioConnected, BufferInv, [Next]_vars
  PROVE  BufferInv'
<1>1. CASE (\E tokens \in Lines : ReadLine(tokens)) \/ EndOfInput \/ CreatePipe
  BY <1>1, BufferPrompt DEF ReadLine, EndOfInput, CreatePipe, children, BufferInv
<1>2. CASE Cleanup
  BY <1>2, BufferPrompt DEF Cleanup
<1>3. CASE PipesCreated \/ Fork \/ AllForked \/ ClosePipe \/ Wait
  <2>1. UNCHANGED <<commands, buffer>> /\ phase' \in {"fork", "close", "wait", "cleanup"}
    BY <1>3 DEF PipesCreated, Fork, AllForked, ClosePipe, Wait, children
  <2>2. CASE ClosePipe /\ ~UNCHANGED fds
    <3>1. fds'[0] = CloseAll(fds[0], {pipes[i][1], pipes[i][2]})
      BY <2>2, Typed DEF ClosePipe
    <3>2. \A d \in Descriptors : fds'[0][d] \in {Closed, fds[0][d]}
      BY <3>1 DEF CloseAll
    <3>3. Intact' => Intact
      <4>1. \A d \in 0 .. 2 : d \in Descriptors
        BY DEF Descriptors
      <4>2. Intact' <=> \A d \in 0 .. 2 : fds'[0][d] = Terminal
        BY DEF Intact
      <4> QED
        BY <3>2, <4>1, <4>2, EntriesDiffer DEF Intact
    <3> QED
      BY <2>1, <3>3, BufferKept
  <2>3. CASE ~(ClosePipe /\ ~UNCHANGED fds)
    <3>1. CASE Fork
      <4>1. fds' = fds \/ fds' = [fds EXCEPT ![i] = fds[0]]
        BY <3>1 DEF Fork
      <4>2. fds'[0] = fds[0]
        BY <4>1, Typed, StageIsProcess DEF Processes, Stages
      <4>3. Intact' = Intact
        BY <4>2 DEF Intact
      <4> QED
        BY <2>1, <4>3, BufferKept
    <3>2. CASE ~Fork
      <4>1. fds' = fds
        BY <1>3, <2>3, <3>2 DEF PipesCreated, AllForked, Wait
      <4>2. Intact' = Intact
        BY <4>1 DEF Intact
      <4> QED
        BY <2>1, <4>2, BufferKept
    <3> QED
      BY <3>1, <3>2
  <2> QED
    BY <2>2, <2>3
<1>4. ASSUME NEW s \in Stages, ChildStep(s) \/ Read(s) \/ Exit(s)
      PROVE  BufferInv'
  <2>1. /\ state[s] \in {"child", "program"} /\ UNCHANGED <<phase, commands>>
    BY <1>4 DEF ChildStep, DupIn, DupOut, OpenIn, OpenOut, Setup, Exec, Read, Exit
  <2>2. phase \notin {"prompt", "pipe", "ended"}
    BY <2>1 DEF ShellInv, ChildrenInv
  <2>3. fds' = fds \/ \E t : fds' = [fds EXCEPT ![s] = t]
    BY <1>4 DEF ChildStep, DupIn, DupOut, OpenIn, OpenOut, Setup, Exec, Read, Exit, End
  <2>4. fds'[0] = fds[0]
    BY <2>3, Typed, StageIsProcess DEF Stages
  <2>5. Intact' = Intact
    BY <2>4 DEF Intact
  <2>6. \A t \in Stages : buffer'[t] = buffer[t] \/ buffer[t] # 0
    <3>1. CASE UNCHANGED buffer
      BY <3>1
    <3>2. CASE ~UNCHANGED buffer
      <4>1. PICK k : buffer[k] > 0 /\ buffer' = [buffer EXCEPT ![k] = @ - 1]
        BY <1>4, <3>2 DEF ChildStep, DupIn, DupOut, OpenIn, OpenOut, Setup, Exec, Read, Exit
      <4> QED
        BY <4>1 DEF TypeOK
    <3> QED
      BY <3>1, <3>2
  <2> QED
    BY <2>1, <2>2, <2>5, <2>6, BufferKept
<1>5. ASSUME NEW s \in Stages, Write(s) PROVE BufferInv'
  BY <1>5, BufferWrite
<1>6. CASE UNCHANGED vars
  <2>1. UNCHANGED <<phase, commands, buffer, fds>>
    BY <1>6 DEF vars
  <2>2. Intact' = Intact
    BY <2>1 DEF Intact
  <2> QED
    BY <2>1, <2>2, BufferKept
<1> QED
  BY <1>1, <1>2, <1>3, <1>4, <1>5, <1>6 DEF Next, ShellStep

LEMMA BufferInit == Init => BufferInv
<1> SUFFICES ASSUME Init PROVE BufferInv
  OBVIOUS
<1>1. Len(commands) = 0 /\ buffer = NoStages(0)
  BY DEF Init
<1> QED
  BY <1>1 DEF BufferInv

\* While the shell waits it holds no end of a pipe, and no child is left that has
\* not become its program: only the program for the command itself could write
\* to the pipe of the command, and it writes to the file.
LEMMA NobodyHolds ==
  ASSUME TypeOK, ShellInv, ProcessInv, StdioConnected, Intact, phase = "wait",
         \A c \in Stages : state[c] # "child",
         NEW s \in 1 .. Len(commands), WritesFile(s)
  PROVE  ~HasWriter(s)
<1> SUFFICES ASSUME NEW p \in Processes, NEW d \in Descriptors,
                    IsWriter(fds[p][d]), fds[p][d].pipe = s
             PROVE  FALSE
  BY DEF HasWriter, IsWriter
<1>1. ~IsWriter(Closed) /\ ~IsWriter(Terminal) /\ ~IsWriter(FileIn) /\ ~IsWriter(FileOut)
  BY DEF IsWriter, Closed, Terminal, FileIn, FileOut, Entry
<1>2. \A k : ~IsWriter(Reader(k)) /\ Writer(k).pipe = k
  BY DEF IsWriter, Reader, Writer, Entry
<1>3. CASE p = 0
  <2>1. Unclosed = {}
    BY DEF Unclosed
  <2>2. fds[0][d] # Closed => fds[0][d] = Terminal
    BY <2>1 DEF ShellInv, DescriptorInv
  <2> QED
    BY <1>1, <1>3, <2>2
<1>4. CASE p # 0
  <2>1. p \in Stages
    BY <1>4 DEF Processes, Stages
  <2>2. CASE state[p] = "program"
    <3>1. fds[p] = ProgramTable(p)
      BY <2>1, <2>2, ProgramTables
    <3>2. fds[p][d] \in {StandardInput(p), StandardOutput(p), Terminal, Closed}
      BY <3>1 DEF ProgramTable
    <3>3. ~IsWriter(StandardInput(p))
      BY <1>1, <1>2, StandardFiles DEF StdioFits
    <3>4. IsWriter(StandardOutput(p)) =>
            ~WritesFile(p) /\ StandardOutput(p) = Writer(p)
      BY <1>1, StandardFiles DEF StdioFits
    <3>5. p = s /\ ~WritesFile(p)
      BY <1>1, <1>2, <3>2, <3>3, <3>4
    <3> QED
      BY <3>5
  <2>3. CASE state[p] # "program"
    <3>1. state[p] \in {"absent", "zombie", "reaped"}
      BY <2>1, <2>3 DEF TypeOK
    <3>2. fds[p][d] = Closed
      BY <2>1, <3>1 DEF ProcessInv, NoDescriptors
    <3> QED
      BY <1>1, <3>2
  <2> QED
    BY <2>2, <2>3
<1> QED
  BY <1>3, <1>4

\* The pipe after a command with a file for its output stays empty, and when
\* the shell waits and its children run, nobody could still write to it: the
\* next command finds the end of its input at once.
THEOREM RedirectionEndsInput == Spec => []RedirectedPipeIsEmpty
<1>1. TypeOK /\ ShellInv /\ ProcessInv /\ StdioConnected /\ BufferInv
        => RedirectedPipeIsEmpty
  <2> SUFFICES ASSUME TypeOK, ShellInv, ProcessInv, StdioConnected, BufferInv
               PROVE  RedirectedPipeIsEmpty
    OBVIOUS
  <2>1. \A s : WritesFile(s) <=> commands[s].outFile # ""
    BY DEF WritesFile
  <2>2. ASSUME NEW s \in 1 .. Len(commands), WritesFile(s), Intact
        PROVE  /\ buffer[s] = 0
               /\ phase = "wait" /\ (\A c \in Stages : state[c] # "child")
                  => ~HasWriter(s)
    BY <2>2, NobodyHolds DEF BufferInv
  <2> QED
    BY <2>1, <2>2 DEF RedirectedPipeIsEmpty
<1> QED
  BY <1>1, TypeInit, ShellInit, ConnectInit, BufferInit, ShellStepKeeps, ConnectStep,
     BufferStep, PTL DEF Spec

-----------------------------------------------------------------------------
(* The commands of the line *)

\* The commands are the line's until the shell is done with it.
LineInv ==
  phase \notin {"prompt", "ended"} => line \in Lines /\ commands = Commands(line)

LEMMA LineInit == Init => LineInv
BY DEF Init, LineInv

LEMMA LineStep == LineInv /\ [Next]_vars => LineInv'
<1> SUFFICES ASSUME LineInv, [Next]_vars PROVE LineInv'
  OBVIOUS
<1> DEFINE Kept == /\ UNCHANGED <<line, commands>>
                   /\ phase \in {"prompt", "ended"} => phase' = phase
<1>1. ASSUME NEW tokens \in Lines, ReadLine(tokens) PROVE LineInv'
  BY <1>1 DEF ReadLine, LineInv
<1>2. CASE EndOfInput \/ Cleanup
  BY <1>2 DEF EndOfInput, Cleanup, LineInv
<1>3. CASE CreatePipe \/ PipesCreated \/ Fork \/ AllForked \/ ClosePipe \/ Wait
  <2>1. Kept
    BY <1>3 DEF CreatePipe, PipesCreated, Fork, AllForked, ClosePipe, Wait
  <2> QED
    BY <2>1 DEF LineInv
<1>4. ASSUME NEW s \in Stages, ChildStep(s) \/ Read(s) \/ Write(s) \/ Exit(s)
      PROVE  LineInv'
  <2>1. Kept
    BY <1>4 DEF ChildStep, DupIn, DupOut, OpenIn, OpenOut, Setup, Exec, Read,
                Write, Exit
  <2> QED
    BY <2>1 DEF LineInv
<1>5. CASE UNCHANGED vars
  BY <1>5 DEF vars, LineInv
<1> QED
  BY <1>1, <1>2, <1>3, <1>4, <1>5 DEF Next, ShellStep

\* The commands the shell runs are those the line means, for every line of
\* tokens that are not empty and whose commands begin with words, and it runs
\* none of any other line.
THEOREM LinesAreParsed == Spec => []ParsesGrammar
<1>1. LineInv => ParsesGrammar
  <2> SUFFICES ASSUME LineInv, phase \notin {"prompt", "ended"}
               PROVE  commands = IF Grammatical(line) /\ WordsFirst(line)
                                 THEN Meaning(line) ELSE <<>>
    BY DEF ParsesGrammar
  <2>1. commands = Commands(line) /\ line \in Seq(STRING \ {""})
    BY LinesAssumption DEF LineInv
  <2> QED
    BY <2>1, CommandsOfLine, Zenon
<1> QED
  BY <1>1, LineInit, LineStep, PTL DEF Spec
=============================================================================
