--------------------------- MODULE ServicesProofs ----------------------------
(***************************************************************************)
(* What holds of the services together.  Each service, in a behaviour of   *)
(* them all, behaves as its own specification says, so that what is proved *)
(* of one service alone holds of it among the others; and, of the          *)
(* processing rules of kafka-ws, that nobody can tell that they are        *)
(* shared.                                                                 *)
(***************************************************************************)
EXTENDS MCServices, AuthorityProofs, ConsumerProofs, DeviceProofs

-----------------------------------------------------------------------------
(* Rules: a stable sort, and texts put in a row *)

LEMMA BeforeIsFinite ==
    ASSUME NEW n \in Nat, NEW rank \in [1..n -> Nat], NEW j \in 1..n
    PROVE  /\ IsFiniteSet(PositionsBefore(rank, j))
           /\ Cardinality(PositionsBefore(rank, j)) \in 0..(n - 1)
<1>1. PositionsBefore(rank, j) \in SUBSET ((1..n) \ {j})
    BY DEF PositionsBefore
<1>2. IsFiniteSet(1..n) /\ Cardinality(1..n) = n
    BY FS_Interval
<1>3. IsFiniteSet((1..n) \ {j}) /\ Cardinality((1..n) \ {j}) = n - 1
    BY <1>2, FS_RemoveElement
<1>4. IsFiniteSet(PositionsBefore(rank, j)) /\ Cardinality(PositionsBefore(rank, j)) <= n - 1
    BY <1>1, <1>3, FS_Subset
<1> QED
    BY <1>4, FS_CardinalityType

\* What comes before has fewer before it.
LEMMA BeforeOrders ==
    ASSUME NEW n \in Nat, NEW rank \in [1..n -> Nat], NEW i \in 1..n, NEW j \in 1..n,
           i \in PositionsBefore(rank, j)
    PROVE  Cardinality(PositionsBefore(rank, i)) < Cardinality(PositionsBefore(rank, j))
<1> DEFINE S == PositionsBefore(rank, i)
<1>1. IsFiniteSet(S) /\ IsFiniteSet(PositionsBefore(rank, j)) /\ Cardinality(S) \in Nat
      /\ Cardinality(PositionsBefore(rank, j)) \in Nat
    BY BeforeIsFinite
<1>2. i \notin S /\ S \cup {i} \in SUBSET PositionsBefore(rank, j)
    BY DEF PositionsBefore
<1>3. Cardinality(S \cup {i}) = Cardinality(S) + 1
    BY <1>1, <1>2, FS_AddElement
<1>4. Cardinality(S \cup {i}) <= Cardinality(PositionsBefore(rank, j))
    BY <1>1, <1>2, FS_Subset
<1> QED
    BY <1>1, <1>3, <1>4

\* Two positions have two numbers of positions before them.
LEMMA BeforeTells ==
    ASSUME NEW n \in Nat, NEW rank \in [1..n -> Nat], NEW i \in 1..n, NEW j \in 1..n,
           Cardinality(PositionsBefore(rank, i)) = Cardinality(PositionsBefore(rank, j))
    PROVE  i = j
<1>1. Cardinality(PositionsBefore(rank, i)) \in Nat /\ Cardinality(PositionsBefore(rank, j)) \in Nat
    BY BeforeIsFinite
<1>2. i # j => i \in PositionsBefore(rank, j) \/ j \in PositionsBefore(rank, i)
    BY DEF PositionsBefore
<1>3. i \notin PositionsBefore(rank, j) /\ j \notin PositionsBefore(rank, i)
    BY <1>1, BeforeOrders
<1> QED
    BY <1>2, <1>3

\* Each place in the order is that of a position.
LEMMA BeforeIsTaken ==
    ASSUME NEW n \in Nat, NEW rank \in [1..n -> Nat], NEW k \in 0..(n - 1)
    PROVE  \E j \in 1..n : Cardinality(PositionsBefore(rank, j)) = k
<1> DEFINE K == 0..(n - 1)
           f == [j \in 1..n |-> Cardinality(PositionsBefore(rank, j))]
<1>1. f \in [1..n -> K]
    BY BeforeIsFinite
<1>2. \A i, j \in 1..n : f[i] = f[j] => i = j
    BY BeforeTells
<1>3. f \in Injection(1..n, K)
    BY <1>1, <1>2 DEF Injection, IsInjective
<1>4. IsFiniteSet(K) /\ Cardinality(K) = n
  <2>1. 0 \in Int /\ n - 1 \in Int /\ (IF 0 > n - 1 THEN 0 ELSE (n - 1) - 0 + 1) = n
    OBVIOUS
  <2> QED
    BY <2>1, FS_Interval
<1>n. Cardinality(1..n) = n
    BY FS_Interval
<1> HIDE DEF f, K
<1>5. f \in Surjection(1..n, K)
    BY <1>3, <1>4, <1>n, FS_Injection
<1>6. \E j \in 1..n : f[j] = k
    BY <1>5 DEF Surjection, K
<1> QED
    BY <1>6 DEF f

\* A sort keeps the elements: it loses none, and adds none.
LEMMA SortKeepsElements ==
    ASSUME NEW n \in Nat, NEW rank \in [1..n -> Nat], NEW seq, DOMAIN seq = 1..n
    PROVE  /\ DOMAIN StablySorted(seq, rank) = 1..n
           /\ Range(StablySorted(seq, rank)) = Range(seq)
<1> DEFINE sorted == StablySorted(seq, rank)
           at(i) == CHOOSE j \in 1..n : Cardinality(PositionsBefore(rank, j)) = i - 1
<1>1. sorted = [i \in 1..n |-> seq[at(i)]]
    BY DEF StablySorted
<1>2. ASSUME NEW i \in 1..n
      PROVE  at(i) \in 1..n /\ Cardinality(PositionsBefore(rank, at(i))) = i - 1
  <2>1. i - 1 \in 0..(n - 1)
    OBVIOUS
  <2>2. \E j \in 1..n : Cardinality(PositionsBefore(rank, j)) = i - 1
    BY <2>1, BeforeIsTaken
  <2> QED
    BY <2>2
<1>3. ASSUME NEW j \in 1..n
      PROVE  \E i \in 1..n : sorted[i] = seq[j]
  <2> DEFINE i == Cardinality(PositionsBefore(rank, j)) + 1
  <2>1. i \in 1..n /\ i - 1 = Cardinality(PositionsBefore(rank, j))
    <3>1. Cardinality(PositionsBefore(rank, j)) \in 0..(n - 1)
      BY BeforeIsFinite
    <3> QED
      BY <3>1
  <2>2. at(i) \in 1..n /\ Cardinality(PositionsBefore(rank, at(i))) = Cardinality(PositionsBefore(rank, j))
    BY <1>2, <2>1
  <2>3. at(i) = j
    BY <2>2, BeforeTells
  <2> QED
    BY <1>1, <2>1, <2>3
<1> HIDE DEF at
<1>4. DOMAIN sorted = 1..n /\ \A i \in 1..n : sorted[i] = seq[at(i)]
    BY <1>1
<1> HIDE DEF sorted
<1>5. Range(sorted) = Range(seq)
  <2>1. ASSUME NEW x \in Range(sorted) PROVE x \in Range(seq)
    <3>1. PICK i \in 1..n : x = sorted[i]
      BY <1>4 DEF Range
    <3> QED
      BY <1>2, <1>4, <3>1 DEF Range
  <2>2. ASSUME NEW x \in Range(seq) PROVE x \in Range(sorted)
    <3>1. PICK j \in 1..n : x = seq[j]
      BY DEF Range
    <3> QED
      BY <1>3, <1>4, <3>1 DEF Range
  <2> QED
    BY <2>1, <2>2
<1> QED
    BY <1>4, <1>5 DEF sorted

\* A set of positions has a first.
LEMMA FirstPosition ==
    ASSUME NEW n \in Nat, NEW S \in SUBSET (1..n), S # {}
    PROVE  \E j \in S : \A k \in S : j <= k
<1> DEFINE rank == [i \in 1..n |-> IF i \in S THEN 0 ELSE 1]
<1>1. rank \in [1..n -> Nat]
    OBVIOUS
<1>0. 0 \in 0..(n - 1)
  <2>1. PICK i \in 1..n : i \in S
    OBVIOUS
  <2> QED
    BY <2>1
<1>2. \A i \in 1..n : rank[i] = IF i \in S THEN 0 ELSE 1
    OBVIOUS
<1> HIDE DEF rank
<1>3. PICK j \in 1..n : Cardinality(PositionsBefore(rank, j)) = 0
    BY <1>0, <1>1, BeforeIsTaken
<1>4. PositionsBefore(rank, j) = {}
    BY <1>1, <1>3, BeforeIsFinite, FS_EmptySet
<1>5. ASSUME NEW k \in S
      PROVE  rank[j] = 0 /\ j <= k
    BY <1>1, <1>2, <1>4 DEF PositionsBefore
<1>6. j \in S
  <2>1. PICK k \in 1..n : k \in S
    OBVIOUS
  <2>2. rank[j] = 0
    BY <1>5, <2>1
  <2> QED
    BY <1>2, <2>2
<1> QED
    BY <1>5, <1>6

\* Texts of one piece each, in a row: the texts.
LEMMA PiecesInARow ==
    ASSUME NEW n \in Nat, NEW S, NEW t \in [1..n -> S], \A i \in 1..n : PiecesOf[t[i]] = <<t[i]>>
    PROVE  Joined(t) = t
<1> DEFINE first(i) == [k \in 1..i |-> t[k]]
           Spelled(g) == g = [i \in 0..n |-> IF i = 0 THEN <<>> ELSE g[i - 1] \o PiecesOf[t[i]]]
           w == [i \in 0..n |-> first(i)]
<1>1. Len(t) = n
    OBVIOUS
<1>2. \A i \in 0..n : first(i) \in Seq(S) /\ Len(first(i)) = i /\ \A k \in 1..i : first(i)[k] = t[k]
  <2>1. SUFFICES ASSUME NEW i \in 0..n
                 PROVE  first(i) \in Seq(S) /\ Len(first(i)) = i /\ \A k \in 1..i : first(i)[k] = t[k]
    OBVIOUS
  <2>2. first(i) \in [1..i -> S] /\ i \in Nat /\ \A k \in 1..i : first(i)[k] = t[k]
    OBVIOUS
  <2> HIDE DEF first
  <2> QED
    BY <2>2, SeqDef
<1>3. first(0) = <<>>
    OBVIOUS
<1> HIDE DEF first
<1>4. ASSUME NEW i \in 1..n
      PROVE  first(i - 1) \o PiecesOf[t[i]] = first(i)
  <2> DEFINE one == <<t[i]>>
             both == first(i - 1) \o one
  <2>1. i - 1 \in 0..n /\ i \in 0..n
    OBVIOUS
  <2>2. one \in Seq(S) /\ Len(one) = 1 /\ one[1] = t[i]
    OBVIOUS
  <2>3. first(i - 1) \in Seq(S) /\ Len(first(i - 1)) = i - 1
        /\ first(i) \in Seq(S) /\ Len(first(i)) = i
    BY <1>2, <2>1
  <2> HIDE DEF one
  <2>p. both \in Seq(S) /\ Len(both) = Len(first(i - 1)) + Len(one)
        /\ \A k \in 1..(Len(first(i - 1)) + Len(one)) :
              both[k] = IF k <= Len(first(i - 1)) THEN first(i - 1)[k] ELSE one[k - Len(first(i - 1))]
    BY <2>2, <2>3, ConcatProperties
  <2> HIDE DEF both
  <2>4. both \in Seq(S) /\ Len(both) = (i - 1) + 1
        /\ \A k \in 1..((i - 1) + 1) : both[k] = IF k <= i - 1 THEN first(i - 1)[k] ELSE one[k - (i - 1)]
    BY <2>2, <2>3, <2>p
  <2>5. ASSUME NEW k \in 1..i
        PROVE  both[k] = first(i)[k]
    <3>1. first(i)[k] = t[k]
      BY <1>2, <2>1
    <3>2. CASE k <= i - 1
      <4>1. k \in 1..(i - 1)
        BY <3>2
      <4>2. first(i - 1)[k] = t[k]
        BY <1>2, <2>1, <4>1
      <4>3. both[k] = first(i - 1)[k]
        BY <2>4, <3>2
      <4> QED
        BY <3>1, <4>2, <4>3
    <3>3. CASE k = i
      <4>1. both[k] = one[k - (i - 1)] /\ k - (i - 1) = 1
        BY <2>4, <3>3
      <4> QED
        BY <2>2, <3>1, <3>3, <4>1
    <3> QED
      BY <3>2, <3>3
  <2>6. Len(both) = i
    BY <2>4
  <2>7. both = first(i)
    BY <2>3, <2>4, <2>5, <2>6, SeqEqual
  <2> QED
    BY <2>7 DEF both, one
<1>5. Spelled(w)
  <2>1. \A i \in 0..n : first(i) = IF i = 0 THEN <<>> ELSE w[i - 1] \o PiecesOf[t[i]]
    <3>1. SUFFICES ASSUME NEW i \in 0..n
                   PROVE  first(i) = IF i = 0 THEN <<>> ELSE w[i - 1] \o PiecesOf[t[i]]
      OBVIOUS
    <3>2. CASE i = 0
      BY <1>3, <3>2
    <3>3. CASE i # 0
      <4>1. i \in 1..n /\ w[i - 1] = first(i - 1)
        BY <3>3
      <4> QED
        BY <1>4, <3>3, <4>1
    <3> QED
      BY <3>2, <3>3
  <2> QED
    BY <2>1
<1> DEFINE upTo == CHOOSE g : Spelled(g)
<1>6. Spelled(upTo)
  <2> HIDE DEF Spelled
  <2> QED
    BY <1>5
<1>7. Joined(t) = upTo[n]
    BY <1>1 DEF Joined
<1> HIDE DEF upTo
<1>8. \A i \in 0..n : upTo[i] = IF i = 0 THEN <<>> ELSE upTo[i - 1] \o PiecesOf[t[i]]
    BY <1>6
<1> HIDE DEF Spelled
<1>9. \A i \in 1..n : upTo[i] = first(i)
  <2> DEFINE Wrong == {i \in 1..n : upTo[i] # first(i)}
  <2>1. SUFFICES ASSUME Wrong # {} PROVE FALSE
    OBVIOUS
  <2>2. PICK i \in Wrong : \A k \in Wrong : i <= k
    BY <2>1, FirstPosition
  <2>3. i \in 1..n /\ i \in 0..n /\ i # 0 /\ i - 1 \in 0..n /\ i - 1 \notin Wrong
    BY <2>2
  <2>4. upTo[i - 1] = first(i - 1)
    <3>1. CASE i = 1
      BY <1>3, <1>8, <2>3, <3>1
    <3>2. CASE i # 1
      <4>1. i - 1 \in 1..n
        BY <2>3, <3>2
      <4> QED
        BY <2>3, <4>1
    <3> QED
      BY <3>1, <3>2
  <2>5. upTo[i] = first(i - 1) \o PiecesOf[t[i]]
    BY <1>8, <2>3, <2>4
  <2> QED
    BY <1>4, <2>2, <2>3, <2>5
<1>10. first(n) = t
    BY DEF first
<1>11. upTo[n] = first(n)
  <2>1. n = 0 \/ n \in 1..n
    OBVIOUS
  <2>2. CASE n = 0
    BY <1>3, <1>8, <2>2
  <2> QED
    BY <1>9, <2>1, <2>2
<1> QED
    BY <1>7, <1>10, <1>11

-----------------------------------------------------------------------------
(* Rules: what a fingerprint tells *)

\* The number of a text, and the values of a set condition whose texts are one piece each.
IsNumber(n) == n # NaN /\ \E t \in DOMAIN NumberOf : NumberOf[t] = n
AreTexts(values) ==
    \E n \in Nat : /\ values \in [1..n -> Range(TextOrder)]
                   /\ \A i \in 1..n : PiecesOf[values[i]] = <<values[i]>>

\* A condition that its canonical text tells from any other.
ConditionIsTold(c) ==
    \/ c.operator \in setOperators /\ AreTexts(c.values)
    \/ c.operator \in numericOperators /\ IsNumber(c.values[1])
    \/ c.operator = "bool" /\ c.values[1] \in BOOLEAN

LEMMA TextRankIsNat ==
    ASSUME NEW t \in Range(TextOrder)
    PROVE  TextRank(t) \in Nat
<1>1. TextOrder \in Seq(DOMAIN PiecesOf \cap DOMAIN NumberOf)
    BY RulesAssumption DEF TextsAreTold
<1>2. DOMAIN TextOrder = 1..Len(TextOrder) /\ Len(TextOrder) \in Nat
    BY <1>1, LenProperties
<1>3. \E i \in DOMAIN TextOrder : TextOrder[i] = t
    BY DEF Range
<1>4. TextRank(t) \in DOMAIN TextOrder
    BY <1>3 DEF TextRank
<1> QED
    BY <1>2, <1>4

\* The canonical text of a set condition has its values, and nothing else.
LEMMA CanonicalValues ==
    ASSUME NEW values, AreTexts(values)
    PROVE  LET ranks == [i \in DOMAIN values |-> TextRank(values[i])]
           IN  Range(Joined(StablySorted(values, ranks))) = Range(values)
<1> DEFINE ranks == [i \in DOMAIN values |-> TextRank(values[i])]
           sorted == StablySorted(values, ranks)
           Texts == Range(TextOrder)
<1>1. PICK n \in Nat : /\ values \in [1..n -> Texts]
                       /\ \A i \in 1..n : PiecesOf[values[i]] = <<values[i]>>
    BY DEF AreTexts
<1>2. DOMAIN values = 1..n /\ ranks \in [1..n -> Nat]
    BY <1>1, TextRankIsNat
<1> HIDE DEF ranks, Texts
<1>3. DOMAIN sorted = 1..n /\ Range(sorted) = Range(values)
    BY <1>2, SortKeepsElements
<1>4. sorted = [i \in 1..n |-> sorted[i]]
    BY <1>2 DEF StablySorted
<1> HIDE DEF sorted
<1>5. ASSUME NEW i \in 1..n
      PROVE  sorted[i] \in Texts /\ PiecesOf[sorted[i]] = <<sorted[i]>>
  <2>1. \E j \in 1..n : sorted[i] = values[j]
    BY <1>2, <1>3 DEF Range
  <2> QED
    BY <1>1, <2>1
<1>6. Joined(sorted) = sorted
    BY <1>4, <1>5, PiecesInARow
<1> QED
    BY <1>3, <1>6 DEF ranks, sorted

\* Two conditions that the same data meets.
MetAlike(c, d) ==
    /\ c.parameter = d.parameter
    /\ \A datum : MeetsCondition(c, datum) = MeetsCondition(d, datum)

\* Two conditions with one canonical text are met by the same data.
LEMMA SameCanonical ==
    ASSUME NEW c, NEW d, ConditionIsTold(c), ConditionIsTold(d), CanonicalCondition(c) = CanonicalCondition(d)
    PROVE  MetAlike(c, d)
<1>1. c.parameter = d.parameter /\ c.operator = d.operator
    BY DEF CanonicalCondition
<1> DEFINE ranksOf(e) == [i \in DOMAIN e.values |-> TextRank(e.values[i])]
           joined(e) == Joined(StablySorted(e.values, ranksOf(e)))
<1>2. CASE c.operator \in setOperators
  <2>1. CanonicalCondition(c).values = joined(c) /\ CanonicalCondition(d).values = joined(d)
    BY <1>1, <1>2 DEF CanonicalCondition
  <2>2. AreTexts(c.values) /\ AreTexts(d.values)
    BY <1>1, <1>2 DEF ConditionIsTold, setOperators, numericOperators
  <2>3. Range(joined(c)) = Range(c.values) /\ Range(joined(d)) = Range(d.values)
    BY <2>2, CanonicalValues
  <2> HIDE DEF joined
  <2>4. Range(c.values) = Range(d.values)
    BY <2>1, <2>3
  <2>5. ASSUME NEW datum
        PROVE  MatchesAny(datum, c.values) = MatchesAny(datum, d.values)
    BY <2>4 DEF MatchesAny, Range
  <2> QED
    BY <1>1, <1>2, <2>5 DEF MetAlike, MeetsCondition, setOperators, numericOperators
<1>3. CASE c.operator \in numericOperators
  <2>1. c.operator \notin setOperators /\ c.operator # "bool"
    BY <1>3 DEF setOperators, numericOperators
  <2>2. CanonicalCondition(c).values = <<NumberText[c.values[1]]>>
        /\ CanonicalCondition(d).values = <<NumberText[d.values[1]]>>
    BY <1>1, <2>1 DEF CanonicalCondition, ValueText
  <2>3. NumberText[c.values[1]] = NumberText[d.values[1]]
    BY <2>2
  <2>4. IsNumber(c.values[1]) /\ IsNumber(d.values[1])
    BY <1>1, <1>3, <2>1 DEF ConditionIsTold
  <2>5. c.values[1] = d.values[1]
    BY <2>3, <2>4, RulesAssumption DEF TextsAreTold, IsNumber
  <2> QED
    BY <1>1, <1>3, <2>5 DEF MetAlike, MeetsCondition
<1>4. CASE c.operator = "bool"
  <2>1. c.operator \notin setOperators /\ c.operator \notin numericOperators
    BY <1>4 DEF setOperators, numericOperators
  <2>2. CanonicalCondition(c).values = <<IF c.values[1] THEN "true" ELSE "false">>
        /\ CanonicalCondition(d).values = <<IF d.values[1] THEN "true" ELSE "false">>
    BY <1>1, <1>4, <2>1 DEF CanonicalCondition, ValueText
  <2>3. (IF c.values[1] THEN "true" ELSE "false") = (IF d.values[1] THEN "true" ELSE "false")
    BY <2>2
  <2>4. c.values[1] \in BOOLEAN /\ d.values[1] \in BOOLEAN
    BY <1>1, <1>4, <2>1 DEF ConditionIsTold
  <2>5. c.values[1] = d.values[1]
    BY <2>3, <2>4
  <2> QED
    BY <1>1, <1>4, <2>1, <2>5 DEF MetAlike, MeetsCondition
<1> QED
    BY <1>2, <1>3, <1>4 DEF ConditionIsTold

\* No group of fields has a comma in it.
GroupsAreClosed(fields) == \A i \in DOMAIN fields : fields[i].opens # <<>> => fields[i].closes

\* Rules with conditions that are told, and pieces of fields that tell what they select.
RuleIsTold(rule) ==
    /\ rule.fields \in Seq(Piece) /\ GroupsAreClosed(rule.fields)
    /\ \A i \in DOMAIN rule.conditions : ConditionIsTold(rule.conditions[i])

\* Each condition of a rule has one in the other that is met by the same data.
LEMMA CoveredConditions ==
    ASSUME NEW p, NEW q, RuleIsTold(p), RuleIsTold(q), CreateFingerprint(p) = CreateFingerprint(q)
    PROVE  \A i \in DOMAIN p.conditions : \E j \in DOMAIN q.conditions :
              MetAlike(p.conditions[i], q.conditions[j])
<1> DEFINE texts(rule) == [i \in DOMAIN rule.conditions |-> CanonicalCondition(rule.conditions[i])]
<1>1. Occurrences(texts(p)) = Occurrences(texts(q))
    BY DEF CreateFingerprint
<1>2. DOMAIN Occurrences(texts(p)) = Range(texts(p)) /\ DOMAIN Occurrences(texts(q)) = Range(texts(q))
    BY DEF Occurrences
<1>3. SUFFICES ASSUME NEW i \in DOMAIN p.conditions
               PROVE  \E j \in DOMAIN q.conditions : MetAlike(p.conditions[i], q.conditions[j])
    OBVIOUS
<1>4. CanonicalCondition(p.conditions[i]) \in Range(texts(p))
    BY DEF Range
<1>5. PICK j \in DOMAIN q.conditions :
             CanonicalCondition(p.conditions[i]) = CanonicalCondition(q.conditions[j])
    BY <1>1, <1>2, <1>4 DEF Range
<1> QED
    BY <1>5, SameCanonical DEF RuleIsTold

\* Where no group holds a comma, a piece selects the same wherever it stands.
LEMMA ParentOfPiece ==
    ASSUME NEW fields \in Seq(Piece), GroupsAreClosed(fields), NEW i \in DOMAIN fields
    PROVE  Parent(fields, i) = fields[i].opens
<1> DEFINE opened == {j \in 1..i : fields[j].opens # <<>> /\ \A k \in j..(i - 1) : ~fields[k].closes}
<1>1. Len(fields) \in Nat /\ DOMAIN fields = 1..Len(fields) /\ i \in Nat
    BY LenProperties
<1>2. \A j \in opened : j = i
    <2>1. ASSUME NEW j \in opened, j # i
          PROVE  FALSE
        <3>1. j \in j..(i - 1) /\ j \in DOMAIN fields
            BY <1>1, <2>1
        <3>2. fields[j].closes
            BY <2>1, <3>1 DEF GroupsAreClosed
        <3> QED
            BY <2>1, <3>1, <3>2
    <2> QED
        BY <2>1
<1>3. CASE fields[i].opens = <<>>
    <2>1. opened = {}
        BY <1>2, <1>3
    <2> QED
        BY <1>3, <2>1 DEF Parent
<1>4. CASE fields[i].opens # <<>>
    <2>1. i \in opened
        BY <1>1, <1>4
    <2>2. opened # {} /\ (CHOOSE j \in opened : TRUE) = i
        BY <1>2, <2>1
    <2> QED
        BY <2>2 DEF Parent
<1> QED
    BY <1>3, <1>4

\* The mask of such fields depends on which pieces there are, and not on their order.
LEMMA MaskByPieces ==
    ASSUME NEW fields \in Seq(Piece), GroupsAreClosed(fields), NEW payload
    PROVE  Mask(fields, payload) =
              [p \in {q \in Parameters : ~Absent(payload[q])
                          /\ (fields = <<>>
                                \/ \E c \in Range(fields) : Selects(c.opens \o c.name, q))} |-> payload[p]]
<1>1. \A i \in DOMAIN fields : Parent(fields, i) = fields[i].opens
    BY ParentOfPiece
<1>2. \A q : (\E i \in DOMAIN fields : Selects(Parent(fields, i) \o fields[i].name, q))
                <=> (\E c \in Range(fields) : Selects(c.opens \o c.name, q))
    BY <1>1 DEF Range
<1> QED
    BY <1>2 DEF Mask

\* Two rules with one fingerprint make the same of every message.
LEMMA SameFingerprint ==
    ASSUME NEW p, NEW q, RuleIsTold(p), RuleIsTold(q), CreateFingerprint(p) = CreateFingerprint(q)
    PROVE  \A payload : Filtered(p, payload) = Filtered(q, payload)
<1>1. SUFFICES ASSUME NEW payload
               PROVE  Filtered(p, payload) = Filtered(q, payload)
    OBVIOUS
<1> DEFINE passes(rule) == \A i \in DOMAIN rule.conditions :
                              MeetsCondition(rule.conditions[i], payload[rule.conditions[i].parameter])
<1>2. passes(p) = passes(q)
  <2>1. \A i \in DOMAIN p.conditions : \E j \in DOMAIN q.conditions :
              MetAlike(p.conditions[i], q.conditions[j])
    BY CoveredConditions
  <2>2. \A i \in DOMAIN q.conditions : \E j \in DOMAIN p.conditions :
              MetAlike(q.conditions[i], p.conditions[j])
    BY CoveredConditions
  <2>3. passes(q) => passes(p)
    BY <2>1 DEF MetAlike
  <2>4. passes(p) => passes(q)
    BY <2>2 DEF MetAlike
  <2> QED
    BY <2>3, <2>4
<1>3. Range(p.fields) = Range(q.fields)
  <2>1. Occurrences(p.fields) = Occurrences(q.fields)
    BY DEF CreateFingerprint
  <2> QED
    BY <2>1 DEF Occurrences
<1>4. p.fields = <<>> <=> q.fields = <<>>
  <2>1. \A fields \in Seq(Piece) : fields = <<>> <=> Range(fields) = {}
    <3>1. SUFFICES ASSUME NEW fields \in Seq(Piece) PROVE fields = <<>> <=> Range(fields) = {}
      OBVIOUS
    <3>2. Len(fields) \in Nat /\ DOMAIN fields = 1..Len(fields)
      BY LenProperties
    <3>3. fields # <<>> => 1 \in DOMAIN fields
      BY <3>2, EmptySeq
    <3> QED
      BY <3>3 DEF Range
  <2> QED
    BY <1>3, <2>1 DEF RuleIsTold
<1>5. Mask(p.fields, payload) = Mask(q.fields, payload)
  <2> DEFINE kept(fields) ==
                {r \in Parameters : ~Absent(payload[r])
                    /\ (fields = <<>> \/ \E c \in Range(fields) : Selects(c.opens \o c.name, r))}
  <2>1. Mask(p.fields, payload) = [x \in kept(p.fields) |-> payload[x]]
    BY MaskByPieces DEF RuleIsTold
  <2>2. Mask(q.fields, payload) = [x \in kept(q.fields) |-> payload[x]]
    BY MaskByPieces DEF RuleIsTold
  <2>3. kept(p.fields) = kept(q.fields)
    BY <1>3, <1>4
  <2> QED
    BY <2>1, <2>2, <2>3
<1> QED
    BY <1>2, <1>5 DEF Filtered

-----------------------------------------------------------------------------
(* Rules: what a request becomes *)

RuleRequests == [fields : FieldLists, where : Wheres]

\* No value of the request has a comma.
HasNoComma(ask) ==
    \A i \in DOMAIN ask.where : \A j \in DOMAIN ask.where[i].values :
        ~(Len(PiecesOf[ask.where[i].values[j].text]) > 1)

LEMMA SeparatedTexts ==
    ASSUME NEW values \in Seq(Value)
    PROVE  LET texts == SeparateValues(values)
           IN  \E n \in Nat : /\ texts \in [1..n -> Range(TextOrder)]
                              /\ \A i \in 1..n : \E j \in DOMAIN values : texts[i] = values[j].text
<1> DEFINE n == Len(values)
           rank == [i \in DOMAIN values |-> IF values[i].quoted THEN 0 ELSE 1]
           separated == StablySorted(values, rank)
           texts == SeparateValues(values)
<1>1. n \in Nat /\ DOMAIN values = 1..n /\ \A i \in 1..n : values[i] \in Value
    BY LenProperties
<1>2. rank \in [1..n -> Nat]
    BY <1>1
<1>3. texts = [i \in DOMAIN separated |-> separated[i].text]
    BY DEF SeparateValues
<1> HIDE DEF rank, n, texts
<1>4. DOMAIN separated = 1..n /\ Range(separated) = Range(values)
    BY <1>1, <1>2, SortKeepsElements
<1> HIDE DEF separated
<1>5. ASSUME NEW i \in 1..n
      PROVE  \E j \in 1..n : separated[i] = values[j]
    BY <1>1, <1>4 DEF Range
<1>6. ASSUME NEW i \in 1..n
      PROVE  /\ texts[i] \in Range(TextOrder)
             /\ \E j \in DOMAIN values : texts[i] = values[j].text
    BY <1>1, <1>3, <1>4, <1>5 DEF Value
<1>7. texts \in [1..n -> Range(TextOrder)]
    BY <1>3, <1>4, <1>6
<1> QED
    BY <1>1, <1>6, <1>7 DEF texts

LEMMA BooleansAreTyped == \A t \in DOMAIN Booleans : Booleans[t] \in BOOLEAN
<1>1. SUFFICES ASSUME NEW t \in DOMAIN Booleans PROVE Booleans[t] \in BOOLEAN
    OBVIOUS
<1> DEFINE S == {"true", "1", "false", "0"}
           T == {"true", "1"}
<1>2. t \in S /\ Booleans = [text \in S |-> text \in T]
    BY DEF Booleans
<1> HIDE DEF S, T
<1>3. Booleans[t] = (t \in T)
    BY <1>2, Zenon
<1> QED
    BY <1>3

\* The rule of a request without such a comma is told by its fingerprint.
LEMMA RequestIsTold ==
    ASSUME NEW ask \in RuleRequests, WellFormed(ask.where), HasNoComma(ask), GroupsAreClosed(ask.fields)
    PROVE  RuleIsTold(ProcessRule(ask))
<1> DEFINE rule == ProcessRule(ask)
<1>1. rule.fields = ask.fields /\ ask.fields \in Seq(Piece)
    BY RulesAssumption DEF ProcessRule, RuleRequests, ShapesAreKept
<1>2. ask.where \in Wheres
    BY DEF RuleRequests
<1>3. ASSUME NEW i \in DOMAIN ask.where
      PROVE  ConditionIsTold(ProcessCondition(ask.where[i]))
  <2> DEFINE c == ask.where[i]
             texts == SeparateValues(c.values)
             processed == ProcessCondition(c)
  <2>1. c.values \in Seq(Value)
    BY <1>2, RulesAssumption DEF ShapesAreKept
  <2>2. PICK n \in Nat : /\ texts \in [1..n -> Range(TextOrder)]
                         /\ \A k \in 1..n : \E j \in DOMAIN c.values : texts[k] = c.values[j].text
    BY <2>1, SeparatedTexts
  <2>3. processed.operator = c.operator /\ processed.values = FormatValues(c.operator, texts)
    BY DEF ProcessCondition
  <2>4. ValidValues(c.operator, texts)
    BY DEF WellFormed
  <2>5. \A j \in DOMAIN c.values : ~(Len(PiecesOf[c.values[j].text]) > 1)
    BY DEF HasNoComma
  <2>6. /\ \A t \in Range(TextOrder) : t \in DOMAIN PiecesOf /\ t \in DOMAIN NumberOf
        /\ \A t \in DOMAIN PiecesOf : PiecesOf[t] = <<t>> \/ Len(PiecesOf[t]) > 1
    <3>1. TextOrder \in Seq(DOMAIN PiecesOf \cap DOMAIN NumberOf)
      BY RulesAssumption DEF TextsAreTold
    <3>2. TextOrder \in [1..Len(TextOrder) -> DOMAIN PiecesOf \cap DOMAIN NumberOf]
      BY <3>1, LenProperties
    <3> QED
      BY <3>2, RulesAssumption DEF TextsAreTold, Range
  <2> SUFFICES ConditionIsTold(processed)
    OBVIOUS
  <2> HIDE DEF c, texts, processed
  <2>7. CASE c.operator \in setOperators
    <3>1. processed.values = texts
      BY <2>3, <2>7 DEF FormatValues, setOperators, numericOperators
    <3>2. \A k \in 1..n : PiecesOf[texts[k]] = <<texts[k]>>
      BY <2>2, <2>5, <2>6
    <3>3. AreTexts(texts)
      BY <2>2, <3>2 DEF AreTexts
    <3> QED
      BY <2>3, <2>7, <3>1, <3>3 DEF ConditionIsTold
  <2>8. CASE c.operator \notin setOperators
    <3>1. Len(texts) = 1 /\ texts[1] \in Range(TextOrder)
      <4>1. Len(texts) = 1
        BY <2>4, <2>8 DEF ValidValues
      <4>2. n = 1
        <5> DEFINE Texts == Range(TextOrder)
        <5>1. texts \in [1..n -> Texts]
          BY <2>2
        <5> HIDE DEF Texts
        <5>2. texts \in Seq(Texts) /\ DOMAIN texts = 1..n
          BY <5>1, SeqDef
        <5>3. Len(texts) = n
          BY <5>2
        <5> QED
          BY <4>1, <5>3
      <4> QED
        BY <2>2, <4>1, <4>2
    <3>2. CASE c.operator \in numericOperators
      <4>1. processed.values = <<NumberOf[texts[1]]>> /\ NumberOf[texts[1]] # NaN
        BY <2>3, <2>4, <2>8, <3>2 DEF FormatValues, ValidValues, numericOperators
      <4>2. processed.values[1] = NumberOf[texts[1]]
        BY <4>1
      <4>3. IsNumber(processed.values[1])
        BY <2>6, <3>1, <4>1, <4>2 DEF IsNumber
      <4> QED
        BY <2>3, <3>2, <4>3 DEF ConditionIsTold
    <3>3. CASE c.operator = "bool"
      <4>1. processed.values = <<Booleans[texts[1]]>> /\ texts[1] \in DOMAIN Booleans
        BY <2>3, <2>4, <2>8, <3>3 DEF FormatValues, ValidValues, numericOperators
      <4>2. \A t \in DOMAIN Booleans : Booleans[t] \in BOOLEAN
        BY BooleansAreTyped
      <4>3. processed.values[1] \in BOOLEAN
        BY <4>1, <4>2
      <4> QED
        BY <2>3, <3>3, <4>3 DEF ConditionIsTold
    <3> QED
      BY <2>4, <2>8, <3>2, <3>3 DEF ValidValues
  <2> QED
    BY <2>7, <2>8
<1>4. \A i \in DOMAIN rule.conditions : ConditionIsTold(rule.conditions[i])
    BY <1>3 DEF ProcessRule
<1> QED
    BY <1>1, <1>4 DEF RuleIsTold

-----------------------------------------------------------------------------
(* Rules: the inductive invariant *)

FingerprintOf(s) == CreateFingerprint(ProcessRule(asked[s]))

\* The subscribers whose request was accepted, and of these the ones that share a rule.
AcceptedRequest(s) == subscriber[s] \in {"open", "gone"}
Sharers(f) == {s \in Subscribers : subscriber[s] = "open" /\ FingerprintOf(s) = f}

RequestsInv ==
    /\ subscriber \in [Subscribers -> {"none", "open", "refused", "gone"}]
    /\ DOMAIN asked = Subscribers /\ DOMAIN ruleOf = Subscribers
    /\ \A s \in Subscribers : AcceptedRequest(s) => asked[s] \in RuleRequests /\ WellFormed(asked[s].where)

\* A rule that is held is counted as often as it is shared, and was somebody's own.
HeldInv ==
    \A f \in DOMAIN rulesHeld :
        /\ IsFiniteSet(Sharers(f)) /\ Sharers(f) # {}
        /\ rulesHeld[f].count = Cardinality(Sharers(f))
        /\ \E s \in Subscribers : /\ AcceptedRequest(s) /\ FingerprintOf(s) = f
                                  /\ rulesHeld[f].rule = ProcessRule(asked[s])

\* Who is open runs the rule that is held for it.
OpenInv ==
    \A s \in Subscribers : subscriber[s] = "open" =>
        FingerprintOf(s) \in DOMAIN rulesHeld /\ ruleOf[s] = rulesHeld[FingerprintOf(s)].rule

SentInv ==
    /\ message \in Payloads \cup {NoMessage} /\ DOMAIN sentTo = Subscribers
    /\ \A s \in Subscribers : sentTo[s] # NoMessage =>
          subscriber[s] = "open" /\ message # NoMessage /\ sentTo[s] = Filtered(ruleOf[s], message)

RulesInv == RequestsInv /\ HeldInv /\ OpenInv /\ SentInv

LEMMA RulesInvInit == RulesInit => RulesInv
<1>1. RulesInit => DOMAIN rulesHeld = {}
    BY DEF RulesInit
<1> QED
    BY <1>1 DEF RulesInit, RulesInv, RequestsInv, HeldInv, OpenInv, SentInv, AcceptedRequest

\* A sharer counts once.
LEMMA SharersCounted ==
    ASSUME RulesInv, NEW f \in DOMAIN rulesHeld
    PROVE  rulesHeld[f].count \in Nat /\ rulesHeld[f].count > 0
<1>1. IsFiniteSet(Sharers(f)) /\ Sharers(f) # {} /\ rulesHeld[f].count = Cardinality(Sharers(f))
    BY DEF RulesInv, HeldInv
<1>2. Cardinality(Sharers(f)) \in Nat /\ Cardinality(Sharers(f)) # 0
    BY <1>1, FS_CardinalityType, FS_EmptySet
<1> QED
    BY <1>1, <1>2

LEMMA SubscribesInv ==
    ASSUME RulesInv, NEW s \in Subscribers, NEW ask \in RuleRequests, Subscribes(s, ask)
    PROVE  RulesInv'
<1>1. subscriber[s] = "none" /\ ~AcceptedRequest(s) /\ asked' = [asked EXCEPT ![s] = ask]
      /\ sentTo' = sentTo /\ message' = message
    BY DEF Subscribes, AcceptedRequest
<1>2. \A r \in Subscribers \ {s} : asked'[r] = asked[r]
    BY <1>1
<1>3. asked'[s] = ask /\ DOMAIN asked' = Subscribers
    BY <1>1 DEF RulesInv, RequestsInv
<1>4. CASE ~WellFormed(ask.where)
  <2>1. subscriber' = [subscriber EXCEPT ![s] = "refused"] /\ ruleOf' = ruleOf /\ rulesHeld' = rulesHeld
    BY <1>4 DEF Subscribes
  <2>2. subscriber'[s] = "refused" /\ \A r \in Subscribers \ {s} : subscriber'[r] = subscriber[r]
    BY <2>1 DEF RulesInv, RequestsInv
  <2>3. RequestsInv'
    BY <1>2, <1>3, <2>1, <2>2 DEF RulesInv, RequestsInv, AcceptedRequest
  <2>4. \A r \in Subscribers : (AcceptedRequest(r)' => AcceptedRequest(r)) /\ (AcceptedRequest(r) => AcceptedRequest(r)' /\ r # s)
    BY <1>1, <2>2 DEF AcceptedRequest
  <2>5. \A f : Sharers(f)' = Sharers(f)
    BY <1>1, <1>2, <2>2 DEF Sharers, FingerprintOf
  <2>6. HeldInv'
    BY <1>2, <2>1, <2>4, <2>5 DEF RulesInv, HeldInv, FingerprintOf
  <2>7. OpenInv'
    BY <1>2, <2>1, <2>2 DEF RulesInv, OpenInv, FingerprintOf
  <2>8. SentInv'
    BY <1>1, <2>1, <2>2 DEF RulesInv, SentInv
  <2> QED
    BY <2>3, <2>6, <2>7, <2>8 DEF RulesInv
<1>5. CASE WellFormed(ask.where)
  <2> DEFINE rule == ProcessRule(ask)
             F == CreateFingerprint(rule)
             entry == IF F \in DOMAIN rulesHeld THEN [rulesHeld[F] EXCEPT !.count = @ + 1]
                                               ELSE [count |-> 1, rule |-> rule]
  <2>1. /\ subscriber' = [subscriber EXCEPT ![s] = "open"]
        /\ rulesHeld' = [f \in DOMAIN rulesHeld \cup {F} |-> IF f = F THEN entry ELSE rulesHeld[f]]
        /\ ruleOf' = [ruleOf EXCEPT ![s] = entry.rule]
    BY <1>5 DEF Subscribes, AddRule
  <2>2. subscriber'[s] = "open" /\ \A r \in Subscribers \ {s} : subscriber'[r] = subscriber[r]
    BY <2>1 DEF RulesInv, RequestsInv
  <2>3. DOMAIN ruleOf' = Subscribers /\ ruleOf'[s] = entry.rule
        /\ \A r \in Subscribers \ {s} : ruleOf'[r] = ruleOf[r]
    BY <2>1 DEF RulesInv, RequestsInv
  <2>4. FingerprintOf(s)' = F /\ \A r \in Subscribers \ {s} : FingerprintOf(r)' = FingerprintOf(r)
    BY <1>2, <1>3 DEF FingerprintOf
  <2>5. /\ DOMAIN rulesHeld' = DOMAIN rulesHeld \cup {F} /\ rulesHeld'[F] = entry
        /\ \A f \in DOMAIN rulesHeld \ {F} : rulesHeld'[f] = rulesHeld[f]
    BY <2>1
  <2>6. /\ F \in DOMAIN rulesHeld => entry.rule = rulesHeld[F].rule /\ entry.count = rulesHeld[F].count + 1
        /\ F \notin DOMAIN rulesHeld => entry.rule = rule /\ entry.count = 1
    OBVIOUS
  <2> HIDE DEF entry, F, rule
  <2>7. RequestsInv'
    <3>1. subscriber' \in [Subscribers -> {"none", "open", "refused", "gone"}]
      BY <2>1 DEF RulesInv, RequestsInv
    <3> QED
      BY <1>2, <1>3, <1>5, <2>2, <2>3, <3>1 DEF RulesInv, RequestsInv, AcceptedRequest
  <2>8. s \notin Sharers(F) /\ Sharers(F)' = Sharers(F) \cup {s}
    BY <1>1, <2>2, <2>4 DEF Sharers
  <2>9. \A f : f # F => Sharers(f)' = Sharers(f)
    BY <1>1, <2>2, <2>4 DEF Sharers
  <2>10. HeldInv'
    <3>1. SUFFICES ASSUME NEW f \in DOMAIN rulesHeld'
                   PROVE  /\ IsFiniteSet(Sharers(f)') /\ Sharers(f)' # {}
                          /\ rulesHeld'[f].count = Cardinality(Sharers(f)')
                          /\ \E r \in Subscribers : /\ AcceptedRequest(r)' /\ FingerprintOf(r)' = f
                                                    /\ rulesHeld'[f].rule = ProcessRule(asked'[r])
      BY DEF HeldInv
    <3>2. \A r \in Subscribers : AcceptedRequest(r) => AcceptedRequest(r)' /\ r # s
      BY <1>1, <2>2 DEF AcceptedRequest
    <3>3. CASE f # F
      <4>1. f \in DOMAIN rulesHeld /\ rulesHeld'[f] = rulesHeld[f] /\ Sharers(f)' = Sharers(f)
        BY <2>5, <2>9, <3>3
      <4>2. PICK r \in Subscribers : /\ AcceptedRequest(r) /\ FingerprintOf(r) = f
                                     /\ rulesHeld[f].rule = ProcessRule(asked[r])
        BY <4>1 DEF RulesInv, HeldInv
      <4>3. AcceptedRequest(r)' /\ FingerprintOf(r)' = f /\ asked'[r] = asked[r]
        BY <1>2, <2>4, <3>2, <4>2
      <4> QED
        BY <4>1, <4>2, <4>3 DEF RulesInv, HeldInv
    <3>4. CASE f = F /\ F \in DOMAIN rulesHeld
      <4>1. IsFiniteSet(Sharers(F)) /\ rulesHeld[F].count = Cardinality(Sharers(F))
        BY <3>4 DEF RulesInv, HeldInv
      <4>2. IsFiniteSet(Sharers(F)') /\ Cardinality(Sharers(F)') = Cardinality(Sharers(F)) + 1
        BY <2>8, <4>1, FS_AddElement
      <4>3. PICK r \in Subscribers : /\ AcceptedRequest(r) /\ FingerprintOf(r) = F
                                     /\ rulesHeld[F].rule = ProcessRule(asked[r])
        BY <3>4 DEF RulesInv, HeldInv
      <4>4. AcceptedRequest(r)' /\ FingerprintOf(r)' = F /\ asked'[r] = asked[r]
        BY <1>2, <2>4, <3>2, <4>3
      <4> QED
        BY <2>5, <2>6, <2>8, <3>4, <4>1, <4>2, <4>3, <4>4
    <3>5. CASE f = F /\ F \notin DOMAIN rulesHeld
      <4>1. Sharers(F) = {}
        BY <3>5 DEF RulesInv, OpenInv, Sharers
      <4>2. Sharers(F)' = {s}
        BY <2>8, <4>1
      <4>3. IsFiniteSet({s}) /\ Cardinality({s}) = 1
        BY FS_Singleton
      <4>4. AcceptedRequest(s)' /\ rulesHeld'[F].rule = ProcessRule(asked'[s])
        BY <1>3, <2>2, <2>5, <2>6, <3>5 DEF AcceptedRequest, rule
      <4> QED
        BY <2>4, <2>5, <2>6, <3>5, <4>2, <4>3, <4>4
    <3> QED
      BY <3>3, <3>4, <3>5
  <2>11. OpenInv'
    <3>1. SUFFICES ASSUME NEW r \in Subscribers, subscriber'[r] = "open"
                   PROVE  /\ FingerprintOf(r)' \in DOMAIN rulesHeld'
                          /\ ruleOf'[r] = rulesHeld'[FingerprintOf(r)'].rule
      BY DEF OpenInv
    <3>2. CASE r = s
      BY <2>3, <2>4, <2>5, <3>2
    <3>3. CASE r # s
      <4>1. FingerprintOf(r) \in DOMAIN rulesHeld /\ ruleOf[r] = rulesHeld[FingerprintOf(r)].rule
        BY <2>2, <3>1, <3>3 DEF RulesInv, OpenInv
      <4>2. FingerprintOf(r)' = FingerprintOf(r) /\ ruleOf'[r] = ruleOf[r]
        BY <2>3, <2>4, <3>3
      <4> HIDE DEF FingerprintOf
      <4>3. CASE FingerprintOf(r) = F
        BY <2>5, <2>6, <4>1, <4>2, <4>3
      <4>4. CASE FingerprintOf(r) # F
        BY <2>5, <4>1, <4>2, <4>4
      <4> QED
        BY <4>3, <4>4
    <3> QED
      BY <3>2, <3>3
  <2>12. SentInv'
    BY <1>1, <2>2, <2>3 DEF RulesInv, SentInv
  <2> QED
    BY <2>7, <2>10, <2>11, <2>12 DEF RulesInv
<1> QED
    BY <1>4, <1>5

LEMMA UnsubscribesInv ==
    ASSUME RulesInv, NEW s \in Subscribers, Unsubscribes(s)
    PROVE  RulesInv'
<1> DEFINE F == FingerprintOf(s)
           count == rulesHeld[F].count
<1>1. subscriber[s] = "open" /\ subscriber' = [subscriber EXCEPT ![s] = "gone"]
      /\ sentTo' = [sentTo EXCEPT ![s] = NoMessage]
      /\ asked' = asked /\ ruleOf' = ruleOf /\ message' = message
    BY DEF Unsubscribes
<1>2. subscriber'[s] = "gone" /\ \A r \in Subscribers \ {s} : subscriber'[r] = subscriber[r]
    BY <1>1 DEF RulesInv, RequestsInv
<1>3. rulesHeld' = IF count > 1 THEN [rulesHeld EXCEPT ![F].count = count - 1]
                   ELSE [f \in DOMAIN rulesHeld \ {F} |-> rulesHeld[f]]
    BY DEF Unsubscribes, RemoveRule, FingerprintOf
<1>4. F \in DOMAIN rulesHeld
    BY <1>1 DEF RulesInv, OpenInv
<1>5. \A r : FingerprintOf(r)' = FingerprintOf(r)
    BY <1>1 DEF FingerprintOf
<1>6. \A r \in Subscribers : AcceptedRequest(r)' = AcceptedRequest(r)
    BY <1>1, <1>2 DEF AcceptedRequest
<1>7. s \in Sharers(F) /\ Sharers(F)' = Sharers(F) \ {s}
    BY <1>1, <1>2, <1>5 DEF Sharers
<1>8. \A f : f # F => Sharers(f)' = Sharers(f)
    BY <1>1, <1>2, <1>5 DEF Sharers
<1>f. F' = F
    BY <1>5
<1> HIDE DEF F, count
<1>9. /\ IsFiniteSet(Sharers(F)) /\ count = Cardinality(Sharers(F)) /\ count \in Nat /\ count > 0
    BY <1>4, SharersCounted DEF RulesInv, HeldInv, count
<1>10. IsFiniteSet(Sharers(F)') /\ Cardinality(Sharers(F)') = count - 1
    BY <1>7, <1>9, FS_RemoveElement
<1>11. ASSUME NEW f \in DOMAIN rulesHeld'
       PROVE  /\ f \in DOMAIN rulesHeld /\ rulesHeld'[f].rule = rulesHeld[f].rule
              /\ f # F => rulesHeld'[f].count = rulesHeld[f].count
              /\ f = F => count > 1 /\ rulesHeld'[f].count = count - 1
    BY <1>3, <1>4
<1>12. \A f \in DOMAIN rulesHeld : f # F \/ count > 1 => f \in DOMAIN rulesHeld'
    BY <1>3
<1>13. RequestsInv'
  <2>1. subscriber' \in [Subscribers -> {"none", "open", "refused", "gone"}]
    BY <1>1 DEF RulesInv, RequestsInv
  <2> QED
    BY <1>1, <1>6, <2>1 DEF RulesInv, RequestsInv
<1>14. HeldInv'
  <2>1. SUFFICES ASSUME NEW f \in DOMAIN rulesHeld'
                 PROVE  /\ IsFiniteSet(Sharers(f)') /\ Sharers(f)' # {}
                        /\ rulesHeld'[f].count = Cardinality(Sharers(f)')
                        /\ \E r \in Subscribers : /\ AcceptedRequest(r)' /\ FingerprintOf(r)' = f
                                                  /\ rulesHeld'[f].rule = ProcessRule(asked'[r])
    BY DEF HeldInv
  <2>2. \E r \in Subscribers : /\ AcceptedRequest(r)' /\ FingerprintOf(r)' = f
                               /\ rulesHeld'[f].rule = ProcessRule(asked'[r])
    BY <1>1, <1>5, <1>6, <1>11 DEF RulesInv, HeldInv
  <2>3. CASE f # F
    BY <1>8, <1>11, <2>2, <2>3 DEF RulesInv, HeldInv
  <2>4. CASE f = F
    <3>1. count > 1 /\ rulesHeld'[f].count = count - 1
      BY <1>11, <2>4
    <3>2. Sharers(F)' # {}
      BY <1>9, <1>10, <3>1, FS_EmptySet
    <3> QED
      BY <1>f, <1>10, <2>2, <2>4, <3>1, <3>2
  <2> QED
    BY <2>3, <2>4
<1>15. OpenInv'
  <2>1. SUFFICES ASSUME NEW r \in Subscribers, subscriber'[r] = "open"
                 PROVE  /\ FingerprintOf(r)' \in DOMAIN rulesHeld'
                        /\ ruleOf'[r] = rulesHeld'[FingerprintOf(r)'].rule
    BY DEF OpenInv
  <2>2. r # s /\ subscriber[r] = "open"
    BY <1>2, <2>1
  <2>3. FingerprintOf(r) \in DOMAIN rulesHeld /\ ruleOf[r] = rulesHeld[FingerprintOf(r)].rule
    BY <2>2 DEF RulesInv, OpenInv
  <2>4. FingerprintOf(r) = F => count > 1
    <3>1. SUFFICES ASSUME FingerprintOf(r) = F, count = 1 PROVE FALSE
      BY <1>9
    <3>2. r \in Sharers(F)'
      BY <1>7, <2>2, <3>1 DEF Sharers
    <3> QED
      BY <1>9, <1>10, <3>1, <3>2, FS_EmptySet
  <2>5. FingerprintOf(r) \in DOMAIN rulesHeld'
    BY <1>12, <2>3, <2>4
  <2> QED
    BY <1>1, <1>5, <1>11, <2>3, <2>5
<1>16. SentInv'
  <2>0. DOMAIN sentTo' = Subscribers
    BY <1>1 DEF RulesInv, SentInv
  <2>1. SUFFICES ASSUME NEW r \in Subscribers, sentTo'[r] # NoMessage
                 PROVE  subscriber'[r] = "open" /\ message # NoMessage
                        /\ sentTo'[r] = Filtered(ruleOf[r], message)
    BY <2>0, <1>1 DEF RulesInv, SentInv
  <2>2. r # s /\ sentTo'[r] = sentTo[r]
    BY <1>1, <2>1 DEF RulesInv, SentInv
  <2> QED
    BY <1>2, <2>1, <2>2 DEF RulesInv, SentInv
<1> QED
    BY <1>13, <1>14, <1>15, <1>16 DEF RulesInv

LEMMA BroadcastsInv ==
    ASSUME RulesInv, NEW payload \in Payloads, Broadcasts(payload)
    PROVE  RulesInv'
<1>1. message' = payload /\ subscriber' = subscriber /\ asked' = asked /\ ruleOf' = ruleOf
      /\ rulesHeld' = rulesHeld
      /\ sentTo' = [s \in Subscribers |->
                       IF subscriber[s] = "open" THEN Filtered(ruleOf[s], payload) ELSE NoMessage]
    BY DEF Broadcasts
<1>2. RequestsInv'
    BY <1>1 DEF RulesInv, RequestsInv, AcceptedRequest
<1>3. \A f : Sharers(f)' = Sharers(f)
    BY <1>1 DEF Sharers, FingerprintOf
<1>4. HeldInv'
    BY <1>1, <1>3 DEF RulesInv, HeldInv, AcceptedRequest, FingerprintOf
<1>5. OpenInv'
    BY <1>1 DEF RulesInv, OpenInv, FingerprintOf
<1>6. SentInv'
    BY <1>1, RulesAssumption DEF SentInv, ShapesAreKept
<1> QED
    BY <1>2, <1>4, <1>5, <1>6 DEF RulesInv

LEMMA RulesInvStep == RulesInv /\ [RulesNext]_ruleVars => RulesInv'
<1> SUFFICES ASSUME RulesInv, [RulesNext]_ruleVars PROVE RulesInv'
    OBVIOUS
<1>1. CASE \E s \in Subscribers, fields \in FieldLists, where \in Wheres :
              Subscribes(s, [fields |-> fields, where |-> where])
    BY <1>1, SubscribesInv DEF RuleRequests
<1>2. CASE \E s \in Subscribers : Unsubscribes(s)
    BY <1>2, UnsubscribesInv
<1>3. CASE \E payload \in Payloads : Broadcasts(payload)
    BY <1>3, BroadcastsInv
<1>4. CASE UNCHANGED ruleVars
  <2>1. subscriber' = subscriber /\ asked' = asked /\ ruleOf' = ruleOf
        /\ rulesHeld' = rulesHeld /\ sentTo' = sentTo /\ message' = message
    BY <1>4 DEF ruleVars
  <2>2. \A f : Sharers(f)' = Sharers(f)
    BY <2>1 DEF Sharers, FingerprintOf
  <2>3. HeldInv'
    BY <2>1, <2>2 DEF RulesInv, HeldInv, AcceptedRequest, FingerprintOf
  <2> QED
    BY <2>1, <2>3 DEF RulesInv, RequestsInv, OpenInv, SentInv, AcceptedRequest, FingerprintOf
<1> QED
    BY <1>1, <1>2, <1>3, <1>4 DEF RulesNext

LEMMA RulesInvAlways == RulesSpec => []RulesInv
BY RulesInvInit, RulesInvStep, PTL DEF RulesSpec

\* A rule is held as long as somebody open uses it, and whoever is open runs the rule that is
\* held (ProcessingRuleManager: addRule, removeRule).
THEOREM RulesFollowSubscribers == RulesSpec => [](HeldInv /\ OpenInv)
BY RulesInvAlways, PTL DEF RulesInv

\* Shapes of the state of the rules: the counts among them never reach zero.
LEMMA RulesTypeFromInv == RulesInv => RulesTypeOK
BY SharersCounted DEF RulesInv, RequestsInv, SentInv, RulesTypeOK

THEOREM RulesTypeCorrect == RulesSpec => []RulesTypeOK
BY RulesInvAlways, RulesTypeFromInv, PTL

\* Nobody can tell that rules are shared, whoever came before and whoever left, if no value and no
\* group of fields holds a comma (createFingerprint; addRule hands out the rule of the first who came).
THEOREM SharedRulesAreInvisible == RulesSpec => []SharingIsInvisible
<1>1. RulesInv => SharingIsInvisible
  <2> SUFFICES ASSUME RulesInv, NEW s \in Subscribers, sentTo[s] # NoMessage,
                      \A r \in Subscribers : ~HoldsComma(r) /\ ~GroupsFields(r)
               PROVE  sentTo[s] = Filtered(ProcessRule(asked[s]), message)
    BY DEF SharingIsInvisible
  <2>1. subscriber[s] = "open" /\ sentTo[s] = Filtered(ruleOf[s], message)
    BY DEF RulesInv, SentInv
  <2>2. FingerprintOf(s) \in DOMAIN rulesHeld /\ ruleOf[s] = rulesHeld[FingerprintOf(s)].rule
    BY <2>1 DEF RulesInv, OpenInv
  <2>3. PICK r \in Subscribers : /\ AcceptedRequest(r) /\ FingerprintOf(r) = FingerprintOf(s)
                                 /\ rulesHeld[FingerprintOf(s)].rule = ProcessRule(asked[r])
    BY <2>2 DEF RulesInv, HeldInv
  <2>4. ASSUME NEW q \in Subscribers, AcceptedRequest(q)
        PROVE  RuleIsTold(ProcessRule(asked[q]))
    <3>1. asked[q] \in RuleRequests /\ WellFormed(asked[q].where)
      BY <2>4 DEF RulesInv, RequestsInv
    <3>2. HasNoComma(asked[q])
      BY <2>4 DEF HoldsComma, HasNoComma, AcceptedRequest
    <3>3. GroupsAreClosed(asked[q].fields)
      BY <2>4 DEF GroupsFields, GroupsAreClosed, AcceptedRequest
    <3> QED
      BY <3>1, <3>2, <3>3, RequestIsTold
  <2>5. RuleIsTold(ProcessRule(asked[r])) /\ RuleIsTold(ProcessRule(asked[s]))
    BY <2>1, <2>3, <2>4 DEF AcceptedRequest
  <2>6. CreateFingerprint(ProcessRule(asked[r])) = CreateFingerprint(ProcessRule(asked[s]))
    BY <2>3 DEF FingerprintOf
  <2>7. Filtered(ProcessRule(asked[r]), message) = Filtered(ProcessRule(asked[s]), message)
    BY <2>5, <2>6, SameFingerprint
  <2> QED
    BY <2>1, <2>2, <2>3, <2>7
<1> QED
    BY <1>1, RulesInvAlways, PTL

-----------------------------------------------------------------------------
(* Each service behaves as it does alone *)

servicesVars ==
    <<subject, agentVars, eventVars, storerVars, fileVars, certVars, batchVars, reportVars, retrieverVars,
      queryVars, ftpVars, telegrafVars, outputVars, ejbcaVars, keycloakVars, ruleVars>>

\* The services begin as each of them does.
LEMMA ServicesBegin ==
    ServicesInit =>
        /\ HttpInit /\ DeviceEventsInit /\ StorerInit /\ FileInit /\ CertInit
        /\ BatchInit /\ ReportsInit /\ RetrieverInit /\ DataInit /\ FtpInit
        /\ TelegrafInit /\ OutputsInit /\ EjbcaInit /\ KeycloakInit /\ RulesInit
        /\ subject \in Subjects
BY Zenon DEF ServicesInit

\* A step of the services is, for each of them, one of its own or none.
LEMMA ServicesMove ==
    ASSUME [ServicesNext]_servicesVars
    PROVE  /\ [HttpNext]_agentVars /\ [DeviceEventsNext]_eventVars /\ [StorerNext]_storerVars
           /\ [FileNext]_fileVars /\ [CertNext]_certVars /\ [BatchNext]_batchVars
           /\ [ReportsNext]_reportVars /\ [RetrieverNext]_retrieverVars /\ [DataNext]_queryVars
           /\ [FtpNext]_ftpVars /\ [TelegrafNext]_telegrafVars /\ [OutputsNext]_outputVars
           /\ [EjbcaNext]_ejbcaVars /\ [KeycloakNext]_keycloakVars /\ [RulesNext]_ruleVars
           /\ subject' = subject
<1>1. CASE UNCHANGED servicesVars
    <2>1. /\ UNCHANGED <<subject, agentVars, eventVars, storerVars, fileVars, certVars, batchVars, reportVars>>
          /\ UNCHANGED <<retrieverVars, queryVars, ftpVars, telegrafVars, outputVars, ejbcaVars, keycloakVars, ruleVars>>
        BY <1>1, Zenon DEF servicesVars
    <2> QED
        BY <2>1
<1>2. CASE ServicesNext
    <2>0. subject' = subject /\ OthersRest
        BY <1>2 DEF ServicesNext
    <2>1. [HttpNext]_agentVars
        <3>1. CASE subject = "http-agent"
            BY <1>2, <3>1, Zenon DEF ServicesNext
        <3>2. CASE subject # "http-agent"
            BY <2>0, <3>2, Zenon DEF OthersRest
        <3> QED
            BY <3>1, <3>2
    <2>2. [DeviceEventsNext]_eventVars
        <3>1. CASE subject = "x509-identity-mgmt"
            BY <1>2, <3>1, Zenon DEF ServicesNext
        <3>2. CASE subject # "x509-identity-mgmt"
            BY <2>0, <3>2, Zenon DEF OthersRest
        <3> QED
            BY <3>1, <3>2
    <2>3. [StorerNext]_storerVars
        <3>1. CASE subject = "storer"
            BY <1>2, <3>1, Zenon DEF ServicesNext
        <3>2. CASE subject # "storer"
            BY <2>0, <3>2, Zenon DEF OthersRest
        <3> QED
            BY <3>1, <3>2
    <2>4. [FileNext]_fileVars
        <3>1. CASE subject = "file-mgmt"
            BY <1>2, <3>1, Zenon DEF ServicesNext
        <3>2. CASE subject # "file-mgmt"
            BY <2>0, <3>2, Zenon DEF OthersRest
        <3> QED
            BY <3>1, <3>2
    <2>5. [CertNext]_certVars
        <3>1. CASE subject = "cert-sidecar"
            BY <1>2, <3>1, Zenon DEF ServicesNext
        <3>2. CASE subject # "cert-sidecar"
            BY <2>0, <3>2, Zenon DEF OthersRest
        <3> QED
            BY <3>1, <3>2
    <2>6. [BatchNext]_batchVars
        <3>1. CASE subject = "device-manager-batch"
            BY <1>2, <3>1, Zenon DEF ServicesNext
        <3>2. CASE subject # "device-manager-batch"
            BY <2>0, <3>2, Zenon DEF OthersRest
        <3> QED
            BY <3>1, <3>2
    <2>7. [ReportsNext]_reportVars
        <3>1. CASE subject = "report-manager"
            BY <1>2, <3>1, Zenon DEF ServicesNext
        <3>2. CASE subject # "report-manager"
            BY <2>0, <3>2, Zenon DEF OthersRest
        <3> QED
            BY <3>1, <3>2
    <2>8. [RetrieverNext]_retrieverVars
        <3>1. CASE subject = "retriever"
            BY <1>2, <3>1, Zenon DEF ServicesNext
        <3>2. CASE subject # "retriever"
            BY <2>0, <3>2, Zenon DEF OthersRest
        <3> QED
            BY <3>1, <3>2
    <2>9. [DataNext]_queryVars
        <3>1. CASE subject \in Queries
            BY <1>2, <3>1, Zenon DEF ServicesNext, Queries, DataNext
        <3>2. CASE subject \notin Queries
            BY <2>0, <3>2, Zenon DEF OthersRest
        <3> QED
            BY <3>1, <3>2
    <2>10. [FtpNext]_ftpVars
        <3>1. CASE subject = "kafka2ftp"
            BY <1>2, <3>1, Zenon DEF ServicesNext
        <3>2. CASE subject # "kafka2ftp"
            BY <2>0, <3>2, Zenon DEF OthersRest
        <3> QED
            BY <3>1, <3>2
    <2>11. [TelegrafNext]_telegrafVars
        <3>1. CASE subject = "telegraf"
            BY <1>2, <3>1, Zenon DEF ServicesNext
        <3>2. CASE subject # "telegraf"
            BY <2>0, <3>2, Zenon DEF OthersRest
        <3> QED
            BY <3>1, <3>2
    <2>12. [OutputsNext]_outputVars
        <3>1. CASE subject = "telegraf outputs"
            BY <1>2, <3>1, Zenon DEF ServicesNext
        <3>2. CASE subject # "telegraf outputs"
            BY <2>0, <3>2, Zenon DEF OthersRest
        <3> QED
            BY <3>1, <3>2
    <2>13. [EjbcaNext]_ejbcaVars
        <3>1. CASE subject = "ejbca"
            BY <1>2, <3>1, Zenon DEF ServicesNext
        <3>2. CASE subject # "ejbca"
            BY <2>0, <3>2, Zenon DEF OthersRest
        <3> QED
            BY <3>1, <3>2
    <2>14. [KeycloakNext]_keycloakVars
        <3>1. CASE subject = "keycloak"
            BY <1>2, <3>1, Zenon DEF ServicesNext
        <3>2. CASE subject # "keycloak"
            BY <2>0, <3>2, Zenon DEF OthersRest
        <3> QED
            BY <3>1, <3>2
    <2>15. [RulesNext]_ruleVars
        <3>1. CASE subject = "kafka-ws"
            BY <1>2, <3>1, Zenon DEF ServicesNext
        <3>2. CASE subject # "kafka-ws"
            BY <2>0, <3>2, Zenon DEF OthersRest
        <3> QED
            BY <3>1, <3>2
    <2> QED
        BY <2>0, <2>1, <2>2, <2>3, <2>4, <2>5, <2>6, <2>7, <2>8, <2>9, <2>10, <2>11, <2>12, <2>13, <2>14, <2>15
<1> QED
    BY <1>1, <1>2

\* In a behaviour of all the services, each of them behaves as its specification says: what is proved of one
\* alone holds of it here, where the properties of them all are checked.
LEMMA ServicesBehaveAsAlone ==
    ServicesSpec =>
        /\ HttpSpec /\ DeviceEventsSpec /\ StorerSpec /\ FileSpec /\ CertSpec
        /\ BatchSpec /\ ReportsSpec /\ RetrieverSpec /\ DataSpec /\ FtpSpec
        /\ TelegrafSpec /\ OutputsSpec /\ EjbcaSpec /\ KeycloakSpec /\ RulesSpec
<1>1. ServicesSpec => HttpSpec
    BY ServicesBegin, ServicesMove, PTL DEF ServicesSpec, servicesVars, HttpSpec
<1>2. ServicesSpec => DeviceEventsSpec
    BY ServicesBegin, ServicesMove, PTL DEF ServicesSpec, servicesVars, DeviceEventsSpec
<1>3. ServicesSpec => StorerSpec
    BY ServicesBegin, ServicesMove, PTL DEF ServicesSpec, servicesVars, StorerSpec
<1>4. ServicesSpec => FileSpec
    BY ServicesBegin, ServicesMove, PTL DEF ServicesSpec, servicesVars, FileSpec
<1>5. ServicesSpec => CertSpec
    BY ServicesBegin, ServicesMove, PTL DEF ServicesSpec, servicesVars, CertSpec
<1>6. ServicesSpec => BatchSpec
    BY ServicesBegin, ServicesMove, PTL DEF ServicesSpec, servicesVars, BatchSpec
<1>7. ServicesSpec => ReportsSpec
    BY ServicesBegin, ServicesMove, PTL DEF ServicesSpec, servicesVars, ReportsSpec
<1>8. ServicesSpec => RetrieverSpec
    BY ServicesBegin, ServicesMove, PTL DEF ServicesSpec, servicesVars, RetrieverSpec
<1>9. ServicesSpec => DataSpec
    BY ServicesBegin, ServicesMove, PTL DEF ServicesSpec, servicesVars, DataSpec
<1>10. ServicesSpec => FtpSpec
    BY ServicesBegin, ServicesMove, PTL DEF ServicesSpec, servicesVars, FtpSpec
<1>11. ServicesSpec => TelegrafSpec
    BY ServicesBegin, ServicesMove, PTL DEF ServicesSpec, servicesVars, TelegrafSpec
<1>12. ServicesSpec => OutputsSpec
    BY ServicesBegin, ServicesMove, PTL DEF ServicesSpec, servicesVars, OutputsSpec
<1>13. ServicesSpec => EjbcaSpec
    BY ServicesBegin, ServicesMove, PTL DEF ServicesSpec, servicesVars, EjbcaSpec
<1>14. ServicesSpec => KeycloakSpec
    BY ServicesBegin, ServicesMove, PTL DEF ServicesSpec, servicesVars, KeycloakSpec
<1>15. ServicesSpec => RulesSpec
    BY ServicesBegin, ServicesMove, PTL DEF ServicesSpec, servicesVars, RulesSpec
<1> QED
    BY <1>1, <1>2, <1>3, <1>4, <1>5, <1>6, <1>7, <1>8, <1>9, <1>10, <1>11, <1>12, <1>13, <1>14, <1>15

\* Whichever service moves has its variables in their types (the invariant of the run of all the services).
THEOREM ServicesTypeCorrect == ServicesSpec => []ServicesTypeOK
<1> DEFINE Typed ==
        /\ HttpTypeOK /\ DeviceEventsTypeOK /\ StorerTypeOK /\ FileTypeOK /\ CertTypeOK
        /\ BatchTypeOK /\ ReportsTypeOK /\ RetrieverTypeOK /\ DataTypeOK /\ FtpTypeOK
        /\ TelegrafTypeOK /\ OutputsTypeOK /\ EjbcaTypeOK /\ KeycloakTypeOK /\ RulesTypeOK
<1>1. Typed /\ subject \in Subjects => ServicesTypeOK
    BY Zenon DEF ServicesTypeOK, Subjects, Queries
<1>2. ServicesSpec => [](subject \in Subjects)
    <2>1. subject \in Subjects /\ [ServicesNext]_servicesVars => (subject \in Subjects)'
        BY ServicesMove DEF Subjects
    <2> QED
        BY <2>1, ServicesBegin, PTL DEF ServicesSpec, servicesVars
<1>3. ServicesSpec => []HttpTypeOK
    BY ServicesBehaveAsAlone, HttpTypeCorrect
<1>4. ServicesSpec => []DeviceEventsTypeOK
    BY ServicesBehaveAsAlone, DeviceEventsTypeCorrect
<1>5. ServicesSpec => []StorerTypeOK
    BY ServicesBehaveAsAlone, StorerTypeCorrect
<1>6. ServicesSpec => []FileTypeOK
    BY ServicesBehaveAsAlone, FileTypeCorrect
<1>7. ServicesSpec => []CertTypeOK
    BY ServicesBehaveAsAlone, CertTypeCorrect
<1>8. ServicesSpec => []BatchTypeOK
    BY ServicesBehaveAsAlone, BatchTypeCorrect
<1>9. ServicesSpec => []ReportsTypeOK
    BY ServicesBehaveAsAlone, ReportsTypeCorrect
<1>10. ServicesSpec => []RetrieverTypeOK
    BY ServicesBehaveAsAlone, RetrieverTypeCorrect
<1>11. ServicesSpec => []DataTypeOK
    BY ServicesBehaveAsAlone, DataTypeCorrect
<1>12. ServicesSpec => []FtpTypeOK
    BY ServicesBehaveAsAlone, FtpTypeCorrect
<1>13. ServicesSpec => []TelegrafTypeOK
    BY ServicesBehaveAsAlone, TelegrafTypeCorrect
<1>14. ServicesSpec => []OutputsTypeOK
    BY ServicesBehaveAsAlone, OutputsTypeCorrect
<1>15. ServicesSpec => []EjbcaTypeOK
    BY ServicesBehaveAsAlone, EjbcaTypeCorrect
<1>16. ServicesSpec => []KeycloakTypeOK
    BY ServicesBehaveAsAlone, KeycloakTypeCorrect
<1>17. ServicesSpec => []RulesTypeOK
    BY ServicesBehaveAsAlone, RulesTypeCorrect
<1> QED
    BY <1>1, <1>2, <1>3, <1>4, <1>5, <1>6, <1>7, <1>8, <1>9, <1>10, <1>11, <1>12, <1>13, <1>14, <1>15, <1>16, <1>17, PTL

\* What each service promises it keeps among the others: the properties of the run of all the services.
THEOREM ServicesKeepPromises ==
    ServicesSpec =>
        /\ []DecisionsAreSound /\ []OwnersExisted /\ []PointsAreKept
        /\ []BucketsAreSound /\ []FilesFollowProcess /\ []RemovalsAreFinal
        /\ []ReportsHaveTheirFile /\ []RemovedDevicesForgotten /\ []ConnectionsAreExclusive
        /\ []SlotsAreReturned /\ []MetricsReachTheirOrganization /\ []AuthorityIsInStep
        /\ []PagesCoverTheRange /\ []RealmsAreAsAnnounced /\ []SharingIsInvisible
        /\ StoresAtomically
BY ServicesBehaveAsAlone, FileMgmtImplementsStore,
   DecisionsStaySound, OwnersAreDevices, PointsStayKept, BucketsStaySound, FilesStayInStep,
   RemovalsStayFinal, ReportsKeepTheirFile, RemovedStayForgotten, ConnectionsStayExclusive, SlotsStayReturned,
   MetricsReachOrganizations, AuthorityStaysInStep, PagesCover, RealmsStayAsAnnounced, SharedRulesAreInvisible

=============================================================================
