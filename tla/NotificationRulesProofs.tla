------------------------ MODULE NotificationRulesProofs ------------------------
(***************************************************************************)
(* What the ordering and the selection of a report do with any finite set  *)
(* of findings: the lemmas about NotificationRules that the proofs of      *)
(* Screening and IssuePublication share.                                   *)
(***************************************************************************)
EXTENDS NotificationRules, FiniteSetTheorems, FunctionTheorems, WellFoundedInduction, TLAPS

(* A set of naturals that is not empty has a least element.                   *)
LEMMA LeastNatural ==
    ASSUME NEW T, T \subseteq Nat, T # {}
    PROVE  \E x \in T : \A y \in T : x <= y
<1>1. IsWellFoundedOn({ss \in Nat \X Nat : ss[1] < ss[2]}, Nat)
  BY NatLessThanWellFounded DEF OpToRel
<1>2. PICK x \in T : \A y \in T : ~ (<<y, x>> \in {ss \in Nat \X Nat : ss[1] < ss[2]})
  BY <1>1, WFMin
<1>3. \A y \in T : ~ (y < x)
  BY <1>2
<1> QED BY <1>3

(* What a run hands to the selection: one finding per repository.             *)
Comparable(S) ==
    \A f \in S : /\ f.score \in Int /\ f.gem \in Int
                 /\ f.parts.novelty \in Int /\ f.parts.visibility \in Int /\ f.parts.activity \in Int
OnePerGem(S)  == \A f, g \in S : f.gem = g.gem => f = g
Findings(S)   == IsFiniteSet(S) /\ Comparable(S) /\ OnePerGem(S)

Place(S) == [f \in S |-> Cardinality(Ahead(S, f))]

(* Tuples of six integers compare lexicographically, which is an order.       *)
Precedes(f, g) ==
    \/ f.score > g.score
    \/ /\ f.score = g.score
       /\ \/ Rank(f) < Rank(g)
          \/ /\ Rank(f) = Rank(g)
             /\ \/ f.parts.novelty > g.parts.novelty
                \/ /\ f.parts.novelty = g.parts.novelty
                   /\ \/ f.parts.visibility > g.parts.visibility
                      \/ /\ f.parts.visibility = g.parts.visibility
                         /\ \/ f.parts.activity > g.parts.activity
                            \/ f.parts.activity = g.parts.activity /\ f.gem < g.gem

LEMMA KeysCompare ==
    ASSUME NEW S, Comparable(S), NEW f \in S, NEW g \in S
    PROVE  Before(f, g) <=> Precedes(f, g)
<1> DEFINE x == Key(f)  y == Key(g)
           first(i) == x[i] < y[i] /\ \A k \in 1..(i - 1) : x[k] = y[k]
<1>1. /\ x[1] = -f.score /\ x[2] = Rank(f) /\ x[3] = -f.parts.novelty /\ x[4] = -f.parts.visibility
      /\ x[5] = -f.parts.activity /\ x[6] = f.gem
      /\ y[1] = -g.score /\ y[2] = Rank(g) /\ y[3] = -g.parts.novelty /\ y[4] = -g.parts.visibility
      /\ y[5] = -g.parts.activity /\ y[6] = g.gem
  BY DEF Key
<1>2. /\ f.score \in Int /\ f.parts.novelty \in Int /\ f.parts.visibility \in Int /\ f.parts.activity \in Int
      /\ g.score \in Int /\ g.parts.novelty \in Int /\ g.parts.visibility \in Int /\ g.parts.activity \in Int
      /\ f.gem \in Int /\ g.gem \in Int
  BY DEF Comparable
<1> HIDE DEF x, y
<1>3. Before(f, g) <=> \E i \in 1..6 : first(i)
  BY DEF Before, x, y
<1>4. 1..6 = {1, 2, 3, 4, 5, 6}
  OBVIOUS
<1>5. 1..(1 - 1) = {} /\ 1..(2 - 1) = {1} /\ 1..(3 - 1) = {1, 2} /\ 1..(4 - 1) = {1, 2, 3}
      /\ 1..(5 - 1) = {1, 2, 3, 4} /\ 1..(6 - 1) = {1, 2, 3, 4, 5}
  OBVIOUS
<1>6. /\ first(1) <=> x[1] < y[1]
      /\ first(2) <=> x[2] < y[2] /\ x[1] = y[1]
      /\ first(3) <=> x[3] < y[3] /\ x[1] = y[1] /\ x[2] = y[2]
      /\ first(4) <=> x[4] < y[4] /\ x[1] = y[1] /\ x[2] = y[2] /\ x[3] = y[3]
      /\ first(5) <=> x[5] < y[5] /\ x[1] = y[1] /\ x[2] = y[2] /\ x[3] = y[3] /\ x[4] = y[4]
      /\ first(6) <=> x[6] < y[6] /\ x[1] = y[1] /\ x[2] = y[2] /\ x[3] = y[3] /\ x[4] = y[4] /\ x[5] = y[5]
  BY <1>5
<1>7. (\E i \in 1..6 : first(i)) <=> first(1) \/ first(2) \/ first(3) \/ first(4) \/ first(5) \/ first(6)
  BY <1>4, Zenon
<1> HIDE DEF first
<1> QED
  BY <1>1, <1>2, <1>3, <1>6, <1>7 DEF Precedes

LEMMA BeforeIsAnOrder ==
    ASSUME NEW S, Comparable(S), NEW f \in S, NEW g \in S, NEW h \in S
    PROVE  /\ ~Before(f, f)
           /\ Before(f, g) => ~Before(g, f)
           /\ Before(f, g) /\ Before(g, h) => Before(f, h)
           /\ f.gem # g.gem => Before(f, g) \/ Before(g, f)
<1>1. ASSUME NEW x PROVE Rank(x) \in Int
  BY DEF Rank
<1>2. Rank(f) \in Int /\ Rank(g) \in Int /\ Rank(h) \in Int
  BY <1>1
<1> DEFINE typed(a) == /\ a.score \in Int /\ Rank(a) \in Int /\ a.parts.novelty \in Int
                       /\ a.parts.visibility \in Int /\ a.parts.activity \in Int /\ a.gem \in Int
<1>3. typed(f) /\ typed(g) /\ typed(h)
  BY <1>2 DEF Comparable
<1>4. \A a, b \in S : Before(a, b) <=> Precedes(a, b)
  BY KeysCompare, Zenon
<1>5. Precedes(f, g) => ~Precedes(g, f)
  BY <1>3 DEF Precedes
<1>6. ~Precedes(f, f)
  BY <1>3 DEF Precedes
<1>7. Precedes(f, g) /\ Precedes(g, h) => Precedes(f, h)
  BY <1>3 DEF Precedes
<1>8. f.gem # g.gem => Precedes(f, g) \/ Precedes(g, f)
  BY <1>3 DEF Precedes
<1> HIDE DEF typed
<1> QED
  BY <1>4, <1>5, <1>6, <1>7, <1>8

LEMMA SubsetOfFindings ==
    ASSUME NEW S, Findings(S), NEW T \in SUBSET S
    PROVE  Findings(T)
  BY FS_Subset DEF Findings, Comparable, OnePerGem

LEMMA AheadIsFinite ==
    ASSUME NEW S, Findings(S), NEW f \in S
    PROVE  /\ IsFiniteSet(Ahead(S, f)) /\ Cardinality(Ahead(S, f)) \in Nat
           /\ Cardinality(Ahead(S, f)) < Cardinality(S)
<1>1. Ahead(S, f) \in SUBSET S /\ f \notin Ahead(S, f) /\ IsFiniteSet(S)
  BY BeforeIsAnOrder DEF Ahead, Findings
<1>2. IsFiniteSet(Ahead(S, f)) /\ Cardinality(Ahead(S, f)) <= Cardinality(S)
      /\ Cardinality(Ahead(S, f)) # Cardinality(S)
  BY <1>1, FS_Subset
<1> QED
  BY <1>1, <1>2, FS_CardinalityType

LEMMA AheadGrows ==
    ASSUME NEW S, Findings(S), NEW f \in S, NEW g \in S, Before(f, g)
    PROVE  Cardinality(Ahead(S, f)) < Cardinality(Ahead(S, g))
<1>1. Ahead(S, f) \in SUBSET Ahead(S, g)
  <2> SUFFICES ASSUME NEW x \in S, Before(x, f)
               PROVE  Before(x, g)
    BY DEF Ahead
  <2> QED
    BY BeforeIsAnOrder DEF Findings
<1>2. f \in Ahead(S, g) /\ f \notin Ahead(S, f)
  BY BeforeIsAnOrder DEF Ahead, Findings
<1>3. IsFiniteSet(Ahead(S, g)) /\ Cardinality(Ahead(S, g)) \in Nat /\ Cardinality(Ahead(S, f)) \in Nat
  BY AheadIsFinite
<1>4. /\ Cardinality(Ahead(S, f)) <= Cardinality(Ahead(S, g))
      /\ Cardinality(Ahead(S, f)) # Cardinality(Ahead(S, g))
  BY <1>1, <1>2, <1>3, FS_Subset
<1> QED
  BY <1>3, <1>4

LEMMA AheadTells ==
    ASSUME NEW S, Findings(S), NEW f \in S, NEW g \in S,
           Cardinality(Ahead(S, f)) <= Cardinality(Ahead(S, g)), f # g
    PROVE  Before(f, g)
<1>1. f.gem # g.gem
  BY DEF Findings, OnePerGem
<1>2. Before(f, g) \/ Before(g, f)
  BY <1>1, BeforeIsAnOrder DEF Findings
<1>3. CASE Before(g, f)
  <2>1. Cardinality(Ahead(S, g)) < Cardinality(Ahead(S, f))
    BY <1>3, AheadGrows
  <2> QED
    BY <2>1, AheadIsFinite
<1> QED
  BY <1>2, <1>3

(* Every place is taken, by one finding. *)
LEMMA PlacesAreTaken ==
    ASSUME NEW S, Findings(S)
    PROVE  /\ Cardinality(S) \in Nat
           /\ \A i \in 0..(Cardinality(S) - 1) : \E f \in S : Cardinality(Ahead(S, f)) = i
           /\ \A f, g \in S : Cardinality(Ahead(S, f)) = Cardinality(Ahead(S, g)) => f = g
<1> DEFINE n == Cardinality(S)
<1>1. n \in Nat /\ IsFiniteSet(S)
  BY FS_CardinalityType DEF Findings
<1>2. Place(S) \in [S -> 0..(n - 1)]
  <2>1. ASSUME NEW f \in S
        PROVE  Cardinality(Ahead(S, f)) \in 0..(n - 1)
    BY <1>1, AheadIsFinite
  <2> QED
    BY <2>1 DEF Place
<1>3. \A f, g \in S : Place(S)[f] = Place(S)[g] => f = g
  <2> SUFFICES ASSUME NEW f \in S, NEW g \in S, Cardinality(Ahead(S, f)) = Cardinality(Ahead(S, g)), f # g
               PROVE  FALSE
    BY DEF Place
  <2>1. Before(f, g) /\ Before(g, f)
    BY AheadTells, AheadIsFinite
  <2> QED
    BY <2>1, BeforeIsAnOrder DEF Findings
<1>4. Place(S) \in Injection(S, 0..(n - 1))
  BY <1>2, <1>3, Fun_IsInj
<1>5. IsFiniteSet(0..(n - 1)) /\ Cardinality(0..(n - 1)) = n
  <2>1. 0 \in Int /\ n - 1 \in Int
    BY <1>1
  <2>2. Cardinality(0..(n - 1)) = IF 0 > n - 1 THEN 0 ELSE (n - 1) - 0 + 1
    BY <2>1, FS_Interval
  <2> QED
    BY <1>1, <2>1, <2>2, FS_Interval
<1>6. Place(S) \in Surjection(S, 0..(n - 1))
  BY <1>4, <1>5, FS_Injection
<1>7. ASSUME NEW i \in 0..(n - 1)
      PROVE  \E f \in S : Cardinality(Ahead(S, f)) = i
  <2>1. PICK f \in S : Place(S)[f] = i
    BY <1>6 DEF Surjection
  <2> QED
    BY <2>1 DEF Place
<1> QED
  BY <1>1, <1>3, <1>7 DEF Place

(* sorted(..., key=ordering_key): the same findings, the better ones first.   *)
LEMMA InOrderSorts ==
    ASSUME NEW S, Findings(S)
    PROVE  /\ InOrder(S) \in Seq(S) /\ Len(InOrder(S)) = Cardinality(S)
           /\ ToSet(InOrder(S)) = S
           /\ \A i, k \in DOMAIN InOrder(S) : i < k => Before(InOrder(S)[i], InOrder(S)[k])
<1> DEFINE n == Cardinality(S)
           e == InOrder(S)
<1>1. n \in Nat
  BY PlacesAreTaken
<1>2. ASSUME NEW i \in 1..n
      PROVE  e[i] \in S /\ Cardinality(Ahead(S, e[i])) = i - 1
  <2>1. i - 1 \in 0..(n - 1)
    BY <1>1
  <2>2. \E f \in S : Cardinality(Ahead(S, f)) = i - 1
    BY <2>1, PlacesAreTaken
  <2>3. e[i] = CHOOSE f \in S : Cardinality(Ahead(S, f)) = i - 1
    BY DEF InOrder
  <2> QED
    BY <2>2, <2>3
<1>3. e \in [1..n -> S]
  BY <1>2 DEF InOrder
<1>4. e \in Seq(S) /\ Len(e) = n /\ DOMAIN e = 1..n
  BY <1>1, <1>3
<1>5. ToSet(e) = S
  <2>1. ToSet(e) \subseteq S
    BY <1>2, <1>4 DEF ToSet
  <2>2. ASSUME NEW f \in S
        PROVE  f \in ToSet(e)
    <3> DEFINE p == Cardinality(Ahead(S, f))
    <3>1. p \in Nat /\ p < n
      BY AheadIsFinite
    <3>2. p + 1 \in 1..n
      BY <1>1, <3>1
    <3>3. e[p + 1] \in S /\ Cardinality(Ahead(S, e[p + 1])) = p
      BY <1>2, <3>1, <3>2
    <3>4. e[p + 1] = f
      BY <3>3, PlacesAreTaken
    <3> QED
      BY <1>4, <3>2, <3>4 DEF ToSet
  <2> QED
    BY <2>1, <2>2
<1>6. ASSUME NEW i \in 1..n, NEW k \in 1..n, i < k
      PROVE  Before(e[i], e[k])
  <2>1. i - 1 < k - 1 /\ i - 1 <= k - 1 /\ i - 1 # k - 1
    BY <1>6, <1>1
  <2>2. e[i] # e[k]
    BY <1>2, <2>1
  <2> HIDE DEF e
  <2> QED
    BY <1>2, <2>1, <2>2, AheadTells
<1> QED
  BY <1>4, <1>5, <1>6

LEMMA TopIsBounded ==
    ASSUME NEW S, Findings(S), NEW n \in Nat
    PROVE  /\ Top(S, n) \in SUBSET S /\ IsFiniteSet(Top(S, n))
           /\ Cardinality(Top(S, n)) \in Nat /\ Cardinality(Top(S, n)) <= n
<1> DEFINE T == Top(S, n)
<1>1. T \in SUBSET S /\ IsFiniteSet(S)
  BY DEF Top, Findings
<1>2. IsFiniteSet(T) /\ Cardinality(T) \in Nat
  BY <1>1, FS_Subset, FS_CardinalityType
<1> DEFINE place == [f \in T |-> Cardinality(Ahead(S, f))]
<1>3. place \in [T -> 0..(n - 1)]
  <2>1. ASSUME NEW f \in T
        PROVE  Cardinality(Ahead(S, f)) \in 0..(n - 1)
    BY <1>1, AheadIsFinite DEF Top
  <2> QED
    BY <2>1
<1>4. \A f, g \in T : place[f] = place[g] => f = g
  BY <1>1, PlacesAreTaken
<1>5. place \in Injection(T, 0..(n - 1))
  BY <1>3, <1>4, Fun_IsInj
<1>6. 0 \in Int /\ n - 1 \in Int
  OBVIOUS
<1>7. Cardinality(0..(n - 1)) = IF 0 > n - 1 THEN 0 ELSE (n - 1) - 0 + 1
  BY <1>6, FS_Interval
<1>8. IsFiniteSet(0..(n - 1)) /\ Cardinality(0..(n - 1)) = n
  BY <1>6, <1>7, FS_Interval
<1>9. Cardinality(T) <= Cardinality(0..(n - 1))
  BY <1>5, <1>8, FS_Injection
<1> QED
  BY <1>1, <1>2, <1>8, <1>9

(* Who is left out stands behind a full list. *)
LEMMA TopIsFull ==
    ASSUME NEW S, Findings(S), NEW n \in Nat, NEW f \in S \ Top(S, n)
    PROVE  /\ Cardinality(Top(S, n)) = n
           /\ \A t \in Top(S, n) : Before(t, f)
<1> DEFINE T == Top(S, n)
           m == Cardinality(S)
           place == [t \in T |-> Cardinality(Ahead(S, t))]
<1>1. T \in SUBSET S /\ IsFiniteSet(T) /\ Cardinality(T) \in Nat /\ Cardinality(T) <= n
  BY TopIsBounded
<1>2. m \in Nat
  BY PlacesAreTaken
<1>3. /\ Cardinality(Ahead(S, f)) \in Nat /\ Cardinality(Ahead(S, f)) < m
      /\ n <= Cardinality(Ahead(S, f))
  BY AheadIsFinite DEF Top
<1>4. place \in [T -> 0..(n - 1)]
  <2>1. ASSUME NEW t \in T
        PROVE  Cardinality(Ahead(S, t)) \in 0..(n - 1)
    BY <1>1, AheadIsFinite DEF Top
  <2> QED
    BY <2>1
<1>5. ASSUME NEW i \in 0..(n - 1)
      PROVE  \E t \in T : place[t] = i
  <2>1. i \in 0..(m - 1) /\ i < n
    BY <1>2, <1>3
  <2>2. PICK t \in S : Cardinality(Ahead(S, t)) = i
    BY <2>1, PlacesAreTaken
  <2>3. t \in T
    BY <2>1, <2>2 DEF Top
  <2> QED
    BY <2>2, <2>3
<1>6. place \in Surjection(T, 0..(n - 1))
  BY <1>4, <1>5, Fun_IsSurj
<1>7. 0 \in Int /\ n - 1 \in Int
  OBVIOUS
<1>8. Cardinality(0..(n - 1)) = IF 0 > n - 1 THEN 0 ELSE (n - 1) - 0 + 1
  BY <1>7, FS_Interval
<1>9. Cardinality(0..(n - 1)) = n /\ n <= Cardinality(T)
  <2>1. Cardinality(0..(n - 1)) <= Cardinality(T)
    BY <1>1, <1>6, FS_Surjection
  <2> QED
    BY <1>8, <2>1
<1>10. ASSUME NEW t \in T
       PROVE  Before(t, f)
  <2>1. /\ t \in S /\ t # f
        /\ Cardinality(Ahead(S, t)) \in Nat /\ Cardinality(Ahead(S, t)) < n
    BY <1>1, AheadIsFinite DEF Top
  <2>2. Cardinality(Ahead(S, t)) <= Cardinality(Ahead(S, f))
    BY <1>3, <2>1
  <2> QED
    BY <2>1, <2>2, AheadTells
<1> QED
  BY <1>1, <1>9, <1>10

-----------------------------------------------------------------------------
(* The report of the findings S is the list s.                                *)
Normals(s) == {i \in DOMAIN s : s[i].score < ExtraMinScore}

IsTheBest(s, S) ==
    /\ Len(s) <= AbsoluteMax
    /\ Cardinality(Normals(s)) <= NormalMax
    /\ ToSet(s) \subseteq S
    /\ \A i, k \in DOMAIN s : i < k => Before(s[i], s[k])
    /\ \A f \in S \ ToSet(s) :
         \/ /\ Len(s) = AbsoluteMax
            /\ Before(s[AbsoluteMax], f)
         \/ /\ f.score < ExtraMinScore
            /\ Len(s) >= NormalMax
            /\ \A i \in Normals(s) : Before(s[i], f)

(* A list without repetitions has an entry for each of its members.           *)
LEMMA EntriesAreCounted ==
    ASSUME NEW s, NEW D, NEW N, IsFiniteSet(N),
           \A i \in D : s[i] \in N, \A i, k \in D : s[i] = s[k] => i = k
    PROVE  /\ IsFiniteSet(D) /\ Cardinality(D) <= Cardinality(N)
           /\ (\A f \in N : \E i \in D : s[i] = f) => Cardinality(D) = Cardinality(N)
<1> DEFINE entry == [i \in D |-> s[i]]
<1>1. entry \in [D -> N] /\ \A i \in D : entry[i] = s[i]
  OBVIOUS
<1> HIDE DEF entry
<1>2. entry \in Injection(D, N)
  BY <1>1, Fun_IsInj
<1>3. IsFiniteSet(D) /\ Cardinality(D) <= Cardinality(N)
  BY <1>2, FS_Injection
<1>4. ASSUME \A f \in N : \E i \in D : s[i] = f
      PROVE  Cardinality(D) = Cardinality(N)
  <2>1. entry \in Surjection(D, N)
    BY <1>1, <1>4, Fun_IsSurj
  <2>2. Cardinality(N) <= Cardinality(D)
    BY <1>3, <2>1, FS_Surjection
  <2>3. Cardinality(D) \in Nat /\ Cardinality(N) \in Nat
    BY <1>3, FS_CardinalityType
  <2> QED
    BY <1>3, <2>2, <2>3
<1> QED
  BY <1>3, <1>4

(* select_report_candidates: neither limit is exceeded, and what is left out  *)
(* stands behind a limit that better findings use up.                         *)
LEMMA SelectionIsTheBest ==
    ASSUME RulesAssumption, NEW S, Findings(S)
    PROVE  IsTheBest(InOrder(Selected(S)), S)
<1> DEFINE E == Exceptional(S)
           N == Top(S \ E, NormalMax)
           U == N \union E
           T == Top(U, AbsoluteMax)
           s == InOrder(T)
           D == Normals(s)
<1>1. /\ NormalMax \in Nat \ {0} /\ AbsoluteMax \in Nat \ {0} /\ ExtraMinScore \in Nat
  BY DEF RulesAssumption
<1>2. E \in SUBSET S /\ Findings(S \ E)
  BY SubsetOfFindings DEF Exceptional
<1>3. N \in SUBSET (S \ E) /\ IsFiniteSet(N) /\ Cardinality(N) \in Nat /\ Cardinality(N) <= NormalMax
  BY <1>1, <1>2, TopIsBounded
<1>4. U \in SUBSET S /\ Findings(U)
  BY <1>2, <1>3, SubsetOfFindings
<1>5. T \in SUBSET U /\ Findings(T) /\ Cardinality(T) \in Nat /\ Cardinality(T) <= AbsoluteMax
  BY <1>1, <1>4, TopIsBounded, SubsetOfFindings
<1>6. /\ s \in Seq(T) /\ Len(s) = Cardinality(T) /\ ToSet(s) = T
      /\ \A i, k \in DOMAIN s : i < k => Before(s[i], s[k])
  BY <1>5, InOrderSorts
<1>7. \A f \in S : f.score \in Int /\ (f \in E <=> f.score >= ExtraMinScore)
  BY DEF Findings, Comparable, Exceptional
<1>8. N \subseteq S /\ N \intersect E = {} /\ T \subseteq S
  BY <1>3, <1>4, <1>5
<1> HIDE DEF s, T, U, N, E, D
<1>9. DOMAIN s = 1..Len(s) /\ Len(s) \in Nat /\ \A i \in DOMAIN s : s[i] \in T
  BY <1>6
<1>10. \A i \in D : i \in DOMAIN s /\ s[i] \in N
  <2> SUFFICES ASSUME NEW i \in D
               PROVE  i \in DOMAIN s /\ s[i] \in N
    OBVIOUS
  <2>1. i \in DOMAIN s /\ s[i] \in T /\ s[i].score < ExtraMinScore
    BY <1>9 DEF Normals, D
  <2>2. s[i] \notin E
    BY <1>1, <1>7, <1>8, <2>1
  <2> QED
    BY <1>5, <2>1, <2>2 DEF U
<1>11. \A i, k \in D : s[i] = s[k] => i = k
  <2> SUFFICES ASSUME NEW i \in D, NEW k \in D, s[i] = s[k], i # k
               PROVE  FALSE
    OBVIOUS
  <2>1. i \in DOMAIN s /\ k \in DOMAIN s /\ (i < k \/ k < i)
    BY <1>9, <1>10
  <2>2. Before(s[i], s[i])
    BY <1>6, <2>1
  <2> QED
    BY <1>5, <1>9, <2>1, <2>2, BeforeIsAnOrder DEF Findings
<1>12. IsFiniteSet(D) /\ Cardinality(D) <= Cardinality(N)
       /\ ((\A f \in N : \E i \in D : s[i] = f) => Cardinality(D) = Cardinality(N))
  BY <1>3, <1>10, <1>11, EntriesAreCounted
<1>13. Cardinality(D) <= NormalMax
  BY <1>1, <1>3, <1>12, FS_CardinalityType
<1>14. ASSUME NEW f \in S \ T
       PROVE  \/ Len(s) = AbsoluteMax /\ Before(s[AbsoluteMax], f)
              \/ /\ f.score < ExtraMinScore
                 /\ Cardinality(D) = NormalMax
                 /\ \A i \in D : Before(s[i], f)
  <2>1. ASSUME NEW u \in U \ T, Before(u, f) \/ u = f
        PROVE  Len(s) = AbsoluteMax /\ Before(s[AbsoluteMax], f)
    <3>1. Cardinality(T) = AbsoluteMax /\ \A t \in T : Before(t, u)
      BY <1>1, <1>4, TopIsFull DEF T
    <3>2. Len(s) = AbsoluteMax /\ s[AbsoluteMax] \in T
      BY <1>1, <1>6, <1>9, <3>1
    <3>3. Before(s[AbsoluteMax], u) /\ s[AbsoluteMax] \in S /\ u \in S /\ f \in S
      BY <1>4, <1>8, <3>1, <3>2
    <3> QED
      BY <2>1, <3>2, <3>3, BeforeIsAnOrder DEF Findings
  <2>2. CASE f \in U
    BY <2>1, <2>2
  <2>3. CASE f \notin U
    <3>1. f \in (S \ E) \ N /\ f.score < ExtraMinScore
      BY <1>1, <1>7, <2>3 DEF U
    <3>2. Cardinality(N) = NormalMax /\ \A n \in N : Before(n, f)
      BY <1>1, <1>2, <3>1, TopIsFull DEF N
    <3>3. CASE N \subseteq T
      <4>1. ASSUME NEW n \in N
            PROVE  \E i \in D : s[i] = n
        <5>1. n \in ToSet(s) /\ n.score < ExtraMinScore
          BY <1>1, <1>6, <1>7, <1>8, <3>3
        <5> QED
          BY <5>1 DEF ToSet, Normals, D
      <4> QED
        BY <1>10, <1>12, <3>1, <3>2, <4>1
    <3>4. CASE ~ (N \subseteq T)
      <4>1. PICK n \in N : n \notin T
        BY <3>4
      <4> QED
        BY <2>1, <3>2, <4>1 DEF U
    <3> QED
      BY <3>3, <3>4
  <2> QED
    BY <2>2, <2>3
<1>15. Len(s) <= AbsoluteMax
  BY <1>5, <1>6
<1>16. Cardinality(D) <= Len(s)
  <2>1. D \subseteq 1..Len(s)
    BY <1>9, <1>10
  <2>2. IsFiniteSet(1..Len(s)) /\ Cardinality(1..Len(s)) = Len(s)
    BY <1>9, FS_Interval
  <2> QED
    BY <2>1, <2>2, FS_Subset
<1>17. ToSet(s) \subseteq S /\ ToSet(s) = T
  BY <1>6, <1>8
<1>18. IsTheBest(s, S)
  BY <1>1, <1>6, <1>9, <1>12, <1>13, <1>14, <1>15, <1>16, <1>17, FS_CardinalityType DEF IsTheBest, D
<1> QED
  BY <1>18 DEF Selected, s, T, U, N, E
================================================================================
