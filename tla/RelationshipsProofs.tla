------------------------- MODULE RelationshipsProofs -------------------------
(***************************************************************************)
(* For any plan, budget and answers of GitHub: discovery stays within its  *)
(* raw budget and keeps each candidate once, and what the exploration adds *)
(* is new to the run; and the reason it gives for stopping is true.        *)
(***************************************************************************)
EXTENDS Relationships, FiniteSetTheorems, SequenceTheorems, TLAPS

(* The candidates of discovery: each once, each with the queries that found   *)
(* it, and room for one more while the loop goes on.                          *)
Ordered   == found \in Seq(Repos) /\ DOMAIN matched = Repos
Distinct  == IsFiniteSet(ToSet(found)) /\ Cardinality(ToSet(found)) = Len(found)
Explained == \A r \in Repos : r \in ToSet(found) <=> matched[r] # {}
Room      == Len(found) <= RawBudget /\ (pc # "done" => Len(found) < RawBudget)
Listed    == Ordered /\ Distinct /\ Explained /\ Room

(* An exploration only adds what it does not exclude, and excludes all of it. *)
Excluding == /\ stage = "discovery" => collected = {}
             /\ stage \in {"source", "links"} => ToSet(found) \subseteq known
             /\ RelatedAreNew

LEMMA AppendElements ==
    ASSUME NEW S, NEW s \in Seq(S), NEW x \in S
    PROVE  /\ Append(s, x) \in Seq(S) /\ Len(Append(s, x)) = Len(s) + 1
           /\ ToSet(Append(s, x)) = ToSet(s) \union {x}
<1>1. /\ Append(s, x) \in Seq(S) /\ Len(Append(s, x)) = Len(s) + 1
      /\ DOMAIN s = 1..Len(s) /\ DOMAIN Append(s, x) = 1..(Len(s) + 1) /\ Len(s) \in Nat
      /\ \A i \in 1..Len(s) : Append(s, x)[i] = s[i]
      /\ Append(s, x)[Len(s) + 1] = x
  OBVIOUS
<1>2. ASSUME NEW y \in ToSet(Append(s, x))
      PROVE  y \in ToSet(s) \union {x}
  <2>1. PICK i \in 1..(Len(s) + 1) : y = Append(s, x)[i]
    BY <1>1, <1>2 DEF ToSet
  <2>2. i = Len(s) + 1 \/ i \in 1..Len(s)
    BY <1>1
  <2> QED
    BY <1>1, <2>1, <2>2 DEF ToSet
<1>3. ASSUME NEW y \in ToSet(s) \union {x}
      PROVE  y \in ToSet(Append(s, x))
  <2>1. Len(s) + 1 \in 1..(Len(s) + 1) /\ 1..Len(s) \subseteq 1..(Len(s) + 1)
    BY <1>1
  <2>2. CASE y = x
    BY <1>1, <2>1, <2>2 DEF ToSet
  <2>3. CASE y \in ToSet(s)
    BY <1>1, <2>1, <2>3 DEF ToSet
  <2> QED
    BY <1>3, <2>2, <2>3
<1> QED
  BY <1>1, <1>2, <1>3

LEMMA RecordLists ==
    ASSUME Listed, NEW r \in Repos, Record(r)
    PROVE  Listed'
<1>1. Len(found) \in Nat /\ RawBudget \in Nat /\ Len(found) < RawBudget
  BY DiscoveryAssumption DEF Listed, Ordered, Room, Record, DiscoveryAssumption
<1>2. /\ found' \in Seq(Repos) /\ Len(found') \in Nat /\ Len(found') <= Len(found) + 1
      /\ ToSet(found') = ToSet(found) \union {r}
      /\ IsFiniteSet(ToSet(found')) /\ Cardinality(ToSet(found')) = Len(found')
  <2>1. CASE Seen(r)
    BY <1>1, <2>1 DEF Listed, Ordered, Distinct, Record, Seen
  <2>2. CASE ~Seen(r)
    <3>1. found' = Append(found, r)
      BY <2>2 DEF Record
    <3>2. /\ found' \in Seq(Repos) /\ Len(found') = Len(found) + 1
          /\ ToSet(found') = ToSet(found) \union {r}
      BY <3>1, AppendElements DEF Listed, Ordered
    <3>3. /\ IsFiniteSet(ToSet(found) \union {r})
          /\ Cardinality(ToSet(found) \union {r}) = Cardinality(ToSet(found)) + 1
      BY <2>2, FS_AddElement DEF Listed, Distinct, Seen
    <3> QED
      BY <1>1, <3>2, <3>3 DEF Listed, Distinct
  <2> QED
    BY <2>1, <2>2
<1>3. matched' = [matched EXCEPT ![r] = matched[r] \union {Last(sent)}]
  BY DEF Record
<1>4. Ordered'
  BY <1>2, <1>3 DEF Listed, Ordered
<1>5. Explained'
  <2> SUFFICES ASSUME NEW q \in Repos
               PROVE  q \in ToSet(found') <=> matched'[q] # {}
    BY DEF Explained
  <2>1. CASE q = r
    BY <1>2, <1>3, <2>1 DEF Listed, Ordered
  <2>2. CASE q # r
    BY <1>2, <1>3, <2>2 DEF Listed, Ordered, Explained
  <2> QED
    BY <2>1, <2>2
<1>6. Room'
  <2>1. CASE Len(found') >= RawBudget
    BY <1>1, <1>2, <2>1 DEF Record, Full, Room
  <2>2. CASE ~(Len(found') >= RawBudget)
    BY <1>1, <1>2, <2>2 DEF Room
  <2> QED
    BY <2>1, <2>2
<1> QED
  BY <1>2, <1>4, <1>5, <1>6 DEF Listed, Distinct

LEMMA DiscoveryLists ==
    ASSUME Listed, DiscoveryNext
    PROVE  Listed'
<1>1. CASE \E r \in Repos : Record(r)
  BY <1>1, RecordLists
<1>2. CASE Begin \/ StoppedByZone \/ Answer \/ Limited \/ Denied \/ Failed \/ Skip \/ NextQuery \/ AllAsked
  <2>1. UNCHANGED <<found, matched>> /\ (pc' # "done" => pc # "done")
    BY <1>2 DEF Begin, StoppedByZone, Stop, Answer, Limited, Denied, Failed, Skip, NextQuery,
                AllAsked, MaySend
  <2> QED
    BY <2>1 DEF Listed, Ordered, Distinct, Explained, Room
<1> QED
  BY <1>1, <1>2 DEF DiscoveryNext

LEMMA ExplorationLists ==
    ASSUME Listed, Analyse \/ Explore
    PROVE  Listed' /\ found' = found
<1>1. UNCHANGED <<found, matched, pc>>
  BY DEF Analyse, Explore, NextSeed, AskOwner, ReadLinks, FollowLink, SourceDone,
         ExplorationLimited, ExplorationFailed, discoveryVars
<1> QED
  BY <1>1 DEF Listed, Ordered, Distinct, Explained, Room

LEMMA AlwaysListed == Spec => []Listed
<1>1. Init => Listed
  <2> SUFFICES ASSUME Init
               PROVE  Listed
    OBVIOUS
  <2>1. found = <<>> /\ matched = [r \in Repos |-> {}]
    BY DEF Init, DiscoveryInit
  <2>2. ToSet(<<>>) = {}
    BY DEF ToSet
  <2>3. Len(<<>>) = 0 /\ Cardinality({}) = 0 /\ IsFiniteSet({})
    BY FS_EmptySet
  <2>4. 0 < RawBudget /\ 0 <= RawBudget
    BY DiscoveryAssumption DEF DiscoveryAssumption
  <2>5. Ordered
    BY <2>1 DEF Ordered
  <2>6. Distinct
    BY <2>1, <2>2, <2>3 DEF Distinct
  <2>7. Explained
    BY <2>1, <2>2 DEF Explained
  <2>8. Room
    BY <2>1, <2>3, <2>4 DEF Room
  <2> QED
    BY <2>5, <2>6, <2>7, <2>8 DEF Listed
<1>2. Listed /\ [Next]_vars => Listed'
  <2>1. ASSUME Listed, UNCHANGED vars
        PROVE  Listed'
    BY <2>1 DEF Listed, Ordered, Distinct, Explained, Room, vars, discoveryVars
  <2> QED
    BY <2>1, DiscoveryLists, ExplorationLists DEF Next, Discover
<1> QED
  BY <1>1, <1>2, PTL DEF Spec

(* run_discovery: the raw candidate budget bounds what the run looks at,      *)
(* however the pages of the queries overlap, and no repository counts twice.  *)
THEOREM BudgetAlwaysHolds == Spec => []BudgetHolds
<1>1. Listed => BudgetHolds
  BY DEF Listed, Distinct, Explained, Room, BudgetHolds
<1> QED
  BY <1>1, AlwaysListed, PTL

(* explore_relationships: no related candidate is one discovery had found.    *)
THEOREM RelatedAreAlwaysNew == Spec => []RelatedAreNew
<1>1. Init => Excluding
  BY DEF Init, Excluding, RelatedAreNew
<1>2. Excluding /\ [Next]_vars => Excluding'
  <2> SUFFICES ASSUME Excluding, [Next]_vars
               PROVE  Excluding'
    OBVIOUS
  <2>1. CASE Discover
    BY <2>1 DEF Discover, relVars, Excluding, RelatedAreNew
  <2>2. CASE Analyse
    BY <2>2 DEF Analyse, Excluding, RelatedAreNew
  <2>3. ASSUME Onward, found' = found, collected' \intersect ToSet(found) = {}
        PROVE  Excluding'
    <3>1. CASE Later # {}
      BY <2>3, <3>1 DEF Onward, Known, Excluding, RelatedAreNew
    <3>2. CASE Later = {}
      BY <2>3, <3>2 DEF Onward, Excluding, RelatedAreNew
    <3> QED
      BY <3>1, <3>2
  <2>4. CASE NextSeed
    BY <2>4 DEF NextSeed, discoveryVars, Known, Excluding, RelatedAreNew
  <2>5. CASE AskOwner
    <3>1. found' = found /\ collected' \intersect ToSet(found) = {} /\ Onward
      BY <2>5 DEF AskOwner, discoveryVars, Excluding, RelatedAreNew
    <3> QED
      BY <2>3, <3>1
  <2>6. CASE ReadLinks
    BY <2>6 DEF ReadLinks, discoveryVars, Excluding, RelatedAreNew
  <2>7. CASE FollowLink
    BY <2>7 DEF FollowLink, discoveryVars, Excluding, RelatedAreNew
  <2>8. CASE SourceDone
    <3>1. found' = found /\ collected' = collected /\ Onward
      BY <2>8 DEF SourceDone, discoveryVars
    <3> QED
      BY <2>3, <3>1 DEF Excluding, RelatedAreNew
  <2>9. CASE ExplorationLimited \/ ExplorationFailed
    BY <2>9 DEF ExplorationLimited, ExplorationFailed, discoveryVars, Excluding, RelatedAreNew
  <2>10. CASE UNCHANGED vars
    BY <2>10 DEF vars, discoveryVars, relVars, Excluding, RelatedAreNew
  <2> QED
    BY <2>1, <2>2, <2>4, <2>5, <2>6, <2>7, <2>8, <2>9, <2>10 DEF Next, Explore
<1>3. Excluding => RelatedAreNew
  BY DEF Excluding
<1> QED
  BY <1>1, <1>2, <1>3, PTL DEF Spec

-----------------------------------------------------------------------------
(* Arithmetic of the plan: what a quotient and a remainder are.               *)
LEMMA Quotient ==
    ASSUME NEW A \in Nat \ {0}, NEW s \in Nat
    PROVE  s = A * (s \div A) + (s % A) /\ s \div A \in Nat /\ s % A \in 0..(A - 1)
  OBVIOUS

LEMMA Remainder ==
    ASSUME NEW A \in Nat \ {0}, NEW s \in Nat, NEW q \in Nat, NEW r \in 0..(A - 1), s = A * q + r
    PROVE  s % A = r
  OBVIOUS

LEMMA QuotientInRange ==
    ASSUME NEW A \in Nat \ {0}, NEW T \in Nat \ {0}, NEW s \in 0..(A * T - 1)
    PROVE  s \div A \in 0..(T - 1)
  OBVIOUS

LEMMA EveryResidueIsMet ==
    ASSUME NEW B \in Nat \ {0}, NEW d \in Nat, NEW b \in 0..(B - 1)
    PROVE  \E s \in 0..(B - 1) : (d + s) % B = b
<1> DEFINE q == d \div B
           r == d % B
<1>1. d = B * q + r /\ q \in Nat /\ r \in 0..(B - 1)
  BY Quotient
<1>2. B * q \in Nat /\ B * (q + 1) = B * q + B /\ q + 1 \in Nat
  BY <1>1
<1> HIDE DEF q, r
<1>3. CASE b >= r
  <2>1. b - r \in 0..(B - 1) /\ d + (b - r) = B * q + b
    <3> DEFINE p == B * q
    <3>1. p \in Nat /\ d = p + r
      BY <1>1, <1>2
    <3> HIDE DEF p
    <3>2. b - r \in 0..(B - 1) /\ d + (b - r) = p + b
      BY <1>1, <1>3, <3>1
    <3> QED BY <3>2 DEF p
  <2> DEFINE s == b - r
             t == d + s
  <2>2. t = B * q + b /\ t \in Nat
    BY <1>1, <2>1
  <2> HIDE DEF t
  <2>3. t % B = b
    BY <1>1, <2>2, Remainder
  <2> QED BY <2>1, <2>3 DEF t
<1>4. CASE b < r
  <2>1. b + B - r \in 0..(B - 1) /\ d + (b + B - r) = B * (q + 1) + b
    <3> DEFINE p == B * q
    <3>1. p \in Nat /\ d = p + r /\ B * (q + 1) = p + B
      BY <1>1, <1>2
    <3> HIDE DEF p
    <3>2. b + B - r \in 0..(B - 1) /\ d + (b + B - r) = p + B + b
      BY <1>1, <1>4, <3>1
    <3> QED BY <3>1, <3>2
  <2> DEFINE s == b + B - r
             t == d + s
  <2>2. t = B * (q + 1) + b /\ t \in Nat
    BY <1>1, <2>1
  <2> HIDE DEF t
  <2>3. t % B = b
    BY <1>2, <2>2, Remainder
  <2> QED BY <2>1, <2>3 DEF t
<1> QED BY <1>1, <1>3, <1>4

(* The shape of the plan of a day: the core, query by query, then at least    *)
(* one rotating query.                                                        *)
NCore      == Cardinality(CoreSlots)
IsSeq(s)   == s \in Seq(ToSet(s))
Rotates(q) == q.channel = "INTERSECTION_SEARCH"

LEMMA CoreShape ==
    /\ NCore \in Nat \ {0} /\ CoreSlots = 0..(NCore - 1) /\ NCore = Len(Areas) * Len(Templates)
    /\ \A d : DOMAIN Core(d) = 1..NCore /\ \A i \in 1..NCore : Core(d)[i] = CoreQuery(d, i - 1)
<1> DEFINE n == Len(Templates) * Len(Areas)
<1>1. Len(Templates) \in Nat \ {0} /\ Len(Areas) \in Nat \ {0}
  BY DiscoveryAssumption DEF DiscoveryAssumption
<1>2. n \in Nat \ {0} /\ n = Len(Areas) * Len(Templates)
  BY <1>1
<1>3. CoreSlots = 0..(n - 1)
  BY DEF CoreSlots
<1> HIDE DEF n
<1>4. NCore = n
  <2>1. n - 1 >= 0 /\ n - 1 \in Int /\ (n - 1) - 0 + 1 = n
    BY <1>2
  <2> QED
    BY <1>3, <2>1, FS_Interval DEF NCore
<1>5. \A d : DOMAIN Core(d) = 1..NCore /\ \A i \in 1..NCore : Core(d)[i] = CoreQuery(d, i - 1)
  BY DEF Core, NCore
<1> QED
  BY <1>2, <1>3, <1>4, <1>5

LEMMA PlanShape ==
    ASSUME NEW d \in Days
    PROVE  /\ IsSeq(Core(d)) /\ IsSeq(Planned(d))
           /\ Len(Core(d)) = NCore /\ Len(Planned(d)) \in Nat /\ Len(Planned(d)) > NCore
           /\ \A i \in 1..NCore : Planned(d)[i] = Core(d)[i]
           /\ \A i \in (NCore + 1)..Len(Planned(d)) : Planned(d)[i].band = SlotBand(d, i - NCore - 1)
<1> DEFINE group == Groups[(d % Len(Groups)) + 1]
           c == Core(d)
           r == Rotating(d)
           S == ToSet(c) \union ToSet(r)
<1>1. d \in Nat /\ Len(Groups) \in Nat \ {0}
  BY DiscoveryAssumption DEF DiscoveryAssumption
<1>2. group \in Seq(SUBSET ToSet(Areas)) /\ group # <<>>
  <2>1. d % Len(Groups) \in 0..(Len(Groups) - 1)
    BY <1>1, Quotient
  <2>2. (d % Len(Groups)) + 1 \in 1..Len(Groups)
    BY <1>1, <2>1
  <2>3. Groups \in Seq(Seq(SUBSET ToSet(Areas)) \ {<<>>})
    BY DiscoveryAssumption DEF DiscoveryAssumption
  <2> QED
    BY <2>2, <2>3
<1> DEFINE m == Len(group)
<1>3. m \in Nat \ {0} /\ DOMAIN group = 1..m
  BY <1>2
<1>4. /\ DOMAIN r = 1..m
      /\ \A i \in 1..m : r[i].band = SlotBand(d, i - 1)
      /\ r = [i \in 1..m |-> r[i]]
  BY <1>3 DEF Rotating
<1>5. NCore \in Nat \ {0} /\ DOMAIN c = 1..NCore /\ c = [i \in 1..NCore |-> c[i]]
  BY CoreShape DEF Core, NCore
<1> HIDE DEF group, m, c, r, S
<1>6. c \in Seq(S) /\ r \in Seq(S) /\ Len(c) = NCore /\ Len(r) = m
  <2>1. (\A i \in 1..NCore : c[i] \in S) /\ (\A i \in 1..m : r[i] \in S)
    BY <1>4, <1>5 DEF S, ToSet
  <2>2. c \in [1..NCore -> S] /\ r \in [1..m -> S]
    BY <1>4, <1>5, <2>1
  <2> QED
    BY <1>3, <1>5, <2>2
<1>7. IsSeq(c)
  BY <1>5, <1>6 DEF IsSeq, ToSet
<1> DEFINE p == c \o r
<1>8. /\ p \in Seq(S) /\ Len(p) = NCore + m /\ DOMAIN p = 1..(NCore + m)
      /\ \A i \in 1..(NCore + m) : p[i] = IF i <= NCore THEN c[i] ELSE r[i - NCore]
  <2>1. /\ p \in Seq(S) /\ Len(p) = Len(c) + Len(r)
        /\ \A i \in 1..(Len(c) + Len(r)) : p[i] = IF i <= Len(c) THEN c[i] ELSE r[i - Len(c)]
    BY <1>6, ConcatProperties
  <2> HIDE DEF p
  <2> QED
    BY <1>6, <2>1
<1> HIDE DEF p
<1>9. IsSeq(p)
  <2>1. \A i \in 1..(NCore + m) : p[i] \in ToSet(p)
    BY <1>8 DEF ToSet
  <2>2. p \in [1..(NCore + m) -> ToSet(p)]
    BY <1>8, <2>1
  <2> QED
    BY <1>3, <1>5, <2>2 DEF IsSeq
<1>10. \A i \in 1..NCore : p[i] = c[i]
  BY <1>3, <1>5, <1>8
<1>11. ASSUME NEW i \in (NCore + 1)..(NCore + m)
       PROVE  p[i].band = SlotBand(d, i - NCore - 1)
  <2>1. i \in 1..(NCore + m) /\ ~(i <= NCore) /\ i - NCore \in 1..m
    BY <1>3, <1>5
  <2> QED
    BY <1>4, <1>8, <2>1
<1>12. Len(p) \in Nat /\ Len(p) > NCore
  BY <1>3, <1>5, <1>8
<1>13. Planned(d) = p /\ Core(d) = c
  BY DEF p, c, r, Planned
<1>14. \A i \in (NCore + 1)..Len(p) : p[i].band = SlotBand(d, i - NCore - 1)
  BY <1>8, <1>11
<1> QED
  BY <1>6, <1>7, <1>9, <1>10, <1>12, <1>13, <1>14

(* The shipped discovery.yml: no core template is the intersection search,    *)
(* which a YELLOW zone holds back.                                            *)
CorePlain == "INTERSECTION_SEARCH" \notin ToSet(Templates)

LEMMA CoreNeverRotates ==
    ASSUME CorePlain, NEW d, NEW i \in 1..NCore
    PROVE  ~Rotates(Core(d)[i])
<1>1. Len(Templates) \in Nat \ {0} /\ Len(Areas) \in Nat \ {0} /\ DOMAIN Templates = 1..Len(Templates)
  BY DiscoveryAssumption DEF DiscoveryAssumption
<1> DEFINE s == i - 1
           k == (s \div Len(Areas)) + 1
<1>2. s \in 0..(Len(Areas) * Len(Templates) - 1)
  BY CoreShape
<1>3. k \in 1..Len(Templates)
  <2> HIDE DEF s
  <2>1. s \div Len(Areas) \in 0..(Len(Templates) - 1)
    BY <1>1, <1>2, QuotientInRange
  <2> QED
    BY <1>1, <2>1
<1>4. Core(d)[i].channel = Templates[k]
  <2>1. Core(d)[i] = CoreQuery(d, s)
    BY CoreShape
  <2>2. CoreQuery(d, s).channel = Templates[k]
    BY Zenon DEF CoreQuery
  <2> QED
    BY <2>1, <2>2
<1> HIDE DEF k
<1>5. Templates[k] \in ToSet(Templates)
  BY <1>1, <1>3 DEF ToSet
<1> QED
  BY <1>4, <1>5 DEF CorePlain, Rotates

LEMMA EveryBandIsPlanned ==
    ASSUME NEW d \in Days, NCore >= Bands
    PROVE  {q.band : q \in ToSet(Planned(d))} = 0..(Bands - 1)
<1> DEFINE p == Planned(d)
<1>1. d \in Nat /\ Bands \in Nat \ {0}
  BY DiscoveryAssumption DEF DiscoveryAssumption
<1>2. NCore \in Nat \ {0} /\ Len(p) \in Nat /\ Len(p) > NCore /\ DOMAIN p = 1..Len(p)
  BY PlanShape, CoreShape DEF IsSeq
<1>3. \A s \in Nat : SlotBand(d, s) \in 0..(Bands - 1)
  <2> SUFFICES ASSUME NEW s \in Nat PROVE SlotBand(d, s) \in 0..(Bands - 1)
    OBVIOUS
  <2>1. d + s \in Nat
    BY <1>1
  <2> QED
    BY <1>1, <2>1, Quotient DEF SlotBand
<1>4. /\ \A i \in 1..NCore : p[i].band = SlotBand(d, i - 1)
      /\ \A i \in (NCore + 1)..Len(p) : p[i].band = SlotBand(d, i - NCore - 1)
  <2>1. \A s : CoreQuery(d, s).band = SlotBand(d, s)
    BY DEF CoreQuery
  <2>2. \A i \in 1..NCore : Core(d)[i] = CoreQuery(d, i - 1) /\ p[i] = Core(d)[i]
    BY PlanShape, CoreShape
  <2> QED
    BY <2>1, <2>2, PlanShape
<1> HIDE DEF p
<1>5. ASSUME NEW i \in 1..Len(p)
      PROVE  p[i].band \in 0..(Bands - 1)
  <2>1. CASE i \in 1..NCore
    <3>1. i - 1 \in Nat
      BY <2>1
    <3> QED
      BY <1>3, <1>4, <2>1, <3>1
  <2>2. CASE i \notin 1..NCore
    <3>1. i \in (NCore + 1)..Len(p) /\ i - NCore - 1 \in Nat
      BY <1>2, <2>2
    <3> QED
      BY <1>3, <1>4, <3>1
  <2> QED
    BY <2>1, <2>2
<1>6. ASSUME NEW b \in 0..(Bands - 1)
      PROVE  \E i \in 1..Len(p) : p[i].band = b
  <2>1. PICK s \in 0..(Bands - 1) : (d + s) % Bands = b
    BY <1>1, EveryResidueIsMet
  <2>2. s + 1 \in 1..NCore /\ s + 1 \in 1..Len(p) /\ (s + 1) - 1 = s
    BY <1>1, <1>2
  <2>3. p[s + 1].band = SlotBand(d, s)
    BY <1>4, <2>2
  <2> QED
    BY <2>1, <2>2, <2>3 DEF SlotBand
<1>7. ASSUME NEW b
      PROVE  b \in {q.band : q \in ToSet(p)} <=> b \in 0..(Bands - 1)
  <2>1. b \in {q.band : q \in ToSet(p)} <=> \E i \in 1..Len(p) : b = p[i].band
    BY <1>2 DEF ToSet
  <2> QED
    BY <1>5, <1>6, <2>1
<1> QED
  BY <1>7 DEF p

-----------------------------------------------------------------------------
(* The loop goes through a plan from its first query on: the whole plan of    *)
(* the day, or the core when it started YELLOW.                               *)
Plan == IF reason = "NONE" THEN Planned(day) ELSE Core(day)
Follows(plan) ==
    /\ sent \in Seq(ToSet(plan)) /\ todo \in Seq(ToSet(plan))
    /\ Len(plan) = Len(sent) + Len(todo)
    /\ \A i \in 1..Len(sent) : sent[i] = plan[i]
    /\ \A i \in 1..Len(todo) : todo[i] = plan[Len(sent) + i]

LEMMA FollowsOn ==
    ASSUME NEW plan, IsSeq(plan), Follows(plan), ~Exhausted, Sent
    PROVE  Follows(plan)'
<1> DEFINE S == ToSet(plan)
<1>1. /\ sent \in Seq(S) /\ todo \in Seq(S) /\ Len(sent) \in Nat /\ Len(todo) \in Nat \ {0}
      /\ sent' = Append(sent, todo[1]) /\ todo' = Tail(todo) /\ todo[1] \in S
      /\ Len(plan) = Len(sent) + Len(todo) /\ todo[1] = plan[Len(sent) + 1]
  <2>1. sent \in Seq(S) /\ todo \in Seq(S) /\ todo # <<>> /\ Len(plan) = Len(sent) + Len(todo)
    BY DEF Follows, Exhausted
  <2>2. Len(sent) \in Nat /\ Len(todo) \in Nat \ {0} /\ Head(todo) = todo[1]
    BY <2>1
  <2> QED
    BY <2>1, <2>2 DEF Follows, Sent
<1> HIDE DEF S
<1>2. /\ sent' \in Seq(S) /\ Len(sent') = Len(sent) + 1
      /\ \A i \in 1..Len(sent) : sent'[i] = sent[i]
      /\ sent'[Len(sent) + 1] = todo[1]
  BY <1>1
<1>3. /\ todo' \in Seq(S) /\ Len(todo') = Len(todo) - 1
      /\ \A i \in 1..(Len(todo) - 1) : todo'[i] = todo[i + 1]
  BY <1>1
<1>4. Len(plan) = Len(sent') + Len(todo')
  BY <1>1, <1>2, <1>3
<1>5. ASSUME NEW i \in 1..Len(sent')
      PROVE  sent'[i] = plan[i]
  <2>1. CASE i = Len(sent) + 1
    BY <1>1, <1>2, <2>1
  <2>2. CASE i # Len(sent) + 1
    <3>1. i \in 1..Len(sent)
      BY <1>1, <1>2, <2>2
    <3> QED
      BY <1>2, <3>1 DEF Follows
  <2> QED
    BY <2>1, <2>2
<1>6. ASSUME NEW i \in 1..Len(todo')
      PROVE  todo'[i] = plan[Len(sent') + i]
  <2>1. i + 1 \in 1..Len(todo) /\ i \in 1..(Len(todo) - 1) /\ Len(sent') + i = Len(sent) + (i + 1)
    BY <1>1, <1>2, <1>3
  <2>2. todo[i + 1] = plan[Len(sent) + (i + 1)]
    BY <2>1 DEF Follows
  <2> QED
    BY <1>3, <2>1, <2>2
<1> QED
  BY <1>2, <1>3, <1>4, <1>5, <1>6 DEF Follows, S

LEMMA FollowsFromTheStart ==
    ASSUME NEW plan, IsSeq(plan), sent' = <<>>, todo' = plan
    PROVE  Follows(plan)'
<1>1. plan \in Seq(ToSet(plan)) /\ Len(plan) \in Nat
  BY DEF IsSeq
<1>2. sent' \in Seq(ToSet(plan)) /\ Len(sent') = 0
  OBVIOUS
<1>3. Len(plan) = Len(sent') + Len(todo')
  BY <1>1, <1>2
<1>4. \A i \in 1..Len(todo') : todo'[i] = plan[Len(sent') + i]
  BY <1>1, <1>2
<1>5. \A i \in 1..Len(sent') : sent'[i] = plan[i]
  BY <1>2
<1> QED
  BY <1>1, <1>2, <1>3, <1>4, <1>5 DEF Follows

LEMMA SentAll ==
    ASSUME NEW plan, IsSeq(plan), Follows(plan), Exhausted
    PROVE  sent = plan
<1>1. /\ plan \in Seq(ToSet(plan)) /\ sent \in Seq(ToSet(plan)) /\ Len(todo) = 0 /\ Len(sent) \in Nat
      /\ Len(plan) = Len(sent) + Len(todo)
  BY DEF IsSeq, Follows, Exhausted
<1>2. Len(plan) = Len(sent)
  BY <1>1
<1>3. \A i \in 1..Len(sent) : sent[i] = plan[i]
  BY DEF Follows
<1> QED
  BY <1>1, <1>2, <1>3, SeqEqual

LEMMA CoreIsSent ==
    ASSUME day \in Days, IsSeq(sent), Len(sent) >= NCore, \A i \in 1..NCore : sent[i] = Core(day)[i]
    PROVE  CoreSent
<1>1. Len(sent) \in Nat /\ DOMAIN sent = 1..Len(sent) /\ NCore \in Nat
  BY CoreShape DEF IsSeq
<1>2. \A i \in 1..NCore : i \in DOMAIN sent
  BY <1>1
<1>3. DOMAIN Core(day) = 1..NCore
  BY CoreShape
<1>4. \A i \in 1..NCore : Core(day)[i] \in ToSet(sent)
  BY <1>2 DEF ToSet
<1> QED
  BY <1>3, <1>4 DEF CoreSent, ToSet

(* What the loop knows of its plan while it goes on, and says when it ends.   *)
Telling ==
    /\ day \in Days
    /\ pc \in {"start", "query", "items", "done"}
    /\ pc # "done" => stage = "discovery" /\ ~limited
    /\ pc = "start" => reason = "NONE" /\ sent = <<>>
    /\ pc \in {"query", "items"} => reason \in {"NONE", "RATE_LIMIT_YELLOW"} /\ Follows(Plan)
    /\ StopsAreTrue

LEMMA AllAskedTells ==
    ASSUME Listed, Telling, AllAsked
    PROVE  ReasonIsTrue'
<1>1. /\ pc = "query" /\ Exhausted /\ UNCHANGED <<day, limited, sent, found, reason>>
      /\ day \in Days /\ reason \in {"NONE", "RATE_LIMIT_YELLOW"} /\ Follows(Plan)
      /\ Len(found) \in Nat /\ ~(Len(found) >= RawBudget)
  BY DiscoveryAssumption DEF AllAsked, client, Telling, Listed, Room, Ordered, DiscoveryAssumption
<1>2. IsSeq(Core(day)) /\ IsSeq(Planned(day)) /\ Len(Core(day)) = NCore /\ Len(Planned(day)) > NCore
  BY <1>1, PlanShape
<1>3. CASE reason = "NONE"
  <2>1. sent = Planned(day)
    BY <1>1, <1>2, <1>3, SentAll DEF Plan
  <2>2. Cardinality(CoreSlots) >= Bands => {q.band : q \in ToSet(sent)} = 0..(Bands - 1)
    BY <1>1, <2>1, EveryBandIsPlanned DEF NCore
  <2> QED
    BY <1>1, <1>3, <2>1, <2>2 DEF ReasonIsTrue
<1>4. CASE reason = "RATE_LIMIT_YELLOW"
  <2>1. sent = Core(day)
    BY <1>1, <1>2, <1>4, SentAll DEF Plan
  <2>2. sent # Planned(day)
    BY <1>2, <2>1, CoreShape
  <2>3. CoreSent
    BY <2>1 DEF CoreSent
  <2> QED
    BY <1>1, <1>4, <2>2, <2>3 DEF ReasonIsTrue, CoreSent
<1> QED
  BY <1>1, <1>3, <1>4

LEMMA ZoneTells ==
    ASSUME CorePlain, Listed, Telling, StoppedByZone
    PROVE  ReasonIsTrue'
<1>1. /\ pc = "query" /\ ~Exhausted /\ UNCHANGED <<day, limited, sent, found>>
      /\ reason' = "RATE_LIMIT_RED" \/ (reason' = "RATE_LIMIT_YELLOW" /\ Rotates(Head(todo)))
      /\ day \in Days /\ reason \in {"NONE", "RATE_LIMIT_YELLOW"} /\ Follows(Plan)
      /\ Len(found) \in Nat /\ ~(Len(found) >= RawBudget)
  BY DiscoveryAssumption DEF StoppedByZone, Stop, client, Telling, Listed, Room, Ordered, DiscoveryAssumption, Rotates
<1>2. CASE reason' = "RATE_LIMIT_RED"
  BY <1>1, <1>2 DEF ReasonIsTrue
<1>3. CASE Rotates(Head(todo)) /\ reason' = "RATE_LIMIT_YELLOW"
  <2>1. /\ IsSeq(Core(day)) /\ IsSeq(Planned(day)) /\ Len(Core(day)) = NCore /\ NCore \in Nat
        /\ \A i \in 1..NCore : Planned(day)[i] = Core(day)[i] /\ ~Rotates(Core(day)[i])
    BY <1>1, PlanShape, CoreShape, CoreNeverRotates
  <2>2. /\ Len(sent) \in Nat /\ Len(todo) \in Nat \ {0} /\ Head(todo) = Plan[Len(sent) + 1]
        /\ Len(Plan) = Len(sent) + Len(todo) /\ \A i \in 1..Len(sent) : sent[i] = Plan[i]
        /\ sent \in Seq(ToSet(Plan))
    BY <1>1 DEF Follows, Exhausted
  <2>3. \A i \in 1..NCore : ~Rotates(Plan[i])
    BY <2>1 DEF Plan
  <2>4. Len(sent) >= NCore
    <3>1. Len(sent) + 1 \notin 1..NCore
      BY <1>3, <2>2, <2>3
    <3> QED
      BY <2>1, <2>2, <3>1
  <2>5. Plan = Planned(day)
    BY <2>1, <2>2, <2>4 DEF Plan
  <2>6. sent # Planned(day)
    BY <2>2, <2>5
  <2>7. \A i \in 1..NCore : i \in 1..Len(sent)
    BY <2>1, <2>2, <2>4
  <2>8. IsSeq(sent)
    <3>1. \A i \in 1..Len(sent) : sent[i] \in ToSet(sent)
      BY <2>2 DEF ToSet
    <3>2. sent \in [1..Len(sent) -> ToSet(sent)]
      BY <2>2, <3>1
    <3> QED
      BY <2>2, <3>2 DEF IsSeq
  <2>9. CoreSent
    BY <1>1, <2>1, <2>2, <2>4, <2>5, <2>7, <2>8, CoreIsSent
  <2> QED
    BY <1>1, <1>3, <2>6, <2>9 DEF ReasonIsTrue, CoreSent
<1> QED
  BY <1>1, <1>2, <1>3

LEMMA DiscoveryTells ==
    ASSUME CorePlain, Listed, Telling, Discover
    PROVE  Telling'
<1>s. /\ stage = "discovery" /\ stage' = stage /\ day' = day /\ day \in Days
      /\ Len(found) \in Nat /\ RawBudget \in Nat /\ (pc # "done" => Len(found) < RawBudget)
  BY DiscoveryAssumption DEF Discover, relVars, Telling, Listed, Ordered, Room, DiscoveryAssumption, DiscoveryNext,
     Begin, StoppedByZone, Stop, Answer, Limited, Denied, Failed, Record, Skip, NextQuery, AllAsked
<1>1. CASE Begin
  <2>1. CASE zone = "RED"
    <3>1. pc' = "done" /\ reason' = "RATE_LIMIT_RED" /\ UNCHANGED <<limited, found>> /\ pc = "start"
      BY <1>1, <2>1 DEF Begin, client
    <3> QED
      BY <1>s, <3>1 DEF Telling, StopsAreTrue, ReasonIsTrue, LimitIsTold
  <2>2. CASE zone # "RED"
    <3>1. /\ pc' = "query" /\ UNCHANGED <<limited, sent>> /\ pc = "start"
          /\ reason' \in {"NONE", "RATE_LIMIT_YELLOW"} /\ todo' = Plan'
      BY <1>1, <2>2, <1>s DEF Begin, client, Telling, Plan
    <3>2. IsSeq(Plan')
      BY <1>s, PlanShape DEF Plan
    <3>3. Follows(Plan)'
      <4>1. PICK p : p = Plan'
        OBVIOUS
      <4>2. IsSeq(p) /\ sent' = <<>> /\ todo' = p
        BY <3>1, <3>2, <4>1 DEF Telling
      <4>3. Follows(p)'
        BY <4>2, FollowsFromTheStart
      <4> QED
        BY <4>1, <4>3 DEF Follows
    <3> QED
      BY <1>s, <3>1, <3>3 DEF Telling, StopsAreTrue, ReasonIsTrue, LimitIsTold
  <2> QED
    BY <2>1, <2>2
<1>2. CASE StoppedByZone
  <2>1. pc' = "done" /\ limited' = limited /\ pc = "query"
    BY <1>2 DEF StoppedByZone, Stop, client
  <2> QED
    BY <1>s, <1>2, <2>1, ZoneTells DEF Telling, StopsAreTrue, LimitIsTold
<1>3. CASE Answer \/ Failed
  <2>1. /\ pc' \in {"query", "items"} /\ UNCHANGED <<limited, reason, found>> /\ Sent /\ pc = "query" /\ ~Exhausted
    BY <1>3 DEF Answer, Failed, MaySend
  <2>2. Follows(Plan)'
    <3> DEFINE plan == Plan
    <3>1. IsSeq(plan) /\ Follows(plan) /\ Plan' = plan
      BY <1>s, <2>1, PlanShape DEF Telling, Plan
    <3> HIDE DEF plan
    <3>2. PICK p : p = plan
      OBVIOUS
    <3>3. Follows(p)'
      BY <2>1, <3>1, <3>2, FollowsOn
    <3> QED
      BY <3>1, <3>2, <3>3 DEF Follows
  <2> QED
    BY <1>s, <2>1, <2>2 DEF Telling, StopsAreTrue, ReasonIsTrue, LimitIsTold
<1>4. CASE Limited
  <2>1. /\ pc' = "done" /\ limited' = TRUE /\ found' = found /\ pc = "query"
        /\ reason' \in {"RATE_LIMIT_RED", "RATE_LIMIT_RESPONSE"}
    BY <1>4 DEF Limited, MaySend
  <2> QED
    BY <1>s, <2>1 DEF Telling, StopsAreTrue, ReasonIsTrue, LimitIsTold
<1>5. CASE Denied
  <2>1. /\ pc' = "done" /\ limited' = limited /\ found' = found /\ pc = "query" /\ reason' = "SEARCH_AUTH_DENIED"
    BY <1>5 DEF Denied, MaySend
  <2> QED
    BY <1>s, <2>1 DEF Telling, StopsAreTrue, ReasonIsTrue, LimitIsTold
<1>6. ASSUME NEW r \in Repos, Record(r)
      PROVE  Telling'
  <2>1. /\ UNCHANGED <<limited, sent, todo>> /\ pc = "items"
        /\ \/ Full /\ reason' = "BUDGET_EXHAUSTED" /\ pc' = "done"
           \/ UNCHANGED <<reason, pc>>
    BY <1>6 DEF Record, client
  <2>2. CASE Full /\ reason' = "BUDGET_EXHAUSTED" /\ pc' = "done"
    BY <1>s, <2>1, <2>2 DEF Telling, StopsAreTrue, ReasonIsTrue, LimitIsTold, Full
  <2>3. CASE UNCHANGED <<reason, pc>>
    BY <1>s, <2>1, <2>3 DEF Telling, StopsAreTrue, ReasonIsTrue, LimitIsTold, Plan, Follows
  <2> QED
    BY <2>1, <2>2, <2>3
<1>7. CASE Skip \/ NextQuery
  <2>1. /\ UNCHANGED <<limited, sent, todo, reason>> /\ pc = "items" /\ pc' \in {"items", "query"}
    BY <1>7 DEF Skip, NextQuery, client
  <2> QED
    BY <1>s, <2>1 DEF Telling, StopsAreTrue, ReasonIsTrue, LimitIsTold, Plan, Follows
<1>8. CASE AllAsked
  <2>1. pc' = "done" /\ limited' = limited /\ pc = "query"
    BY <1>8 DEF AllAsked, client
  <2> QED
    BY <1>s, <1>8, <2>1, AllAskedTells DEF Telling, StopsAreTrue, LimitIsTold
<1> QED
  BY <1>1, <1>2, <1>3, <1>4, <1>5, <1>6, <1>7, <1>8 DEF Discover, DiscoveryNext

(* stopped_reason tells the truth, for any configuration whose core templates *)
(* do not include the intersection search: no reason means the whole plan of  *)
(* the day in every star band, YELLOW that only rotating queries are missing, *)
(* and no limit, full budget or refusal is reported for another one.          *)
THEOREM StopsAreAlwaysTrue == ASSUME CorePlain PROVE Spec => []StopsAreTrue
<1>1. Init => Telling
  BY DEF Init, DiscoveryInit, Telling, StopsAreTrue, ReasonIsTrue, LimitIsTold
<1>2. Listed /\ Telling /\ [Next]_vars => Telling'
  <2> SUFFICES ASSUME Listed, Telling, [Next]_vars
               PROVE  Telling'
    OBVIOUS
  <2>1. CASE Discover
    BY <2>1, DiscoveryTells
  <2>2. CASE Analyse \/ Explore
    <3>1. UNCHANGED <<day, pc>> /\ pc = "done" /\ stage' # "discovery"
      <4>1. CASE Analyse
        BY <4>1 DEF Analyse
      <4>2. CASE Explore
        <5>1. stage # "discovery"
          BY <4>2 DEF Explore, NextSeed, AskOwner, ReadLinks, FollowLink, SourceDone, ExplorationLimited,
                      ExplorationFailed
        <5>2. UNCHANGED <<day, pc>> /\ stage' # "discovery"
          BY <4>2, <5>1 DEF Explore, NextSeed, AskOwner, ReadLinks, FollowLink, SourceDone,
                            ExplorationLimited, ExplorationFailed, Onward, discoveryVars
        <5> QED
          BY <5>1, <5>2 DEF Telling
      <4> QED
        BY <2>2, <4>1, <4>2
    <3> QED
      BY <3>1 DEF Telling, StopsAreTrue, LimitIsTold
  <2>3. CASE UNCHANGED vars
    BY <2>3 DEF vars, discoveryVars, client, relVars, Telling, StopsAreTrue, ReasonIsTrue, LimitIsTold,
                CoreSent, Plan, Follows
  <2> QED
    BY <2>1, <2>2, <2>3 DEF Next
<1>3. Telling => StopsAreTrue
  BY DEF Telling
<1> QED
  BY <1>1, <1>2, <1>3, AlwaysListed, PTL DEF Spec

-----------------------------------------------------------------------------
(* The ceiling is looked at before a seed; a source may add MaxPerSource, and *)
(* each is asked once for a seed.  Before counts those asked already.         *)
Before(s) == Cardinality({t \in Sources : t < s})
Asking    == stage \in {"source", "links"}
Soon      == IF stage = "links" THEN results ELSE 0

Ceiled ==
    /\ source \in Sources
    /\ results \in 0..MaxPerSource
    /\ stage = "discovery" => collected = {}
    /\ IsFiniteSet(collected)
    /\ Asking => Cardinality(collected) < MaxTotal + Before(source) * MaxPerSource + Soon
    /\ ~Asking => ExplorationIsBounded

LEMMA LeastSource ==
    ASSUME NEW T, T \subseteq Sources, T # {}
    PROVE  First(T) \in T /\ \A t \in T : First(T) <= t
<1>1. T \subseteq {1, 2, 3, 4}
  BY RelationshipsAssumption DEF RelationshipsAssumption
<1>2. \E x \in T : \A t \in T : x <= t
  <2>1. CASE 1 \in T
    BY <1>1, <2>1
  <2>2. CASE 1 \notin T /\ 2 \in T
    BY <1>1, <2>2
  <2>3. CASE 1 \notin T /\ 2 \notin T /\ 3 \in T
    BY <1>1, <2>3
  <2>4. CASE 1 \notin T /\ 2 \notin T /\ 3 \notin T
    <3>1. T \subseteq {4} /\ 4 \in T
      BY <1>1, <2>4
    <3> QED
      BY <3>1
  <2> QED
    BY <2>1, <2>2, <2>3, <2>4
<1> QED
  BY <1>2 DEF First

LEMMA SourcesAreFinite == IsFiniteSet(Sources) /\ Cardinality(Sources) \in Nat
<1>1. IsFiniteSet(1..4)
  <2>1. 1 \in Int /\ 4 \in Int
    OBVIOUS
  <2> QED
    BY <2>1, FS_Interval, Zenon
<1>2. Sources \in SUBSET (1..4)
  BY RelationshipsAssumption DEF RelationshipsAssumption
<1>3. IsFiniteSet(Sources)
  BY <1>1, <1>2, FS_Subset
<1> QED
  BY <1>3, FS_CardinalityType

(* Going on to the next source counts this one; after the last, all.          *)
LEMMA BeforeTheNext ==
    ASSUME source \in Sources
    PROVE  /\ Before(source) \in Nat /\ Before(First(Sources)) = 0
           /\ Before(source) + 1 <= Cardinality(Sources)
           /\ Later # {} => First(Later) \in Sources /\ Before(First(Later)) = Before(source) + 1
           /\ Later = {} => Cardinality(Sources) = Before(source) + 1
<1> DEFINE A == {t \in Sources : t < source}
<1>1. Sources \subseteq Nat /\ Sources # {} /\ Sources \in SUBSET (1..4)
  BY RelationshipsAssumption DEF RelationshipsAssumption
<1>2. IsFiniteSet(Sources)
  BY SourcesAreFinite
<1>3. A \in SUBSET Sources /\ IsFiniteSet(A)
  BY <1>2, FS_Subset
<1>4. Before(source) \in Nat
  BY <1>3, FS_CardinalityType DEF Before
<1>5. source \notin A
  BY <1>1
<1>6. Cardinality(A \union {source}) = Before(source) + 1
  BY <1>3, <1>5, FS_AddElement DEF Before
<1>7. Before(First(Sources)) = 0
  <2>1. {t \in Sources : t < First(Sources)} = {}
    <3>1. First(Sources) \in Nat /\ \A t \in Sources : t \in Nat /\ First(Sources) <= t
      BY <1>1, LeastSource
    <3> QED
      BY <3>1
  <2> QED
    BY <2>1, FS_EmptySet DEF Before
<1>8. ASSUME Later # {}
      PROVE  First(Later) \in Sources /\ Before(First(Later)) = Before(source) + 1
  <2>1. First(Later) \in Later /\ \A t \in Later : First(Later) <= t
    BY <1>8, LeastSource DEF Later
  <2>2. {t \in Sources : t < First(Later)} = A \union {source}
    <3>1. First(Later) \in Nat /\ source \in Nat /\ source < First(Later)
      BY <1>1, <2>1 DEF Later
    <3>2. ASSUME NEW t \in Sources
          PROVE  t < First(Later) <=> t < source \/ t = source
      <4>1. t \in Nat /\ (t > source => First(Later) <= t)
        BY <1>1, <2>1 DEF Later
      <4> QED
        BY <3>1, <4>1
    <3> QED
      BY <3>2
  <2> QED
    BY <1>6, <2>1, <2>2 DEF Before, Later
<1>9. ASSUME Later = {}
      PROVE  Cardinality(Sources) = Before(source) + 1
  <2>1. ASSUME NEW t \in Sources PROVE t \in A \union {source}
    <3>1. t \in Nat /\ source \in Nat /\ ~ (t > source)
      BY <1>1, <1>9 DEF Later
    <3> QED
      BY <3>1
  <2>2. Sources = A \union {source}
    BY <2>1
  <2> QED
    BY <1>6, <2>2
<1>10. Before(source) + 1 <= Cardinality(Sources)
  <2>1. A \union {source} \in SUBSET Sources
    BY <1>3
  <2>2. Cardinality(A \union {source}) <= Cardinality(Sources)
    BY <2>1, <1>2, FS_Subset
  <2> QED
    BY <2>2, <1>6
<1> QED
  BY <1>4, <1>7, <1>8, <1>9, <1>10

LEMMA OnwardIsCeiled ==
    ASSUME source \in Sources, results' \in 0..MaxPerSource, IsFiniteSet(collected'), Onward,
           Cardinality(collected') < MaxTotal + (Before(source) + 1) * MaxPerSource
    PROVE  Ceiled'
<1>1. CASE Later # {}
  <2>1. stage' = "source" /\ source' = First(Later)
    BY <1>1 DEF Onward
  <2>2. source' \in Sources /\ Before(source') = Before(source) + 1
    BY <1>1, <2>1, BeforeTheNext
  <2>3. Soon' = 0 /\ Asking'
    BY <2>1 DEF Soon, Asking
  <2>4. Before(source)' = Before(source')
    BY DEF Before
  <2>5. Cardinality(collected') < MaxTotal + Before(source)' * MaxPerSource + Soon'
    <3>1. Before(source) + 1 \in Nat /\ MaxPerSource \in Nat /\ MaxTotal \in Nat
      BY BeforeTheNext, RelationshipsAssumption DEF RelationshipsAssumption
    <3>2. (Before(source) + 1) * MaxPerSource \in Nat
      BY <3>1
    <3>3. Before(source)' * MaxPerSource = (Before(source) + 1) * MaxPerSource
      BY <2>2, <2>4
    <3> HIDE DEF Before
    <3> QED
      BY <2>3, <3>1, <3>2, <3>3
  <2> QED
    BY <2>1, <2>2, <2>3, <2>5 DEF Ceiled
<1>2. CASE Later = {}
  <2>1. stage' = "seed" /\ source' = source
    BY <1>2 DEF Onward
  <2>2. Cardinality(Sources) = Before(source) + 1
    BY <1>2, BeforeTheNext
  <2> QED
    BY <2>1, <2>2 DEF Ceiled, Asking, ExplorationIsBounded
<1> QED
  BY <1>1, <1>2

(* explore_relationships: the ceiling of one pass is exceeded by less than    *)
(* what one seed may contribute, however many seeds, links and answers.       *)
THEOREM ExplorationIsAlwaysBounded == Spec => []ExplorationIsBounded
<1>c. MaxPerSource \in Nat \ {0} /\ MaxTotal \in Nat \ {0} /\ Sources # {}
  BY RelationshipsAssumption DEF RelationshipsAssumption
<1>n. Cardinality(Sources) \in Nat /\ Cardinality(Sources) * MaxPerSource \in Nat
  BY SourcesAreFinite, <1>c
<1>1. Init => Ceiled
  <2> SUFFICES ASSUME Init PROVE Ceiled
    OBVIOUS
  <2>1. source \in Sources /\ results = 0 /\ collected = {} /\ stage = "discovery"
    BY <1>c, LeastSource DEF Init
  <2>2. IsFiniteSet(collected) /\ Cardinality(collected) = 0
    BY <2>1, FS_EmptySet
  <2> QED
    BY <1>c, <1>n, <2>1, <2>2 DEF Ceiled, Asking, ExplorationIsBounded
<1>2. Ceiled /\ [Next]_vars => Ceiled'
  <2> SUFFICES ASSUME Ceiled, [Next]_vars PROVE Ceiled'
    OBVIOUS
  <2>b. /\ source \in Sources /\ results \in 0..MaxPerSource /\ IsFiniteSet(collected)
        /\ Cardinality(collected) \in Nat /\ Before(source) \in Nat
        /\ Before(source) * MaxPerSource \in Nat
        /\ (Before(source) + 1) * MaxPerSource = Before(source) * MaxPerSource + MaxPerSource
    <3>1. Before(source) \in Nat
      BY BeforeTheNext DEF Ceiled
    <3>2. \A x \in Nat : x * MaxPerSource \in Nat /\ (x + 1) * MaxPerSource = x * MaxPerSource + MaxPerSource
      BY <1>c
    <3> QED
      BY <3>1, <3>2, FS_CardinalityType DEF Ceiled
  <2>1. CASE Discover
    BY <2>1 DEF Discover, relVars, Ceiled, Asking, Soon, ExplorationIsBounded
  <2>2. CASE Analyse
    <3>1. collected = {} /\ collected' = collected /\ source' = source /\ results' = results /\ stage' \in {"seed", "done"}
      BY <2>2 DEF Analyse, Ceiled
    <3>2. Cardinality(collected') = 0
      BY <3>1, FS_EmptySet
    <3> QED
      BY <1>c, <1>n, <3>1, <3>2 DEF Ceiled, Asking, ExplorationIsBounded
  <2>3. CASE NextSeed
    <3>1. CASE stage' = "done"
      BY <2>3, <3>1 DEF NextSeed, Ceiled, Asking, ExplorationIsBounded
    <3>2. CASE stage' # "done"
      <4>1. /\ stage' = "source" /\ source' = First(Sources) /\ ~CeilingReached
            /\ UNCHANGED <<results, collected>>
        BY <2>3, <3>2 DEF NextSeed
      <4>2. Before(source)' = 0 /\ source' \in Sources
        <5>1. Before(source') = 0
          BY <4>1, <2>b, BeforeTheNext
        <5> QED
          BY <1>c, <4>1, <5>1, LeastSource DEF Before
      <4>3. Cardinality(collected') < MaxTotal /\ 0 * MaxPerSource = 0
        BY <4>1, <1>c, <2>b DEF CeilingReached
      <4>4. Soon' = 0 /\ Asking'
        BY <4>1 DEF Soon, Asking
      <4> QED
        BY <1>c, <2>b, <4>1, <4>2, <4>3, <4>4 DEF Ceiled
    <3> QED
      BY <3>1, <3>2
  <2>4. CASE AskOwner
    <3>1. PICK new \in SUBSET (Repos \ known) : Cardinality(new) <= MaxPerSource /\ collected' = collected \union new
      BY <2>4 DEF AskOwner
    <3>2. Onward /\ results' = results /\ stage = "source"
      BY <2>4 DEF AskOwner
    <3>3. IsFiniteSet(new) /\ Cardinality(new) \in Nat
      <4>1. IsFiniteSet(Repos) /\ new \in SUBSET Repos
        BY DiscoveryAssumption DEF DiscoveryAssumption
      <4>2. IsFiniteSet(new)
        BY <4>1, FS_Subset
      <4> QED
        BY <4>2, FS_CardinalityType
    <3>4. IsFiniteSet(collected') /\ Cardinality(collected') <= Cardinality(collected) + Cardinality(new)
          /\ Cardinality(collected') \in Nat
      <4>1. IsFiniteSet(collected \union new) /\ IsFiniteSet(collected \intersect new)
        BY <3>3, <2>b, FS_Union, FS_Intersection
      <4>2. Cardinality(collected \union new)
              = Cardinality(collected) + Cardinality(new) - Cardinality(collected \intersect new)
        BY <3>3, <2>b, FS_Union
      <4>3. Cardinality(collected \intersect new) \in Nat /\ Cardinality(collected \union new) \in Nat
        BY <4>1, FS_CardinalityType
      <4> QED
        BY <3>1, <3>3, <2>b, <4>1, <4>2, <4>3
    <3>5. Cardinality(collected) < MaxTotal + Before(source) * MaxPerSource
      BY <3>2, <2>b, <1>c DEF Ceiled, Asking, Soon
    <3>6. Cardinality(collected') < MaxTotal + (Before(source) + 1) * MaxPerSource
      <4>1. PICK p \in Nat : p = Before(source) * MaxPerSource
        BY <2>b
      <4>2. PICK c \in Nat, d \in Nat, n \in Nat :
              c = Cardinality(collected) /\ d = Cardinality(collected') /\ n = Cardinality(new)
        BY <2>b, <3>3, <3>4
      <4>3. c < MaxTotal + p /\ n <= MaxPerSource /\ d <= c + n
        BY <3>1, <3>4, <3>5, <4>1, <4>2
      <4>4. d < MaxTotal + (p + MaxPerSource)
        BY <1>c, <4>3
      <4> QED
        BY <4>1, <4>2, <4>4, <2>b
    <3> QED
      BY <3>2, <3>4, <3>6, <2>b, OnwardIsCeiled
  <2>5. CASE ReadLinks
    <3>1. /\ stage = "source" /\ stage' = "links" /\ results' = 0
          /\ UNCHANGED <<source, collected>>
      BY <2>5 DEF ReadLinks
    <3>2. Before(source)' = Before(source)
      BY <3>1 DEF Before
    <3> QED
      BY <1>c, <3>1, <3>2 DEF Ceiled, Asking, Soon
  <2>6. CASE FollowLink
    <3>1. /\ stage = "links" /\ stage' = stage /\ source' = source
          /\ Before(source)' = Before(source) /\ results < MaxPerSource
      BY <2>6, <2>b, <1>c DEF FollowLink, SourceFull, Before
    <3>2. CASE UNCHANGED <<collected, results>>
      BY <3>1, <3>2 DEF Ceiled, Asking, Soon
    <3>3. CASE \E r \in Repos \ known : collected' = collected \union {r} /\ results' = results + 1
      <4>1. PICK r : collected' = collected \union {r} /\ results' = results + 1
        BY <3>3
      <4>2. /\ IsFiniteSet(collected') /\ Cardinality(collected') \in Nat
            /\ Cardinality(collected') <= Cardinality(collected) + 1
        <5>1. IsFiniteSet(collected \union {r})
          BY <2>b, FS_AddElement
        <5>2. \/ Cardinality(collected \union {r}) = Cardinality(collected)
              \/ Cardinality(collected \union {r}) = Cardinality(collected) + 1
          BY <2>b, FS_AddElement
        <5> QED
          BY <4>1, <2>b, <5>1, <5>2
      <4>3. results' \in 0..MaxPerSource /\ Soon' = Soon + 1 /\ Soon \in Nat /\ Asking /\ Asking'
        BY <1>c, <2>b, <3>1, <4>1 DEF Soon, Asking
      <4>4. Cardinality(collected) < MaxTotal + Before(source) * MaxPerSource + Soon
        BY <4>3 DEF Ceiled
      <4>5. Cardinality(collected') < MaxTotal + Before(source)' * MaxPerSource + Soon'
        BY <1>c, <2>b, <3>1, <4>2, <4>3, <4>4
      <4> QED
        BY <2>b, <3>1, <4>2, <4>3, <4>5 DEF Ceiled, Asking
    <3> QED
      BY <2>6, <3>2, <3>3 DEF FollowLink
  <2>7. CASE SourceDone
    <3>1. Onward /\ results' = results /\ collected' = collected /\ stage = "links"
      BY <2>7 DEF SourceDone
    <3>2. Cardinality(collected) < MaxTotal + Before(source) * MaxPerSource + results
      BY <3>1 DEF Ceiled, Asking, Soon
    <3>3. Cardinality(collected') < MaxTotal + (Before(source) + 1) * MaxPerSource
      BY <1>c, <2>b, <3>1, <3>2
    <3> QED
      BY <2>b, <3>1, <3>3, OnwardIsCeiled
  <2>8. CASE ExplorationLimited \/ ExplorationFailed
    <3>1. stage' = "done" /\ collected' = {} /\ UNCHANGED <<source, results>>
      BY <2>8 DEF ExplorationLimited, ExplorationFailed
    <3>2. IsFiniteSet(collected') /\ Cardinality(collected') = 0
      BY <3>1, FS_EmptySet
    <3> QED
      BY <1>c, <1>n, <2>b, <3>1, <3>2 DEF Ceiled, Asking, ExplorationIsBounded
  <2>9. CASE UNCHANGED vars
    <3>1. UNCHANGED <<stage, source, results, collected>> /\ Before(source)' = Before(source)
      BY <2>9 DEF vars, relVars, Before
    <3> QED
      BY <3>1 DEF Ceiled, Asking, Soon, ExplorationIsBounded
  <2> QED
    BY <2>1, <2>2, <2>3, <2>4, <2>5, <2>6, <2>7, <2>8, <2>9 DEF Next, Explore
<1>3. Ceiled => ExplorationIsBounded
  <2> SUFFICES ASSUME Ceiled, Asking PROVE ExplorationIsBounded
    BY DEF Ceiled
  <2>1. Soon \in 0..MaxPerSource /\ source \in Sources
    BY <1>c DEF Ceiled, Soon
  <2>2. Before(source) \in Nat /\ Before(source) + 1 <= Cardinality(Sources)
    BY <2>1, BeforeTheNext
  <2>3. PICK k \in Nat, n \in Nat : k = Before(source) /\ n = Cardinality(Sources)
    BY <1>n, <2>2
  <2>4. k + 1 <= n
    BY <2>2, <2>3
  <2>5. PICK m \in Nat : n = (k + 1) + m
    <3>1. n - (k + 1) \in Nat /\ n = (k + 1) + (n - (k + 1))
      BY <2>4
    <3> QED
      BY <3>1
  <2>6. n * MaxPerSource = (k + 1) * MaxPerSource + m * MaxPerSource /\ m * MaxPerSource \in Nat
    BY <1>c, <2>5
  <2>7. (k + 1) * MaxPerSource = k * MaxPerSource + MaxPerSource /\ k * MaxPerSource \in Nat
    BY <1>c
  <2>8. Cardinality(collected) < MaxTotal + k * MaxPerSource + Soon /\ Cardinality(collected) \in Nat
    BY <2>3, FS_CardinalityType DEF Ceiled
  <2>9. k * MaxPerSource + Soon <= n * MaxPerSource
    BY <1>c, <2>1, <2>6, <2>7
  <2>10. n * MaxPerSource \in Nat /\ Soon \in Nat
    BY <1>c, <2>1
  <2>11. Cardinality(collected) < MaxTotal + n * MaxPerSource
    <3> HIDE DEF Soon
    <3> QED
      BY <1>c, <2>7, <2>8, <2>9, <2>10
  <2> QED
    BY <2>3, <2>11 DEF ExplorationIsBounded
<1> QED
  BY <1>1, <1>2, <1>3, PTL DEF Spec
==============================================================================
