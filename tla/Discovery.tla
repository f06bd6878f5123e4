------------------------------- MODULE Discovery -------------------------------
(***************************************************************************)
(* discovery/queries.py and discovery/engine.py: the query plan of a day,  *)
(* and the loop that sends it until it is used up, the raw candidate       *)
(* budget is full, GitHub refuses, or the quota runs low.                  *)
(*                                                                         *)
(* The client is what GitHubClient says of it: a zone, which any answer    *)
(* may change, and a limit that never goes away.                           *)
(***************************************************************************)
EXTENDS Integers, Sequences, FiniteSets, SequencesExt

CONSTANTS Templates,     \* the core templates, in order
          Areas,         \* the areas of the topics configuration, in order
          Bands,         \* how many query star bands there are
          Terms,         \* how many search terms an area has
          Groups,        \* the rotating groups: sequences of pairs of areas
          Days,          \* the ordinals of the days a run may happen on
          Repos,         \* the repositories GitHub can return
          RawBudget,     \* run_budgets.max_raw_candidates
          PageSize       \* how many items one answer has at most

ASSUME DiscoveryAssumption ==
    /\ Templates \in Seq(STRING) \ {<<>>}
    /\ Areas \in Seq(STRING) \ {<<>>}
    /\ Groups \in Seq(Seq(SUBSET ToSet(Areas)) \ {<<>>}) \ {<<>>}
    /\ Bands \in Nat \ {0}
    /\ Terms \in Nat \ {0}
    /\ Days \subseteq Nat
    /\ IsFiniteSet(Repos)
    /\ RawBudget \in Nat \ {0}
    /\ PageSize \in Nat

Zones == {"GREEN", "YELLOW", "RED"}

(* build_query_plan: slot s of the core asks the next area, and every slot    *)
(* moves on to the next star band and to another of the area's terms.         *)
CoreSlots == 0..(Len(Templates) * Len(Areas) - 1)

SlotBandFixed(day, slot) == day % Bands    \* mutant
SlotBand(day, slot)      == (day + slot) % Bands

CoreQuery(day, slot) ==
    LET area == slot % Len(Areas)
    IN [channel |-> Templates[(slot \div Len(Areas)) + 1], areas |-> {Areas[area + 1]},
        band |-> SlotBand(day, slot), term |-> {(day + area + slot) % Terms}]

Core(day) == [i \in 1..Cardinality(CoreSlots) |-> CoreQuery(day, i - 1)]

Rotating(day) ==
    LET group == Groups[(day % Len(Groups)) + 1]
    IN [i \in DOMAIN group |->
         [channel |-> "INTERSECTION_SEARCH", areas |-> group[i], band |-> SlotBand(day, i - 1),
          term |-> {(day + i - 1) % Terms, (day + i) % Terms}]]

Planned(day) == Core(day) \o Rotating(day)

VARIABLES day,
          zone, limited,   \* the shared client: rate_budget.zone, rate_limited
          pc,              \* "start", "query", "items", "done"
          todo,            \* the queries not yet looked at
          sent,            \* the queries that were sent
          page,            \* the items of the current answer not yet looked at
          found,           \* `ordered`: the candidates, in order of first sight
          matched,         \* candidate -> the queries that returned it
          reason           \* stopped_reason

client == <<zone, limited>>
discoveryVars == <<day, client, pc, todo, sent, page, found, matched, reason>>

DiscoveryInit ==
    /\ day \in Days
    /\ zone \in Zones
    /\ limited = FALSE
    /\ pc = "start"
    /\ todo = <<>> /\ sent = <<>> /\ found = <<>>
    /\ matched = [r \in Repos |-> {}]
    /\ page = 0
    /\ reason = "NONE"

(* The plan of the day; a YELLOW start drops the rotating queries.            *)
Begin ==
    /\ pc = "start"
    /\ IF zone = "RED"
       THEN reason' = "RATE_LIMIT_RED" /\ pc' = "done" /\ UNCHANGED todo
       ELSE /\ pc' = "query"
            /\ todo' = IF zone = "YELLOW" THEN Core(day) ELSE Planned(day)
            /\ reason' = IF zone = "YELLOW" THEN "RATE_LIMIT_YELLOW" ELSE reason
    /\ UNCHANGED <<day, client, sent, page, found, matched>>

Exhausted == todo = <<>>
Stop(why) == reason' = why /\ pc' = "done" /\ UNCHANGED <<day, client, todo, sent, page, found, matched>>

StoppedByZone ==
    /\ pc = "query" /\ ~Exhausted
    /\ \/ zone = "RED" /\ Stop("RATE_LIMIT_RED")
       \/ zone = "YELLOW" /\ Head(todo).channel = "INTERSECTION_SEARCH" /\ Stop("RATE_LIMIT_YELLOW")

MaySend ==
    /\ pc = "query" /\ ~Exhausted
    /\ \/ zone = "GREEN"
       \/ zone = "YELLOW" /\ Head(todo).channel # "INTERSECTION_SEARCH"

Sent == sent' = Append(sent, Head(todo)) /\ todo' = Tail(todo)

(* A page of results.                                                         *)
Answer ==
    /\ MaySend /\ ~limited
    /\ Sent
    /\ page' \in 0..PageSize
    /\ zone' \in Zones
    /\ pc' = "items"
    /\ UNCHANGED <<day, limited, found, matched, reason>>

(* GitHub refuses for want of quota, now or since an earlier call.            *)
Limited ==
    /\ MaySend
    /\ Sent
    /\ limited' = TRUE
    /\ IF limited THEN UNCHANGED zone ELSE zone' \in Zones
    /\ reason' = IF zone' = "RED" THEN "RATE_LIMIT_RED" ELSE "RATE_LIMIT_RESPONSE"
    /\ pc' = "done"
    /\ UNCHANGED <<day, page, found, matched>>

(* GitHub denies the search itself.                                           *)
Denied ==
    /\ MaySend /\ ~limited
    /\ Sent
    /\ zone' \in Zones
    /\ reason' = "SEARCH_AUTH_DENIED"
    /\ pc' = "done"
    /\ UNCHANGED <<day, limited, page, found, matched>>

(* Any other error costs this query only.                                     *)
FailedRetried ==    \* mutant
    /\ MaySend /\ ~limited
    /\ zone' \in Zones
    /\ UNCHANGED <<day, limited, pc, todo, sent, page, found, matched, reason>>
Failed ==
    /\ MaySend /\ ~limited
    /\ Sent
    /\ zone' \in Zones
    /\ UNCHANGED <<day, limited, pc, page, found, matched, reason>>

Seen(r) == r \in ToSet(found)
FullLate == Len(found') > RawBudget    \* mutant
Full     == Len(found') >= RawBudget

(* _record and _merge: a repository already there only gains the query.       *)
Record(r) ==
    /\ pc = "items" /\ page > 0
    /\ found' = IF Seen(r) THEN found ELSE Append(found, r)
    /\ matched' = [matched EXCEPT ![r] = @ \union {Last(sent)}]
    /\ page' = page - 1
    /\ IF Full
       THEN reason' = "BUDGET_EXHAUSTED" /\ pc' = "done"
       ELSE UNCHANGED <<reason, pc>>
    /\ UNCHANGED <<day, client, todo, sent>>

(* An item the parser cannot use.                                             *)
Skip ==
    /\ pc = "items" /\ page > 0
    /\ page' = page - 1
    /\ UNCHANGED <<day, client, pc, todo, sent, found, matched, reason>>

NextQuery ==
    /\ pc = "items" /\ page = 0
    /\ pc' = "query"
    /\ UNCHANGED <<day, client, todo, sent, page, found, matched, reason>>

AllAsked ==
    /\ pc = "query" /\ Exhausted
    /\ pc' = "done"
    /\ UNCHANGED <<day, client, todo, sent, page, found, matched, reason>>

DiscoveryNext ==
    \/ Begin
    \/ StoppedByZone
    \/ Answer \/ Limited \/ Denied \/ Failed
    \/ \E r \in Repos : Record(r)
    \/ Skip
    \/ NextQuery
    \/ AllAsked

DiscoverySpec == DiscoveryInit /\ [][DiscoveryNext]_discoveryVars /\ WF_discoveryVars(DiscoveryNext)

-----------------------------------------------------------------------------
DiscoveryTypeOK ==
    /\ day \in Days /\ zone \in Zones /\ limited \in BOOLEAN
    /\ pc \in {"start", "query", "items", "done"}
    /\ page \in 0..PageSize
    /\ ToSet(found) \subseteq Repos
    /\ matched \in [Repos -> SUBSET ToSet(Planned(day))]
    /\ reason \in {"NONE", "BUDGET_EXHAUSTED", "RATE_LIMIT_RED", "RATE_LIMIT_RESPONSE",
                   "RATE_LIMIT_YELLOW", "SEARCH_AUTH_DENIED"}

CoreSent == \A q \in ToSet(Core(day)) : q \in ToSet(sent)

(* The raw budget bounds what the rest of the run has to look at, however the *)
(* pages overlap, and every candidate is there for a query that returned it.  *)
BudgetHolds ==
    /\ Len(found) <= RawBudget
    /\ Cardinality(ToSet(found)) = Len(found)
    /\ \A r \in Repos : r \in ToSet(found) <=> matched[r] # {}

(* stopped_reason is how the run knows what its ranking is worth: no reason   *)
(* means that every query of the day was sent, in every star band; YELLOW     *)
(* that the core was and only rotating queries are missing; a full budget is  *)
(* never reported for another reason, nor a refusal where there was none.     *)
ReasonIsTrue ==
    pc = "done" =>
      /\ reason = "NONE" =>
           /\ sent = Planned(day)
           /\ Cardinality(CoreSlots) >= Bands => {q.band : q \in ToSet(sent)} = 0..(Bands - 1)
      /\ reason = "RATE_LIMIT_YELLOW" => CoreSent /\ sent # Planned(day)
      /\ reason = "BUDGET_EXHAUSTED" <=> Len(found) >= RawBudget
      /\ reason = "RATE_LIMIT_RESPONSE" => limited

(* What "the star band rotating" (queries.py:7) leaves open: whether over the *)
(* days every term of an area is asked in every star band.  It is not when    *)
(* Bands divides Terms, as 3 divides the 6 terms of the configuration: term   *)
(* and band of a slot then differ by the number of its area, modulo Bands.    *)
EveryTermMeetsEveryBand ==
    \A a \in DOMAIN Areas, t \in 0..(Terms - 1), b \in 0..(Bands - 1) :
      \E d \in Days : \E s \in CoreSlots :
        LET q == CoreQuery(d, s) IN Areas[a] \in q.areas /\ q.term = {t} /\ q.band = b
==============================================================================
