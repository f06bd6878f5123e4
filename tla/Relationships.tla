----------------------------- MODULE Relationships -----------------------------
(***************************************************************************)
(* relationships/explorer.py, as the orchestrator calls it after discovery *)
(* and the light analyses: one hop from the first analysed candidates to   *)
(* repositories of the same owner and to linked ones.  All three share the *)
(* client of Discovery.                                                    *)
(***************************************************************************)
EXTENDS Discovery

CONSTANTS Sources,        \* the enabled sources, of 1..4 (discovery.relationship_sources)
          MaxSeeds,       \* discovery.max_relationship_seeds
          MaxPerSource,   \* MAX_PER_SOURCE_PER_SEED
          MaxTotal,       \* MAX_TOTAL_CANDIDATES
          MaxLinks        \* how many links one source of a seed names (a bound of the model)

ASSUME RelationshipsAssumption ==
    /\ Sources \subseteq 1..4 /\ Sources # {}
    /\ MaxSeeds \in Nat \ {0}
    /\ MaxPerSource \in Nat \ {0}
    /\ MaxTotal \in Nat \ {0}
    /\ MaxLinks \in Nat

SameOwner   == 1        \* the sources, in the order the code asks them
LinkSources == 2..4     \* readme_link, dependency, related_project_link
First(sources) == CHOOSE s \in sources : \A t \in sources : s <= t

VARIABLES stage,       \* "discovery", "seed", "source", "links", "done"
          seeds,       \* the seeds not yet expanded
          source,      \* the source that is asked
          links,       \* its links not yet looked at
          results,     \* how many candidates it contributed
          known,       \* what the call excludes: `exclude | set(collected)`
          collected    \* the related candidates; none when the exploration is lost

relVars == <<stage, seeds, source, links, results, known, collected>>
vars == <<discoveryVars, relVars>>

Init ==
    /\ DiscoveryInit
    /\ stage = "discovery"
    /\ seeds = <<>>
    /\ source = First(Sources)
    /\ links = 0 /\ results = 0
    /\ known = {} /\ collected = {}

Discover == stage = "discovery" /\ DiscoveryNext /\ UNCHANGED relVars

(* After the light analyses, which share the client: no exploration when any  *)
(* of it met a limit, or when no analysis was kept.  The locals of the query  *)
(* loop are gone, and nobody looks at the zone any more.                      *)
Analyse ==
    /\ stage = "discovery" /\ pc = "done"
    /\ limited' \in {limited, TRUE}
    /\ \E kept \in SUBSET ToSet(found) :
         LET lights == SelectSeq(found, LAMBDA r : r \in kept)
         IN IF limited' \/ reason = "RATE_LIMIT_RED" \/ lights = <<>>
            THEN stage' = "done" /\ UNCHANGED seeds
            ELSE /\ stage' = "seed"
                 /\ seeds' = SubSeq(lights, 1, IF Len(lights) < MaxSeeds THEN Len(lights) ELSE MaxSeeds)
    /\ todo' = <<>> /\ sent' = <<>> /\ page' = 0
    /\ UNCHANGED <<day, zone, pc, found, matched, reason,
                   source, links, results, known, collected>>

(* `exclude | set(collected)`, fixed for the whole of one source.             *)
KnownSeedOnly(others) == {seeds[1]} \union others    \* mutant
Known(others)         == ToSet(found) \union others

CeilingReached == Cardinality(collected) >= MaxTotal

NextSeed ==
    /\ stage = "seed"
    /\ IF seeds = <<>> \/ CeilingReached
       THEN stage' = "done" /\ UNCHANGED <<source, known>>
       ELSE stage' = "source" /\ source' = First(Sources) /\ known' = Known(collected)
    /\ UNCHANGED <<discoveryVars, seeds, links, results, collected>>

(* The next enabled source of this seed, or the next seed.                    *)
Later == {s \in Sources : s > source}
Onward ==
    IF Later # {}
    THEN /\ stage' = "source" /\ source' = First(Later)
         /\ known' = Known(collected')
         /\ UNCHANGED seeds
    ELSE stage' = "seed" /\ seeds' = Tail(seeds) /\ UNCHANGED <<source, known>>

(* _same_owner: one list, of which the first few new ones count; an error of  *)
(* the request is an empty list.                                              *)
AskOwner ==
    /\ stage = "source" /\ source = SameOwner /\ ~limited
    /\ \E new \in SUBSET (Repos \ known) :
         /\ Cardinality(new) <= MaxPerSource
         /\ collected' = collected \union new
    /\ Onward
    /\ UNCHANGED <<discoveryVars, links, results>>

ReadLinks ==
    /\ stage = "source" /\ source \in LinkSources
    /\ stage' = "links"
    /\ links' \in 0..MaxLinks
    /\ results' = 0
    /\ UNCHANGED <<discoveryVars, seeds, source, known, collected>>

SourceFull == results >= MaxPerSource

(* _from_links, one request per link: a candidate not excluded counts, also   *)
(* when two links of the source lead to the same one; anything else does not. *)
FollowLink ==
    /\ stage = "links" /\ links > 0 /\ ~SourceFull /\ ~limited
    /\ links' = links - 1
    /\ \/ \E r \in Repos \ known : collected' = collected \union {r} /\ results' = results + 1
       \/ UNCHANGED <<collected, results>>
    /\ UNCHANGED <<discoveryVars, stage, seeds, source, known>>

SourceDone ==
    /\ stage = "links" /\ (links = 0 \/ SourceFull)
    /\ links' = 0
    /\ UNCHANGED <<results, collected>>
    /\ Onward
    /\ UNCHANGED discoveryVars

(* A limit in any request ends the exploration; what it collected is lost.    *)
ExplorationLimited ==
    /\ \/ stage = "source" /\ source = SameOwner
       \/ stage = "links" /\ links > 0 /\ ~SourceFull
    /\ limited' = TRUE
    /\ stage' = "done" /\ collected' = {}
    /\ UNCHANGED <<day, zone, pc, todo, sent, page, found, matched, reason, seeds, source, links, results, known>>

(* Any other exception, of a payload that cannot be read, loses it as well.   *)
ExplorationFailed ==
    /\ stage = "source" \/ (stage = "links" /\ links > 0 /\ ~SourceFull)
    /\ stage' = "done" /\ collected' = {}
    /\ UNCHANGED <<discoveryVars, seeds, source, links, results, known>>

Explore ==
    \/ NextSeed \/ AskOwner \/ ReadLinks \/ FollowLink \/ SourceDone
    \/ ExplorationLimited \/ ExplorationFailed

Next == Discover \/ Analyse \/ Explore

Spec == Init /\ [][Next]_vars /\ WF_vars(Next)

-----------------------------------------------------------------------------
TypeOK ==
    /\ DiscoveryTypeOK
    /\ stage \in {"discovery", "seed", "source", "links", "done"}
    /\ ToSet(seeds) \subseteq Repos /\ Len(seeds) <= MaxSeeds
    /\ source \in Sources
    /\ links \in 0..MaxLinks /\ results \in 0..MaxPerSource
    /\ known \subseteq Repos /\ collected \subseteq Repos

(* The orchestrator goes by stopped_reason: a limit discovery met is in it.   *)
LimitIsTold ==
    stage = "discovery" /\ pc = "done" /\ limited =>
      reason \in {"RATE_LIMIT_RED", "RATE_LIMIT_RESPONSE"}

StopsAreTrue == (stage = "discovery" => ReasonIsTrue) /\ LimitIsTold

(* A related candidate is new to the run: what discovery found, and what the  *)
(* hard filter rejected of it, does not come back through a neighbour.        *)
RelatedAreNew == collected \intersect ToSet(found) = {}

(* The pass is bounded: the ceiling is looked at before each seed, so that    *)
(* only one seed's contributions can go beyond it.                            *)
ExplorationIsBounded == Cardinality(collected) < MaxTotal + Cardinality(Sources) * MaxPerSource

(* "Hard ceiling for one exploration pass" (explorer.py:26).                  *)
CeilingHolds == Cardinality(collected) <= MaxTotal

(* The run gets on: discovery and exploration end whatever GitHub answers,    *)
(* for an error is not retried and every answer and list of links is finite.  *)
EveryExplorationEnds == <>(stage = "done")
==============================================================================
