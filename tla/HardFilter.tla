------------------------------ MODULE HardFilter ------------------------------
(***************************************************************************)
(* filtering/: the hard filter, evaluated with the metadata of discovery   *)
(* only and again with what the light analysis could read.                 *)
(*                                                                         *)
(* Metadata m:  fork, archived, template (GitHub's flags); size ("none",   *)
(*   "zero", "some"); described (a description or topics are there);       *)
(*   area (the best area_scores, 2 and more is 2); wording, the patterns   *)
(*   that match, as pairs of a kind and the place the pattern was found.   *)
(* Evidence e:  area and wording again, now with the README; paths (the    *)
(*   tree is there), meaningful (not only boilerplate), sources (the files *)
(*   whose suffix the filter knows), code (all files of code), hasTests,   *)
(*   placeholders.                                                         *)
(***************************************************************************)
EXTENDS Integers, FiniteSets

Kinds == <<"tutorial", "template", "demo", "spam">>    \* in the order they are tried
Rejections == <<"REJECT_TUTORIAL", "REJECT_TEMPLATE", "REJECT_DEMO", "REJECT_SPAM">>

(* The signals a pattern can give: one per kind and place, however many       *)
(* phrases match there.  Promotion and link farms are looked for in the       *)
(* description and the README together.                                       *)
Wordings ==
    ({"tutorial", "template", "demo"} \X {"name", "topic", "description", "readme"})
      \union ({"spam"} \X {"promotion", "caps", "links"})
      \union {<<"template", "template topic">>}

(* FilterEvidence, of the contents c that were read (see LightAnalysis); the  *)
(* first look has evidence of nothing.                                        *)
Evidence(m, c) ==
    [area |-> IF m.area >= c.readme.area THEN m.area ELSE c.readme.area,
     wording |-> m.wording \union c.readme.wording,
     paths |-> c.tree.paths, meaningful |-> c.tree.meaningful, code |-> c.tree.code,
     sources |-> c.tree.sources, hasTests |-> c.tree.hasTests, placeholders |-> c.tree.placeholders]

EmptyRejects(m, e) ==
    IF e.paths
    THEN ~e.meaningful
    ELSE m.size = "zero" \/ (m.size = "none" /\ ~m.described)

Irrelevant(e) == e.area < 2

MinimalUnread(e) == e.sources <= 2    \* mutant
Minimal(e)       == e.paths /\ e.sources <= 2

Wording(e, kind) == {place \in {w[2] : w \in e.wording} : <<kind, place>> \in e.wording}
TreeSignal(condition, name) == IF condition THEN {name} ELSE {}

TemplateMetadata(m, e) == m.template \/ <<"template", "template topic">> \in e.wording

Signals(m, e, kind) ==
    IF kind = "template" /\ TemplateMetadata(m, e) THEN {"metadata"}
    ELSE Wording(e, kind)
           \union TreeSignal(kind = "tutorial" /\ Minimal(e), "tree")
           \union TreeSignal(kind = "template" /\ e.placeholders, "placeholders")
           \union TreeSignal(kind \in {"template", "demo"} /\ Minimal(e) /\ ~e.hasTests, "tree")
           \union TreeSignal(kind = "spam" /\ e.paths /\ e.sources = 0, "tree")

(* semantic_rejection: two signals of one kind.                               *)
Condemned(m, e) == {i \in DOMAIN Kinds : Cardinality(Signals(m, e, Kinds[i])) >= 2}

(* evaluate_candidate: the first rule that rejects, or "PASS".                *)
Verdict(m, e) ==
    IF m.fork THEN "REJECT_FORK"
    ELSE IF m.archived THEN "REJECT_ARCHIVED"
    ELSE IF EmptyRejects(m, e) THEN "REJECT_EMPTY"
    ELSE IF m.template THEN "REJECT_TEMPLATE"
    ELSE IF Irrelevant(e) THEN "REJECT_IRRELEVANT"
    ELSE IF Condemned(m, e) = {} THEN "PASS"
    ELSE Rejections[CHOOSE i \in Condemned(m, e) : \A k \in Condemned(m, e) : i <= k]

Passes(m, e) == Verdict(m, e) = "PASS"
==============================================================================
