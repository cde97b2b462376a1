---------------------------- MODULE SkillRouting ----------------------------
(***************************************************************************)
(* What the Agent OS answers from its registry of skills: the registry an  *)
(* inventory yields (agent_os/registry/generate.py), the skills a task is  *)
(* routed to (core/classifier.py, core/router.py) and what the resolver    *)
(* would install for a missing capability (core/resolver.py).              *)
(*                                                                         *)
(* A skill, a source and a capability are an identifier with the fields    *)
(* these answers look at; identifiers are numbers in alphabetical order.   *)
(* A task's text is the set of classifier rules and of phrases it matches; *)
(* a capability's name is also the phrase its words form.                  *)
(* Scores are the code's, doubled.                                         *)
(***************************************************************************)
EXTENDS Integers, FiniteSets, Sequences, SequencesExt

CONSTANTS
  Local,     \* local skills: what their SKILL.md and the annotations yield, by id
  Sources,   \* sources.yaml, in its order: stub id, twin, tier, capabilities, domains
  Seeds,     \* capability_seeds: domains, triggers and negatives per capability
  VirtualId, \* the id of the virtual skill of a capability
  VirtualName, \* what its name, capability:<name>, speaks of
  Hits,      \* what a search of the hub may find
  Nobody     \* no tier, no twin, no repository

Skills == DOMAIN Local
Tiers == {"T0", "T1", "T2", "T3", "T4"}

Ids == {Sources[i].id : i \in DOMAIN Sources}
Offered == UNION {Sources[i].caps : i \in DOMAIN Sources}

\* Each file lists finitely much, and the registry is a dict: two repositories
\* have two ids, and capability:<name> is no skill's and no repository's.
ASSUME RoutingAssumption ==
  /\ IsFiniteSet(Skills) /\ Skills \subseteq Nat /\ IsFiniteSet(DOMAIN Sources)
  /\ \A i \in DOMAIN Sources :
       /\ i \in Nat /\ Sources[i].id \in Nat /\ Sources[i].tier \in Tiers
       /\ IsFiniteSet(Sources[i].caps) /\ IsFiniteSet(Sources[i].domains)
       /\ \A j \in DOMAIN Sources : Sources[i].id = Sources[j].id => i = j
  /\ \A cap \in Offered :
       /\ VirtualId[cap] \in Nat \ (Skills \union Ids)
       /\ \A c \in Offered : VirtualId[c] = VirtualId[cap] => c = cap
  /\ \A id \in Skills : IsFiniteSet(Local[id].caps) /\ IsFiniteSet(Local[id].domains)
                       /\ IsFiniteSet(Local[id].triggers) /\ IsFiniteSet(Local[id].negatives)
  /\ \A cap \in DOMAIN Seeds : /\ IsFiniteSet(Seeds[cap].domains)
                               /\ IsFiniteSet(Seeds[cap].triggers)
                               /\ IsFiniteSet(Seeds[cap].negatives)
  /\ \A h \in Hits : h.id \in Nat

-----------------------------------------------------------------------------
(* build_registry. *)

\* The sources whose stub has the id of an installed skill, or that are named
\* as its origin (nolly-studio-design-md).
SourceOf(id) == {i \in DOMAIN Sources : id \in {Sources[i].id, Sources[i].twin}}

\* A local skill: T0 for the Agent OS's own, else T1; an annotation's tier
\* comes before that, the tier of a colliding source before both.
LocalTier(id) ==
  IF SourceOf(id) # {} THEN Sources[Max(SourceOf(id))].tier
  ELSE IF Local[id].annotated \in Tiers THEN Local[id].annotated
  ELSE IF Local[id].system THEN "T0" ELSE "T1"

LocalEntry(id) ==
  LET s     == Local[id]
      twins == {i \in DOMAIN Sources : Sources[i].twin = id} IN
  [id |-> id, state |-> "installed", tier |-> LocalTier(id),
   caps |-> s.caps \union UNION {Sources[i].caps : i \in twins},
   domains |-> s.domains, triggers |-> s.triggers, negatives |-> s.negatives, name |-> s.name]

\* The sources no installed skill stands for.
Stubbed(inventory) == {i \in DOMAIN Sources : \A id \in inventory : i \notin SourceOf(id)}

StubEntry(i) ==
  [id |-> Sources[i].id, state |-> "not_installed", tier |-> Sources[i].tier,
   caps |-> Sources[i].caps, domains |-> Sources[i].domains,
   triggers |-> Sources[i].caps, negatives |-> {}, name |-> Sources[i].name]

\* A capability of several stubs is described by the first of them.
VirtualEntry(cap, stubs) ==
  LET first == Sources[CHOOSE i \in stubs : /\ cap \in Sources[i].caps
                                            /\ \A j \in stubs : cap \in Sources[j].caps => i <= j]
      seed  == IF cap \in DOMAIN Seeds THEN Seeds[cap]
               ELSE [domains |-> first.domains, triggers |-> {cap}, negatives |-> {}]
  IN [id |-> VirtualId[cap], state |-> "virtual", tier |-> first.tier, caps |-> {cap},
      domains |-> seed.domains, triggers |-> seed.triggers, negatives |-> seed.negatives,
      name |-> VirtualName[cap]]

\* The rows of github-expanded.json are left out: none of them is installed and
\* none has a capability, so they are neither selected nor missed nor resolved.
BuildRegistry(inventory) ==
  LET stubs == Stubbed(inventory) IN
    {LocalEntry(id) : id \in inventory}
      \union {StubEntry(i) : i \in stubs}
      \union {VirtualEntry(cap, stubs) : cap \in UNION {Sources[i].caps : i \in stubs}}

-----------------------------------------------------------------------------
(* classify_task. *)

Rule(domains, audit, caps) == [domains |-> domains, audit |-> audit, caps |-> caps]
Rules ==
  [solidity  |-> Rule({"solidity", "security", "web3"}, TRUE, {"solidity-audit", "web3-testing"}),
   monad     |-> Rule({"monad", "web3", "solidity"}, FALSE,
                   {"monad-routing", "monad-implementation", "web3-testing", "solidity-audit"}),
   ai        |-> Rule({"ai-engineering", "math"}, FALSE, {"ai-engineering"}),
   jtbd      |-> Rule({"product", "research"}, FALSE, {"jtbd"}),
   idea      |-> Rule({"startup", "validation"}, FALSE, {"assumption-testing", "adversarial-review"}),
   pitch     |-> Rule({"pitch", "hackathon"}, FALSE, {"pitch-storytelling"}),
   frontend  |-> Rule({"frontend"}, FALSE, {"frontend-nextjs"}),
   temporal  |-> Rule({"backend"}, FALSE, {"temporal-workflows"}),
   review    |-> Rule({"startup", "review"}, FALSE, {"adversarial-review"})]

Classify(text) ==
  LET weak == text.rules = {} /\ "deploy" \in text.phrases IN
  [caps    |-> UNION {Rules[r].caps : r \in text.rules}
                 \union (IF weak THEN {"devops-deploy"} ELSE {}),
   domains |-> UNION {Rules[r].domains : r \in text.rules}
                 \union (IF weak THEN {"devops"} ELSE {}),
   audit   |-> \E r \in text.rules : Rules[r].audit]

-----------------------------------------------------------------------------
(* score_skill and route_task. *)

TierBonus == [T0 |-> 4, T1 |-> 3, T2 |-> 2, T3 |-> 0, T4 |-> -200]
Given(points, condition) == IF condition THEN points ELSE 0

ScoreSkill(e, task, text) ==
  LET overlap == e.caps \cap task.caps IN
    20 * Cardinality(overlap)
  + 6 * Cardinality(e.domains \cap task.domains)
  + 8 * Cardinality(e.triggers \cap text.phrases)
  - 16 * Cardinality(e.negatives \cap text.phrases)
  + TierBonus[e.tier]
  + Given(3, overlap # {} /\ Cardinality(e.caps) <= 3)
  - Given(1, e.state # "installed")
  - Given(24, (task.audit \/ "solidity-audit" \in task.caps) /\ e.name = "marketing")
  - Given(24, "ai-engineering" \in task.caps /\ e.name = "web3")

InOrder(S, Before(_, _)) ==
  [i \in 1..Cardinality(S) |-> CHOOSE e \in S : Cardinality({d \in S : Before(d, e)}) = i - 1]

\* Mutant of Ranked: by score and name alone.
RankedByScore(registry, task, text) ==
  LET Points(e) == ScoreSkill(e, task, text)
      Before(a, b) == Points(a) > Points(b) \/ (Points(a) = Points(b) /\ a.id < b.id)
  IN InOrder({e \in registry : Points(e) > 0}, Before)

\* Installed skills first, then by score, then by name.
Ranked(registry, task, text) ==
  LET Points(e) == ScoreSkill(e, task, text)
      Before(a, b) ==
        IF (a.state = "installed") # (b.state = "installed") THEN a.state = "installed"
        ELSE Points(a) > Points(b) \/ (Points(a) = Points(b) /\ a.id < b.id)
  IN InOrder({e \in registry : Points(e) > 0}, Before)

MaxSelected == 3
MaxSupporting == 2
NoRoute(task) == [selected |-> <<>>, supporting |-> {}, missing |-> {}, remaining |-> task.caps]

\* Mutant of Cover: what a selected skill covers stays to be covered.
CoverKeepsRemaining(route, e, task, points) ==
  IF e.state = "installed" /\ e.caps \cap route.remaining # {} /\ Len(route.selected) < MaxSelected
    THEN [route EXCEPT !.selected = Append(@, e)]
  ELSE route

\* One skill of the ranking: it is selected for what remains to be covered,
\* or supports, or tells what is missing.
Cover(route, e, task, points) ==
  LET new == e.caps \cap route.remaining IN
  IF new = {} /\ route.selected # <<>> THEN
    IF /\ e.state = "installed" /\ e.caps \cap task.caps # {}
       /\ Cardinality(route.supporting) < MaxSupporting
      THEN [route EXCEPT !.supporting = @ \union {e}] ELSE route
  ELSE IF new = {} /\ points < 10 THEN route
  ELSE IF e.state = "installed" THEN
    IF Len(route.selected) < MaxSelected
      THEN [route EXCEPT !.selected = Append(@, e), !.remaining = @ \ e.caps] ELSE route
  ELSE [route EXCEPT !.missing = @ \union new,
                     !.remaining = IF e.state = "virtual" THEN @ ELSE @ \ e.caps]

\* What is decided after the first n skills of the ranking, for each n.
Decided(ranking, task, text) ==
  LET route[n \in 0..Len(ranking)] ==
        IF n = 0 THEN NoRoute(task)
        ELSE Cover(route[n - 1], ranking[n], task, ScoreSkill(ranking[n], task, text))
  IN route

\* What remains uncovered is missing; without a signal nothing is asked for.
RouteTask(registry, text) ==
  LET task    == Classify(text)
      ranking == Ranked(registry, task, text)
      route   == Decided(ranking, task, text)[Len(ranking)]
  IN IF task.caps = {} THEN NoRoute(task)
     ELSE [route EXCEPT !.missing = @ \union route.remaining]

-----------------------------------------------------------------------------
(* resolve_missing_capability. *)

Allowlisted == {Sources[i].id : i \in {j \in DOMAIN Sources : Sources[j].tier = "T2"}}

\* map_hermes_trust; a level the policy does not name is community.
HermesTrust == [builtin |-> "T1", trusted |-> "T2", community |-> "T3", local |-> "T0", official |-> "T1"]

\* Mutant of TierOfHit: the hub's word is taken.
TierAsClaimed(hit) == IF hit.level \in DOMAIN HermesTrust THEN HermesTrust[hit.level] ELSE "T3"

TierOfHit(hit) ==
  LET tier == IF hit.level \in DOMAIN HermesTrust THEN HermesTrust[hit.level] ELSE "T3" IN
  IF /\ tier = "T2" /\ hit.repository \notin Allowlisted \union {Nobody}
     /\ hit.source \notin {"official", "builtin"}
    THEN "T3" ELSE tier

\* Without an identifier to scan, T0 and T1 pass and the others are asked about.
Unscanned(tier) == IF tier \in {"T0", "T1"} THEN "allow" ELSE "ask"

Candidates(registry, cap, hits) ==
  {[id |-> e.id, tier |-> e.tier, scan |-> Unscanned(e.tier),
    repository |-> Nobody, source |-> "registry"] :
     e \in {x \in registry : x.state # "installed" /\ cap \in x.caps}}
  \union
  {[id |-> h.id, tier |-> TierOfHit(h), scan |-> h.scan,
    repository |-> h.repository, source |-> h.source] : h \in hits}

MayInstall(c) ==
  CASE c.tier \in {"T0", "T1"} -> c.scan # "block"
    [] c.tier = "T2"           -> c.scan = "allow"
    [] OTHER                   -> FALSE

\* The candidates are tried by tier, then by name.
Preferred(candidates) ==
  CHOOSE c \in candidates : \A d \in candidates :
    LET rank == [T0 |-> 0, T1 |-> 1, T2 |-> 2, T3 |-> 3, T4 |-> 9] IN
    rank[c.tier] < rank[d.tier] \/ (rank[c.tier] = rank[d.tier] /\ c.id <= d.id)

ResolveMissing(registry, cap, hits) ==
  LET all == Candidates(registry, cap, hits)
      fit == {c \in all : MayInstall(c)}
  IN IF \E e \in registry : e.state = "installed" /\ cap \in e.caps
     THEN [action |-> "already_installed", install |-> {}]
     ELSE IF all = {} THEN [action |-> "not_found", install |-> {}]
     ELSE IF fit # {} THEN [action |-> "would_install", install |-> {Preferred(fit)}]
     ELSE [action |-> "refused", install |-> {}]
=============================================================================
