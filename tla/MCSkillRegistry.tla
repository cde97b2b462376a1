--------------------------- MODULE MCSkillRegistry ---------------------------
(* An instance of SkillRegistry with skills, sources and seeds of the         *)
(* repository's own registry (annotations.yaml, sources.yaml).                *)
EXTENDS SkillRegistry

SkillOf(annotated, caps, domains, triggers, negatives, name) ==
  [annotated |-> annotated, system |-> FALSE, caps |-> caps, domains |-> domains,
   triggers |-> triggers, negatives |-> negatives, name |-> name]

MCLocal ==
  10 :> SkillOf("T3", {"design-system"}, {"design"}, {"design md"}, {}, "marketing") @@
  12 :> SkillOf("T2", {"jtbd", "customer-discovery", "interview-analysis"},
          {"product", "research"}, {"jobs to be done", "interview transcript"}, {}, "plain") @@
  14 :> SkillOf("T2", {"pitch-storytelling"}, {"pitch", "hackathon"},
          {"hackathon pitch", "memorable pitch"}, {"solidity audit"}, "plain") @@
  15 :> SkillOf("T2", {"monad-implementation", "monad-routing"}, {"monad", "web3", "solidity"},
          {"monad", "payment escrow on monad"}, {}, "web3") @@
  18 :> SkillOf("T2", {"solidity-audit", "security-audit"}, {"solidity", "security", "web3"},
          {"solidity", "escrow"}, {"pitch", "hackathon pitch"}, "web3") @@
  20 :> SkillOf("T2", {"temporal-workflows"}, {"backend"}, {"temporal.io"}, {}, "plain") @@
  22 :> SkillOf("T2", {"web3-testing"}, {"web3", "testing"}, {"forge test"}, {}, "web3") @@
  23 :> SkillOf("T2", {"monad-routing", "monad-knowledge"}, {"monad", "web3"}, {"monad"}, {}, "web3")

\* solidity-security and web3-testing come and go.
MCMovable == {18, 22}

Source(id, twin, tier, caps, domains, name) ==
  [id |-> id, twin |-> twin, tier |-> tier, caps |-> caps, domains |-> domains, name |-> name]
MCSources ==
  << Source(24, Nobody, "T2", {"web3-security", "web3-testing"}, {"web3"}, "plain"),
     Source(13, Nobody, "T2", {"solidity-audit", "security-audit"},
            {"solidity", "security", "web3"}, "web3"),
     Source(16, 10, "T3", {"design-system"}, {"design"}, "marketing"),
     Source(17, Nobody, "T2", {"ai-engineering", "math-foundations"}, {"ai-engineering", "math"}, "plain") >>

SeedOf(domains, triggers, negatives) ==
  [domains |-> domains, triggers |-> triggers, negatives |-> negatives]
MCSeeds ==
  [c \in {"solidity-audit", "web3-testing"} |->
     IF c = "solidity-audit" THEN SeedOf({"solidity", "security"}, {"solidity", "escrow"}, {"pitch"})
     ELSE SeedOf({"web3", "testing"}, {"forge test"}, {})]
MCVirtualId ==
  [c \in UNION {MCSources[i].caps : i \in DOMAIN MCSources} |->
     CASE c = "ai-engineering" -> 1 [] c = "design-system" -> 2 [] c = "math-foundations" -> 3
       [] c = "security-audit" -> 4 [] c = "solidity-audit" -> 5 [] c = "web3-security" -> 6
       [] OTHER -> 7]
MCVirtualName ==
  [c \in DOMAIN MCVirtualId |->
     CASE c \in {"solidity-audit", "web3-security", "web3-testing"} -> "web3"
       [] c = "design-system" -> "marketing"
       [] OTHER -> "plain"]

Text(rules, phrases) == [rules |-> rules, phrases |-> phrases]
MCTexts ==
  << Text({"solidity"}, {"solidity", "escrow"}),
     Text({"monad"}, {"monad", "payment escrow on monad", "escrow"}),
     Text({"ai"}, {"ai-engineering", "math-foundations"}),
     Text({"solidity", "pitch"}, {"solidity", "escrow", "hackathon pitch", "memorable pitch", "pitch"}),
     Text({"monad", "jtbd", "temporal"}, {"monad", "jobs to be done", "temporal.io"}),
     Text({"pitch"}, {"hackathon pitch"}),
     Text({}, {"deploy"}),
     Text({}, {}) >>

Hit(id, level, repository, source, scan) ==
  [id |-> id, level |-> level, repository |-> repository, source |-> source, scan |-> scan]
MCHits ==
  { Hit(8, "official", Nobody, "official", "ask"),
    Hit(9, "trusted", 99, "github", "allow"),
    Hit(11, "trusted", 13, "github", "allow"),
    Hit(19, "builtin", Nobody, "builtin", "block"),
    Hit(21, "community", 98, "github", "allow"),
    Hit(25, "trusted", Nobody, "skills-sh", "allow") }
MCHubAnswers == SUBSET MCHits

World(changes, commands, turns, crashes) ==
  [changes |-> changes, commands |-> commands, turns |-> turns, crashes |-> crashes]
\* What comes across what: changes, a command, a turn, a crash.
MCWorlds == {World(2, 1, 0, 0), World(2, 0, 1, 0), World(2, 0, 0, 1),
             World(1, 1, 0, 1), World(1, 0, 1, 1), World(0, 1, 1, 1)}
=============================================================================
