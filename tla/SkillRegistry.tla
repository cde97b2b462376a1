---------------------------- MODULE SkillRegistry ----------------------------
(***************************************************************************)
(* The registry of skills on disk and what keeps it up to date: threads of *)
(* a Hermes gateway whose hooks run when a skill was changed               *)
(* (on_skill_lifecycle) and before a turn (pre_llm_call), and the command  *)
(* agent-os regenerate in a process of its own.  A regeneration lists the  *)
(* skills, reads them and replaces six files, one after the other; only    *)
(* the lifecycle hook takes the gateway's lock for it.                     *)
(***************************************************************************)
EXTENDS SkillRouting

CONSTANTS
  Threads,     \* threads of the gateway
  Commands,    \* processes that run agent-os regenerate
  Movable,     \* skills that are installed or removed
  Texts,       \* what tasks say
  HubAnswers,  \* sets of hits a search may return
  Absent,      \* content of a file that does not exist
  Worlds       \* bounds a behaviour may start with: changes of the skills, runs
               \* of agent-os regenerate, turns, crashes of a process

Procs == Threads \union Commands
ASSUME RegistryAssumption ==
  /\ Threads \cap Commands = {} /\ Movable \subseteq Skills
  /\ HubAnswers \subseteq SUBSET Hits
  /\ Worlds \subseteq [changes: Nat, commands: Nat, turns: Nat, crashes: Nat]

VARIABLES
  disk,    \* the skills under ~/.hermes/skills
  files,   \* the generated files, each the inventory it was made of
  dirty,   \* .registry.dirty exists
  stamp,   \* .last_regen exists
  mutex,   \* holder of lifecycle.sync's lock, a lock of the gateway process
  work,    \* work[p]: what p does and what it has read
  settled, \* history: the files come from a regeneration nothing came across
  left     \* changes, commands, turns and crashes that may still come
vars == <<disk, files, dirty, stamp, mutex, work, settled, left>>

\* The order in which regenerate replaces its files; the evidence comes last.
FileOrder == <<"registry", "capabilities", "lock", "manifest", "projection">>
FileNames == {FileOrder[i] : i \in 1..5}
Inventories == SUBSET Skills
Idle == [step |-> "idle", kind |-> "none", seen |-> {}, next |-> 1,
         hashes |-> <<Absent, Absent>>, lone |-> FALSE]
Steps == {"idle", "mark", "lock", "check", "list", "read", "write", "hash", "evidence",
          "stamp", "clear", "load", "hint"}

Init ==
  /\ disk = Skills
  /\ \E content \in {Absent, {}} :
       files = [registry |-> content, capabilities |-> content, lock |-> content,
                manifest |-> content, projection |-> content, evidence |-> <<content, content>>]
  /\ dirty = FALSE /\ stamp = FALSE /\ mutex = Absent
  /\ work = [p \in Procs |-> Idle]
  /\ settled = FALSE
  /\ left \in Worlds

-----------------------------------------------------------------------------
Step(p, s) == work[p].step = s
Goes(p, s) == work' = [work EXCEPT ![p].step = s]
Regenerating == {p \in Procs : work[p].step \in
                   {"read", "write", "hash", "evidence", "stamp", "clear"}}
Overtaken(w) == [p \in Procs |-> [w[p] EXCEPT !.lone = FALSE]]
Released(p) == IF mutex = p THEN Absent ELSE mutex

\* A skill is installed or removed and Hermes calls the lifecycle hook.
Change(p) ==
  /\ p \in Threads /\ Step(p, "idle") /\ left.changes > 0
  /\ left' = [left EXCEPT !.changes = @ - 1]
  /\ \E s \in Movable : disk' = IF s \in disk THEN disk \ {s} ELSE disk \union {s}
  /\ work' = [Overtaken(work) EXCEPT ![p].step = "mark", ![p].kind = "event"]
  /\ settled' = (settled /\ Regenerating = {})
  /\ UNCHANGED <<files, dirty, stamp, mutex>>

MarkDirty(p) ==
  /\ Step(p, "mark") /\ Goes(p, "lock")
  /\ dirty' = TRUE
  /\ UNCHANGED <<disk, files, stamp, mutex, settled, left>>

TakeLock(p) ==
  /\ Step(p, "lock") /\ mutex = Absent
  /\ mutex' = p /\ Goes(p, "check")
  /\ UNCHANGED <<disk, files, dirty, stamp, settled, left>>

\* Less than two seconds after the last regeneration, if there was one:
\* whether so much time has passed is not part of the state.
TooRecent == {FALSE} \union (IF stamp THEN {TRUE} ELSE {})

\* Mutant of CheckDirty: what is refused for the interval is forgotten.
CheckForgets(p) ==
  /\ Step(p, "check")
  /\ \E recent \in TooRecent :
       IF dirty /\ ~recent THEN Goes(p, "list") /\ UNCHANGED <<mutex, dirty>>
       ELSE work' = [work EXCEPT ![p] = Idle] /\ mutex' = Released(p) /\ dirty' = FALSE
  /\ UNCHANGED <<disk, files, stamp, settled, left>>

\* regenerate_if_dirty: another thread did it, or the last one is too recent;
\* then the flag stays and nobody comes back for it.
CheckDirty(p) ==
  /\ Step(p, "check")
  /\ \E recent \in TooRecent :
       IF dirty /\ ~recent THEN Goes(p, "list") /\ UNCHANGED mutex
       ELSE work' = [work EXCEPT ![p] = Idle] /\ mutex' = Released(p)
  /\ UNCHANGED <<disk, files, dirty, stamp, settled, left>>

StartCommand(p) ==
  /\ p \in Commands /\ Step(p, "idle") /\ left.commands > 0
  /\ left' = [left EXCEPT !.commands = @ - 1]
  /\ work' = [work EXCEPT ![p].step = "list", ![p].kind = "command"]
  /\ UNCHANGED <<disk, files, dirty, stamp, mutex, settled>>

\* A turn or a tool call: without a registry it regenerates one, unlocked.
Turn(p) ==
  /\ p \in Threads /\ Step(p, "idle") /\ left.turns > 0
  /\ left' = [left EXCEPT !.turns = @ - 1]
  /\ work' = [work EXCEPT ![p].kind = "turn",
                          ![p].step = IF files.registry = Absent THEN "list" ELSE "load"]
  /\ UNCHANGED <<disk, files, dirty, stamp, mutex, settled>>

\* inventory_skills finds the SKILL.md files, then reads them one by one.
ListSkills(p) ==
  /\ Step(p, "list")
  /\ work' = [(IF Regenerating = {} THEN work ELSE Overtaken(work)) EXCEPT
                ![p].step = "read", ![p].seen = disk, ![p].lone = (Regenerating = {})]
  /\ UNCHANGED <<disk, files, dirty, stamp, mutex, settled, left>>

\* Mutant of ReadSkills: a skill that is gone leaves the lock taken.
ReadOrHang(p) ==
  /\ Step(p, "read")
  /\ IF work[p].seen \subseteq disk THEN work' = [work EXCEPT ![p].step = "write", ![p].next = 1]
     ELSE work' = [work EXCEPT ![p] = Idle]
  /\ UNCHANGED <<disk, files, dirty, stamp, mutex, settled, left>>

\* A listed skill that is gone ends it; the hooks swallow the exception.
ReadSkills(p) ==
  /\ Step(p, "read")
  /\ IF work[p].seen \subseteq disk
       THEN work' = [work EXCEPT ![p].step = "write", ![p].next = 1] /\ UNCHANGED mutex
       ELSE work' = [work EXCEPT ![p] = Idle] /\ mutex' = Released(p)
  /\ UNCHANGED <<disk, files, dirty, stamp, settled, left>>

\* Mutant of WriteFile: a file that exists is not replaced.
WriteMissing(p) ==
  /\ Step(p, "write")
  /\ LET name == FileOrder[work[p].next] IN
       files' = [files EXCEPT ![name] = IF name = "projection" /\ @ # Absent THEN @ ELSE work[p].seen]
  /\ work' = [work EXCEPT ![p].next = IF @ = 5 THEN 1 ELSE @ + 1,
                          ![p].step = IF work[p].next = 5 THEN "hash" ELSE "write"]
  /\ UNCHANGED <<disk, dirty, stamp, mutex, settled, left>>

\* _atomic_write: a temporary file, renamed.
WriteFile(p) ==
  /\ Step(p, "write")
  /\ files' = [files EXCEPT ![FileOrder[work[p].next]] = work[p].seen]
  /\ work' = [work EXCEPT ![p].next = IF @ = 5 THEN 1 ELSE @ + 1,
                          ![p].step = IF work[p].next = 5 THEN "hash" ELSE "write"]
  /\ UNCHANGED <<disk, dirty, stamp, mutex, settled, left>>

\* The evidence is made of what the files hold now.
HashFiles(p) ==
  /\ Step(p, "hash")
  /\ work' = [work EXCEPT ![p].step = "evidence", ![p].hashes = <<files.registry, files.manifest>>]
  /\ UNCHANGED <<disk, files, dirty, stamp, mutex, settled, left>>

WriteEvidence(p) ==
  /\ Step(p, "evidence")
  /\ files' = [files EXCEPT !.evidence = work[p].hashes]
  /\ LET w == work[p] IN
       work' = [work EXCEPT ![p] =
         CASE w.kind = "event"   -> [w EXCEPT !.step = "stamp"]
           [] w.kind = "turn"    -> [w EXCEPT !.step = "load"]
           [] w.kind = "command" -> Idle]
  /\ settled' = (settled \/ (work[p].kind # "event" /\ work[p].lone))
  /\ UNCHANGED <<disk, dirty, stamp, mutex, left>>

WriteStamp(p) ==
  /\ Step(p, "stamp") /\ Goes(p, "clear")
  /\ stamp' = TRUE
  /\ UNCHANGED <<disk, files, dirty, mutex, settled, left>>

ClearDirty(p) ==
  /\ Step(p, "clear")
  /\ dirty' = FALSE
  /\ settled' = (settled \/ work[p].lone)
  /\ work' = [work EXCEPT ![p] = Idle] /\ mutex' = Released(p)
  /\ UNCHANGED <<disk, files, stamp, left>>

LoadRegistry(p) ==
  /\ Step(p, "load")
  /\ work' = [work EXCEPT ![p].step = "hint", ![p].seen = files.registry]
  /\ UNCHANGED <<disk, files, dirty, stamp, mutex, settled, left>>

\* The routing context, or the resolver's answer, is returned.
Answer(p) ==
  /\ Step(p, "hint")
  /\ work' = [work EXCEPT ![p] = Idle]
  /\ UNCHANGED <<disk, files, dirty, stamp, mutex, settled, left>>

\* The gateway ends with all its threads, or a command does.
Crash(dying) ==
  /\ left.crashes > 0 /\ \E p \in dying : ~Step(p, "idle")
  /\ left' = [left EXCEPT !.crashes = @ - 1]
  /\ work' = [p \in Procs |-> IF p \in dying THEN Idle ELSE work[p]]
  /\ mutex' = IF mutex \in dying THEN Absent ELSE mutex
  /\ settled' = (settled /\ \A p \in dying : work[p].step # "mark" /\ p \notin Regenerating)
  /\ UNCHANGED <<disk, files, dirty, stamp>>

Proceed(p) ==
  \/ MarkDirty(p) \/ TakeLock(p) \/ CheckDirty(p) \/ ListSkills(p) \/ ReadSkills(p)
  \/ WriteFile(p) \/ HashFiles(p) \/ WriteEvidence(p) \/ WriteStamp(p) \/ ClearDirty(p)
  \/ LoadRegistry(p) \/ Answer(p)

Next ==
  \/ \E p \in Procs : Change(p) \/ StartCommand(p) \/ Turn(p) \/ Proceed(p)
  \/ Crash(Threads) \/ \E p \in Commands : Crash({p})

\* Threads and processes run on; nobody has to change a skill or to ask.
Fairness == \A p \in Procs : WF_vars(Proceed(p))
Spec == Init /\ [][Next]_vars /\ Fairness

-----------------------------------------------------------------------------
(* Properties. *)

TypeOK ==
  /\ disk \in Inventories /\ dirty \in BOOLEAN /\ settled \in BOOLEAN
  /\ \A name \in FileNames : files[name] \in Inventories \union {Absent}
  /\ \A i \in 1..2 : files.evidence[i] \in Inventories \union {Absent}
  /\ stamp \in BOOLEAN /\ mutex \in Threads \union {Absent}
  /\ \A p \in Procs : /\ work[p].step \in Steps /\ work[p].seen \in Inventories
                      /\ work[p].next \in 1..5
  /\ left \in [changes: Nat, commands: Nat, turns: Nat, crashes: Nat]

Quiet == \A p \in Procs : work[p].step \in {"idle", "load", "hint"}

\* The six files are of one inventory, unless a change, another regeneration
\* or a crash came across the one that wrote them: six renames are not one.
FilesAgree ==
  Quiet /\ settled =>
    /\ \A name \in FileNames : files[name] = files.registry
    /\ files.evidence = <<files.registry, files.registry>>

\* The variables and the six files hold what they can hold: whole inventories,
\* and of one inventory where nothing came across the writer.
Consistent == TypeOK /\ FilesAgree

\* A registry that lags behind the skills is marked dirty, so that the next
\* lifecycle event repairs it; the flag is lost only where a change came
\* across a regeneration, or a crash between a change and its mark.
StaleIsMarked == Quiet /\ settled => files.registry = disk \/ dirty

\* Every hook and every command returns, whatever the lock, the skills that
\* disappear while they are read and the crashes.
HooksReturn == \A p \in Procs : ~Step(p, "idle") ~> Step(p, "idle")

\* The registries that occur, and what each task is answered from them.
Installable == {{}} \union {(Skills \ Movable) \union m : m \in SUBSET Movable}
RegistryOf == [inventory \in Installable |-> BuildRegistry(inventory)]
RouteOf == [inventory \in Installable |-> [t \in DOMAIN Texts |->
  RouteTask(RegistryOf[inventory], Texts[t])]]
Answers(p) == {RouteOf[work[p].seen][t] : t \in DOMAIN Texts}

\* A capability is reported missing only if no installed skill that ranks has
\* it, or three skills were selected before it was covered.
MissingHasAReason ==
  \A p \in Procs : Step(p, "hint") =>
    \A t \in DOMAIN Texts :
      LET route == RouteOf[work[p].seen][t]
          task  == Classify(Texts[t])
      IN \A cap \in route.missing :
           \/ Len(route.selected) = MaxSelected
           \/ \A e \in RegistryOf[work[p].seen] :
                e.state = "installed" /\ cap \in e.caps => ScoreSkill(e, task, Texts[t]) <= 0

\* Each recommended skill after the first covers a required capability that
\* none before it covers, so a task is not told to load skills for nothing.
SelectionIsNeeded ==
  \A p \in Procs : Step(p, "hint") =>
    \A t \in DOMAIN Texts :
      LET s == RouteOf[work[p].seen][t].selected IN
      \A i \in 2..Len(s) :
        \E cap \in s[i].caps \cap Classify(Texts[t]).caps : \A j \in 1..(i - 1) : cap \notin s[j].caps

\* What a task misses is installed without asking only as its tier allows: the
\* Agent OS's own and official skills unless a scan blocks them, curated ones if a
\* scan allows them, community and rejected ones never; and a better tier that
\* no scan blocks goes first.  A hub's word "trusted" makes a hit curated only if no
\* repository outside the allowlist is named, or the source is official.  It is
\* less than the documents say: see InstallsAsDocumented.
InstallsByTier ==
  \A p \in Procs : Step(p, "hint") =>
    LET registry == RegistryOf[work[p].seen] IN
    \A cap \in UNION {r.missing : r \in Answers(p)} : \A hits \in HubAnswers :
      \A c \in ResolveMissing(registry, cap, hits).install :
        /\ \/ c.tier \in {"T0", "T1"} /\ c.scan # "block"
           \/ /\ c.tier = "T2" /\ c.scan = "allow"
              /\ \/ c.repository \in Allowlisted \union {Nobody}
                 \/ c.source \in {"official", "builtin"}
        /\ \A d \in Candidates(registry, cap, hits) :
             d.tier \in {"T0", "T1"} /\ d.scan # "block" => c.tier \in {"T0", d.tier}

\* Whatever registry a turn reads, its answer has a reason in it: for what is
\* missing, for each skill recommended and for what may be installed.
AnswersHaveReasons == MissingHasAReason /\ SelectionIsNeeded /\ InstallsByTier

\* docs/agent-os/skills/SKILL_TRUST_MODEL.md says that a curated skill is
\* installed "only if allowlisted", and that "`ask` scan outcomes are not
\* auto-install".  The code takes a trusted hit that names no repository for
\* allowlisted, and does not let an "ask" keep T0 and T1 back.
InstallsAsDocumented ==
  \A p \in Procs : Step(p, "hint") =>
    \A cap \in UNION {r.missing : r \in Answers(p)} : \A hits \in HubAnswers :
      \A c \in ResolveMissing(RegistryOf[work[p].seen], cap, hits).install :
        /\ c.tier = "T2" => c.repository \in Allowlisted
        /\ c.scan # "ask"
=============================================================================
