------------------------ MODULE SkillRegistry_proofs ------------------------
(***************************************************************************)
(* Proofs about SkillRegistry: Consistent, StaleIsMarked and, of what is   *)
(* answered, AnswersHaveReasons, for every set of skills, of threads and   *)
(* of commands, every catalogue, every text, every answer of the hub and   *)
(* every world.                                                            *)
(***************************************************************************)
EXTENDS SkillRegistry, FiniteSetTheorems, WellFoundedInduction, TLAPS

-----------------------------------------------------------------------------
(* The inductive invariant. *)

\* What can be on the disk: the skills that never move, and some of the others.
Standing == {(Skills \ Movable) \union m : m \in SUBSET Movable}

Contents == Installable \union {Absent}

Works ==
  [step : Steps, kind : {"none", "event", "turn", "command"}, seen : Installable,
   next : 1..5, hashes : Contents \X Contents, lone : BOOLEAN]

FilesOK ==
  /\ DOMAIN files = FileNames \union {"evidence"}
  /\ \A name \in FileNames : files[name] \in Contents
  /\ files.evidence \in Contents \X Contents

\* What a process has written already, and who takes the lock.
WorkOK(p) ==
  /\ work[p].step # "idle" => work[p].kind # "none"
  /\ work[p].step \in {"mark", "lock"} => p \in Threads
  /\ \/ work[p].step = "write" /\ work[p].next > 1
     \/ work[p].step \in {"hash", "evidence", "load"}
     => files.registry \in Installable

Types ==
  /\ disk \in Standing /\ dirty \in BOOLEAN /\ settled \in BOOLEAN /\ stamp \in BOOLEAN
  /\ mutex \in Threads \union {Absent}
  /\ left \in [changes : Nat, commands : Nat, turns : Nat, crashes : Nat]
  /\ work \in [Procs -> Works]
  /\ FilesOK
  /\ \A p \in Procs : WorkOK(p)

AllOf(inventory) == \A name \in FileNames : files[name] = inventory

\* How far a regeneration has come: the files before the next one are of what
\* it has seen, then all five, then what they hash to, then the evidence.
Written(p) ==
  LET w == work[p] IN
  /\ w.step = "write" => \A i \in 1..5 : i < w.next => files[FileOrder[i]] = w.seen
  /\ w.step \in {"hash", "evidence", "stamp", "clear"} => AllOf(w.seen)
  /\ w.step = "evidence" => w.hashes = <<w.seen, w.seen>>
  /\ w.step \in {"stamp", "clear"} => files.evidence = <<w.seen, w.seen>>

\* A regeneration nothing came across is the only one, and while the files are
\* settled all regenerations under way have seen what is on the disk now.
Alone == \A p \in Regenerating : work[p].lone => Regenerating = {p}

Current ==
  \A p \in Regenerating : settled \/ work[p].lone => work[p].seen = disk /\ Written(p)

AtRest ==
  settled /\ Regenerating = {} =>
    /\ AllOf(files.registry)
    /\ files.evidence = <<files.registry, files.registry>>
    /\ files.registry = disk \/ dirty \/ \E p \in Procs : Step(p, "mark")

IInv == Types /\ Alone /\ Current /\ AtRest

-----------------------------------------------------------------------------
(* Records and files. *)

\* The five files, in the order in which they are replaced.
LEMMA Order ==
  /\ FileNames = {"registry", "capabilities", "lock", "manifest", "projection"}
  /\ FileOrder[1] = "registry" /\ FileOrder[2] = "capabilities" /\ FileOrder[3] = "lock"
  /\ FileOrder[4] = "manifest" /\ FileOrder[5] = "projection"
<1>1. /\ FileOrder[1] = "registry" /\ FileOrder[2] = "capabilities" /\ FileOrder[3] = "lock"
      /\ FileOrder[4] = "manifest" /\ FileOrder[5] = "projection"
  BY DEF FileOrder
<1>2. 1..5 = {1, 2, 3, 4, 5}
  OBVIOUS
<1>3. FileNames = {FileOrder[i] : i \in {1, 2, 3, 4, 5}}
  BY <1>2 DEF FileNames
<1> QED
  BY <1>1, <1>3

\* A file with content of an inventory in place of one of the five.
LEMMA Replaced ==
  ASSUME FilesOK, NEW k \in 1..5, NEW seen \in Installable,
         files' = [files EXCEPT ![FileOrder[k]] = seen]
  PROVE  /\ FilesOK'
         /\ files'[FileOrder[k]] = seen
         /\ \A name \in FileNames : files'[name] = files[name] \/ files'[name] = seen
         /\ \A i \in 1..5 : i # k => files'[FileOrder[i]] = files[FileOrder[i]]
         /\ files'.evidence = files.evidence
<1>1. FileOrder[k] \in FileNames /\ FileOrder[k] # "evidence"
  BY Order
<1>2. DOMAIN files' = DOMAIN files
  OBVIOUS
<1>3. \A name \in DOMAIN files : files'[name] = IF name = FileOrder[k] THEN seen ELSE files[name]
  OBVIOUS
<1>4. \A i \in 1..5 : FileOrder[i] \in DOMAIN files /\ (i # k => FileOrder[i] # FileOrder[k])
  BY Order DEF FilesOK
<1>5. \A name \in FileNames : name \in DOMAIN files
  BY DEF FilesOK
<1>6. files'.evidence = files.evidence
  BY <1>1, <1>3 DEF FilesOK
<1>7. \A name \in FileNames : files'[name] \in Contents
  BY <1>3, <1>5 DEF FilesOK, Contents
<1>8. FilesOK'
  BY <1>2, <1>6, <1>7 DEF FilesOK
<1> QED
  BY <1>1, <1>3, <1>4, <1>5, <1>6, <1>8

LEMMA IdleWorks == Idle \in Works
BY DEF Idle, Works, Steps, Contents, Installable

\* What is on the disk can be read, and what can be read is an inventory.
LEMMA Subsets == Standing \subseteq Installable /\ Installable \subseteq Inventories
BY RegistryAssumption DEF Standing, Installable, Inventories

LEMMA SteppedWorks ==
  ASSUME NEW w \in Works, NEW s \in Steps
  PROVE  /\ [w EXCEPT !.step = s] \in Works
         /\ [w EXCEPT !.step = s].step = s /\ [w EXCEPT !.step = s].kind = w.kind
         /\ [w EXCEPT !.step = s].seen = w.seen /\ [w EXCEPT !.step = s].lone = w.lone
         /\ [w EXCEPT !.step = s].next = w.next /\ [w EXCEPT !.step = s].hashes = w.hashes
BY DEF Works

LEMMA OvertakenWorks ==
  ASSUME NEW w \in Works
  PROVE  /\ [w EXCEPT !.lone = FALSE] \in Works
         /\ [w EXCEPT !.lone = FALSE].step = w.step /\ [w EXCEPT !.lone = FALSE].kind = w.kind
         /\ [w EXCEPT !.lone = FALSE].seen = w.seen /\ ~[w EXCEPT !.lone = FALSE].lone
         /\ [w EXCEPT !.lone = FALSE].next = w.next
BY DEF Works

\* What is so when one process works on: the others are as they were.
LEMMA OneWorks ==
  ASSUME work \in [Procs -> Works], NEW p \in Procs, NEW w \in Works,
         work' = [work EXCEPT ![p] = w]
  PROVE  /\ work' \in [Procs -> Works] /\ work'[p] = w
         /\ \A q \in Procs \ {p} : work'[q] = work[q]
OBVIOUS

LEMMA OthersWork ==
  ASSUME \A q \in Procs : WorkOK(q), NEW p \in Procs,
         \A q \in Procs \ {p} : work'[q] = work[q],
         files.registry \in Installable => files'.registry \in Installable
  PROVE  \A q \in Procs \ {p} : WorkOK(q)'
BY DEF WorkOK

\* What a process does before and after a regeneration.
LEMMA Aside ==
  ASSUME IInv, NEW p \in Procs, work' \in [Procs -> Works],
         \A q \in Procs \ {p} : work'[q] = work[q],
         p \notin Regenerating, p \notin Regenerating',
         UNCHANGED <<disk, files, settled>>, dirty => dirty', Step(p, "mark") => dirty'
  PROVE  Alone' /\ Current' /\ AtRest'
<1>1. Regenerating' = Regenerating
  BY DEF Regenerating
<1>2. \A q \in Regenerating : work'[q] = work[q] /\ q \in Procs
  BY DEF Regenerating
<1>3. \A q \in Regenerating : Written(q) => Written(q)'
  BY <1>2 DEF Written, AllOf
<1>4. Alone'
  BY <1>1, <1>2 DEF IInv, Alone
<1>5. Current'
  BY <1>1, <1>2, <1>3 DEF IInv, Current
<1>6. (\E q \in Procs : Step(q, "mark")) => dirty' \/ \E q \in Procs : Step(q, "mark")'
  BY DEF Step
<1>7. AtRest'
  BY <1>1, <1>6 DEF IInv, AtRest, AllOf
<1> QED
  BY <1>4, <1>5, <1>7

-----------------------------------------------------------------------------
(* One lemma for each action. *)

LEMMA ChangeStep ==
  ASSUME IInv, NEW p \in Procs, Change(p)
  PROVE  IInv'
<1> DEFINE w == [work[p] EXCEPT !.lone = FALSE, !.step = "mark", !.kind = "event"]
<1> USE DEF IInv
<1>1. work \in [Procs -> Works] /\ work[p] \in Works
  BY DEF Types
<1>2. w \in Works /\ w.step = "mark" /\ w.kind = "event" /\ w.lone = FALSE
  BY <1>1 DEF Works, Steps
<1>3. \A q \in Procs : /\ Overtaken(work)[q] = [work[q] EXCEPT !.lone = FALSE]
                       /\ Overtaken(work)[q] \in Works
  BY <1>1, OvertakenWorks DEF Overtaken
<1>4. /\ DOMAIN Overtaken(work) = Procs
      /\ work' = [Overtaken(work) EXCEPT ![p].step = "mark", ![p].kind = "event"]
  BY DEF Change, Overtaken
<1>5. work'[p] = w
  BY <1>3, <1>4
<1>6. \A q \in Procs \ {p} : work'[q] = [work[q] EXCEPT !.lone = FALSE]
  BY <1>3, <1>4
<1>7. work' \in [Procs -> Works]
  BY <1>2, <1>3, <1>4, <1>5, <1>6
<1>8. \A q \in Procs \ {p} : work'[q].step = work[q].step /\ work'[q].kind = work[q].kind
                             /\ work'[q].next = work[q].next /\ ~work'[q].lone
  BY <1>1, <1>6, OvertakenWorks
<1> HIDE DEF w
<1>9. p \in Threads /\ p \notin Regenerating /\ p \notin Regenerating'
  BY <1>2, <1>5 DEF Change, Step, Regenerating
<1>10. Regenerating' = Regenerating
  BY <1>8, <1>9 DEF Regenerating
<1>11. \A q \in Procs : ~work'[q].lone
  BY <1>2, <1>5, <1>8
<1>12. disk' \in Standing
  <2>1. PICK s \in Movable : disk' = IF s \in disk THEN disk \ {s} ELSE disk \union {s}
    BY DEF Change
  <2>2. PICK m \in SUBSET Movable : disk = (Skills \ Movable) \union m
    BY DEF Types, Standing
  <2>3. CASE s \in disk
    <3>1. disk' = (Skills \ Movable) \union (m \ {s}) /\ m \ {s} \in SUBSET Movable
      BY <2>1, <2>2, <2>3
    <3> QED
      BY <3>1 DEF Standing
  <2>4. CASE s \notin disk
    <3>1. disk' = (Skills \ Movable) \union (m \union {s}) /\ m \union {s} \in SUBSET Movable
      BY <2>1, <2>2, <2>4
    <3> QED
      BY <3>1 DEF Standing
  <2> QED
    BY <2>3, <2>4
<1>13. left' \in [changes : Nat, commands : Nat, turns : Nat, crashes : Nat]
  BY DEF Change, Types
<1>14. \A q \in Procs : WorkOK(q)'
  <2>1. WorkOK(p)'
    BY <1>2, <1>5, <1>9 DEF WorkOK
  <2>2. \A q \in Procs \ {p} : WorkOK(q)'
    BY <1>8 DEF WorkOK, Types, Change
  <2> QED
    BY <2>1, <2>2
<1>15. Types'
  BY <1>7, <1>12, <1>13, <1>14 DEF Types, Change, FilesOK
<1>16. Alone' /\ Current'
  BY <1>10, <1>11 DEF Alone, Current, Change, Regenerating
<1>17. AtRest'
  BY <1>2, <1>5, <1>10 DEF AtRest, AllOf, Change, Step
<1> QED
  BY <1>15, <1>16, <1>17

LEMMA MarkDirtyStep ==
  ASSUME IInv, NEW p \in Procs, MarkDirty(p)
  PROVE  IInv'
<1> DEFINE w == [work[p] EXCEPT !.step = "lock"]
<1>1. w \in Works /\ w.step = "lock" /\ w.kind = work[p].kind
  <2>1. work[p] \in Works /\ "lock" \in Steps
    BY DEF IInv, Types, Steps
  <2> QED
    BY <2>1, SteppedWorks
<1>2. work' = [work EXCEPT ![p] = w]
  BY DEF MarkDirty, Goes, IInv, Types
<1> HIDE DEF w
<1>3. /\ work' \in [Procs -> Works] /\ work'[p] = w
      /\ \A q \in Procs \ {p} : work'[q] = work[q]
  BY <1>1, <1>2, OneWorks DEF IInv, Types
<1>4. \A q \in Procs \ {p} : WorkOK(q)'
  BY <1>3, OthersWork DEF MarkDirty, IInv, Types
<1>5. WorkOK(p)'
  BY <1>1, <1>3 DEF WorkOK, MarkDirty, Step, IInv, Types
<1>6. Types'
  BY <1>3, <1>4, <1>5 DEF IInv, Types, MarkDirty, FilesOK
<1>7. p \notin Regenerating /\ p \notin Regenerating'
  BY <1>1, <1>3 DEF Regenerating, MarkDirty, Step
<1>8. Alone' /\ Current' /\ AtRest'
  BY <1>3, <1>7, Aside DEF MarkDirty
<1> QED
  BY <1>6, <1>8 DEF IInv

LEMMA TakeLockStep ==
  ASSUME IInv, NEW p \in Procs, TakeLock(p)
  PROVE  IInv'
<1> DEFINE w == [work[p] EXCEPT !.step = "check"]
<1>1. w \in Works /\ w.step = "check" /\ w.kind = work[p].kind
  <2>1. work[p] \in Works /\ "check" \in Steps
    BY DEF IInv, Types, Steps
  <2> QED
    BY <2>1, SteppedWorks
<1>2. work' = [work EXCEPT ![p] = w]
  BY DEF TakeLock, Goes, IInv, Types
<1> HIDE DEF w
<1>3. /\ work' \in [Procs -> Works] /\ work'[p] = w
      /\ \A q \in Procs \ {p} : work'[q] = work[q]
  BY <1>1, <1>2, OneWorks DEF IInv, Types
<1>4. \A q \in Procs \ {p} : WorkOK(q)'
  BY <1>3, OthersWork DEF TakeLock, IInv, Types
<1>5. WorkOK(p)' /\ p \in Threads
  BY <1>1, <1>3 DEF WorkOK, TakeLock, Step, IInv, Types
<1>6. Types'
  BY <1>3, <1>4, <1>5 DEF IInv, Types, TakeLock, FilesOK
<1>7. p \notin Regenerating /\ p \notin Regenerating' /\ ~Step(p, "mark")
  BY <1>1, <1>3 DEF Regenerating, TakeLock, Step
<1>8. Alone' /\ Current' /\ AtRest'
  BY <1>3, <1>7, Aside DEF TakeLock
<1> QED
  BY <1>6, <1>8 DEF IInv

LEMMA CheckDirtyStep ==
  ASSUME IInv, NEW p \in Procs, CheckDirty(p)
  PROVE  IInv'
<1>1. PICK w \in Works : /\ work' = [work EXCEPT ![p] = w]
                         /\ \/ w = Idle
                            \/ w.step = "list" /\ w.kind = work[p].kind
  <2>1. [work[p] EXCEPT !.step = "list"] \in Works
        /\ [work[p] EXCEPT !.step = "list"].step = "list"
        /\ [work[p] EXCEPT !.step = "list"].kind = work[p].kind
    <3>1. work[p] \in Works /\ "list" \in Steps
      BY DEF IInv, Types, Steps
    <3> QED
      BY <3>1, SteppedWorks
  <2>2. \/ work' = [work EXCEPT ![p] = Idle]
        \/ work' = [work EXCEPT ![p] = [work[p] EXCEPT !.step = "list"]]
    BY DEF CheckDirty, Goes, IInv, Types
  <2> QED
    BY <2>1, <2>2, IdleWorks
<1>2. w.step \in {"idle", "list"} /\ (w.step = "list" => w.kind = work[p].kind)
  BY <1>1 DEF Idle
<1>3. /\ work' \in [Procs -> Works] /\ work'[p] = w
      /\ \A q \in Procs \ {p} : work'[q] = work[q]
  BY <1>1, OneWorks DEF IInv, Types
<1>4. \A q \in Procs \ {p} : WorkOK(q)'
  BY <1>3, OthersWork DEF CheckDirty, IInv, Types
<1>5. WorkOK(p)'
  BY <1>2, <1>3 DEF WorkOK, CheckDirty, Step, IInv, Types
<1>6. mutex' \in Threads \union {Absent}
  BY DEF CheckDirty, Released, IInv, Types
<1>7. Types'
  BY <1>3, <1>4, <1>5, <1>6 DEF IInv, Types, CheckDirty, FilesOK
<1>8. p \notin Regenerating /\ p \notin Regenerating' /\ ~Step(p, "mark")
  BY <1>2, <1>3 DEF Regenerating, CheckDirty, Step
<1>9. Alone' /\ Current' /\ AtRest'
  BY <1>3, <1>8, Aside DEF CheckDirty
<1> QED
  BY <1>7, <1>9 DEF IInv

LEMMA StartCommandStep ==
  ASSUME IInv, NEW p \in Procs, StartCommand(p)
  PROVE  IInv'
<1> DEFINE w == [work[p] EXCEPT !.step = "list", !.kind = "command"]
<1>1. w \in Works /\ w.step = "list" /\ w.kind = "command"
  BY DEF IInv, Types, Works, Steps
<1>2. work' = [work EXCEPT ![p] = w]
  BY DEF StartCommand, IInv, Types
<1> HIDE DEF w
<1>3. /\ work' \in [Procs -> Works] /\ work'[p] = w
      /\ \A q \in Procs \ {p} : work'[q] = work[q]
  BY <1>1, <1>2, OneWorks DEF IInv, Types
<1>4. \A q \in Procs \ {p} : WorkOK(q)'
  BY <1>3, OthersWork DEF StartCommand, IInv, Types
<1>5. WorkOK(p)'
  BY <1>1, <1>3 DEF WorkOK
<1>6. Types'
  BY <1>3, <1>4, <1>5 DEF IInv, Types, StartCommand, FilesOK
<1>7. p \notin Regenerating /\ p \notin Regenerating' /\ ~Step(p, "mark")
  BY <1>1, <1>3 DEF Regenerating, StartCommand, Step
<1>8. Alone' /\ Current' /\ AtRest'
  BY <1>3, <1>7, Aside DEF StartCommand
<1> QED
  BY <1>6, <1>8 DEF IInv

LEMMA TurnStep ==
  ASSUME IInv, NEW p \in Procs, Turn(p)
  PROVE  IInv'
<1> DEFINE s == IF files.registry = Absent THEN "list" ELSE "load"
           w == [work[p] EXCEPT !.kind = "turn", !.step = s]
<1>1. w \in Works /\ w.step = s /\ w.kind = "turn"
  BY DEF IInv, Types, Works, Steps
<1>2. work' = [work EXCEPT ![p] = w]
  BY DEF Turn, IInv, Types
<1>3. s \in {"list", "load"} /\ (s = "load" => files.registry \in Installable)
  <2>1. files.registry \in Contents
    BY Order DEF IInv, Types, FilesOK
  <2> QED
    BY <2>1 DEF Contents
<1> HIDE DEF w, s
<1>4. /\ work' \in [Procs -> Works] /\ work'[p] = w
      /\ \A q \in Procs \ {p} : work'[q] = work[q]
  BY <1>1, <1>2, OneWorks DEF IInv, Types
<1>5. \A q \in Procs \ {p} : WorkOK(q)'
  BY <1>4, OthersWork DEF Turn, IInv, Types
<1>6. WorkOK(p)'
  BY <1>1, <1>3, <1>4 DEF WorkOK, Turn
<1>7. Types'
  BY <1>4, <1>5, <1>6 DEF IInv, Types, Turn, FilesOK
<1>8. p \notin Regenerating /\ p \notin Regenerating' /\ ~Step(p, "mark")
  BY <1>1, <1>3, <1>4 DEF Regenerating, Turn, Step
<1>9. Alone' /\ Current' /\ AtRest'
  BY <1>4, <1>8, Aside DEF Turn
<1> QED
  BY <1>7, <1>9 DEF IInv

LEMMA LoadRegistryStep ==
  ASSUME IInv, NEW p \in Procs, LoadRegistry(p)
  PROVE  IInv'
<1> DEFINE w == [work[p] EXCEPT !.step = "hint", !.seen = files.registry]
<1>1. work[p] \in Works /\ files.registry \in Installable /\ work[p].kind # "none"
  BY DEF IInv, Types, WorkOK, LoadRegistry, Step
<1>2. w \in Works /\ w.step = "hint" /\ w.kind = work[p].kind
  BY <1>1 DEF Works, Steps
<1>3. work' = [work EXCEPT ![p] = w]
  BY DEF LoadRegistry, IInv, Types
<1> HIDE DEF w
<1>4. /\ work' \in [Procs -> Works] /\ work'[p] = w
      /\ \A q \in Procs \ {p} : work'[q] = work[q]
  BY <1>2, <1>3, OneWorks DEF IInv, Types
<1>5. \A q \in Procs \ {p} : WorkOK(q)'
  BY <1>4, OthersWork DEF LoadRegistry, IInv, Types
<1>6. WorkOK(p)'
  BY <1>1, <1>2, <1>4 DEF WorkOK
<1>7. Types'
  BY <1>4, <1>5, <1>6 DEF IInv, Types, LoadRegistry, FilesOK
<1>8. p \notin Regenerating /\ p \notin Regenerating' /\ ~Step(p, "mark")
  BY <1>2, <1>4 DEF Regenerating, LoadRegistry, Step
<1>9. Alone' /\ Current' /\ AtRest'
  BY <1>4, <1>8, Aside DEF LoadRegistry
<1> QED
  BY <1>7, <1>9 DEF IInv

LEMMA AnswerStep ==
  ASSUME IInv, NEW p \in Procs, Answer(p)
  PROVE  IInv'
<1>1. /\ work' \in [Procs -> Works] /\ work'[p] = Idle
      /\ \A q \in Procs \ {p} : work'[q] = work[q]
  BY OneWorks, IdleWorks DEF IInv, Types, Answer
<1>2. \A q \in Procs \ {p} : WorkOK(q)'
  BY <1>1, OthersWork DEF Answer, IInv, Types
<1>3. WorkOK(p)'
  BY <1>1 DEF WorkOK, Idle
<1>4. Types'
  BY <1>1, <1>2, <1>3 DEF IInv, Types, Answer, FilesOK
<1>5. p \notin Regenerating /\ p \notin Regenerating' /\ ~Step(p, "mark")
  BY <1>1 DEF Regenerating, Answer, Step, Idle
<1>6. Alone' /\ Current' /\ AtRest'
  BY <1>1, <1>5, Aside DEF Answer
<1> QED
  BY <1>4, <1>6 DEF IInv

LEMMA ListSkillsStep ==
  ASSUME IInv, NEW p \in Procs, ListSkills(p)
  PROVE  IInv'
<1> DEFINE alone == Regenerating = {}
           others == IF alone THEN work ELSE Overtaken(work)
<1>1. work \in [Procs -> Works] /\ disk \in Installable
  BY Subsets DEF IInv, Types
<1>2. p \notin Regenerating /\ work[p].kind # "none"
  BY DEF ListSkills, Step, Regenerating, IInv, Types, WorkOK
<1>3. others \in [Procs -> Works]
  BY <1>1, OvertakenWorks DEF Overtaken
<1>4. \A q \in Procs : /\ others[q].step = work[q].step /\ others[q].kind = work[q].kind
                       /\ others[q].seen = work[q].seen /\ others[q].next = work[q].next
                       /\ q \in Regenerating => ~others[q].lone
  BY <1>1, OvertakenWorks DEF Overtaken, Regenerating
<1>5. work' = [others EXCEPT ![p].step = "read", ![p].seen = disk, ![p].lone = alone]
  BY DEF ListSkills
<1> HIDE DEF others
<1> DEFINE w == [others[p] EXCEPT !.step = "read", !.seen = disk, !.lone = alone]
<1>6. w \in Works /\ w.step = "read" /\ w.seen = disk /\ w.lone = alone /\ w.kind = work[p].kind
  <2>1. alone \in BOOLEAN /\ others[p] \in Works /\ others[p].kind = work[p].kind
    BY <1>3, <1>4 DEF alone
  <2> HIDE DEF alone
  <2> QED
    BY <1>1, <2>1 DEF Works, Steps
<1>7. work' = [others EXCEPT ![p] = w]
  BY <1>3, <1>5
<1> HIDE DEF w, alone
<1>8. /\ work' \in [Procs -> Works] /\ work'[p] = w
      /\ \A q \in Procs \ {p} : work'[q] = others[q]
  BY <1>3, <1>6, <1>7
<1>9. Regenerating' = Regenerating \union {p}
  <2>1. \A q \in Procs \ {p} : q \in Regenerating' <=> q \in Regenerating
    BY <1>4, <1>8 DEF Regenerating
  <2>2. p \in Regenerating'
    BY <1>6, <1>8 DEF Regenerating
  <2> QED
    BY <2>1, <2>2 DEF Regenerating
<1>10. Types'
  <2>1. \A q \in Procs \ {p} : WorkOK(q)'
    <3>1. (\A q \in Procs : WorkOK(q)) /\ files' = files
      BY DEF ListSkills, IInv, Types
    <3>2. \A q \in Procs \ {p} : /\ work'[q].step = work[q].step
                                 /\ work'[q].kind = work[q].kind /\ work'[q].next = work[q].next
      BY <1>4, <1>8
    <3> QED
      BY <3>1, <3>2 DEF WorkOK
  <2>2. WorkOK(p)'
    BY <1>2, <1>6, <1>8 DEF WorkOK
  <2> QED
    BY <1>8, <2>1, <2>2 DEF IInv, Types, ListSkills, FilesOK
<1>11. Alone'
  BY <1>2, <1>4, <1>6, <1>8, <1>9 DEF Alone, alone, Regenerating
<1>12. \A q \in Regenerating : settled /\ Written(q) => work'[q].seen = work[q].seen /\ Written(q)'
  <2> SUFFICES ASSUME NEW q \in Regenerating, settled, Written(q)
               PROVE  work'[q].seen = work[q].seen /\ Written(q)'
    OBVIOUS
  <2>1. q \in Procs \ {p}
    BY <1>2 DEF Regenerating
  <2>2. work'[q].hashes = work[q].hashes
    BY <1>1, <1>8, <2>1 DEF others, Overtaken, Works
  <2>3. work'[q].seen = work[q].seen /\ work'[q].step = work[q].step /\ work'[q].next = work[q].next
    BY <1>4, <1>8, <2>1
  <2>4. files' = files
    BY DEF ListSkills
  <2> QED
    BY <2>2, <2>3, <2>4 DEF Written, AllOf
<1>13. work'[p].seen = disk /\ Written(p)'
  BY <1>6, <1>8 DEF Written
<1>14. Current'
  <2> SUFFICES ASSUME NEW q \in Regenerating', settled' \/ work'[q].lone
               PROVE  work'[q].seen = disk' /\ Written(q)'
    BY DEF Current
  <2>1. settled' = settled /\ disk' = disk
    BY DEF ListSkills
  <2>2. CASE q = p
    BY <1>13, <2>1, <2>2
  <2>3. CASE q # p
    <3>1. q \in Regenerating /\ ~work'[q].lone
      BY <1>4, <1>8, <1>9, <2>3 DEF Regenerating
    <3> QED
      BY <3>1, <2>1, <1>12 DEF IInv, Current
  <2> QED
    BY <2>2, <2>3
<1>15. AtRest'
  BY <1>9 DEF AtRest
<1> QED
  BY <1>10, <1>11, <1>14, <1>15 DEF IInv

LEMMA ReadSkillsStep ==
  ASSUME IInv, NEW p \in Procs, ReadSkills(p)
  PROVE  IInv'
<1>1. work[p] \in Works /\ work[p].kind # "none" /\ p \in Regenerating
  BY DEF IInv, Types, ReadSkills, Step, Regenerating, WorkOK
<1>2. PICK w \in Works : /\ work' = [work EXCEPT ![p] = w]
                         /\ \/ w = Idle /\ ~(work[p].seen \subseteq disk)
                            \/ /\ w.step = "write" /\ w.next = 1 /\ w.kind = work[p].kind
                               /\ w.seen = work[p].seen /\ w.lone = work[p].lone
  <2>1. CASE work[p].seen \subseteq disk
    <3> DEFINE v == [work[p] EXCEPT !.step = "write", !.next = 1]
    <3>1. /\ v \in Works /\ v.step = "write" /\ v.next = 1 /\ v.kind = work[p].kind
          /\ v.seen = work[p].seen /\ v.lone = work[p].lone
      <4>1. 1 \in 1..5 /\ "write" \in Steps
        BY DEF Steps
      <4> QED
        BY <1>1, <4>1 DEF Works
    <3>2. work' = [work EXCEPT ![p] = v]
      BY <2>1 DEF ReadSkills, IInv, Types
    <3> HIDE DEF v
    <3> QED
      BY <3>1, <3>2
  <2>2. CASE ~(work[p].seen \subseteq disk)
    BY <2>2, IdleWorks DEF ReadSkills
  <2> QED
    BY <2>1, <2>2
<1>3. /\ work' \in [Procs -> Works] /\ work'[p] = w
      /\ \A q \in Procs \ {p} : work'[q] = work[q]
  BY <1>2, OneWorks DEF IInv, Types
<1>4. Types'
  <2>1. \A q \in Procs \ {p} : WorkOK(q)'
    BY <1>3, OthersWork DEF ReadSkills, IInv, Types
  <2>2. WorkOK(p)'
    BY <1>1, <1>2, <1>3 DEF WorkOK, Idle
  <2>3. mutex' \in Threads \union {Absent}
    BY DEF ReadSkills, Released, IInv, Types
  <2> QED
    BY <1>3, <2>1, <2>2, <2>3 DEF IInv, Types, ReadSkills, FilesOK
<1>5. CASE w = Idle /\ ~(work[p].seen \subseteq disk)
  <2>1. ~settled /\ Regenerating' = Regenerating \ {p}
    <3>1. ~settled
      BY <1>1, <1>5 DEF IInv, Current
    <3>2. p \notin Regenerating'
      BY <1>3, <1>5 DEF Regenerating, Idle
    <3> QED
      BY <1>3, <3>1, <3>2 DEF Regenerating
  <2>2. \A q \in Regenerating' : /\ q \in Regenerating /\ work'[q] = work[q]
                                 /\ Written(q) => Written(q)'
    BY <1>3, <2>1 DEF Regenerating, Written, AllOf, ReadSkills
  <2>3. Alone'
    BY <2>1, <2>2 DEF IInv, Alone
  <2>4. Current'
    BY <2>1, <2>2 DEF IInv, Current, ReadSkills
  <2>5. AtRest'
    BY <2>1 DEF AtRest, ReadSkills
  <2> QED
    BY <1>4, <2>3, <2>4, <2>5 DEF IInv
<1>6. CASE w # Idle
  <2>1. /\ w.step = "write" /\ w.next = 1 /\ w.kind = work[p].kind
        /\ w.seen = work[p].seen /\ w.lone = work[p].lone
    BY <1>2, <1>6
  <2>2. Regenerating' = Regenerating
    BY <1>1, <1>3, <2>1 DEF Regenerating
  <2>3. \A q \in Regenerating : work'[q].lone = work[q].lone /\ work'[q].seen = work[q].seen
    BY <1>3, <2>1 DEF Regenerating
  <2>4. \A q \in Regenerating : Written(q) => Written(q)'
    <3>1. Written(p)'
      BY <1>3, <2>1 DEF Written
    <3>2. \A q \in Regenerating : q # p /\ Written(q) => Written(q)'
      BY <1>3 DEF Regenerating, Written, AllOf, ReadSkills
    <3> QED
      BY <3>1, <3>2
  <2>5. Alone'
    BY <2>2, <2>3 DEF IInv, Alone
  <2>6. Current'
    BY <2>2, <2>3, <2>4 DEF IInv, Current, ReadSkills
  <2>7. AtRest'
    BY <1>1, <2>2 DEF AtRest
  <2> QED
    BY <1>4, <2>5, <2>6, <2>7 DEF IInv
<1> QED
  BY <1>2, <1>5, <1>6 DEF Idle

\* The files a regeneration that counts has written are of what every other
\* one that counts has seen.
LEMMA SameSeen ==
  ASSUME IInv, NEW p \in Regenerating, NEW q \in Regenerating, settled \/ work[q].lone
  PROVE  work[q].seen = work[p].seen
<1>1. CASE settled
  BY <1>1 DEF IInv, Current
<1>2. CASE work[q].lone
  BY <1>2 DEF IInv, Alone
<1> QED
  BY <1>1, <1>2

LEMMA WriteFileStep ==
  ASSUME IInv, NEW p \in Procs, WriteFile(p)
  PROVE  IInv'
<1> DEFINE k == work[p].next
           seen == work[p].seen
           s == IF k = 5 THEN "hash" ELSE "write"
           n == IF k = 5 THEN 1 ELSE k + 1
           w == [work[p] EXCEPT !.next = n, !.step = s]
<1>1. /\ work[p] \in Works /\ work[p].kind # "none" /\ p \in Regenerating
      /\ work[p].step = "write"
  BY DEF IInv, Types, WriteFile, Step, Regenerating, WorkOK
<1>2. /\ k \in 1..5 /\ seen \in Installable /\ n \in 1..5 /\ s \in {"hash", "write"}
      /\ s = "write" => n = k + 1
      /\ s = "hash" => k = 5
  BY <1>1 DEF Works
<1>3. /\ w \in Works /\ w.step = s /\ w.next = n /\ w.seen = seen
      /\ w.lone = work[p].lone /\ w.kind = work[p].kind
  BY <1>1, <1>2 DEF Works, Steps
<1>4. work' = [work EXCEPT ![p] = w]
  BY DEF WriteFile, IInv, Types
<1>5. files' = [files EXCEPT ![FileOrder[k]] = seen]
  BY DEF WriteFile
<1> HIDE DEF k, seen, s, n, w
<1>6. /\ work' \in [Procs -> Works] /\ work'[p] = w
      /\ \A q \in Procs \ {p} : work'[q] = work[q]
  BY <1>3, <1>4, OneWorks DEF IInv, Types
<1>7. /\ FilesOK'
      /\ files'[FileOrder[k]] = seen
      /\ \A name \in FileNames : files'[name] = files[name] \/ files'[name] = seen
      /\ \A i \in 1..5 : i # k => files'[FileOrder[i]] = files[FileOrder[i]]
      /\ files'.evidence = files.evidence
  BY <1>2, <1>5, Replaced DEF IInv, Types
<1>8. Types'
  <2>1. files.registry \in Installable => files'.registry \in Installable
    BY <1>2, <1>7, Order
  <2>2. \A q \in Procs \ {p} : WorkOK(q)'
    BY <1>6, <2>1, OthersWork DEF IInv, Types
  <2>3. files'.registry \in Installable
    <3>1. CASE k = 1
      BY <1>2, <1>7, <3>1, Order
    <3>2. CASE k # 1
      <4>1. k > 1
        BY <1>2, <3>2
      <4> QED
        BY <1>1, <4>1, <2>1 DEF k, IInv, Types, WorkOK
    <3> QED
      BY <3>1, <3>2
  <2>4. WorkOK(p)'
    BY <1>1, <1>2, <1>3, <1>6, <2>3 DEF WorkOK
  <2> QED
    BY <1>6, <1>7, <2>2, <2>4 DEF IInv, Types, WriteFile
<1>9. Regenerating' = Regenerating
  BY <1>1, <1>2, <1>3, <1>6 DEF Regenerating
<1>10. \A q \in Regenerating : work'[q].lone = work[q].lone /\ work'[q].seen = work[q].seen
  BY <1>3, <1>6 DEF Regenerating, seen
<1>11. Written(p) => Written(p)'
  <2> SUFFICES ASSUME Written(p)
               PROVE  Written(p)'
    OBVIOUS
  <2>1. \A i \in 1..5 : i < k => files[FileOrder[i]] = seen
    BY <1>1 DEF Written, k, seen
  <2>2. \A i \in 1..5 : i < k + 1 => files'[FileOrder[i]] = seen
    BY <1>2, <1>7, <2>1
  <2>3. s = "hash" => AllOf(seen)'
    <3> SUFFICES ASSUME s = "hash", NEW name \in FileNames
                 PROVE  files'[name] = seen
      BY <1>3, <1>6 DEF AllOf, seen
    <3>1. PICK i \in 1..5 : name = FileOrder[i]
      BY DEF FileNames
    <3> QED
      BY <1>2, <2>2, <3>1
  <2>4. work'[p].step = s /\ work'[p].next = n /\ work'[p].seen = seen
    BY <1>3, <1>6
  <2>5. s = "hash" => \A name \in FileNames : files'[name] = work'[p].seen
    <3>1. \A name \in FileNames : \E i \in 1..5 : name = FileOrder[i]
      BY DEF FileNames
    <3> QED
      BY <1>2, <2>2, <2>4, <3>1
  <2> QED
    BY <1>2, <2>2, <2>4, <2>5 DEF Written, AllOf
<1>12. \A q \in Regenerating : (settled \/ work[q].lone) /\ Written(q) => Written(q)'
  <2> SUFFICES ASSUME NEW q \in Regenerating, settled \/ work[q].lone, Written(q)
               PROVE  Written(q)'
    OBVIOUS
  <2>1. CASE q = p
    BY <1>11, <2>1
  <2>2. CASE q # p
    <3>1. work'[q] = work[q] /\ work[q].seen = seen
      BY <1>1, <1>6, <2>2, SameSeen DEF Regenerating, seen
    <3>2. \A i \in 1..5 : FileOrder[i] \in FileNames
      BY DEF FileNames
    <3> QED
      BY <1>7, <3>1, <3>2 DEF Written, AllOf
  <2> QED
    BY <2>1, <2>2
<1>13. Alone'
  BY <1>9, <1>10 DEF IInv, Alone
<1>14. Current'
  BY <1>9, <1>10, <1>12 DEF IInv, Current, WriteFile
<1>15. AtRest'
  BY <1>1, <1>9 DEF AtRest
<1> QED
  BY <1>8, <1>13, <1>14, <1>15 DEF IInv

LEMMA HashFilesStep ==
  ASSUME IInv, NEW p \in Procs, HashFiles(p)
  PROVE  IInv'
<1> DEFINE w == [work[p] EXCEPT !.step = "evidence", !.hashes = <<files.registry, files.manifest>>]
<1>1. /\ work[p] \in Works /\ work[p].kind # "none" /\ p \in Regenerating
      /\ work[p].step = "hash" /\ files.registry \in Installable
      /\ files.registry \in Contents /\ files.manifest \in Contents
  BY Order DEF IInv, Types, HashFiles, Step, Regenerating, WorkOK, FilesOK
<1>2. /\ w \in Works /\ w.step = "evidence" /\ w.seen = work[p].seen
      /\ w.lone = work[p].lone /\ w.kind = work[p].kind
      /\ w.hashes = <<files.registry, files.manifest>>
  BY <1>1 DEF Works, Steps
<1>3. work' = [work EXCEPT ![p] = w]
  BY DEF HashFiles, IInv, Types
<1> HIDE DEF w
<1>4. /\ work' \in [Procs -> Works] /\ work'[p] = w
      /\ \A q \in Procs \ {p} : work'[q] = work[q]
  BY <1>2, <1>3, OneWorks DEF IInv, Types
<1>5. Types'
  <2>1. \A q \in Procs \ {p} : WorkOK(q)'
    BY <1>4, OthersWork DEF HashFiles, IInv, Types
  <2>2. WorkOK(p)'
    BY <1>1, <1>2, <1>4 DEF WorkOK, HashFiles
  <2> QED
    BY <1>4, <2>1, <2>2 DEF IInv, Types, HashFiles, FilesOK
<1>6. Regenerating' = Regenerating
  BY <1>1, <1>2, <1>4 DEF Regenerating
<1>7. \A q \in Regenerating : work'[q].lone = work[q].lone /\ work'[q].seen = work[q].seen
  BY <1>2, <1>4 DEF Regenerating
<1>8. \A q \in Regenerating : Written(q) => Written(q)'
  <2>1. Written(p) => Written(p)'
    BY <1>1, <1>2, <1>4, Order DEF Written, AllOf, HashFiles
  <2>2. \A q \in Regenerating : q # p /\ Written(q) => Written(q)'
    BY <1>4 DEF Regenerating, Written, AllOf, HashFiles
  <2> QED
    BY <2>1, <2>2
<1>9. Alone'
  BY <1>6, <1>7 DEF IInv, Alone
<1>10. Current'
  BY <1>6, <1>7, <1>8 DEF IInv, Current, HashFiles
<1>11. AtRest'
  BY <1>1, <1>6 DEF AtRest
<1> QED
  BY <1>5, <1>9, <1>10, <1>11 DEF IInv

LEMMA WriteStampStep ==
  ASSUME IInv, NEW p \in Procs, WriteStamp(p)
  PROVE  IInv'
<1> DEFINE w == [work[p] EXCEPT !.step = "clear"]
<1>1. /\ work[p] \in Works /\ work[p].kind # "none" /\ p \in Regenerating
      /\ work[p].step = "stamp" /\ "clear" \in Steps
  BY DEF IInv, Types, WriteStamp, Step, Regenerating, WorkOK, Steps
<1>2. /\ w \in Works /\ w.step = "clear" /\ w.seen = work[p].seen
      /\ w.lone = work[p].lone /\ w.kind = work[p].kind
  BY <1>1, SteppedWorks
<1>3. work' = [work EXCEPT ![p] = w]
  BY DEF WriteStamp, Goes, IInv, Types
<1> HIDE DEF w
<1>4. /\ work' \in [Procs -> Works] /\ work'[p] = w
      /\ \A q \in Procs \ {p} : work'[q] = work[q]
  BY <1>2, <1>3, OneWorks DEF IInv, Types
<1>5. Types'
  <2>1. \A q \in Procs \ {p} : WorkOK(q)'
    BY <1>4, OthersWork DEF WriteStamp, IInv, Types
  <2>2. WorkOK(p)'
    BY <1>1, <1>2, <1>4 DEF WorkOK
  <2> QED
    BY <1>4, <2>1, <2>2 DEF IInv, Types, WriteStamp, FilesOK
<1>6. Regenerating' = Regenerating
  BY <1>1, <1>2, <1>4 DEF Regenerating
<1>7. \A q \in Regenerating : work'[q].lone = work[q].lone /\ work'[q].seen = work[q].seen
  BY <1>2, <1>4 DEF Regenerating
<1>8. \A q \in Regenerating : Written(q) => Written(q)'
  <2>1. Written(p) => Written(p)'
    BY <1>1, <1>2, <1>4 DEF Written, AllOf, WriteStamp
  <2>2. \A q \in Regenerating : q # p /\ Written(q) => Written(q)'
    BY <1>4 DEF Regenerating, Written, AllOf, WriteStamp
  <2> QED
    BY <2>1, <2>2
<1>9. Alone'
  BY <1>6, <1>7 DEF IInv, Alone
<1>10. Current'
  BY <1>6, <1>7, <1>8 DEF IInv, Current, WriteStamp
<1>11. AtRest'
  BY <1>1, <1>6 DEF AtRest
<1> QED
  BY <1>5, <1>9, <1>10, <1>11 DEF IInv

LEMMA WriteEvidenceStep ==
  ASSUME IInv, NEW p \in Procs, WriteEvidence(p)
  PROVE  IInv'
<1>1. /\ work[p] \in Works /\ work[p].kind # "none" /\ p \in Regenerating
      /\ work[p].step = "evidence" /\ files.registry \in Installable
  BY DEF IInv, Types, WriteEvidence, Step, Regenerating, WorkOK
<1>2. PICK w \in Works : /\ work' = [work EXCEPT ![p] = w]
                         /\ \/ /\ w.step = "stamp" /\ work[p].kind = "event" /\ w.kind = work[p].kind
                               /\ w.seen = work[p].seen /\ w.lone = work[p].lone
                            \/ work[p].kind # "event" /\ w.step = "load" /\ w.kind = work[p].kind
                            \/ work[p].kind # "event" /\ w = Idle
  <2> DEFINE u == work[p]
  <2>1. /\ work' = [work EXCEPT ![p] =
             CASE u.kind = "event"   -> [u EXCEPT !.step = "stamp"]
               [] u.kind = "turn"    -> [u EXCEPT !.step = "load"]
               [] u.kind = "command" -> Idle]
        /\ u.kind \in {"event", "turn", "command"} /\ u \in Works
    BY <1>1 DEF WriteEvidence, Works
  <2> HIDE DEF u
  <2>2. "stamp" \in Steps /\ "load" \in Steps
    BY DEF Steps
  <2>3. CASE u.kind = "event"
    <3> DEFINE v == [u EXCEPT !.step = "stamp"]
    <3>1. work' = [work EXCEPT ![p] = v]
      BY <2>1, <2>3
    <3>2. v \in Works /\ v.step = "stamp" /\ v.kind = u.kind /\ v.seen = u.seen /\ v.lone = u.lone
      BY <2>1, <2>2, SteppedWorks
    <3> HIDE DEF v
    <3> QED
      BY <2>3, <3>1, <3>2 DEF u
  <2>4. CASE u.kind = "turn"
    <3> DEFINE v == [u EXCEPT !.step = "load"]
    <3>1. work' = [work EXCEPT ![p] = v]
      BY <2>1, <2>4
    <3>2. v \in Works /\ v.step = "load" /\ v.kind = u.kind /\ v.seen = u.seen /\ v.lone = u.lone
      BY <2>1, <2>2, SteppedWorks
    <3> HIDE DEF v
    <3> QED
      BY <2>4, <3>1, <3>2 DEF u
  <2>5. CASE u.kind = "command"
    BY <2>1, <2>5, IdleWorks DEF u
  <2> QED
    BY <2>1, <2>3, <2>4, <2>5
<1>3. /\ work' \in [Procs -> Works] /\ work'[p] = w
      /\ \A q \in Procs \ {p} : work'[q] = work[q]
  BY <1>2, OneWorks DEF IInv, Types
<1>4. /\ DOMAIN files' = DOMAIN files /\ files'.evidence = work[p].hashes
      /\ \A name \in FileNames : files'[name] = files[name]
  BY Order DEF WriteEvidence, IInv, Types, FilesOK
<1>5. Types'
  <2>1. files'.registry = files.registry
    BY <1>4, Order
  <2>2. \A q \in Procs \ {p} : WorkOK(q)'
    BY <1>3, <2>1, OthersWork DEF IInv, Types
  <2>3. WorkOK(p)'
    BY <1>1, <1>2, <1>3, <2>1 DEF WorkOK, Idle
  <2>4. FilesOK'
    BY <1>1, <1>4 DEF FilesOK, Works, IInv, Types
  <2>5. settled' \in BOOLEAN
    BY <1>1 DEF WriteEvidence, Works, IInv, Types
  <2> QED
    BY <1>3, <2>2, <2>3, <2>4, <2>5 DEF IInv, Types, WriteEvidence
<1>6. CASE w.step = "stamp"
  <2>1. /\ work[p].kind = "event" /\ w.seen = work[p].seen /\ w.lone = work[p].lone
    BY <1>2, <1>6 DEF Idle
  <2>2. Regenerating' = Regenerating
    BY <1>1, <1>3, <1>6 DEF Regenerating
  <2>3. \A q \in Regenerating : work'[q].lone = work[q].lone /\ work'[q].seen = work[q].seen
    BY <1>3, <2>1 DEF Regenerating
  <2>4. settled' = settled /\ disk' = disk
    BY <2>1 DEF WriteEvidence, IInv, Types
  <2>5. Written(p) => Written(p)' /\ work[p].hashes = <<work[p].seen, work[p].seen>>
    BY <1>1, <1>3, <1>4, <1>6, <2>1 DEF Written, AllOf
  <2>6. \A q \in Regenerating : (settled \/ work[q].lone) /\ Written(q) => Written(q)'
    <3> SUFFICES ASSUME NEW q \in Regenerating, settled \/ work[q].lone, Written(q), q # p
                 PROVE  Written(q)'
      BY <2>5
    <3>1. work'[q] = work[q] /\ work[q].seen = work[p].seen
      BY <1>1, <1>3, SameSeen DEF Regenerating
    <3>2. settled \/ work[p].lone
      BY <1>1 DEF IInv, Alone
    <3>3. files'.evidence = <<work[q].seen, work[q].seen>>
      BY <1>1, <1>4, <2>5, <3>1, <3>2 DEF IInv, Current
    <3>4. \A i \in 1..5 : FileOrder[i] \in FileNames
      BY DEF FileNames
    <3> QED
      BY <1>4, <3>1, <3>3, <3>4 DEF Written, AllOf
  <2>7. Alone'
    BY <2>2, <2>3 DEF IInv, Alone
  <2>8. Current'
    BY <2>2, <2>3, <2>4, <2>6 DEF IInv, Current
  <2>9. AtRest'
    BY <1>1, <2>2 DEF AtRest
  <2> QED
    BY <1>5, <2>7, <2>8, <2>9 DEF IInv
<1>7. CASE w.step # "stamp"
  <2>1. work[p].kind # "event" /\ w.step \in {"load", "idle"}
    BY <1>2, <1>7 DEF Idle
  <2>2. /\ settled' = (settled \/ work[p].lone) /\ disk' = disk
        /\ files' = [files EXCEPT !.evidence = work[p].hashes]
    BY <2>1 DEF WriteEvidence
  <2>3. Regenerating' = Regenerating \ {p}
    BY <1>3, <2>1 DEF Regenerating
  <2>4. \A q \in Regenerating' : /\ q \in Regenerating /\ work'[q] = work[q]
                                 /\ ~work[q].lone /\ (settled' => settled)
    BY <1>1, <1>3, <2>2, <2>3 DEF IInv, Alone, Regenerating
  <2>5. settled \/ work[p].lone =>
          /\ AllOf(disk) /\ work[p].hashes = <<disk, disk>>
    BY <1>1 DEF IInv, Current, Written
  <2>6. Alone'
    BY <2>4 DEF Alone
  <2>7. Current'
    <3> SUFFICES ASSUME NEW q \in Regenerating', settled'
                 PROVE  work'[q].seen = disk' /\ Written(q)'
      BY <2>4 DEF Current
    <3>1. work[q].seen = disk /\ Written(q) /\ work'[q] = work[q] /\ settled
      BY <2>4 DEF IInv, Current
    <3>2. files'.evidence = <<disk, disk>>
      BY <1>4, <2>5, <3>1
    <3>3. \A i \in 1..5 : FileOrder[i] \in FileNames
      BY DEF FileNames
    <3> QED
      BY <1>4, <2>2, <3>1, <3>2, <3>3 DEF Written, AllOf
  <2>8. AtRest'
    <3> SUFFICES ASSUME settled'
                 PROVE  /\ \A name \in FileNames : files'[name] = files'.registry
                        /\ files'.evidence = <<files'.registry, files'.registry>>
                        /\ files'.registry = disk'
      BY DEF AtRest, AllOf
    <3>1. AllOf(disk) /\ work[p].hashes = <<disk, disk>>
      BY <2>2, <2>5
    <3> QED
      BY <1>4, <2>2, <3>1, Order DEF AllOf
  <2> QED
    BY <1>5, <2>6, <2>7, <2>8 DEF IInv
<1> QED
  BY <1>6, <1>7

LEMMA ClearDirtyStep ==
  ASSUME IInv, NEW p \in Procs, ClearDirty(p)
  PROVE  IInv'
<1>1. /\ work[p] \in Works /\ p \in Regenerating /\ work[p].step = "clear"
  BY DEF IInv, Types, ClearDirty, Step, Regenerating
<1>2. /\ work' \in [Procs -> Works] /\ work'[p] = Idle
      /\ \A q \in Procs \ {p} : work'[q] = work[q]
  BY OneWorks, IdleWorks DEF IInv, Types, ClearDirty
<1>3. /\ settled' = (settled \/ work[p].lone) /\ disk' = disk /\ files' = files
  BY DEF ClearDirty
<1>4. Types'
  <2>1. \A q \in Procs \ {p} : WorkOK(q)'
    BY <1>2, <1>3, OthersWork DEF IInv, Types
  <2>2. WorkOK(p)'
    BY <1>2 DEF WorkOK, Idle
  <2>3. settled' \in BOOLEAN
    BY <1>1, <1>3 DEF Works, IInv, Types
  <2>4. mutex' \in Threads \union {Absent}
    BY DEF ClearDirty, Released, IInv, Types
  <2> QED
    BY <1>2, <1>3, <2>1, <2>2, <2>3, <2>4 DEF IInv, Types, ClearDirty, FilesOK
<1>5. Regenerating' = Regenerating \ {p}
  BY <1>2 DEF Regenerating, Idle
<1>6. \A q \in Regenerating' : /\ q \in Regenerating /\ work'[q] = work[q]
                               /\ ~work[q].lone /\ (settled' => settled)
  BY <1>1, <1>2, <1>3, <1>5 DEF IInv, Alone, Regenerating
<1>7. Alone'
  BY <1>6 DEF Alone
<1>8. Current'
  BY <1>3, <1>6 DEF IInv, Current, Written, AllOf
<1>9. AtRest'
  <2> SUFFICES ASSUME settled'
               PROVE  AllOf(files.registry) /\ files.evidence = <<files.registry, files.registry>>
                      /\ files.registry = disk
    BY <1>3 DEF AtRest, AllOf
  <2>1. AllOf(disk) /\ files.evidence = <<disk, disk>>
    BY <1>1, <1>3 DEF IInv, Current, Written
  <2> QED
    BY <2>1, Order DEF AllOf
<1> QED
  BY <1>4, <1>7, <1>8, <1>9 DEF IInv

\* The gateway ends with all its threads, or one command ends.
LEMMA CrashStep ==
  ASSUME IInv, NEW dying \in SUBSET Procs, Crash(dying)
  PROVE  IInv'
<1>1. /\ work' = [p \in Procs |-> IF p \in dying THEN Idle ELSE work[p]]
      /\ settled' = (settled /\ \A p \in dying : work[p].step # "mark" /\ p \notin Regenerating)
      /\ UNCHANGED <<disk, files, dirty, stamp>>
  BY DEF Crash
<1>2. work' \in [Procs -> Works]
  BY <1>1, IdleWorks DEF IInv, Types
<1>3. /\ \A p \in dying : work'[p] = Idle
      /\ \A p \in Procs \ dying : work'[p] = work[p]
  BY <1>1
<1>4. Regenerating' = Regenerating \ dying
  BY <1>3 DEF Regenerating, Idle
<1>5. Types'
  <2>1. \A q \in Procs : WorkOK(q)'
    <3>1. \A q \in dying : WorkOK(q)'
      BY <1>3 DEF WorkOK, Idle
    <3>2. \A q \in Procs \ dying : WorkOK(q)'
      BY <1>1, <1>3 DEF WorkOK, IInv, Types
    <3> QED
      BY <3>1, <3>2
  <2>2. mutex' \in Threads \union {Absent}
    BY DEF Crash, IInv, Types
  <2>3. left' \in [changes : Nat, commands : Nat, turns : Nat, crashes : Nat]
    BY DEF Crash, IInv, Types
  <2>4. settled' \in BOOLEAN
    BY <1>1 DEF IInv, Types
  <2> QED
    BY <1>1, <1>2, <2>1, <2>2, <2>3, <2>4 DEF IInv, Types, FilesOK
<1>6. \A q \in Regenerating' : q \in Regenerating /\ work'[q] = work[q]
  BY <1>3, <1>4 DEF Regenerating
<1>7. Alone'
  BY <1>4, <1>6 DEF IInv, Alone
<1>8. Current'
  <2> SUFFICES ASSUME NEW q \in Regenerating', settled' \/ work'[q].lone
               PROVE  work'[q].seen = disk' /\ Written(q)'
    BY DEF Current
  <2>1. work'[q] = work[q] /\ (settled' => settled) /\ files' = files /\ disk' = disk
    BY <1>1, <1>6
  <2>2. work[q].seen = disk /\ Written(q)
    BY <1>6, <2>1 DEF IInv, Current
  <2> QED
    BY <2>1, <2>2 DEF Written, AllOf
<1>9. AtRest'
  <2> SUFFICES ASSUME settled', Regenerating' = {}
               PROVE  /\ AllOf(files.registry) /\ files.evidence = <<files.registry, files.registry>>
                      /\ files.registry = disk \/ dirty \/ \E p \in Procs : Step(p, "mark")'
    BY <1>1 DEF AtRest, AllOf
  <2>1. settled /\ Regenerating = {} /\ \A p \in dying : work[p].step # "mark"
    BY <1>1, <1>4
  <2>2. \A p \in Procs : Step(p, "mark") => Step(p, "mark")'
    BY <1>3, <2>1 DEF Step
  <2> QED
    BY <2>1, <2>2 DEF IInv, AtRest
<1> QED
  BY <1>5, <1>7, <1>8, <1>9 DEF IInv

-----------------------------------------------------------------------------
(* The theorems. *)

LEMMA Initially == Init => IInv
<1> SUFFICES ASSUME Init
             PROVE  IInv
  OBVIOUS
<1>1. PICK content \in {Absent, {}} :
        files = [registry |-> content, capabilities |-> content, lock |-> content,
                 manifest |-> content, projection |-> content, evidence |-> <<content, content>>]
  BY DEF Init
<1>2. content \in Contents /\ FilesOK
  BY <1>1, Order DEF FilesOK, Contents, Installable
<1>3. \A p \in Procs : work[p] = Idle
  BY DEF Init
<1>4. \A p \in Procs : WorkOK(p)
  BY <1>3 DEF WorkOK, Idle
<1>5. work \in [Procs -> Works]
  BY IdleWorks DEF Init
<1>6. Types
  <2>1. Skills = (Skills \ Movable) \union Movable
    BY RegistryAssumption
  <2>2. disk \in Standing
    BY <2>1 DEF Init, Standing
  <2> QED
    BY <1>2, <1>4, <1>5, <2>2, RegistryAssumption DEF Init, Types
<1>7. Regenerating = {} /\ ~settled
  BY <1>3 DEF Regenerating, Idle, Init
<1> QED
  BY <1>6, <1>7 DEF IInv, Alone, Current, AtRest

LEMMA Proceeds ==
  ASSUME IInv, NEW p \in Procs, Proceed(p)
  PROVE  IInv'
<1>1. CASE MarkDirty(p) BY <1>1, MarkDirtyStep
<1>2. CASE TakeLock(p) BY <1>2, TakeLockStep
<1>3. CASE CheckDirty(p) BY <1>3, CheckDirtyStep
<1>4. CASE ListSkills(p) BY <1>4, ListSkillsStep
<1>5. CASE ReadSkills(p) BY <1>5, ReadSkillsStep
<1>6. CASE WriteFile(p) BY <1>6, WriteFileStep
<1>7. CASE HashFiles(p) BY <1>7, HashFilesStep
<1>8. CASE WriteEvidence(p) BY <1>8, WriteEvidenceStep
<1>9. CASE WriteStamp(p) BY <1>9, WriteStampStep
<1>10. CASE ClearDirty(p) BY <1>10, ClearDirtyStep
<1>11. CASE LoadRegistry(p) BY <1>11, LoadRegistryStep
<1>12. CASE Answer(p) BY <1>12, AnswerStep
<1> QED
  BY <1>1, <1>2, <1>3, <1>4, <1>5, <1>6, <1>7, <1>8, <1>9, <1>10, <1>11, <1>12 DEF Proceed

LEMMA Inductive == IInv /\ [Next]_vars => IInv'
<1> SUFFICES ASSUME IInv, [Next]_vars
             PROVE  IInv'
  OBVIOUS
<1>1. CASE UNCHANGED vars
  <2>1. UNCHANGED <<disk, files, dirty, stamp, mutex, work, settled, left>>
    BY <1>1 DEF vars
  <2>2. Regenerating' = Regenerating
    BY <2>1 DEF Regenerating
  <2>3. Types'
    BY <2>1 DEF IInv, Types, FilesOK, WorkOK
  <2>4. Alone' /\ Current'
    BY <2>1, <2>2 DEF IInv, Alone, Current, Written, AllOf
  <2>5. AtRest'
    BY <2>1, <2>2 DEF IInv, AtRest, AllOf, Step
  <2> QED
    BY <2>3, <2>4, <2>5 DEF IInv
<1>2. ASSUME NEW p \in Procs, Change(p) PROVE IInv'
  BY <1>2, ChangeStep
<1>3. ASSUME NEW p \in Procs, StartCommand(p) PROVE IInv'
  BY <1>3, StartCommandStep
<1>4. ASSUME NEW p \in Procs, Turn(p) PROVE IInv'
  BY <1>4, TurnStep
<1>5. ASSUME NEW p \in Procs, Proceed(p) PROVE IInv'
  BY <1>5, Proceeds
<1>6. CASE Crash(Threads)
  BY <1>6, CrashStep DEF Procs
<1>7. ASSUME NEW p \in Commands, Crash({p}) PROVE IInv'
  <2>1. {p} \in SUBSET Procs
    BY DEF Procs
  <2> QED
    BY <1>7, <2>1, CrashStep
<1> QED
  BY <1>1, <1>2, <1>3, <1>4, <1>5, <1>6, <1>7 DEF Next

\* The inductive invariant: a regeneration nothing came across is the only one;
\* while the files are settled every regeneration under way has seen the skills
\* that are on the disk, and has written so far what it has seen.
THEOREM Invariant == Spec => []IInv
BY Initially, Inductive, PTL DEF Spec

\* The variables and the six files hold what they can hold, and the six files
\* are of one inventory when every process is done and nothing came across the
\* regeneration that wrote them, however many threads and commands regenerate
\* at once and whichever of them holds the lock (generate.py regenerate).
THEOREM ConsistentHolds == Spec => []Consistent
<1>1. IInv => Consistent
  <2> SUFFICES ASSUME IInv
               PROVE  Consistent
    OBVIOUS
  <2>1. TypeOK
    BY Subsets DEF IInv, Types, TypeOK, FilesOK, Contents, Works
  <2>2. FilesAgree
    <3> SUFFICES ASSUME Quiet, settled
                 PROVE  /\ \A name \in FileNames : files[name] = files.registry
                        /\ files.evidence = <<files.registry, files.registry>>
      BY DEF FilesAgree
    <3>1. Regenerating = {}
      BY DEF Quiet, Regenerating
    <3> QED
      BY <3>1 DEF IInv, AtRest, AllOf
  <2> QED
    BY <2>1, <2>2 DEF Consistent
<1> QED
  BY <1>1, Invariant, PTL

\* A registry that lags behind the skills when every process is done is marked
\* dirty: the flag is cleared only over files of the skills on the disk, unless
\* a change came across the regeneration, or a crash before its mark
\* (lifecycle.py mark_dirty, regenerate_if_dirty).
THEOREM StaleIsMarkedHolds == Spec => []StaleIsMarked
<1>1. IInv => StaleIsMarked
  <2> SUFFICES ASSUME IInv, Quiet, settled
               PROVE  files.registry = disk \/ dirty
    BY DEF StaleIsMarked
  <2>1. Regenerating = {} /\ ~\E p \in Procs : Step(p, "mark")
    BY DEF Quiet, Regenerating, Step
  <2> QED
    BY <2>1 DEF IInv, AtRest
<1> QED
  BY <1>1, Invariant, PTL

-----------------------------------------------------------------------------
(* What may be installed. *)

Rank == [T0 |-> 0, T1 |-> 1, T2 |-> 2, T3 |-> 3, T4 |-> 9]

LEMMA Ranks ==
  /\ \A tier \in Tiers : Rank[tier] \in Nat
  /\ \A tier \in Tiers, top \in {"T0", "T1"} :
       Rank[tier] <= Rank[top] => tier \in {"T0", top}
<1>1. Tiers = {"T0", "T1", "T2", "T3", "T4"}
  BY DEF Tiers
<1>2. /\ Rank["T0"] = 0 /\ Rank["T1"] = 1 /\ Rank["T2"] = 2 /\ Rank["T3"] = 3 /\ Rank["T4"] = 9
  BY DEF Rank
<1> QED
  BY <1>1, <1>2

\* A set of naturals has a least element.
LEMMA LeastExists ==
  ASSUME NEW S \in SUBSET Nat, S # {}
  PROVE  \E m \in S : \A k \in S : m <= k
<1>1. PICK x \in S : \A y \in S : ~ (<<y, x>> \in OpToRel(<, Nat))
  BY NatLessThanWellFounded, WFMin, Zenon
<1>2. \A y \in S : ~(y < x)
  BY <1>1 DEF OpToRel
<1> QED
  BY <1>2

\* The tier of a source or of a hit is a tier, and identifiers are numbers.
Comparable(c) == c.tier \in Tiers /\ c.id \in Nat

LEMMA TierOfHitIsTier ==
  ASSUME NEW h \in Hits
  PROVE  /\ TierOfHit(h) \in Tiers
         /\ TierOfHit(h) = "T2" => \/ h.repository \in Allowlisted \union {Nobody}
                                   \/ h.source \in {"official", "builtin"}
<1> DEFINE tier == IF h.level \in DOMAIN HermesTrust THEN HermesTrust[h.level] ELSE "T3"
<1>1. tier \in Tiers
  BY DEF HermesTrust, Tiers
<1>2. TierOfHit(h) = IF /\ tier = "T2" /\ h.repository \notin Allowlisted \union {Nobody}
                        /\ h.source \notin {"official", "builtin"}
                       THEN "T3" ELSE tier
  BY DEF TierOfHit
<1> HIDE DEF tier
<1> QED
  BY <1>1, <1>2 DEF Tiers

\* What is not installed in a registry comes from the catalogue.
LEMMA EntriesComparable ==
  ASSUME NEW inventory, NEW e \in BuildRegistry(inventory), e.state # "installed"
  PROVE  Comparable(e)
<1> DEFINE stubs == Stubbed(inventory)
<1>1. stubs \subseteq DOMAIN Sources
  BY DEF Stubbed
<1>2. \/ \E id \in inventory : e = LocalEntry(id)
      \/ \E i \in stubs : e = StubEntry(i)
      \/ \E cap \in UNION {Sources[i].caps : i \in stubs} : e = VirtualEntry(cap, stubs)
  BY DEF BuildRegistry
<1>3. \A id \in inventory : e # LocalEntry(id)
  BY DEF LocalEntry
<1>4. ASSUME NEW i \in stubs, e = StubEntry(i)
      PROVE  Comparable(e)
  <2>1. e.id = Sources[i].id /\ e.tier = Sources[i].tier
    BY <1>4 DEF StubEntry
  <2> QED
    BY <1>1, <2>1, RoutingAssumption DEF Comparable
<1>5. ASSUME NEW cap \in UNION {Sources[i].caps : i \in stubs}, e = VirtualEntry(cap, stubs)
      PROVE  Comparable(e)
  <2> DEFINE having == {i \in stubs : cap \in Sources[i].caps}
             first == CHOOSE i \in stubs : /\ cap \in Sources[i].caps
                                           /\ \A j \in stubs : cap \in Sources[j].caps => i <= j
  <2>1. having \in SUBSET Nat /\ having # {}
    BY <1>1, RoutingAssumption
  <2>2. \E i \in stubs : /\ cap \in Sources[i].caps
                         /\ \A j \in stubs : cap \in Sources[j].caps => i <= j
    <3>1. PICK i \in having : \A j \in having : i <= j
      BY <2>1, LeastExists
    <3> QED
      BY <3>1
  <2>3. first \in stubs /\ cap \in Sources[first].caps
    BY <2>2
  <2>4. e.id = VirtualId[cap] /\ e.tier = Sources[first].tier
    BY <1>5 DEF VirtualEntry
  <2>5. cap \in Offered
    BY <1>1 DEF Offered
  <2> HIDE DEF first
  <2> QED
    BY <1>1, <2>3, <2>4, <2>5, RoutingAssumption DEF Comparable
<1> QED
  BY <1>2, <1>3, <1>4, <1>5

\* A candidate is one of the catalogue, or a hit of the hub with its tier.
LEMMA CandidateIs ==
  ASSUME NEW inventory, NEW cap, NEW hits \in SUBSET Hits,
         NEW c \in Candidates(BuildRegistry(inventory), cap, hits)
  PROVE  /\ Comparable(c)
         /\ \/ c.scan = Unscanned(c.tier)
            \/ c.tier = "T2" => \/ c.repository \in Allowlisted \union {Nobody}
                                \/ c.source \in {"official", "builtin"}
<1> DEFINE registry == BuildRegistry(inventory)
<1>1. \/ \E e \in {x \in registry : x.state # "installed" /\ cap \in x.caps} :
           c = [id |-> e.id, tier |-> e.tier, scan |-> Unscanned(e.tier),
                repository |-> Nobody, source |-> "registry"]
      \/ \E h \in hits :
           c = [id |-> h.id, tier |-> TierOfHit(h), scan |-> h.scan,
                repository |-> h.repository, source |-> h.source]
  BY DEF Candidates
<1> HIDE DEF registry
<1>2. ASSUME NEW e \in registry, e.state # "installed",
             c = [id |-> e.id, tier |-> e.tier, scan |-> Unscanned(e.tier),
                  repository |-> Nobody, source |-> "registry"]
      PROVE  Comparable(c) /\ c.scan = Unscanned(c.tier)
  <2>1. Comparable(e)
    BY <1>2, EntriesComparable DEF registry
  <2>2. c.id = e.id /\ c.tier = e.tier /\ c.scan = Unscanned(e.tier)
    BY <1>2
  <2> QED
    BY <2>1, <2>2 DEF Comparable
<1>3. ASSUME NEW h \in hits,
             c = [id |-> h.id, tier |-> TierOfHit(h), scan |-> h.scan,
                  repository |-> h.repository, source |-> h.source]
      PROVE  /\ Comparable(c)
             /\ c.tier = "T2" => \/ c.repository \in Allowlisted \union {Nobody}
                                 \/ c.source \in {"official", "builtin"}
  <2>1. c.id = h.id /\ c.tier = TierOfHit(h) /\ c.repository = h.repository /\ c.source = h.source
    BY <1>3
  <2>2. h \in Hits
    OBVIOUS
  <2> QED
    BY <2>1, <2>2, TierOfHitIsTier, RoutingAssumption DEF Comparable
<1> QED
  BY <1>1, <1>2, <1>3

\* Some candidate comes first by tier and then by name, and is preferred.
LEMMA PreferredIsFirst ==
  ASSUME NEW S, S # {}, \A c \in S : Comparable(c)
  PROVE  Preferred(S) \in S /\ \A d \in S : Rank[Preferred(S).tier] <= Rank[d.tier]
<1> DEFINE First(c) == \A d \in S :
             Rank[c.tier] < Rank[d.tier] \/ (Rank[c.tier] = Rank[d.tier] /\ c.id <= d.id)
           ranks == {Rank[c.tier] : c \in S}
<1>1. ranks \in SUBSET Nat /\ ranks # {}
  BY Ranks DEF Comparable
<1>2. PICK r \in ranks : \A k \in ranks : r <= k
  BY <1>1, LeastExists
<1> DEFINE ids == {c.id : c \in {x \in S : Rank[x.tier] = r}}
<1>3. ids \in SUBSET Nat /\ ids # {}
  BY DEF Comparable
<1>4. PICK n \in ids : \A k \in ids : n <= k
  BY <1>3, LeastExists
<1>5. PICK c \in S : Rank[c.tier] = r /\ c.id = n
  OBVIOUS
<1>6. First(c)
  <2> SUFFICES ASSUME NEW d \in S
               PROVE  Rank[c.tier] < Rank[d.tier] \/ (Rank[c.tier] = Rank[d.tier] /\ c.id <= d.id)
    OBVIOUS
  <2>1. Rank[d.tier] \in Nat /\ r \in Nat /\ r <= Rank[d.tier]
    BY <1>1, <1>2
  <2>2. Rank[d.tier] = r => n <= d.id
    BY <1>4
  <2> QED
    BY <1>5, <2>1, <2>2
<1>7. Preferred(S) = CHOOSE x \in S : First(x)
  BY DEF Preferred, Rank
<1>8. Preferred(S) \in S /\ First(Preferred(S))
  BY <1>6, <1>7
<1>9. \A x, d \in S : First(x) => Rank[x.tier] <= Rank[d.tier]
  BY Ranks DEF Comparable
<1> QED
  BY <1>8, <1>9

\* What the resolver would install, from any registry and for any answer.
LEMMA InstallsAsTierAllows ==
  ASSUME NEW inventory, NEW cap, NEW hits \in SUBSET Hits,
         NEW c \in ResolveMissing(BuildRegistry(inventory), cap, hits).install
  PROVE  /\ \/ c.tier \in {"T0", "T1"} /\ c.scan # "block"
            \/ /\ c.tier = "T2" /\ c.scan = "allow"
               /\ \/ c.repository \in Allowlisted \union {Nobody}
                  \/ c.source \in {"official", "builtin"}
         /\ \A d \in Candidates(BuildRegistry(inventory), cap, hits) :
              d.tier \in {"T0", "T1"} /\ d.scan # "block" => c.tier \in {"T0", d.tier}
<1> DEFINE registry == BuildRegistry(inventory)
           all == Candidates(registry, cap, hits)
           fit == {x \in all : MayInstall(x)}
<1>1. fit # {} /\ c = Preferred(fit)
  BY DEF ResolveMissing
<1>2. \A x \in all : Comparable(x)
  BY CandidateIs
<1>3. \/ c.scan = Unscanned(c.tier)
      \/ c.tier = "T2" => \/ c.repository \in Allowlisted \union {Nobody}
                          \/ c.source \in {"official", "builtin"}
  <2>1. c \in all
    BY <1>1, <1>2, PreferredIsFirst
  <2> QED
    BY <2>1, CandidateIs
<1> HIDE DEF all
<1>4. c \in fit /\ \A d \in fit : Rank[c.tier] <= Rank[d.tier]
  <2>1. \A x \in fit : Comparable(x)
    BY <1>2
  <2> HIDE DEF fit
  <2> QED
    BY <1>1, <2>1, PreferredIsFirst
<1>5. MayInstall(c) /\ Comparable(c)
  BY <1>2, <1>4
<1>6. \/ c.tier \in {"T0", "T1"} /\ c.scan # "block"
      \/ c.tier = "T2" /\ c.scan = "allow"
  BY <1>5 DEF MayInstall
<1>7. c.tier = "T2" => c.scan # Unscanned(c.tier)
  BY <1>6 DEF Unscanned
<1>8. ASSUME NEW d \in all, d.tier \in {"T0", "T1"}, d.scan # "block"
      PROVE  c.tier \in {"T0", d.tier}
  <2>1. d \in fit
    BY <1>8 DEF MayInstall
  <2> QED
    BY <1>4, <1>5, <1>8, <2>1, Ranks DEF Comparable
<1> QED
  BY <1>3, <1>6, <1>7, <1>8 DEF all

\* Whatever skills are installed when a turn reads the registry, and whatever a
\* search of the hub returns: what a task misses is installed without asking
\* only from T0 or T1 if no scan blocks it (an "ask" does not), or from T2 if a
\* scan allows it and no repository outside the allowlist is named, unless the
\* source is official; and a better tier is not passed over (resolver.py
\* resolve_missing_capability, decide_auto_install, map_hermes_trust).
THEOREM InstallsByTierHolds == Spec => []InstallsByTier
<1>1. IInv => InstallsByTier
  <2> SUFFICES ASSUME IInv, NEW p \in Procs, NEW cap, NEW hits \in HubAnswers,
                      NEW c \in ResolveMissing(RegistryOf[work[p].seen], cap, hits).install
               PROVE  /\ \/ c.tier \in {"T0", "T1"} /\ c.scan # "block"
                         \/ /\ c.tier = "T2" /\ c.scan = "allow"
                            /\ \/ c.repository \in Allowlisted \union {Nobody}
                               \/ c.source \in {"official", "builtin"}
                      /\ \A d \in Candidates(RegistryOf[work[p].seen], cap, hits) :
                           d.tier \in {"T0", "T1"} /\ d.scan # "block" => c.tier \in {"T0", d.tier}
    BY DEF InstallsByTier
  <2>1. work[p].seen \in Installable
    BY DEF IInv, Types, Works
  <2>2. RegistryOf[work[p].seen] = BuildRegistry(work[p].seen)
    BY <2>1 DEF RegistryOf
  <2>3. hits \in SUBSET Hits
    BY RegistryAssumption
  <2>4. c \in ResolveMissing(BuildRegistry(work[p].seen), cap, hits).install
    BY <2>2
  <2> QED
    BY <2>2, <2>3, <2>4, InstallsAsTierAllows
<1> QED
  BY <1>1, Invariant, PTL

-----------------------------------------------------------------------------
(* What a task is routed to: the skills of the ranking are looked at one    *)
(* after the other, and what is selected is needed, what is missing is      *)
(* missing for a reason.                                                    *)

Routes(S, task) ==
  [selected: Seq(S), supporting: SUBSET S, missing: SUBSET task.caps, remaining: SUBSET task.caps]

\* Each selected skill after the first covers what none before it covers.
Needed(selected, task) ==
  \A i \in 2..Len(selected) :
    \E cap \in selected[i].caps \cap task.caps : \A j \in 1..(i - 1) : cap \notin selected[j].caps

Greedy(route, S, task) ==
  /\ route \in Routes(S, task)
  /\ Len(route.selected) <= MaxSelected
  /\ \A j \in 1..Len(route.selected) : route.selected[j].caps \cap route.remaining = {}
  /\ Needed(route.selected, task)

\* A skill changes nothing, supports, is selected or tells what is missing.
Supports(route, e) == [route EXCEPT !.supporting = @ \union {e}]
Selects(route, e) == [route EXCEPT !.selected = Append(@, e), !.remaining = @ \ e.caps]
Misses(route, e) ==
  [route EXCEPT !.missing = @ \union (e.caps \cap route.remaining),
                !.remaining = IF e.state = "virtual" THEN @ ELSE @ \ e.caps]

LEMMA CoverCases ==
  ASSUME NEW route, NEW e, NEW task, NEW points
  PROVE  \/ Cover(route, e, task, points) = route
         \/ Cover(route, e, task, points) = Supports(route, e)
         \/ /\ Cover(route, e, task, points) = Selects(route, e)
            /\ Len(route.selected) < MaxSelected
            /\ e.caps \cap route.remaining # {} \/ route.selected = <<>>
         \/ /\ Cover(route, e, task, points) = Misses(route, e)
            /\ e.state # "installed"
BY DEF Cover, Supports, Selects, Misses

\* An installed skill covers what it can, unless three are selected.
LEMMA InstalledCovers ==
  ASSUME NEW route, NEW e, NEW task, NEW points, e.state = "installed",
         e.caps \cap route.remaining # {}, Len(route.selected) < MaxSelected
  PROVE  Cover(route, e, task, points) = Selects(route, e)
BY DEF Cover, Selects

\* A route with two fields replaced.
LEMMA Replaces ==
  ASSUME NEW sel, NEW sup, NEW mis, NEW rem, NEW x, NEW y, NEW route,
         route = [selected |-> sel, supporting |-> sup, missing |-> mis, remaining |-> rem]
  PROVE  /\ [route EXCEPT !.selected = x, !.remaining = y] =
              [selected |-> x, supporting |-> sup, missing |-> mis, remaining |-> y]
         /\ [route EXCEPT !.missing = x, !.remaining = y] =
              [selected |-> sel, supporting |-> sup, missing |-> x, remaining |-> y]
<1> DEFINE fields == {"selected", "supporting", "missing", "remaining"}
<1>1. ASSUME NEW v, v = [route EXCEPT !.selected = x, !.remaining = y]
      PROVE  v = [selected |-> x, supporting |-> sup, missing |-> mis, remaining |-> y]
  <2>1. DOMAIN v = fields
    BY <1>1
  <2>2. v.selected = x /\ v.supporting = sup /\ v.missing = mis /\ v.remaining = y
    BY <1>1
  <2>3. v = [f \in fields |-> v[f]]
    BY <1>1, <2>1
  <2> QED
    BY <2>1, <2>2, <2>3
<1>2. ASSUME NEW v, v = [route EXCEPT !.missing = x, !.remaining = y]
      PROVE  v = [selected |-> sel, supporting |-> sup, missing |-> x, remaining |-> y]
  <2>1. DOMAIN v = fields
    BY <1>2
  <2>2. v.selected = sel /\ v.supporting = sup /\ v.missing = x /\ v.remaining = y
    BY <1>2
  <2>3. v = [f \in fields |-> v[f]]
    BY <1>2, <2>1
  <2> QED
    BY <2>1, <2>2, <2>3
<1> QED
  BY <1>1, <1>2

\* The fields of each outcome.
LEMMA Outcomes ==
  ASSUME NEW S, NEW e \in S, NEW task, NEW route \in Routes(S, task)
  PROVE  /\ Supports(route, e) =
              [selected |-> route.selected, supporting |-> route.supporting \union {e},
               missing |-> route.missing, remaining |-> route.remaining]
         /\ Selects(route, e) =
              [selected |-> Append(route.selected, e), supporting |-> route.supporting,
               missing |-> route.missing, remaining |-> route.remaining \ e.caps]
         /\ Misses(route, e) =
              [selected |-> route.selected, supporting |-> route.supporting,
               missing |-> route.missing \union (e.caps \cap route.remaining),
               remaining |-> IF e.state = "virtual" THEN route.remaining
                             ELSE route.remaining \ e.caps]
<1>1. /\ DOMAIN route = {"selected", "supporting", "missing", "remaining"}
      /\ route = [selected |-> route.selected, supporting |-> route.supporting,
                  missing |-> route.missing, remaining |-> route.remaining]
  BY DEF Routes
<1> DEFINE sel == route.selected
           sup == route.supporting
           mis == route.missing
           rem == route.remaining
<1>2. route = [selected |-> sel, supporting |-> sup, missing |-> mis, remaining |-> rem]
  BY <1>1
<1> HIDE DEF sel, sup, mis, rem
<1>3. Supports(route, e) =
        [selected |-> sel, supporting |-> sup \union {e}, missing |-> mis, remaining |-> rem]
  BY <1>2 DEF Supports
<1>4. Selects(route, e) =
        [selected |-> Append(sel, e), supporting |-> sup, missing |-> mis, remaining |-> rem \ e.caps]
  <2>1. route.selected = sel /\ route.remaining = rem
    BY DEF sel, rem
  <2>2. Selects(route, e) = [route EXCEPT !.selected = Append(sel, e), !.remaining = rem \ e.caps]
    BY <2>1 DEF Selects
  <2> QED
    BY <1>2, <2>2, Replaces
<1>5. Misses(route, e) =
        [selected |-> sel, supporting |-> sup, missing |-> mis \union (e.caps \cap rem),
         remaining |-> IF e.state = "virtual" THEN rem ELSE rem \ e.caps]
  <2>1. route.missing = mis /\ route.remaining = rem
    BY DEF mis, rem
  <2>2. Misses(route, e) =
          [route EXCEPT !.missing = mis \union (e.caps \cap rem),
                        !.remaining = IF e.state = "virtual" THEN rem ELSE rem \ e.caps]
    BY <2>1 DEF Misses
  <2> DEFINE kept == IF e.state = "virtual" THEN rem ELSE rem \ e.caps
             more == mis \union (e.caps \cap rem)
  <2>3. Misses(route, e) = [route EXCEPT !.missing = more, !.remaining = kept]
    BY <2>2
  <2> HIDE DEF kept, more
  <2>4. Misses(route, e) = [selected |-> sel, supporting |-> sup, missing |-> more, remaining |-> kept]
    BY <1>2, <2>3, Replaces
  <2> QED
    BY <2>4 DEF kept, more
<1> QED
  BY <1>3, <1>4, <1>5 DEF sel, sup, mis, rem

LEMMA Appended ==
  ASSUME NEW S, NEW s \in Seq(S), NEW e \in S
  PROVE  /\ Append(s, e) \in Seq(S)
         /\ Len(s) \in Nat
         /\ Len(Append(s, e)) = Len(s) + 1
         /\ \A i \in 1..Len(s) : Append(s, e)[i] = s[i]
         /\ Append(s, e)[Len(s) + 1] = e
OBVIOUS

LEMMA CoverKeeps ==
  ASSUME NEW S, NEW e \in S, NEW task, NEW points, NEW route, Greedy(route, S, task)
  PROVE  Greedy(Cover(route, e, task, points), S, task)
<1> DEFINE after == Cover(route, e, task, points)
<1> SUFFICES Greedy(after, S, task)
  OBVIOUS
<1>1. /\ route \in Routes(S, task) /\ route.selected \in Seq(S)
      /\ route.supporting \in SUBSET S /\ route.missing \in SUBSET task.caps
      /\ route.remaining \in SUBSET task.caps
  BY DEF Greedy, Routes
<1>2. CASE after = route
  BY <1>2
<1>3. CASE after = Supports(route, e)
  <2>1. after = [selected |-> route.selected, supporting |-> route.supporting \union {e},
                 missing |-> route.missing, remaining |-> route.remaining]
    BY <1>1, <1>3, Outcomes
  <2>2. after.selected = route.selected /\ after.remaining = route.remaining
    BY <2>1
  <2>3. after \in Routes(S, task)
    BY <1>1, <2>1 DEF Routes
  <2> HIDE DEF after
  <2> QED
    BY <2>2, <2>3 DEF Greedy
<1>4. CASE after = Misses(route, e)
  <2>1. after = [selected |-> route.selected, supporting |-> route.supporting,
                 missing |-> route.missing \union (e.caps \cap route.remaining),
                 remaining |-> IF e.state = "virtual" THEN route.remaining
                               ELSE route.remaining \ e.caps]
    BY <1>1, <1>4, Outcomes
  <2>2. after.selected = route.selected /\ after.remaining \subseteq route.remaining
    BY <2>1
  <2>3. after \in Routes(S, task)
    BY <1>1, <2>1 DEF Routes
  <2> HIDE DEF after
  <2>4. \A j \in 1..Len(after.selected) : after.selected[j].caps \cap after.remaining = {}
    BY <2>2 DEF Greedy
  <2> QED
    BY <2>2, <2>3, <2>4 DEF Greedy
<1>5. CASE /\ after = Selects(route, e) /\ Len(route.selected) < MaxSelected
           /\ e.caps \cap route.remaining # {} \/ route.selected = <<>>
  <2> DEFINE old == route.selected
             new == Append(old, e)
  <2>1. after = [selected |-> new, supporting |-> route.supporting,
                 missing |-> route.missing, remaining |-> route.remaining \ e.caps]
    BY <1>1, <1>5, Outcomes
  <2>2. after.selected = new /\ after.remaining = route.remaining \ e.caps
    BY <2>1
  <2>3. /\ new \in Seq(S) /\ Len(old) \in Nat /\ Len(new) = Len(old) + 1
        /\ \A i \in 1..Len(old) : new[i] = old[i]
        /\ new[Len(old) + 1] = e
    BY <1>1, Appended
  <2>4. after \in Routes(S, task)
    BY <1>1, <2>1, <2>3 DEF Routes
  <2>5. /\ \A j \in 1..Len(old) : old[j].caps \cap route.remaining = {}
        /\ Needed(old, task)
        /\ Len(old) < MaxSelected
        /\ e.caps \cap route.remaining # {} \/ old = <<>>
    BY <1>5 DEF Greedy
  <2> HIDE DEF after, old, new
  <2>6. Len(new) <= MaxSelected
    BY <2>3, <2>5 DEF MaxSelected
  <2>7. \A j \in 1..Len(new) : new[j].caps \cap after.remaining = {}
    <3> SUFFICES ASSUME NEW j \in 1..Len(new) PROVE new[j].caps \cap after.remaining = {}
      OBVIOUS
    <3>1. CASE j \in 1..Len(old)
      BY <3>1, <2>2, <2>3, <2>5
    <3>2. CASE j = Len(old) + 1
      BY <3>2, <2>2, <2>3
    <3> QED
      BY <3>1, <3>2, <2>3
  <2>8. Needed(new, task)
    <3> SUFFICES ASSUME NEW i \in 2..Len(new)
                 PROVE  \E cap \in new[i].caps \cap task.caps :
                          \A j \in 1..(i - 1) : cap \notin new[j].caps
      BY DEF Needed
    <3>1. CASE i \in 2..Len(old)
      <4>1. PICK cap \in old[i].caps \cap task.caps : \A j \in 1..(i - 1) : cap \notin old[j].caps
        BY <3>1, <2>5 DEF Needed
      <4>2. new[i] = old[i] /\ \A j \in 1..(i - 1) : new[j] = old[j]
        BY <3>1, <2>3
      <4> QED
        BY <4>1, <4>2
    <3>2. CASE i = Len(old) + 1
      <4>1. old # <<>>
        BY <3>2, <2>3
      <4>2. PICK cap \in e.caps \cap route.remaining : TRUE
        BY <4>1, <2>5
      <4>3. cap \in new[i].caps \cap task.caps
        BY <4>2, <3>2, <2>3, <1>1
      <4>4. \A j \in 1..(i - 1) : cap \notin new[j].caps
        BY <4>2, <3>2, <2>3, <2>5
      <4> QED
        BY <4>3, <4>4
    <3> QED
      BY <3>1, <3>2, <2>3
  <2> QED
    BY <2>2, <2>4, <2>6, <2>7, <2>8 DEF Greedy
<1> HIDE DEF after
<1>6. after = Cover(route, e, task, points)
  BY DEF after
<1>7. \/ after = route \/ after = Supports(route, e)
      \/ /\ after = Selects(route, e) /\ Len(route.selected) < MaxSelected
         /\ e.caps \cap route.remaining # {} \/ route.selected = <<>>
      \/ after = Misses(route, e)
  BY <1>6, CoverCases
<1> QED
  BY <1>2, <1>3, <1>4, <1>5, <1>7

\* A capability with a reason: three skills are selected, or it is no longer
\* asked for.
Reason(route, cap) ==
  Len(route.selected) = MaxSelected \/ cap \notin route.missing \union route.remaining

\* A skill takes no reason away; an installed one reports nothing missing and
\* leaves a reason for each capability it has.
LEMMA CoverReasons ==
  ASSUME NEW S, NEW e \in S, NEW task, NEW points, NEW route, Greedy(route, S, task), NEW cap,
         NEW after, after = Cover(route, e, task, points)
  PROVE  /\ Reason(route, cap) => Reason(after, cap)
         /\ e.state = "installed" => after.missing = route.missing
         /\ e.state = "installed" /\ cap \in e.caps /\ route.missing = {} => Reason(after, cap)
<1>1. /\ route \in Routes(S, task) /\ route.selected \in Seq(S)
      /\ Len(route.selected) \in Nat /\ Len(route.selected) <= MaxSelected
  BY DEF Greedy, Routes
<1>2. Len(route.selected) = MaxSelected \/ Len(route.selected) < MaxSelected
  <2> DEFINE len == Len(route.selected)
  <2>1. len \in Nat /\ len <= MaxSelected
    BY <1>1
  <2> HIDE DEF len
  <2>2. len = MaxSelected \/ len < MaxSelected
    BY <2>1 DEF MaxSelected
  <2> QED
    BY <2>2 DEF len
<1>3. Len(route.selected) < MaxSelected => Len(route.selected) # MaxSelected
  BY DEF MaxSelected
<1>4. /\ Reason(route, cap) => Reason(after, cap)
      /\ e.state = "installed" => after.missing = route.missing
  <2>1. CASE after = route
    BY <2>1
  <2>2. CASE after = Supports(route, e)
    <3>1. /\ after.selected = route.selected /\ after.missing = route.missing
          /\ after.remaining = route.remaining
      BY <1>1, <2>2, Outcomes
    <3> QED
      BY <3>1 DEF Reason
  <2>3. CASE after = Selects(route, e) /\ Len(route.selected) < MaxSelected
    <3>1. after.missing = route.missing /\ after.remaining = route.remaining \ e.caps
      BY <1>1, <2>3, Outcomes
    <3>2. Reason(route, cap) => cap \notin route.missing \union route.remaining
      BY <1>3, <2>3 DEF Reason
    <3> QED
      BY <3>1, <3>2 DEF Reason
  <2>4. CASE after = Misses(route, e) /\ e.state # "installed"
    <3>1. /\ after.selected = route.selected
          /\ after.missing = route.missing \union (e.caps \cap route.remaining)
          /\ after.remaining \subseteq route.remaining
      BY <1>1, <2>4, Outcomes
    <3> QED
      BY <2>4, <3>1 DEF Reason
  <2> QED
    BY <2>1, <2>2, <2>3, <2>4, CoverCases
<1>5. ASSUME e.state = "installed", cap \in e.caps, route.missing = {}
      PROVE  Reason(after, cap)
  <2>1. CASE Len(route.selected) = MaxSelected
    BY <1>4, <2>1 DEF Reason
  <2>2. CASE cap \notin route.remaining
    BY <1>4, <1>5, <2>2 DEF Reason
  <2>3. CASE Len(route.selected) # MaxSelected /\ cap \in route.remaining
    <3>1. Len(route.selected) < MaxSelected
      BY <1>2, <2>3
    <3>2. after = Selects(route, e)
      BY <1>5, <2>3, <3>1, InstalledCovers
    <3>3. after.missing = {} /\ after.remaining = route.remaining \ e.caps
      BY <1>1, <1>5, <3>2, Outcomes
    <3> QED
      BY <1>5, <3>3 DEF Reason
  <2> QED
    BY <2>1, <2>2, <2>3
<1> QED
  BY <1>4, <1>5

\* What is decided after n skills comes from what was after n - 1: the
\* function Decided chooses exists.
LEMMA DecidedIs ==
  ASSUME NEW ranking, Len(ranking) \in Nat, NEW task, NEW text
  PROVE  LET route == Decided(ranking, task, text) IN
         /\ route[0] = NoRoute(task)
         /\ \A n \in 1..Len(ranking) :
              route[n] = Cover(route[n - 1], ranking[n], task, ScoreSkill(ranking[n], task, text))
<1> DEFINE After(r, n) == Cover(r, ranking[n], task, ScoreSkill(ranking[n], task, text))
           start == NoRoute(task)
           Upto(g, m) == g = [n \in 0..m |-> IF n = 0 THEN start ELSE After(g[n - 1], n)]
           route == Decided(ranking, task, text)
<1>1. route = CHOOSE g : Upto(g, Len(ranking))
  BY DEF Decided
<1> HIDE DEF After, start, route
<1>2. \A m \in Nat : \E g : Upto(g, m)
  <2> DEFINE bad == {m \in Nat : ~\E g : Upto(g, m)}
  <2> SUFFICES ASSUME bad # {} PROVE FALSE
    OBVIOUS
  <2>1. PICK m \in bad : \A k \in bad : m <= k
    <3>1. bad \in SUBSET Nat
      OBVIOUS
    <3> HIDE DEF bad
    <3> QED
      BY <3>1, LeastExists
  <2>2. CASE m = 0
    <3> DEFINE g == [n \in 0..0 |-> start]
    <3>1. Upto(g, 0)
      OBVIOUS
    <3> QED
      BY <2>1, <2>2, <3>1
  <2>3. CASE m # 0
    <3>1. m \in Nat
      BY <2>1
    <3>2. m - 1 \notin bad
      <4> HIDE DEF bad
      <4> QED
        BY <2>1, <3>1
    <3>3. m \in Nat /\ m - 1 \in Nat /\ m - 1 \notin bad
      BY <3>1, <3>2, <2>3
    <3>4. PICK h : Upto(h, m - 1)
      BY <3>3
    <3> DEFINE g == [n \in 0..m |-> IF n = m THEN After(h[m - 1], m) ELSE h[n]]
    <3>5. \A n \in 0..(m - 1) : g[n] = h[n]
      BY <3>3
    <3>6. \A n \in 0..m : g[n] = IF n = 0 THEN start ELSE After(g[n - 1], n)
      <4> SUFFICES ASSUME NEW n \in 0..m
                   PROVE  g[n] = IF n = 0 THEN start ELSE After(g[n - 1], n)
        OBVIOUS
      <4>1. CASE n = m
        <5>1. g[m] = After(h[m - 1], m) /\ m - 1 \in 0..(m - 1)
          BY <3>3
        <5>2. g[m - 1] = h[m - 1]
          BY <5>1, <3>5
        <5> HIDE DEF g
        <5> QED
          BY <4>1, <5>1, <5>2, <2>3
      <4>2. CASE n # m
        <5>1. n \in 0..(m - 1) /\ (n # 0 => n - 1 \in 0..(m - 1))
          BY <3>3, <4>2
        <5>2. h[n] = IF n = 0 THEN start ELSE After(h[n - 1], n)
          BY <3>4, <5>1
        <5>3. g[n] = h[n] /\ (n # 0 => g[n - 1] = h[n - 1])
          BY <3>5, <5>1
        <5> HIDE DEF g
        <5> QED
          BY <5>2, <5>3
      <4> QED
        BY <4>1, <4>2
    <3>7. g = [n \in 0..m |-> g[n]]
      OBVIOUS
    <3> HIDE DEF g
    <3>8. Upto(g, m)
      BY <3>6, <3>7
    <3> QED
      BY <2>1, <3>8
  <2> QED
    BY <2>2, <2>3
<1>3. Upto(route, Len(ranking))
  BY <1>1, <1>2
<1>4. \A n \in 0..Len(ranking) : route[n] = IF n = 0 THEN start ELSE After(route[n - 1], n)
  BY <1>3
<1> HIDE DEF Upto
<1>5. route[0] = start /\ \A n \in 1..Len(ranking) : route[n] = After(route[n - 1], n)
  BY <1>4
<1> QED
  BY <1>5 DEF After, start, route

\* Wherever a step keeps a property of the numbers up to n, it holds of all.
LEMMA StepByStep ==
  ASSUME NEW n \in Nat, NEW good, 0 \in good, \A m \in 1..n : m - 1 \in good => m \in good
  PROVE  0..n \subseteq good
<1> DEFINE bad == (0..n) \ good
<1> SUFFICES ASSUME bad # {} PROVE FALSE
  OBVIOUS
<1>1. PICK m \in bad : \A k \in bad : m <= k
  <2>1. bad \in SUBSET Nat
    OBVIOUS
  <2> HIDE DEF bad
  <2> QED
    BY <2>1, LeastExists
<1>2. m \in 1..n /\ m - 1 \in 0..n /\ ~(m <= m - 1)
  BY <1>1
<1>3. m - 1 \in good
  BY <1>1, <1>2
<1> QED
  BY <1>1, <1>2, <1>3

LEMMA DecidedGreedy ==
  ASSUME NEW ranking, Len(ranking) \in Nat, NEW task, NEW text,
         NEW S, \A i \in 1..Len(ranking) : ranking[i] \in S
  PROVE  \A n \in 0..Len(ranking) : Greedy(Decided(ranking, task, text)[n], S, task)
<1> DEFINE route == Decided(ranking, task, text)
           good == {n \in 0..Len(ranking) : Greedy(route[n], S, task)}
<1>1. /\ route[0] = NoRoute(task)
      /\ \A n \in 1..Len(ranking) :
           route[n] = Cover(route[n - 1], ranking[n], task, ScoreSkill(ranking[n], task, text))
  BY DecidedIs
<1> HIDE DEF route
<1>2. Greedy(NoRoute(task), S, task)
  <2>1. NoRoute(task) = [selected |-> <<>>, supporting |-> {}, missing |-> {}, remaining |-> task.caps]
    BY DEF NoRoute
  <2>2. <<>> \in Seq(S) /\ Len(<<>>) = 0
    OBVIOUS
  <2>3. NoRoute(task) \in Routes(S, task) /\ NoRoute(task).selected = <<>>
    BY <2>1, <2>2 DEF Routes
  <2> QED
    BY <2>2, <2>3 DEF Greedy, Needed, MaxSelected
<1>3. 0 \in good
  BY <1>1, <1>2
<1>4. \A m \in 1..Len(ranking) : m - 1 \in good => m \in good
  BY <1>1, CoverKeeps
<1> HIDE DEF good
<1>5. 0..Len(ranking) \subseteq good
  BY <1>3, <1>4, StepByStep
<1> QED
  BY <1>5 DEF good, route

\* A capability of an installed skill that comes after installed ones only is
\* covered, unless three skills are selected.
LEMMA InstalledGivesReason ==
  ASSUME NEW ranking, Len(ranking) \in Nat, NEW task, NEW text, NEW cap,
         NEW k \in 1..Len(ranking), cap \in ranking[k].caps,
         \A j \in 1..k : ranking[j].state = "installed"
  PROVE  Reason(Decided(ranking, task, text)[Len(ranking)], cap)
<1> DEFINE route == Decided(ranking, task, text)
           S == {ranking[i] : i \in 1..Len(ranking)}
           good == {n \in 0..Len(ranking) : /\ n <= k => route[n].missing = {}
                                            /\ n >= k => Reason(route[n], cap)}
<1>1. /\ route[0] = NoRoute(task)
      /\ \A n \in 1..Len(ranking) :
           route[n] = Cover(route[n - 1], ranking[n], task, ScoreSkill(ranking[n], task, text))
  BY DecidedIs
<1>2. \A n \in 0..Len(ranking) : Greedy(route[n], S, task)
  BY DecidedGreedy
<1> HIDE DEF route
<1>3. 0 \in good
  <2>1. NoRoute(task).missing = {}
    BY DEF NoRoute
  <2> QED
    BY <1>1, <2>1
<1>4. \A m \in 1..Len(ranking) : m - 1 \in good => m \in good
  <2> SUFFICES ASSUME NEW m \in 1..Len(ranking), m - 1 \in good PROVE m \in good
    OBVIOUS
  <2> DEFINE before == route[m - 1]
             after == Cover(before, ranking[m], task, ScoreSkill(ranking[m], task, text))
  <2>1. route[m] = after /\ m \in 0..Len(ranking) /\ m - 1 \in 0..Len(ranking)
    BY <1>1
  <2>2. ranking[m] \in S /\ Greedy(before, S, task)
    BY <1>2, <2>1
  <2>3. /\ Reason(before, cap) => Reason(after, cap)
        /\ ranking[m].state = "installed" => after.missing = before.missing
        /\ ranking[m].state = "installed" /\ cap \in ranking[m].caps /\ before.missing = {}
             => Reason(after, cap)
    <3>1. PICK points : after = Cover(before, ranking[m], task, points)
      OBVIOUS
    <3>2. PICK e \in S : e = ranking[m]
      BY <2>2
    <3> HIDE DEF after, before, S
    <3>3. after = Cover(before, e, task, points)
      BY <3>1, <3>2
    <3>4. /\ Reason(before, cap) => Reason(after, cap)
          /\ e.state = "installed" => after.missing = before.missing
          /\ e.state = "installed" /\ cap \in e.caps /\ before.missing = {} => Reason(after, cap)
      BY <2>2, <3>3, CoverReasons
    <3> QED
      BY <3>2, <3>4
  <2>4. /\ m - 1 <= k => before.missing = {}
        /\ m - 1 >= k => Reason(before, cap)
    OBVIOUS
  <2> HIDE DEF after, before
  <2>5. CASE m < k
    BY <2>1, <2>3, <2>4, <2>5
  <2>6. CASE m = k
    BY <2>1, <2>3, <2>4, <2>6
  <2>7. CASE m > k
    BY <2>1, <2>3, <2>4, <2>7
  <2> QED
    BY <2>5, <2>6, <2>7
<1> HIDE DEF good
<1>5. 0..Len(ranking) \subseteq good
  BY <1>3, <1>4, StepByStep
<1>6. Len(ranking) \in 0..Len(ranking) /\ Len(ranking) >= k
  OBVIOUS
<1> QED
  BY <1>5, <1>6 DEF good, route

-----------------------------------------------------------------------------
(* The positions of a ranking. *)

Ahead(R, S, e) == {d \in S : <<d, e>> \in R}
StrictOrder(R, S) ==
  /\ \A a \in S : <<a, a>> \notin R
  /\ \A a, b, c \in S : <<a, b>> \in R /\ <<b, c>> \in R => <<a, c>> \in R
  /\ \A a, b \in S : a # b => <<a, b>> \in R \/ <<b, a>> \in R

\* Each element has as many before it as its position says, from none to all
\* the others, and the one with fewer before it comes first.
Positioned(R, S) ==
  /\ \A e \in S : Cardinality(Ahead(R, S, e)) \in 0..(Cardinality(S) - 1)
  /\ \A d, e \in S : Cardinality(Ahead(R, S, d)) < Cardinality(Ahead(R, S, e)) => <<d, e>> \in R
  /\ \A d, e \in S : Cardinality(Ahead(R, S, d)) = Cardinality(Ahead(R, S, e)) => d = e
  /\ \A i \in 1..Cardinality(S) : \E e \in S : Cardinality(Ahead(R, S, e)) = i - 1

LEMMA Positions ==
  ASSUME NEW S, IsFiniteSet(S), NEW R, StrictOrder(R, S)
  PROVE  Positioned(R, S)
<1> DEFINE N == Cardinality(S)
           c == [e \in S |-> Cardinality(Ahead(R, S, e))]
<1>1. N \in Nat
  BY FS_CardinalityType
<1>2. \A e \in S : IsFiniteSet(Ahead(R, S, e)) /\ Cardinality(Ahead(R, S, e)) \in Nat
  <2> SUFFICES ASSUME NEW e \in S
               PROVE  IsFiniteSet(Ahead(R, S, e)) /\ Cardinality(Ahead(R, S, e)) \in Nat
    OBVIOUS
  <2>1. Ahead(R, S, e) \in SUBSET S
    BY DEF Ahead
  <2>2. IsFiniteSet(Ahead(R, S, e))
    BY <2>1, FS_Subset
  <2> QED
    BY <2>2, FS_CardinalityType
<1>3. \A e \in S : Cardinality(Ahead(R, S, e)) < N
  <2> SUFFICES ASSUME NEW e \in S PROVE Cardinality(Ahead(R, S, e)) < N
    OBVIOUS
  <2>1. Ahead(R, S, e) \in SUBSET S /\ e \notin Ahead(R, S, e)
    BY DEF Ahead, StrictOrder
  <2>2. /\ Cardinality(Ahead(R, S, e)) <= N
        /\ N = Cardinality(Ahead(R, S, e)) => S = Ahead(R, S, e)
    BY <2>1, FS_Subset
  <2> HIDE DEF N
  <2> QED
    BY <1>1, <1>2, <2>1, <2>2
<1>4. ASSUME NEW d \in S, NEW e \in S, <<d, e>> \in R
      PROVE  Cardinality(Ahead(R, S, d)) < Cardinality(Ahead(R, S, e))
  <2> DEFINE D == Ahead(R, S, d)
             E == Ahead(R, S, e)
  <2>1. D \in SUBSET E /\ d \in E /\ d \notin D
    BY <1>4 DEF Ahead, StrictOrder
  <2>2. IsFiniteSet(E) /\ Cardinality(D) \in Nat /\ Cardinality(E) \in Nat
    BY <1>2
  <2> HIDE DEF D, E
  <2>3. Cardinality(D) <= Cardinality(E) /\ (Cardinality(E) = Cardinality(D) => E = D)
    BY <2>1, <2>2, FS_Subset
  <2>4. Cardinality(D) < Cardinality(E)
    BY <2>1, <2>2, <2>3
  <2> QED
    BY <2>4 DEF D, E
<1>5. ASSUME NEW d \in S, NEW e \in S, Cardinality(Ahead(R, S, d)) = Cardinality(Ahead(R, S, e))
      PROVE  d = e
  <2> DEFINE D == Cardinality(Ahead(R, S, d))
             E == Cardinality(Ahead(R, S, e))
  <2>1. D \in Nat /\ E \in Nat /\ D = E
    BY <1>2, <1>5
  <2>2. (<<d, e>> \in R => D < E) /\ (<<e, d>> \in R => E < D)
    BY <1>4
  <2> HIDE DEF D, E
  <2>3. <<d, e>> \notin R /\ <<e, d>> \notin R
    BY <2>1, <2>2
  <2> QED
    BY <2>3 DEF StrictOrder
<1>6. ASSUME NEW d \in S, NEW e \in S, Cardinality(Ahead(R, S, d)) < Cardinality(Ahead(R, S, e))
      PROVE  <<d, e>> \in R
  <2>1. CASE d = e
    BY <1>2, <1>6, <2>1
  <2>2. CASE <<e, d>> \in R
    BY <1>2, <1>4, <1>6, <2>2
  <2> QED
    BY <2>1, <2>2 DEF StrictOrder
<1>7. \A i \in 1..N : \E e \in S : Cardinality(Ahead(R, S, e)) = i - 1
  <2> DEFINE T == 0..(N - 1)
  <2>1. IsFiniteSet(T) /\ Cardinality(T) = N
    <3>1. 0 \in Int /\ N - 1 \in Int
      BY <1>1
    <3>2. IsFiniteSet(T) /\ Cardinality(T) = IF 0 > N - 1 THEN 0 ELSE (N - 1) - 0 + 1
      BY <3>1, FS_Interval
    <3> HIDE DEF T, N
    <3> QED
      BY <3>2, <1>1
  <2>2. \A e \in S : Cardinality(Ahead(R, S, e)) \in T
    <3> HIDE DEF N
    <3> QED
      BY <1>1, <1>2, <1>3
  <2>3. c \in [S -> T]
    BY <2>2
  <2>4. \A d, e \in S : c[d] = c[e] => d = e
    BY <1>5
  <2>5. c \in Injection(S, T)
    BY <2>3, <2>4 DEF Injection, IsInjective
  <2>6. c \in Surjection(S, T)
    BY <2>1, <2>5, FS_Injection
  <2>7. \A t \in T : \E e \in S : c[e] = t
    BY <2>6 DEF Surjection
  <2>8. \A i \in 1..N : i - 1 \in T
    <3> HIDE DEF N
    <3> QED
      BY <1>1
  <2> QED
    BY <2>7, <2>8
<1>8. \A e \in S : Cardinality(Ahead(R, S, e)) \in 0..(N - 1)
  <2> HIDE DEF N
  <2> QED
    BY <1>1, <1>2, <1>3
<1> QED
  BY <1>5, <1>6, <1>7, <1>8 DEF Positioned

\* A finite set of numbers has a largest one.
LEMMA LargestExists ==
  ASSUME NEW S \in SUBSET Nat, IsFiniteSet(S), S # {}
  PROVE  \E m \in S : \A k \in S : k <= m
<1>1. PICK R : \A a, b \in S : <<a, b>> \in R <=> a < b
  <2>1. \A a, b \in S : <<a, b>> \in {p \in S \X S : p[1] < p[2]} <=> a < b
    OBVIOUS
  <2> QED
    BY <2>1
<1>2. StrictOrder(R, S)
  BY <1>1 DEF StrictOrder
<1>3. Cardinality(S) \in Nat /\ Cardinality(S) # 0
  BY FS_CardinalityType, FS_EmptySet
<1>4. PICK N \in 1..Cardinality(S) : N = Cardinality(S)
  BY <1>3
<1>5. Positioned(R, S)
  BY <1>2, Positions
<1>6. PICK m \in S : Cardinality(Ahead(R, S, m)) = N - 1
  BY <1>4, <1>5 DEF Positioned
<1>7. ASSUME NEW k \in S PROVE k <= m
  <2> DEFINE c == Cardinality(Ahead(R, S, k))
  <2>1. c \in 0..(N - 1) /\ (c < N - 1 => <<k, m>> \in R) /\ (c = N - 1 => k = m)
    BY <1>4, <1>5, <1>6 DEF Positioned
  <2> HIDE DEF c
  <2>2. c < N - 1 \/ c = N - 1
    BY <1>3, <1>4, <2>1
  <2> QED
    BY <1>1, <2>1, <2>2
<1> QED
  BY <1>7

\* What a function makes of a finite set is finite.
LEMMA FiniteImage ==
  ASSUME NEW S, IsFiniteSet(S), NEW f, DOMAIN f = S, f = [x \in S |-> f[x]]
  PROVE  IsFiniteSet({f[x] : x \in S})
<1> DEFINE T == {f[x] : x \in S}
<1>1. f \in [S -> T] /\ \A t \in T : \E x \in S : f[x] = t
  OBVIOUS
<1>2. f \in Surjection(S, T)
  BY <1>1 DEF Surjection
<1> QED
  BY <1>2, FS_Surjection

-----------------------------------------------------------------------------
(* The entries of a registry can be scored and ranked. *)

Rankable(e) ==
  /\ e.id \in Nat /\ e.tier \in Tiers
  /\ IsFiniteSet(e.caps) /\ IsFiniteSet(e.domains)
  /\ IsFiniteSet(e.triggers) /\ IsFiniteSet(e.negatives)

LEMMA LocalTierIsTier ==
  ASSUME NEW id
  PROVE  LocalTier(id) \in Tiers
<1>1. CASE SourceOf(id) # {}
  <2>1. SourceOf(id) \in SUBSET DOMAIN Sources
    BY DEF SourceOf
  <2>2. SourceOf(id) \in SUBSET Nat /\ IsFiniteSet(SourceOf(id))
    BY <2>1, RoutingAssumption, FS_Subset
  <2>3. \E m \in SourceOf(id) : \A k \in SourceOf(id) : m >= k
    BY <1>1, <2>2, LargestExists
  <2>4. Max(SourceOf(id)) \in SourceOf(id)
    BY <2>3 DEF Max
  <2>5. LocalTier(id) = Sources[Max(SourceOf(id))].tier
    BY <1>1 DEF LocalTier
  <2> QED
    BY <2>1, <2>4, <2>5, RoutingAssumption
<1>2. CASE SourceOf(id) = {}
  BY <1>2 DEF LocalTier, Tiers
<1> QED
  BY <1>1, <1>2

LEMMA LocalRankable ==
  ASSUME NEW id \in Skills
  PROVE  Rankable(LocalEntry(id)) /\ LocalEntry(id).id = id
<1> DEFINE twins == {i \in DOMAIN Sources : Sources[i].twin = id}
           more == {Sources[i].caps : i \in twins}
<1>1. /\ LocalEntry(id).id = id /\ LocalEntry(id).tier = LocalTier(id)
      /\ LocalEntry(id).caps = Local[id].caps \union UNION more
      /\ LocalEntry(id).domains = Local[id].domains
      /\ LocalEntry(id).triggers = Local[id].triggers
      /\ LocalEntry(id).negatives = Local[id].negatives
  BY DEF LocalEntry
<1>2. IsFiniteSet(twins) /\ \A i \in twins : IsFiniteSet(Sources[i].caps)
  <2>1. twins \in SUBSET DOMAIN Sources
    OBVIOUS
  <2> QED
    BY <2>1, RoutingAssumption, FS_Subset
<1>3. IsFiniteSet(more)
  <2> DEFINE f == [i \in twins |-> Sources[i].caps]
  <2>1. more = {f[i] : i \in twins}
    OBVIOUS
  <2>2. DOMAIN f = twins /\ f = [i \in twins |-> f[i]]
    OBVIOUS
  <2> HIDE DEF f, more, twins
  <2> QED
    BY <1>2, <2>1, <2>2, FiniteImage
<1>4. \A T \in more : IsFiniteSet(T)
  BY <1>2
<1> HIDE DEF more
<1>5. IsFiniteSet(UNION more)
  BY <1>3, <1>4, FS_UNION
<1>6. IsFiniteSet(Local[id].caps \union UNION more)
  BY <1>5, RoutingAssumption, FS_Union
<1>7. id \in Nat
  BY RoutingAssumption
<1> QED
  BY <1>1, <1>6, <1>7, LocalTierIsTier, RoutingAssumption DEF Rankable

LEMMA StubRankable ==
  ASSUME NEW i \in DOMAIN Sources
  PROVE  Rankable(StubEntry(i)) /\ StubEntry(i).id = Sources[i].id
<1>1. /\ StubEntry(i).id = Sources[i].id /\ StubEntry(i).tier = Sources[i].tier
      /\ StubEntry(i).caps = Sources[i].caps /\ StubEntry(i).domains = Sources[i].domains
      /\ StubEntry(i).triggers = Sources[i].caps /\ StubEntry(i).negatives = {}
  BY DEF StubEntry
<1> QED
  BY <1>1, RoutingAssumption, FS_EmptySet DEF Rankable

LEMMA VirtualRankable ==
  ASSUME NEW stubs \in SUBSET DOMAIN Sources, NEW cap \in UNION {Sources[i].caps : i \in stubs}
  PROVE  Rankable(VirtualEntry(cap, stubs)) /\ VirtualEntry(cap, stubs).id = VirtualId[cap]
<1> DEFINE having == {i \in stubs : cap \in Sources[i].caps}
           first == CHOOSE i \in stubs : /\ cap \in Sources[i].caps
                                         /\ \A j \in stubs : cap \in Sources[j].caps => i <= j
           seed == IF cap \in DOMAIN Seeds THEN Seeds[cap]
                   ELSE [domains |-> Sources[first].domains, triggers |-> {cap}, negatives |-> {}]
           entry == VirtualEntry(cap, stubs)
<1>1. having \in SUBSET Nat /\ having # {}
  BY RoutingAssumption
<1>2. PICK i \in having : \A j \in having : i <= j
  BY <1>1, LeastExists
<1>3. first \in stubs
  BY <1>2
<1>4. /\ entry.id = VirtualId[cap] /\ entry.tier = Sources[first].tier /\ entry.caps = {cap}
      /\ entry.domains = seed.domains /\ entry.triggers = seed.triggers
      /\ entry.negatives = seed.negatives
  BY DEF VirtualEntry
<1>5. cap \in Offered
  BY DEF Offered
<1> HIDE DEF first, entry
<1>6. IsFiniteSet(seed.domains) /\ IsFiniteSet(seed.triggers) /\ IsFiniteSet(seed.negatives)
  <2>1. CASE cap \in DOMAIN Seeds
    BY <2>1, RoutingAssumption
  <2>2. CASE cap \notin DOMAIN Seeds
    <3>1. /\ seed.domains = Sources[first].domains /\ seed.triggers = {cap}
          /\ seed.negatives = {}
      BY <2>2
    <3> QED
      BY <3>1, <1>3, RoutingAssumption, FS_EmptySet, FS_Singleton
  <2> QED
    BY <2>1, <2>2
<1>7. VirtualId[cap] \in Nat
  BY <1>5, RoutingAssumption
<1> HIDE DEF seed
<1>8. entry.id \in Nat /\ entry.tier \in Tiers
  BY <1>3, <1>4, <1>7, RoutingAssumption
<1>9. /\ IsFiniteSet(entry.caps) /\ IsFiniteSet(entry.domains)
      /\ IsFiniteSet(entry.triggers) /\ IsFiniteSet(entry.negatives)
  <2>1. IsFiniteSet({cap})
    BY FS_Singleton
  <2> QED
    BY <1>4, <1>6, <2>1
<1> QED
  BY <1>4, <1>8, <1>9 DEF entry, Rankable

\* What a registry is made of.
SeededBy(stubs) == UNION {Sources[i].caps : i \in stubs}

LEMMA EntryOf ==
  ASSUME NEW inventory \in SUBSET Skills, NEW e \in BuildRegistry(inventory)
  PROVE  \/ \E id \in inventory : e = LocalEntry(id) /\ e.id = id
         \/ \E i \in Stubbed(inventory) : /\ e = StubEntry(i) /\ e.id = Sources[i].id
                                          /\ e.id \in Ids \ inventory
         \/ \E cap \in SeededBy(Stubbed(inventory)) :
              /\ e = VirtualEntry(cap, Stubbed(inventory)) /\ e.id = VirtualId[cap]
              /\ cap \in Offered /\ e.id \notin inventory \union Ids
<1> DEFINE stubs == Stubbed(inventory)
<1>1. stubs \in SUBSET DOMAIN Sources
  BY DEF Stubbed
<1>2. \/ \E id \in inventory : e = LocalEntry(id)
      \/ \E i \in stubs : e = StubEntry(i)
      \/ \E cap \in SeededBy(stubs) : e = VirtualEntry(cap, stubs)
  BY DEF BuildRegistry, SeededBy
<1>3. CASE \E id \in inventory : e = LocalEntry(id)
  BY <1>3, LocalRankable
<1>4. ASSUME NEW i \in stubs, e = StubEntry(i)
      PROVE  e.id = Sources[i].id /\ e.id \in Ids \ inventory
  <2>1. e.id = Sources[i].id /\ e.id \in Ids
    BY <1>1, <1>4, StubRankable DEF Ids
  <2>2. \A id \in inventory : i \notin SourceOf(id)
    BY DEF Stubbed
  <2>3. \A id \in inventory : id # Sources[i].id
    BY <1>1, <2>2 DEF SourceOf
  <2> QED
    BY <2>1, <2>3
<1>5. ASSUME NEW cap \in SeededBy(stubs), e = VirtualEntry(cap, stubs)
      PROVE  e.id = VirtualId[cap] /\ cap \in Offered /\ e.id \notin inventory \union Ids
  <2>1. cap \in UNION {Sources[i].caps : i \in stubs}
    BY DEF SeededBy
  <2>2. e.id = VirtualId[cap]
    BY <1>1, <1>5, <2>1, VirtualRankable
  <2>3. cap \in Offered
    BY <1>1, <2>1 DEF Offered
  <2> QED
    BY <2>2, <2>3, RoutingAssumption
<1> QED
  BY <1>2, <1>3, <1>4, <1>5

LEMMA EntriesRankable ==
  ASSUME NEW inventory \in SUBSET Skills, NEW e \in BuildRegistry(inventory)
  PROVE  Rankable(e)
<1>1. Stubbed(inventory) \in SUBSET DOMAIN Sources
  BY DEF Stubbed
<1>2. CASE \E id \in inventory : e = LocalEntry(id)
  BY <1>2, LocalRankable
<1>3. CASE \E i \in Stubbed(inventory) : e = StubEntry(i)
  BY <1>1, <1>3, StubRankable
<1>4. CASE \E cap \in SeededBy(Stubbed(inventory)) : e = VirtualEntry(cap, Stubbed(inventory))
  BY <1>1, <1>4, VirtualRankable DEF SeededBy
<1> QED
  BY <1>2, <1>3, <1>4, EntryOf

\* A registry is a dict: no two entries have one id.
LEMMA IdsDiffer ==
  ASSUME NEW inventory \in SUBSET Skills,
         NEW a \in BuildRegistry(inventory), NEW b \in BuildRegistry(inventory), a.id = b.id
  PROVE  a = b
<1> DEFINE stubs == Stubbed(inventory)
           IsLocal(e, id) == e = LocalEntry(id) /\ e.id = id
           IsStub(e, i) == e = StubEntry(i) /\ e.id = Sources[i].id /\ e.id \in Ids \ inventory
           IsVirtual(e, cap) == /\ e = VirtualEntry(cap, stubs) /\ e.id = VirtualId[cap]
                                /\ cap \in Offered /\ e.id \notin inventory \union Ids
<1>1. \A e \in BuildRegistry(inventory) :
        \/ \E id \in inventory : IsLocal(e, id)
        \/ \E i \in stubs : IsStub(e, i)
        \/ \E cap \in SeededBy(stubs) : IsVirtual(e, cap)
  BY EntryOf
<1>2. CASE \E id \in inventory : IsLocal(a, id)
  <2>1. a.id \in inventory
    BY <1>2
  <2>2. \E id \in inventory : IsLocal(b, id)
    BY <1>1, <2>1
  <2> QED
    BY <1>2, <2>2
<1>3. CASE \E i \in stubs : IsStub(a, i)
  <2>1. a.id \in Ids \ inventory
    BY <1>3
  <2>2. \E i \in stubs : IsStub(b, i)
    BY <1>1, <2>1
  <2>3. stubs \in SUBSET DOMAIN Sources
    BY DEF Stubbed
  <2> QED
    BY <1>3, <2>2, <2>3, RoutingAssumption
<1>4. CASE \E cap \in SeededBy(stubs) : IsVirtual(a, cap)
  <2>1. a.id \notin inventory \union Ids
    BY <1>4
  <2>2. \E cap \in SeededBy(stubs) : IsVirtual(b, cap)
    BY <1>1, <2>1
  <2> QED
    BY <1>4, <2>2, RoutingAssumption
<1> QED
  BY <1>1, <1>2, <1>3, <1>4

LEMMA RegistryFinite ==
  ASSUME NEW inventory \in SUBSET Skills
  PROVE  IsFiniteSet(BuildRegistry(inventory))
<1> DEFINE stubs == Stubbed(inventory)
           seeded == SeededBy(stubs)
<1>1. stubs \in SUBSET DOMAIN Sources
  BY DEF Stubbed
<1>2. IsFiniteSet(inventory) /\ IsFiniteSet(stubs)
  BY <1>1, RoutingAssumption, FS_Subset
<1>3. IsFiniteSet({LocalEntry(id) : id \in inventory})
  <2> DEFINE f == [id \in inventory |-> LocalEntry(id)]
  <2>1. {LocalEntry(id) : id \in inventory} = {f[id] : id \in inventory}
    OBVIOUS
  <2>2. DOMAIN f = inventory /\ f = [id \in inventory |-> f[id]]
    OBVIOUS
  <2> HIDE DEF f
  <2> QED
    BY <1>2, <2>1, <2>2, FiniteImage
<1>4. IsFiniteSet({StubEntry(i) : i \in stubs})
  <2> DEFINE f == [i \in stubs |-> StubEntry(i)]
  <2>1. {StubEntry(i) : i \in stubs} = {f[i] : i \in stubs}
    OBVIOUS
  <2>2. DOMAIN f = stubs /\ f = [i \in stubs |-> f[i]]
    OBVIOUS
  <2> HIDE DEF f, stubs
  <2> QED
    BY <1>2, <2>1, <2>2, FiniteImage
<1>5. IsFiniteSet(seeded)
  <2> DEFINE f == [i \in stubs |-> Sources[i].caps]
             lists == {f[i] : i \in stubs}
  <2>1. seeded = UNION lists /\ \A T \in lists : IsFiniteSet(T)
    BY <1>1, RoutingAssumption DEF SeededBy
  <2>2. DOMAIN f = stubs /\ f = [i \in stubs |-> f[i]]
    OBVIOUS
  <2>3. IsFiniteSet(lists)
    <3> HIDE DEF f, stubs
    <3> QED
      BY <1>2, <2>2, FiniteImage
  <2> HIDE DEF lists, seeded
  <2> QED
    BY <2>1, <2>3, FS_UNION
<1>6. IsFiniteSet({VirtualEntry(cap, stubs) : cap \in seeded})
  <2> DEFINE f == [cap \in seeded |-> VirtualEntry(cap, stubs)]
  <2>1. {VirtualEntry(cap, stubs) : cap \in seeded} = {f[cap] : cap \in seeded}
    OBVIOUS
  <2>2. DOMAIN f = seeded /\ f = [cap \in seeded |-> f[cap]]
    OBVIOUS
  <2> HIDE DEF f, seeded, stubs
  <2> QED
    BY <1>5, <2>1, <2>2, FiniteImage
<1>7. BuildRegistry(inventory) = {LocalEntry(id) : id \in inventory}
                                   \union {StubEntry(i) : i \in stubs}
                                   \union {VirtualEntry(cap, stubs) : cap \in seeded}
  BY DEF BuildRegistry, SeededBy
<1> HIDE DEF stubs, seeded
<1> DEFINE A == {LocalEntry(id) : id \in inventory}
           B == {StubEntry(i) : i \in stubs}
           C == {VirtualEntry(cap, stubs) : cap \in seeded}
<1>8. IsFiniteSet(A) /\ IsFiniteSet(B) /\ IsFiniteSet(C)
  BY <1>3, <1>4, <1>6
<1>9. BuildRegistry(inventory) = A \union B \union C
  BY <1>7
<1> HIDE DEF A, B, C
<1>10. IsFiniteSet(A \union B)
  BY <1>8, FS_Union
<1>11. IsFiniteSet((A \union B) \union C)
  BY <1>8, <1>10, FS_Union
<1> QED
  BY <1>9, <1>11

\* Points are whole numbers.
LEMMA ScoreIsInt ==
  ASSUME NEW e, Rankable(e), NEW task, NEW text
  PROVE  ScoreSkill(e, task, text) \in Int
<1> DEFINE c == Cardinality(e.caps \cap task.caps)
           d == Cardinality(e.domains \cap task.domains)
           t == Cardinality(e.triggers \cap text.phrases)
           n == Cardinality(e.negatives \cap text.phrases)
           b == TierBonus[e.tier]
           g1 == Given(3, e.caps \cap task.caps # {} /\ Cardinality(e.caps) <= 3)
           g2 == Given(1, e.state # "installed")
           g3 == Given(24, (task.audit \/ "solidity-audit" \in task.caps) /\ e.name = "marketing")
           g4 == Given(24, "ai-engineering" \in task.caps /\ e.name = "web3")
<1>1. c \in Nat /\ d \in Nat /\ t \in Nat /\ n \in Nat
  <2>1. /\ IsFiniteSet(e.caps \cap task.caps) /\ IsFiniteSet(e.domains \cap task.domains)
        /\ IsFiniteSet(e.triggers \cap text.phrases) /\ IsFiniteSet(e.negatives \cap text.phrases)
    BY FS_Intersection DEF Rankable
  <2> QED
    BY <2>1, FS_CardinalityType
<1>2. b \in Int
  <2>1. e.tier \in {"T0", "T1", "T2", "T3", "T4"}
    BY DEF Rankable, Tiers
  <2> QED
    BY <2>1 DEF TierBonus
<1>3. g1 \in Int /\ g2 \in Int /\ g3 \in Int /\ g4 \in Int
  <2>1. \A p \in Int, q \in BOOLEAN : Given(p, q) \in Int
    BY DEF Given
  <2> QED
    BY DEF Given
<1>4. ScoreSkill(e, task, text) = 20 * c + 6 * d + 8 * t - 16 * n + b + g1 - g2 - g3 - g4
  BY DEF ScoreSkill
<1> HIDE DEF c, d, t, n, b, g1, g2, g3, g4
<1> QED
  BY <1>1, <1>2, <1>3, <1>4

-----------------------------------------------------------------------------
(* The ranking of a registry, and the answers made of it. *)

Scored(registry, task, text) == {e \in registry : ScoreSkill(e, task, text) > 0}

\* What a ranking is to be: of all that scores, the installed ones first.
RanksInstalledFirst(ranking, S) ==
  /\ Len(ranking) \in Nat
  /\ \A i \in 1..Len(ranking) : ranking[i] \in S
  /\ \A e \in S : e.state = "installed" =>
       \E k \in 1..Len(ranking) :
         ranking[k] = e /\ \A j \in 1..k : ranking[j].state = "installed"

LEMMA RankedIs ==
  ASSUME NEW inventory \in SUBSET Skills, NEW task, NEW text
  PROVE  RanksInstalledFirst(Ranked(BuildRegistry(inventory), task, text),
                             Scored(BuildRegistry(inventory), task, text))
<1> DEFINE registry == BuildRegistry(inventory)
           S == Scored(registry, task, text)
           Points(e) == ScoreSkill(e, task, text)
           Before(a, b) ==
             IF (a.state = "installed") # (b.state = "installed") THEN a.state = "installed"
             ELSE Points(a) > Points(b) \/ (Points(a) = Points(b) /\ a.id < b.id)
           ranking == Ranked(registry, task, text)
<1>1. IsFiniteSet(S)
  <2>1. S \in SUBSET registry
    BY DEF Scored
  <2> HIDE DEF S
  <2> QED
    BY <2>1, RegistryFinite, FS_Subset
<1>2. \A e \in S : e.id \in Nat /\ Points(e) \in Int
  <2> SUFFICES ASSUME NEW e \in S PROVE e.id \in Nat /\ Points(e) \in Int
    OBVIOUS
  <2>1. Rankable(e)
    BY EntriesRankable DEF Scored
  <2> QED
    BY <2>1, ScoreIsInt DEF Rankable
<1>3. \A a, b \in S : a.id = b.id => a = b
  BY IdsDiffer DEF Scored
<1>4. ranking = [i \in 1..Cardinality(S) |->
                   CHOOSE e \in S : Cardinality({d \in S : Before(d, e)}) = i - 1]
  BY DEF Ranked, InOrder, Scored
<1> HIDE DEF Points, ranking, registry, S
<1>5. PICK R : \A a, b \in S : <<a, b>> \in R <=> Before(a, b)
  <2>1. \A a, b \in S : <<a, b>> \in {p \in S \X S : Before(p[1], p[2])} <=> Before(a, b)
    OBVIOUS
  <2> HIDE DEF Before
  <2> QED
    BY <2>1
<1>6. \A a, b \in S : a.state = "installed" /\ b.state # "installed" => ~Before(b, a)
  OBVIOUS
<1>7. StrictOrder(R, S)
  <2>1. \A a \in S : <<a, a>> \notin R
    BY <1>2, <1>5
  <2>2. ASSUME NEW a \in S, NEW b \in S, NEW c \in S, <<a, b>> \in R, <<b, c>> \in R
        PROVE  <<a, c>> \in R
    <3>1. Before(a, b) /\ Before(b, c)
      BY <1>5, <2>2
    <3>2. /\ Points(a) \in Int /\ Points(b) \in Int /\ Points(c) \in Int
          /\ a.id \in Nat /\ b.id \in Nat /\ c.id \in Nat
      BY <1>2
    <3>3. Before(a, c)
      BY <3>1, <3>2
    <3> QED
      BY <1>5, <3>3
  <2>3. ASSUME NEW a \in S, NEW b \in S, a # b
        PROVE  <<a, b>> \in R \/ <<b, a>> \in R
    <3>1. /\ Points(a) \in Int /\ Points(b) \in Int /\ a.id \in Nat /\ b.id \in Nat
          /\ a.id # b.id
      BY <1>2, <1>3, <2>3
    <3>2. Before(a, b) \/ Before(b, a)
      BY <3>1
    <3> QED
      BY <1>5, <3>2
  <2> QED
    BY <2>1, <2>2, <2>3 DEF StrictOrder
<1>8. Positioned(R, S)
  BY <1>1, <1>7, Positions
<1>9. \A e \in S : {d \in S : Before(d, e)} = Ahead(R, S, e)
  BY <1>5 DEF Ahead
<1> DEFINE N == Cardinality(S)
<1>10. N \in Nat
  BY <1>1, FS_CardinalityType
<1>11. \A i \in 1..N : ranking[i] = CHOOSE e \in S : Cardinality({d \in S : Before(d, e)}) = i - 1
  BY <1>4
<1>12. Len(ranking) = N
  <2>1. DOMAIN ranking = 1..N
    BY <1>4
  <2>2. ranking \in Seq({ranking[i] : i \in 1..N})
    <3> DEFINE pick(i) == CHOOSE e \in S : Cardinality({d \in S : Before(d, e)}) = i - 1
    <3>1. ranking = [i \in 1..N |-> pick(i)]
      BY <1>4
    <3> HIDE DEF pick
    <3>2. ranking = [i \in 1..N |-> ranking[i]]
      BY <3>1
    <3> HIDE DEF N
    <3> QED
      BY <1>10, <3>2
  <2> HIDE DEF N
  <2> QED
    BY <1>10, <2>1, <2>2
<1> HIDE DEF Before
<1>13. \A i \in 1..N : ranking[i] \in S /\ Cardinality(Ahead(R, S, ranking[i])) = i - 1
  <2> SUFFICES ASSUME NEW i \in 1..N
               PROVE  ranking[i] \in S /\ Cardinality(Ahead(R, S, ranking[i])) = i - 1
    OBVIOUS
  <2>1. \E e \in S : Cardinality(Ahead(R, S, e)) = i - 1
    BY <1>8 DEF Positioned
  <2>2. \E e \in S : Cardinality({d \in S : Before(d, e)}) = i - 1
    BY <2>1, <1>9
  <2>3. ranking[i] \in S /\ Cardinality({d \in S : Before(d, ranking[i])}) = i - 1
    BY <2>2, <1>11
  <2> QED
    BY <2>3, <1>9
<1>14. ASSUME NEW e \in S, e.state = "installed"
       PROVE  \E k \in 1..N : ranking[k] = e /\ \A j \in 1..k : ranking[j].state = "installed"
  <2> DEFINE c == Cardinality(Ahead(R, S, e))
  <2>1. c \in 0..(N - 1)
    BY <1>8 DEF Positioned
  <2>2. PICK k \in 1..N : k - 1 = c
    <3>1. c + 1 \in 1..N /\ (c + 1) - 1 = c
      <4> HIDE DEF c, N
      <4> QED
        BY <2>1, <1>10
    <3> QED
      BY <3>1
  <2>3. ranking[k] = e
    <3>1. ranking[k] \in S /\ Cardinality(Ahead(R, S, ranking[k])) = Cardinality(Ahead(R, S, e))
      BY <1>13, <2>2
    <3> QED
      BY <3>1, <1>8 DEF Positioned
  <2>4. ASSUME NEW j \in 1..k, j # k
        PROVE  ranking[j].state = "installed"
    <3>1. j \in 1..N /\ j - 1 < k - 1
      <4> HIDE DEF N
      <4> QED
        BY <1>10, <2>4
    <3>2. ranking[j] \in S /\ Cardinality(Ahead(R, S, ranking[j])) = j - 1
      BY <1>13, <3>1
    <3>3. Cardinality(Ahead(R, S, ranking[j])) < Cardinality(Ahead(R, S, e))
      BY <2>2, <3>1, <3>2
    <3>4. <<ranking[j], e>> \in R
      BY <1>8, <3>2, <3>3 DEF Positioned
    <3>5. Before(ranking[j], e)
      BY <1>5, <3>2, <3>4
    <3> QED
      BY <1>6, <1>14, <3>2, <3>5
  <2> QED
    BY <1>14, <2>3, <2>4
<1>15. RanksInstalledFirst(ranking, S)
  <2>1. Len(ranking) \in Nat
    BY <1>10, <1>12
  <2> HIDE DEF N
  <2> QED
    BY <2>1, <1>12, <1>13, <1>14 DEF RanksInstalledFirst
<1> QED
  BY <1>15 DEF ranking, S, registry

\* What a task of a registry is answered: each selected skill is needed, and
\* what is missing is what no installed skill that ranks has, unless three
\* skills are selected.
HasReasons(route, registry, text) ==
  LET task == Classify(text) IN
  /\ Needed(route.selected, task)
  /\ \A cap \in route.missing :
       \/ Len(route.selected) = MaxSelected
       \/ \A e \in registry :
            e.state = "installed" /\ cap \in e.caps => ScoreSkill(e, task, text) <= 0

LEMMA RouteHasReasons ==
  ASSUME NEW inventory \in SUBSET Skills, NEW text
  PROVE  HasReasons(RouteTask(BuildRegistry(inventory), text), BuildRegistry(inventory), text)
<1> DEFINE registry == BuildRegistry(inventory)
           task == Classify(text)
           ranking == Ranked(registry, task, text)
           S == Scored(registry, task, text)
           route == Decided(ranking, task, text)[Len(ranking)]
           result == RouteTask(registry, text)
<1>1. result = IF task.caps = {} THEN NoRoute(task)
               ELSE [route EXCEPT !.missing = @ \union route.remaining]
  BY DEF RouteTask
<1>2. RanksInstalledFirst(ranking, S)
  BY RankedIs
<1> HIDE DEF ranking, S
<1>3. Len(ranking) \in Nat /\ \A i \in 1..Len(ranking) : ranking[i] \in S
  BY <1>2 DEF RanksInstalledFirst
<1>4. Greedy(route, S, task)
  <2>1. Len(ranking) \in 0..Len(ranking)
    BY <1>3
  <2> QED
    BY <1>3, <2>1, DecidedGreedy
<1>5. ASSUME NEW e \in registry, e.state = "installed", NEW cap, cap \in e.caps,
             ~(ScoreSkill(e, task, text) <= 0)
      PROVE  Reason(route, cap)
  <2>1. ScoreSkill(e, task, text) > 0
    <3>1. ScoreSkill(e, task, text) \in Int
      BY EntriesRankable, ScoreIsInt
    <3> QED
      BY <1>5, <3>1
  <2>2. e \in S
    BY <2>1 DEF S, Scored
  <2>3. PICK k \in 1..Len(ranking) :
          ranking[k] = e /\ \A j \in 1..k : ranking[j].state = "installed"
    BY <1>2, <1>5, <2>2 DEF RanksInstalledFirst
  <2>4. cap \in ranking[k].caps
    BY <1>5, <2>3
  <2> QED
    BY <1>3, <2>3, <2>4, InstalledGivesReason
<1> HIDE DEF route, result, task, registry
<1>6. HasReasons(result, registry, text)
  <2>1. CASE task.caps = {}
    <3>1. result.selected = <<>> /\ result.missing = {}
      BY <1>1, <2>1 DEF NoRoute
    <3>2. Needed(<<>>, task)
      BY DEF Needed
    <3> QED
      BY <3>1, <3>2 DEF HasReasons, task
  <2>2. CASE task.caps # {}
    <3>1. route \in Routes(S, task)
      BY <1>4 DEF Greedy
    <3>2. result = [route EXCEPT !.missing = @ \union route.remaining]
      BY <1>1, <2>2
    <3>3. result.selected = route.selected /\ result.missing = route.missing \union route.remaining
      BY <3>1, <3>2 DEF Routes
    <3>4. Needed(result.selected, task)
      BY <1>4, <3>3 DEF Greedy
    <3>5. ASSUME NEW cap \in result.missing, Len(result.selected) # MaxSelected,
                 NEW e \in registry, e.state = "installed", cap \in e.caps
          PROVE  ScoreSkill(e, task, text) <= 0
      <4>1. ~Reason(route, cap)
        BY <3>3, <3>5 DEF Reason
      <4> QED
        BY <1>5, <3>5, <4>1
    <3> QED
      BY <3>4, <3>5 DEF HasReasons, task
  <2> QED
    BY <2>1, <2>2
<1> QED
  BY <1>6 DEF result, registry

\* What a state of the hooks answers has reasons: what it read is an inventory.
LEMMA ReasonsGiven == IInv => MissingHasAReason /\ SelectionIsNeeded
<1> SUFFICES ASSUME IInv, NEW p \in Procs, Step(p, "hint"), NEW t \in DOMAIN Texts
             PROVE  HasReasons(RouteOf[work[p].seen][t], RegistryOf[work[p].seen], Texts[t])
  BY DEF MissingHasAReason, SelectionIsNeeded, HasReasons, Needed
<1>1. work[p].seen \in Installable
  BY DEF IInv, Types, Works
<1>2. work[p].seen \in SUBSET Skills
  BY <1>1, Subsets DEF Inventories
<1>3. /\ RegistryOf[work[p].seen] = BuildRegistry(work[p].seen)
      /\ RouteOf[work[p].seen][t] = RouteTask(BuildRegistry(work[p].seen), Texts[t])
  BY <1>1 DEF RegistryOf, RouteOf
<1> QED
  BY <1>2, <1>3, RouteHasReasons

\* AnswersHaveReasons: in every state, whatever registry a turn has read, what
\* it reports missing no installed skill that ranks has (or three skills were
\* selected first), each skill it recommends after the first covers what none
\* before it covers, and what it would install its tier allows (InstallsByTier;
\* route_task of core/router.py, resolve_missing_capability of core/resolver.py).
THEOREM AnswersHaveReasonsHolds == Spec => []AnswersHaveReasons
<1>1. IInv => MissingHasAReason /\ SelectionIsNeeded
  BY ReasonsGiven
<1>2. MissingHasAReason /\ SelectionIsNeeded /\ InstallsByTier => AnswersHaveReasons
  BY DEF AnswersHaveReasons
<1> QED
  BY <1>1, <1>2, Invariant, InstallsByTierHolds, PTL
=============================================================================
