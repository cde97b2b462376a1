-------------------- MODULE AnalyticsMaterializer_proofs --------------------
(***************************************************************************)
(* Proofs about AnalyticsMaterializer: Consistent, the refinement of       *)
(* OutcomeTable, OutageKeepsEvidence and FirstPassSettles, for every set   *)
(* of tasks, of sessions and of worlds.                                    *)
(***************************************************************************)
EXTENDS AnalyticsMaterializer, FiniteSetTheorems, WellFoundedInduction, TLAPS

-----------------------------------------------------------------------------
(* The inductive invariant. *)

Steps == {"idle", "task", "runs", "evidence", "write"}

\* How the three sources may answer.
SourceStates ==
  [phoenix: {"up", "window", "down"}, git: {"up", "down"}, github: {"up", "noauth", "down"}]

Reads ==
  [task: TaskRows \cup {None}, runs: SUBSET Runs, events: Seq(Events),
   traces: SUBSET Traces, git: {"AVAILABLE", "UNKNOWN"},
   github: GithubRows \cup {None}, failed: BOOLEAN]

SessionRecords ==
  [pc: Steps, todo: SUBSET Tasks, recompute: BOOLEAN, errors: Nat, read: Reads]

RunRows ==
  [status: {"none", "running", "success", "partial"}, targets: SUBSET Tasks]

HistoryRows == [final: Finals, hash: Hashes]

Tables ==
  [outcomes: [Tasks -> Outcomes \cup {None}], history: [Tasks -> Seq(HistoryRows)],
   taskFacts: [Tasks -> TaskStatuses \cup {None}], runFacts: [Tasks -> SUBSET Runs],
   usage: [Tasks -> SUBSET Nat], traces: [Tasks -> SUBSET Traces],
   refs: [Tasks -> SUBSET Nat], git: [Tasks -> {"AVAILABLE", "UNKNOWN", None}],
   github: [Tasks -> {"AVAILABLE", "BLOCKED_AUTH", "UNKNOWN", None}],
   checkpoint: Sessions \cup {None}]

\* A set of runs of one task, as Kanban answers it.
Distinct(runs) ==
  /\ IsFiniteSet(runs)
  /\ \A run, other \in runs : run.id = other.id => run = other

Reading(s) == session[s].pc \in {"runs", "evidence", "write"}

SourcesOK ==
  /\ src \in [Tasks -> KanbanTasks]
  /\ clock \in Nat
  /\ up \in SourceStates
  /\ left \in WorldRecords
  /\ \A t \in Tasks : Numbered(src[t].runs)

PassesOK ==
  /\ holder \in Sessions \cup {None}
  /\ session \in [Sessions -> SessionRecords]
  /\ runRow \in [Sessions -> RunRows]
  /\ \A s \in Sessions : session[s].pc # "idle" <=> holder = s
  /\ \A s \in Sessions : holder = s => runRow[s].status = "running"

\* What a pass has read is of the task it works on, no newer than the task and
\* no older than the row it will replace.
ReadOK(s) ==
  LET read == session[s].read
      t == read.task.id IN
  /\ Reading(s) => read.task \in TaskRows
  /\ Distinct(read.runs)
  /\ session[s].pc = "write" =>
       /\ read.github \in GithubRows
       /\ read.failed => read.traces = {}
       /\ Len(read.events) <= Len(src[t].events)
       /\ db.outcomes[t] # None => Len(db.outcomes[t].hash.events) <= Len(read.events)

\* A pass without errors has every target a board has before it, in hand, or
\* recorded.
CoverOK(s) ==
  holder = s /\ session[s].errors = 0 =>
    \A t \in runRow[s].targets \ Unlisted :
      \/ t \in session[s].todo
      \/ Reading(s) /\ t = session[s].read.task.id
      \/ db.outcomes[t] # None

\* The derived rows of a task agree with each other.
RowOK(t) ==
  LET outcome == db.outcomes[t] IN
  /\ outcome = None => db.runFacts[t] = {}
  /\ outcome # None =>
       /\ db.taskFacts[t] # None
       /\ outcome.firstPass = "PASS" => outcome.retries = 0
       /\ outcome.final = "VERIFIED_SUCCESS" => outcome.verification = "PASS"
       /\ Len(outcome.hash.events) <= Len(src[t].events)
  /\ db.refs[t] \subseteq {trace.id : trace \in db.traces[t]}

\* HistoryTellsOutcome, of one task.
HistoryOK(t) ==
  LET history == db.history[t] IN
  /\ db.outcomes[t] = None <=> history = << >>
  /\ history # << >> =>
       Last(history) = [final |-> db.outcomes[t].final, hash |-> db.outcomes[t].hash]
  /\ \A i \in 1..(Len(history) - 1) : history[i] # history[i + 1]

IInv ==
  /\ SourcesOK /\ PassesOK /\ db \in Tables
  /\ \A s \in Sessions : ReadOK(s) /\ CoverOK(s)
  /\ \A t \in Tasks : RowOK(t) /\ HistoryOK(t)
  /\ SuccessMeansRecorded

-----------------------------------------------------------------------------
(* Runs keep their first pass. *)

\* What a first pass says of the run it is judged by.
Says(run, verdict) ==
  \/ verdict = "PASS" /\ RunIsSuccess(run)
  \/ verdict = "FAIL" /\ RunIsFailure(run)

\* The verdict is that of a run that ended, and everything before it is synthetic.
SettledIn(runs, verdict) ==
  \E first \in runs :
    /\ first.ended # None /\ first.started # first.ended
    /\ Says(first, verdict)
    /\ \A run \in runs : StartsBefore(run, first) => run = first \/ IsSyntheticRun(run)

Verdict(t) == IF db.outcomes[t] = None THEN "UNKNOWN" ELSE db.outcomes[t].firstPass

SettledTask(t) ==
  /\ AsWritten(src[t].runs, clock)
  /\ Cardinality(src[t].runs) + left.life[t] <= RunLimit
  /\ Verdict(t) \in {"PASS", "FAIL"} => SettledIn(src[t].runs, Verdict(t))

\* What a pass read is settled as the task is, and as its row is.
SettledRead(s) ==
  LET read == session[s].read
      t == read.task.id IN
  session[s].pc \in {"evidence", "write"} =>
    /\ AsWritten(read.runs, clock)
    /\ \A verdict \in {"PASS", "FAIL"} :
         /\ SettledIn(read.runs, verdict) => SettledIn(src[t].runs, verdict)
         /\ Verdict(t) = verdict => SettledIn(read.runs, verdict)

SettledInv ==
  /\ \A t \in Tasks : SettledTask(t)
  /\ \A s \in Sessions : SettledRead(s)

-----------------------------------------------------------------------------
(* The operators of the rules. *)

\* A set of naturals has a least element.
LEMMA LeastExists ==
  ASSUME NEW S \in SUBSET Nat, S # {}
  PROVE  \E m \in S : \A k \in S : m <= k
<1>1. PICK x \in S : \A y \in S : ~ (<<y, x>> \in OpToRel(<, Nat))
  BY NatLessThanWellFounded, WFMin, Zenon
<1>2. \A y \in S : ~(y < x)
  BY <1>1 DEF OpToRel
<1> QED
  BY <1>2

\* A bounded set of naturals has a greatest one.
LEMMA GreatestExists ==
  ASSUME NEW n \in Nat, NEW S \in SUBSET (0..n), S # {}
  PROVE  \E m \in S : \A k \in S : m >= k
<1> DEFINE T == {k \in Nat : k <= n /\ n - k \in S}
<1>1. T \in SUBSET Nat /\ T # {}
  <2>1. PICK x \in S : TRUE
    OBVIOUS
  <2>2. n - x \in Nat /\ n - x <= n /\ n - (n - x) = x
    OBVIOUS
  <2> QED
    BY <2>1, <2>2
<1>2. PICK m \in T : \A k \in T : m <= k
  BY <1>1, LeastExists
<1>3. \A k \in S : n - k \in T
  <2> TAKE k \in S
  <2>1. k \in Nat /\ n - k \in Nat /\ n - k <= n /\ n - (n - k) = k
    OBVIOUS
  <2> QED
    BY <2>1
<1>4. n - m \in S
  OBVIOUS
<1>5. \A k \in S : n - m >= k
  <2> TAKE k \in S
  <2>1. m <= n - k
    BY <1>2, <1>3
  <2> QED
    BY <2>1
<1> QED
  BY <1>4, <1>5

\* Min and Max choose them.
LEMMA MinIs ==
  ASSUME NEW S \in SUBSET Nat, S # {}
  PROVE  Min(S) \in S /\ \A k \in S : Min(S) <= k
BY LeastExists DEF Min

LEMMA MaxIs ==
  ASSUME NEW n \in Nat, NEW S \in SUBSET (0..n), S # {}
  PROVE  Max(S) \in S /\ \A k \in S : Max(S) >= k
BY GreatestExists DEF Max

\* A part of the positions of a sequence is counted by a natural.
LEMMA PositionsCount ==
  ASSUME NEW n \in Nat, NEW S \in SUBSET (1..n)
  PROVE  Cardinality(S) \in Nat
<1>1. IsFiniteSet(1..n)
  BY FS_Interval
<1> QED
  BY <1>1, FS_Subset, FS_CardinalityType

\* StartsBefore orders the runs of a task.
LEMMA StartsBeforeOrders ==
  ASSUME NEW a \in Runs, NEW b \in Runs
  PROVE  /\ StartsBefore(a, b) \/ StartsBefore(b, a)
         /\ StartsBefore(a, b) /\ StartsBefore(b, a) => a.id = b.id
         /\ StartsBefore(a, a)
         /\ \A c \in Runs : StartsBefore(a, b) /\ StartsBefore(b, c) => StartsBefore(a, c)
<1> USE NoneAssumption
<1>1. \A r \in Runs : r.id \in Nat /\ (r.started = None \/ r.started \in Nat)
  BY DEF Runs, Times
<1> QED
  BY <1>1 DEF StartsBefore

\* The runs that start before one are counted by a place that no other run has.
Place(runs, run) == Cardinality({r \in runs : StartsBefore(r, run)})

LEMMA PlacesDiffer ==
  ASSUME NEW runs \in SUBSET Runs, Distinct(runs)
  PROVE  /\ \A run \in runs : Place(runs, run) \in 1..Cardinality(runs)
         /\ \A a, b \in runs : Place(runs, a) = Place(runs, b) => a = b
<1> DEFINE Before(run) == {r \in runs : StartsBefore(r, run)}
<1>1. \A run \in runs :
        /\ Before(run) \in SUBSET runs /\ run \in Before(run)
        /\ IsFiniteSet(Before(run))
        /\ Cardinality(Before(run)) \in Nat
        /\ Cardinality(Before(run)) <= Cardinality(runs)
        /\ Cardinality(Before(run)) # 0
        /\ Cardinality(runs) \in Nat
  <2> TAKE run \in runs
  <2>1. Before(run) \in SUBSET runs /\ run \in Before(run)
    BY StartsBeforeOrders
  <2>2. IsFiniteSet(Before(run)) /\ Cardinality(Before(run)) <= Cardinality(runs)
    BY <2>1, FS_Subset DEF Distinct
  <2>3. Cardinality(Before(run)) \in Nat /\ Cardinality(runs) \in Nat
    BY <2>2, FS_CardinalityType DEF Distinct
  <2>4. Cardinality(Before(run)) # 0
    BY <2>1, <2>2, FS_EmptySet
  <2> QED
    BY <2>1, <2>2, <2>3, <2>4
<1>2. ASSUME NEW a \in runs, NEW b \in runs, StartsBefore(a, b),
             Cardinality(Before(a)) = Cardinality(Before(b))
      PROVE  a = b
  <2>1. Before(a) \in SUBSET Before(b)
    BY <1>2, StartsBeforeOrders
  <2>2. Before(a) = Before(b)
    BY <1>1, <1>2, <2>1, FS_Subset
  <2>3. StartsBefore(b, a)
    BY <1>1, <2>2
  <2> QED
    BY <1>2, <2>3, StartsBeforeOrders DEF Distinct
<1>3. \A a, b \in runs : Cardinality(Before(a)) = Cardinality(Before(b)) => a = b
  BY <1>2, StartsBeforeOrders
<1>4. \A run \in runs : Cardinality(Before(run)) \in 1..Cardinality(runs)
  BY <1>1
<1> QED
  BY <1>3, <1>4 DEF Place

\* OrderedRuns lists the runs, the one that starts first at the front.
LEMMA OrderedRunsAre ==
  ASSUME NEW runs \in SUBSET Runs, Distinct(runs)
  PROVE  /\ Cardinality(runs) \in Nat
         /\ OrderedRuns(runs) \in [1..Cardinality(runs) -> runs]
         /\ runs # {} => /\ Cardinality(runs) > 0
                         /\ \A run \in runs : StartsBefore(OrderedRuns(runs)[1], run)
<1> DEFINE n == Cardinality(runs)
           place == [run \in runs |-> Place(runs, run)]
<1>1. n \in Nat /\ IsFiniteSet(1..n) /\ Cardinality(1..n) = n
  <2>1. n \in Nat
    BY FS_CardinalityType DEF Distinct
  <2>2. IsFiniteSet(1..n) /\ Cardinality(1..n) = IF 1 > n THEN 0 ELSE n - 1 + 1
    BY <2>1, FS_Interval
  <2> QED
    BY <2>1, <2>2
<1>2. place \in Injection(runs, 1..n)
  BY PlacesDiffer DEF Injection, IsInjective
<1>3. place \in Surjection(runs, 1..n)
  BY <1>1, <1>2, FS_Injection
<1>4. \A i \in 1..n : \E run \in runs : Place(runs, run) = i
  BY <1>3 DEF Surjection
<1>5. \A i \in 1..n : OrderedRuns(runs)[i] \in runs /\ Place(runs, OrderedRuns(runs)[i]) = i
  <2> TAKE i \in 1..n
  <2>1. OrderedRuns(runs)[i] = CHOOSE run \in runs : Place(runs, run) = i
    BY DEF OrderedRuns, Place
  <2> QED
    BY <1>4, <2>1
<1>6. OrderedRuns(runs) \in [1..n -> runs]
  <2>1. OrderedRuns(runs) = [i \in 1..n |-> OrderedRuns(runs)[i]]
    BY DEF OrderedRuns
  <2> QED
    BY <1>5, <2>1
<1>7. ASSUME runs # {}
      PROVE  n > 0 /\ \A run \in runs : StartsBefore(OrderedRuns(runs)[1], run)
  <2>1. n > 0
    BY <1>1, <1>7, FS_EmptySet DEF Distinct
  <2> DEFINE first == OrderedRuns(runs)[1]
             before == {r \in runs : StartsBefore(r, first)}
  <2>2. first \in runs /\ Cardinality(before) = 1
    BY <1>1, <1>5, <2>1 DEF Place
  <2>3. IsFiniteSet(before) /\ first \in before
    BY <2>2, FS_Subset, StartsBeforeOrders DEF Distinct
  <2>4. PICK x : before = {x}
    BY <2>2, <2>3, FS_Singleton
  <2>5. \A r \in runs : StartsBefore(r, first) => r = first
    BY <2>3, <2>4
  <2>6. \A run \in runs : StartsBefore(first, run)
    BY <2>2, <2>5, StartsBeforeOrders
  <2> QED
    BY <2>1, <2>6
<1> QED
  BY <1>1, <1>6, <1>7

Bundles ==
  [task: TaskRows, runs: SUBSET Runs, events: Seq(Events), traces: SUBSET Traces,
   git: {"AVAILABLE", "UNKNOWN"}, github: GithubRows]

\* The runs that qualify are a sequence of runs.
LEMMA QualifyingAre ==
  ASSUME NEW runs \in SUBSET Runs, Distinct(runs), NEW events
  PROVE  /\ Qualifying(runs, events) \in Seq(Runs)
         /\ \A i \in DOMAIN Qualifying(runs, events) :
              Qualifying(runs, events)[i] \in {run \in runs : IsQualifyingRun(run, events)}
         /\ Qualifying(runs, events) = << >> <=>
              {run \in runs : IsQualifyingRun(run, events)} = {}
         /\ Qualifying(runs, events) # << >> =>
              \A run \in runs : IsQualifyingRun(run, events) =>
                StartsBefore(Qualifying(runs, events)[1], run)
<1> DEFINE those == {run \in runs : IsQualifyingRun(run, events)}
           n == Cardinality(those)
<1>1. those \in SUBSET Runs /\ Distinct(those)
  BY FS_Subset DEF Distinct
<1>2. /\ n \in Nat
      /\ OrderedRuns(those) \in [1..n -> those]
      /\ those # {} => n > 0 /\ \A run \in those : StartsBefore(OrderedRuns(those)[1], run)
  BY <1>1, OrderedRunsAre
<1>3. OrderedRuns(those) \in Seq(those) /\ Len(OrderedRuns(those)) = n
  BY <1>2
<1>4. OrderedRuns(those) \in Seq(Runs)
  BY <1>1, <1>2
<1>5. those = {} => n = 0
  BY FS_EmptySet
<1>6. OrderedRuns(those) = << >> <=> those = {}
  BY <1>2, <1>3, <1>5
<1> QED
  BY <1>2, <1>3, <1>4, <1>6 DEF Qualifying

\* A run that succeeded did not fail.
LEMMA SuccessIsNoFailure ==
  ASSUME NEW run, RunIsSuccess(run)
  PROVE  ~RunIsFailure(run)
BY DEF RunIsSuccess, RunIsFailure, FailureOutcomes

\* A first pass has no retries.
LEMMA RetriesAre ==
  ASSUME NEW qualifying \in Seq(Runs)
  PROVE  /\ RetryCount(qualifying) \in Nat \cup {None}
         /\ FirstPass(qualifying) = "PASS" => RetryCount(qualifying) = 0
<1> DEFINE stops == {i \in DOMAIN qualifying : ~RunIsFailure(qualifying[i])}
<1>1. CASE stops = {}
  <2>1. RetryCount(qualifying) = Len(qualifying)
    BY <1>1 DEF RetryCount
  <2>2. FirstPass(qualifying) # "PASS"
    <3>1. ASSUME FirstPass(qualifying) = "PASS" PROVE FALSE
      <4>1. qualifying # << >> /\ RunIsSuccess(qualifying[1])
        BY <3>1 DEF FirstPass
      <4>2. 1 \in DOMAIN qualifying
        BY <4>1
      <4> QED
        BY <1>1, <4>1, <4>2, SuccessIsNoFailure
    <3> QED
      BY <3>1
  <2> QED
    BY <2>1, <2>2
<1>2. CASE stops # {}
  <2>1. stops \in SUBSET Nat /\ \A i \in stops : i >= 1
    OBVIOUS
  <2>2. Min(stops) \in stops /\ \A k \in stops : Min(stops) <= k
    BY <1>2, <2>1, MinIs
  <2>3. RetryCount(qualifying) =
          IF RunIsSuccess(qualifying[Min(stops)]) THEN Min(stops) - 1 ELSE None
    BY <1>2 DEF RetryCount
  <2>4. RetryCount(qualifying) \in Nat \cup {None}
    <3>1. Min(stops) \in Nat /\ Min(stops) >= 1
      BY <2>1, <2>2
    <3> HIDE DEF stops
    <3> QED
      BY <2>3, <3>1
  <2>5. ASSUME FirstPass(qualifying) = "PASS" PROVE RetryCount(qualifying) = 0
    <3>1. qualifying # << >> /\ RunIsSuccess(qualifying[1])
      BY <2>5 DEF FirstPass
    <3>2. 1 \in stops
      BY <3>1, SuccessIsNoFailure
    <3>3. Min(stops) = 1
      BY <2>1, <2>2, <3>2
    <3> HIDE DEF stops
    <3> QED
      BY <2>3, <3>1, <3>3
  <2> QED
    BY <2>4, <2>5
<1> QED
  BY <1>1, <1>2

\* The verdict is one of four values.
LEMMA VerificationIs ==
  ASSUME NEW runs \in SUBSET Runs, Distinct(runs), NEW github \in GithubRows
  PROVE  Verification(runs, github) \in {"PASS", "FAIL", "UNKNOWN", "NOT_APPLICABLE"}
<1> DEFINE ordered == OrderedRuns(runs)
           typed == {i \in DOMAIN ordered : ordered[i].objective \in {"PASS", "FAIL"}}
<1>1. GithubVerification(github) \in {"PASS", "FAIL", "UNKNOWN", "NOT_APPLICABLE"}
  BY DEF GithubVerification, GithubRows
<1>2. TypedVerifier(runs) \in {"PASS", "FAIL", None}
  <2>1. TypedVerifier(runs) = IF typed = {} THEN None ELSE ordered[Max(typed)].objective
    BY DEF TypedVerifier
  <2>2. CASE typed = {}
    BY <2>1, <2>2
  <2>3. CASE typed # {}
    <3>1. Cardinality(runs) \in Nat /\ DOMAIN ordered = 1..Cardinality(runs)
      BY OrderedRunsAre
    <3>2. typed \in SUBSET (0..Cardinality(runs))
      BY <3>1
    <3>3. Max(typed) \in typed
      BY <2>3, <3>1, <3>2, MaxIs
    <3> QED
      BY <2>1, <2>3, <3>3
  <2> QED
    BY <2>2, <2>3
<1> QED
  BY <1>1, <1>2 DEF Verification

\* Reworks are counted.
LEMMA ReworkIs ==
  ASSUME NEW task, NEW qualifying \in Seq(Runs), NEW events \in Seq(Events)
  PROVE  ReworkCount(task, qualifying, events) \in Nat
<1> DEFINE asked == {i \in DOMAIN events : events[i].kind \in ReworkEventKinds}
           reopened == {i \in DOMAIN events :
                          /\ events[i].kind = "status"
                          /\ StatusBefore(events, i) \in Closed
                          /\ events[i].status \notin Closed \cup {""}}
           later == IF task.completed = None THEN {}
                    ELSE {i \in DOMAIN qualifying :
                            /\ qualifying[i].started # None
                            /\ qualifying[i].started > task.completed}
<1>1. Len(events) \in Nat /\ Len(qualifying) \in Nat
  OBVIOUS
<1>2. Cardinality(asked) \in Nat
  <2>1. asked \in SUBSET (1..Len(events))
    OBVIOUS
  <2> QED
    BY <1>1, <2>1, PositionsCount
<1>3. Cardinality(reopened) \in Nat
  <2>1. reopened \in SUBSET DOMAIN events
    BY Zenon
  <2>2. DOMAIN events = 1..Len(events)
    OBVIOUS
  <2> HIDE DEF reopened
  <2> QED
    BY <1>1, <2>1, <2>2, PositionsCount
<1>4. Cardinality(later) \in Nat
  <2>1. later \in SUBSET (1..Len(qualifying))
    OBVIOUS
  <2> QED
    BY <1>1, <2>1, PositionsCount
<1>5. ReworkCount(task, qualifying, events) =
        Cardinality(asked) + Cardinality(reopened) + Cardinality(later)
  BY DEF ReworkCount
<1> HIDE DEF asked, reopened, later
<1> QED
  BY <1>2, <1>3, <1>4, <1>5

\* The final outcome is success only with a verdict.
LEMMA FinalOutcomeIs ==
  ASSUME NEW lifecycle, NEW verification
  PROVE  /\ FinalOutcome(lifecycle, verification) \in Finals
         /\ FinalOutcome(lifecycle, verification) = "VERIFIED_SUCCESS" => verification = "PASS"
BY DEF FinalOutcome, Finals

\* The hash of a bundle is a hash.
LEMMA SourceHashIs ==
  ASSUME NEW bundle \in Bundles
  PROVE  SourceHash(bundle) \in Hashes /\ SourceHash(bundle).events = bundle.events
<1>1. \A trace \in bundle.traces : trace.id \in Nat /\ trace.calls \in Nat
  BY DEF Bundles, Traces
<1>2. {[id |-> trace.id, calls |-> trace.calls] : trace \in bundle.traces}
        \in SUBSET [id: Nat, calls: Nat]
  BY <1>1
<1> QED
  BY <1>2 DEF SourceHash, Bundles, Hashes

\* What the rules say of a bundle is an outcome that passes the quality checks.
LEMMA OutcomeIs ==
  ASSUME NEW t \in Tasks, NEW bundle \in Bundles, Distinct(bundle.runs)
  PROVE  LET outcome == DeriveOutcome(t, bundle) IN
         /\ outcome \in Outcomes /\ outcome # None
         /\ outcome.hash.events = bundle.events
         /\ outcome.firstPass = FirstPass(Qualifying(bundle.runs, bundle.events))
         /\ outcome.firstPass = "PASS" => outcome.retries = 0
         /\ outcome.final = "VERIFIED_SUCCESS" => outcome.verification = "PASS"
<1> DEFINE qualifying == Qualifying(bundle.runs, bundle.events)
           lifecycle == Lifecycle(bundle.task)
           verification == Verification(bundle.runs, bundle.github)
           outcome == DeriveOutcome(t, bundle)
<1>1. bundle.runs \in SUBSET Runs /\ bundle.events \in Seq(Events) /\ bundle.github \in GithubRows
  BY DEF Bundles
<1>2. qualifying \in Seq(Runs)
  BY <1>1, QualifyingAre
<1>3. RetryCount(qualifying) \in Nat \cup {None}
        /\ (FirstPass(qualifying) = "PASS" => RetryCount(qualifying) = 0)
  BY <1>2, RetriesAre
<1>4. verification \in {"PASS", "FAIL", "UNKNOWN", "NOT_APPLICABLE"}
  BY <1>1, VerificationIs
<1>5. FinalOutcome(lifecycle, verification) \in Finals
        /\ (FinalOutcome(lifecycle, verification) = "VERIFIED_SUCCESS" => verification = "PASS")
  BY FinalOutcomeIs
<1>6. ReworkCount(bundle.task, qualifying, bundle.events) \in Nat
  BY <1>1, <1>2, ReworkIs
<1>7. SourceHash(bundle) \in Hashes /\ SourceHash(bundle).events = bundle.events
  BY SourceHashIs
<1>8. /\ lifecycle \in {"DONE", "NOT_DONE"}
      /\ FirstPass(qualifying) \in {"NOT_APPLICABLE", "PASS", "FAIL", "UNKNOWN"}
      /\ Human(bundle.events) \in {"DETECTED", "UNKNOWN"}
      /\ EvidenceGrade(qualifying, bundle.traces) \in {"HIGH", "MEDIUM", "LOW"}
  BY DEF Lifecycle, FirstPass, Human, EvidenceGrade
<1>9. outcome = [lifecycle |-> lifecycle,
         verification |-> verification,
         final |-> FinalOutcome(lifecycle, verification),
         firstPass |-> FirstPass(qualifying),
         retries |-> RetryCount(qualifying),
         rework |-> ReworkCount(bundle.task, qualifying, bundle.events),
         human |-> Human(bundle.events),
         models |-> Models(bundle.traces) # {},
         production |-> Cohort(t) = "production",
         grade |-> EvidenceGrade(qualifying, bundle.traces),
         hash |-> SourceHash(bundle)]
  BY DEF DeriveOutcome
<1> HIDE DEF qualifying, lifecycle, verification, outcome
<1>10. outcome \in Outcomes
  BY <1>3, <1>4, <1>5, <1>6, <1>7, <1>8, <1>9 DEF Outcomes
<1>11. outcome # None
  BY <1>10, NoneAssumption
<1>12. /\ outcome.hash.events = bundle.events
       /\ outcome.firstPass = FirstPass(qualifying)
       /\ outcome.firstPass = "PASS" => outcome.retries = 0
       /\ outcome.final = "VERIFIED_SUCCESS" => outcome.verification = "PASS"
  BY <1>3, <1>5, <1>7, <1>9
<1> QED
  BY <1>10, <1>11, <1>12 DEF outcome, qualifying

-----------------------------------------------------------------------------
(* The sources. *)

\* What a world may still do is spent one by one.
LEMMA WorldSpent ==
  ASSUME NEW world \in WorldRecords
  PROVE  /\ \A t \in Tasks : world.life[t] > 0 =>
              [world EXCEPT !.life[t] = @ - 1] \in WorldRecords
         /\ \A s \in Sessions : world.passes[s] > 0 =>
              [world EXCEPT !.passes[s] = @ - 1] \in WorldRecords
         /\ world.flips > 0 => [world EXCEPT !.flips = @ - 1] \in WorldRecords
         /\ world.faults > 0 => [world EXCEPT !.faults = @ - 1] \in WorldRecords
<1>1. \A n \in Nat : n > 0 => n - 1 \in Nat
  OBVIOUS
<1>2. /\ world.life \in [Tasks -> Nat] /\ world.passes \in [Sessions -> Nat]
      /\ world.flips \in Nat /\ world.faults \in Nat
  BY DEF WorldRecords
<1>3. /\ \A life \in [Tasks -> Nat] : [world EXCEPT !.life = life] \in WorldRecords
      /\ \A passes \in [Sessions -> Nat] : [world EXCEPT !.passes = passes] \in WorldRecords
      /\ \A n \in Nat : /\ [world EXCEPT !.flips = n] \in WorldRecords
                        /\ [world EXCEPT !.faults = n] \in WorldRecords
  BY DEF WorldRecords
<1>4. \A t \in Tasks : world.life[t] > 0 =>
        [world EXCEPT !.life[t] = @ - 1] \in WorldRecords
  <2> TAKE t \in Tasks
  <2> HAVE world.life[t] > 0
  <2>1. [world.life EXCEPT ![t] = @ - 1] \in [Tasks -> Nat]
    BY <1>1, <1>2
  <2>2. [world EXCEPT !.life[t] = @ - 1]
          = [world EXCEPT !.life = [world.life EXCEPT ![t] = @ - 1]]
    BY DEF WorldRecords
  <2> QED
    BY <1>3, <2>1, <2>2
<1>5. \A s \in Sessions : world.passes[s] > 0 =>
        [world EXCEPT !.passes[s] = @ - 1] \in WorldRecords
  <2> TAKE s \in Sessions
  <2> HAVE world.passes[s] > 0
  <2>1. [world.passes EXCEPT ![s] = @ - 1] \in [Sessions -> Nat]
    BY <1>1, <1>2
  <2>2. [world EXCEPT !.passes[s] = @ - 1]
          = [world EXCEPT !.passes = [world.passes EXCEPT ![s] = @ - 1]]
    BY DEF WorldRecords
  <2> QED
    BY <1>3, <2>1, <2>2
<1>6. /\ world.flips > 0 => [world EXCEPT !.flips = @ - 1] \in WorldRecords
      /\ world.faults > 0 => [world EXCEPT !.faults = @ - 1] \in WorldRecords
  BY <1>1, <1>2, <1>3
<1> QED
  BY <1>4, <1>5, <1>6

\* A task gets the next number for a run.
LEMMA NumberedAdd ==
  ASSUME NEW runs \in SUBSET Runs, Numbered(runs),
         NEW new \in Runs, new.id = Cardinality(runs) + 1
  PROVE  /\ Numbered(runs \cup {new})
         /\ Cardinality(runs \cup {new}) = Cardinality(runs) + 1
         /\ Cardinality(runs) \in Nat
<1>1. IsFiniteSet(runs) /\ Cardinality(runs) \in Nat
  BY FS_CardinalityType DEF Numbered
<1>2. new \notin runs
  BY <1>1 DEF Numbered
<1>3. IsFiniteSet(runs \cup {new}) /\ Cardinality(runs \cup {new}) = Cardinality(runs) + 1
  BY <1>1, <1>2, FS_AddElement
<1>4. \A run \in runs : run.id \in 1..Cardinality(runs)
  BY DEF Numbered
<1>5. \A run \in runs \cup {new} : run.id \in 1..(Cardinality(runs) + 1)
  BY <1>1, <1>4
<1>6. \A run, other \in runs \cup {new} : run.id = other.id => run = other
  BY <1>1, <1>4 DEF Numbered
<1> QED
  BY <1>1, <1>3, <1>5, <1>6 DEF Numbered

\* A run that ends keeps its number.
LEMMA NumberedReplace ==
  ASSUME NEW runs \in SUBSET Runs, Numbered(runs), NEW run \in runs,
         NEW ended \in Runs, ended.id = run.id
  PROVE  /\ Numbered((runs \ {run}) \cup {ended})
         /\ Cardinality((runs \ {run}) \cup {ended}) = Cardinality(runs)
<1> DEFINE rest == runs \ {run}
<1>1. IsFiniteSet(runs) /\ Cardinality(runs) \in Nat
  BY FS_CardinalityType DEF Numbered
<1>2. IsFiniteSet(rest) /\ Cardinality(rest) = Cardinality(runs) - 1
  BY <1>1, FS_RemoveElement
<1>3. ended \notin rest
  BY DEF Numbered
<1>4. IsFiniteSet(rest \cup {ended}) /\ Cardinality(rest \cup {ended}) = Cardinality(rest) + 1
  BY <1>2, <1>3, FS_AddElement
<1>5. Cardinality(rest \cup {ended}) = Cardinality(runs)
  BY <1>1, <1>2, <1>4
<1>6. \A r \in rest \cup {ended} : r.id \in 1..Cardinality(runs)
  BY DEF Numbered
<1>7. \A r, other \in rest \cup {ended} : r.id = other.id => r = other
  BY DEF Numbered
<1> QED
  BY <1>4, <1>5, <1>6, <1>7 DEF Numbered

\* Record puts the task and one event in place of the task.
LEMMA RecordIs ==
  ASSUME SourcesOK, NEW t \in Tasks, NEW task \in KanbanTasks,
         task.events = src[t].events, NEW event \in Events, Record(t, task, event)
  PROVE  /\ src' \in [Tasks -> KanbanTasks]
         /\ src'[t].runs = task.runs
         /\ Len(src'[t].events) = Len(src[t].events) + 1
         /\ \A u \in Tasks : u # t => src'[u] = src[u]
<1>1. task.events \in Seq(Events)
  BY DEF KanbanTasks
<1>2. Append(task.events, event) \in Seq(Events)
        /\ Len(Append(task.events, event)) = Len(task.events) + 1
  BY <1>1
<1>3. \A events \in Seq(Events) :
        /\ [task EXCEPT !.events = events] \in KanbanTasks
        /\ [task EXCEPT !.events = events].runs = task.runs
        /\ [task EXCEPT !.events = events].events = events
  BY DEF KanbanTasks
<1>4. [task EXCEPT !.events = Append(@, event)]
        = [task EXCEPT !.events = Append(task.events, event)]
  OBVIOUS
<1>5. src' = [src EXCEPT ![t] = [task EXCEPT !.events = Append(task.events, event)]]
  BY <1>4 DEF Record
<1>6. src \in [Tasks -> KanbanTasks]
  BY DEF SourcesOK
<1> QED
  BY <1>2, <1>3, <1>5, <1>6

\* How the runs of a task may move in one step.
RunsMove(t) ==
  \/ src'[t].runs = src[t].runs
  \/ \E new \in Runs :
       /\ src'[t].runs = src[t].runs \cup {new}
       /\ new.id = Cardinality(src[t].runs) + 1
       /\ new.started = clock
       /\ AsWritten({new}, clock)
       /\ new.ended # None => new.ended = clock
  \/ \E run \in src[t].runs, ended \in Runs :
       /\ src'[t].runs = (src[t].runs \ {run}) \cup {ended}
       /\ run.ended = None /\ ended.ended \in Nat
       /\ ended.id = run.id /\ ended.started = run.started

\* What a move leaves of the sources.
Moved(t) ==
  /\ src' \in [Tasks -> KanbanTasks]
  /\ Len(src'[t].events) = Len(src[t].events) + 1
  /\ \A u \in Tasks : u # t => src'[u] = src[u]
  /\ RunsMove(t)
  /\ clock' \in Nat /\ clock <= clock'

\* An event of this module is one of Kanban's.
LEMMA EventIs ==
  ASSUME NEW kind \in EventKinds, NEW run \in Times, NEW status \in {""} \cup TaskStatuses
  PROVE  Event(kind, run, status) \in Events
BY DEF Event, Events

\* The words the sources use are words of Kanban.
LEMMA WordsAre ==
  /\ {"ready", "running", "done"} \subseteq TaskStatuses
  /\ \A outcome \in RunOutcomes : outcome \in RunStatuses /\ outcome \in EventKinds
  /\ {"running", "done"} \subseteq RunStatuses
  /\ {"", "completed"} \subseteq RunOutcomes
  /\ {"spawned", "completed", "review_reopened", "status"} \subseteq EventKinds
BY DEF TaskStatuses, Closed, RunOutcomes, RunStatuses, EventKinds, HumanEventKinds,
       ReworkEventKinds

\* The run that starts now has the next number.
LEMMA StartsNowIs ==
  ASSUME SourcesOK, NEW t \in Tasks
  PROVE  /\ Cardinality(src[t].runs) \in Nat
         /\ StartsNow(t) \in Runs
         /\ StartsNow(t).id = Cardinality(src[t].runs) + 1
         /\ StartsNow(t).id \in Nat
         /\ StartsNow(t).started = clock /\ StartsNow(t).ended = None
         /\ StartsNow(t).pid = TRUE /\ StartsNow(t).outcome = "" /\ StartsNow(t).status = "running"
<1>1. Cardinality(src[t].runs) \in Nat
  BY FS_CardinalityType DEF SourcesOK, Numbered
<1>2. Cardinality(src[t].runs) + 1 \in Nat /\ clock \in Nat
  BY <1>1 DEF SourcesOK
<1> QED
  BY <1>1, <1>2, WordsAre DEF StartsNow, Runs, Times

LEMMA StartRunMoves ==
  ASSUME SourcesOK, NEW t \in Tasks, StartRun(t)
  PROVE  Moved(t)
<1> DEFINE run == StartsNow(t)
           task == [src[t] EXCEPT !.status = "running", !.runs = @ \cup {run}]
           event == Event("spawned", run.id, "")
<1>1. Record(t, task, event) /\ clock' = clock
  BY DEF StartRun
<1>2. run \in Runs /\ run.id \in Nat /\ src[t] \in KanbanTasks /\ clock \in Nat
  BY StartsNowIs DEF SourcesOK
<1>3. event \in Events
  BY <1>2, EventIs, WordsAre DEF Times
<1>4. task \in KanbanTasks /\ task.events = src[t].events /\ task.runs = src[t].runs \cup {run}
  BY <1>2, WordsAre DEF KanbanTasks
<1>5. /\ src' \in [Tasks -> KanbanTasks]
      /\ src'[t].runs = src[t].runs \cup {run}
      /\ Len(src'[t].events) = Len(src[t].events) + 1
      /\ \A u \in Tasks : u # t => src'[u] = src[u]
  <2> HIDE DEF task, event
  <2> QED
    BY <1>1, <1>3, <1>4, RecordIs
<1>6. AsWritten({run}, clock)
  <2> HIDE DEF run, task, event
  <2>1. run.started = clock /\ run.pid = TRUE /\ run.outcome = "" /\ run.status = "running"
    BY StartsNowIs DEF run
  <2>2. run.started = clock /\ clock \in Nat
    BY <1>2, <2>1
  <2>3. run.started \in Nat /\ run.started <= clock
    BY <2>2
  <2> QED
    BY <2>1, <2>3 DEF AsWritten
<1>7. RunsMove(t)
  <2> HIDE DEF run
  <2>1. run.id = Cardinality(src[t].runs) + 1 /\ run.started = clock /\ run.ended = None
    BY StartsNowIs DEF run
  <2> QED
    BY <1>2, <1>5, <1>6, <2>1 DEF RunsMove
<1>8. clock' \in Nat /\ clock <= clock'
  <2>1. clock \in Nat
    BY <1>2
  <2>2. clock' = clock
    BY <1>1
  <2> QED
    BY <2>1, <2>2
<1> QED
  BY <1>5, <1>7, <1>8 DEF Moved

LEMMA CompleteByHandMoves ==
  ASSUME SourcesOK, NEW t \in Tasks, CompleteByHand(t)
  PROVE  Moved(t)
<1> DEFINE run == [StartsNow(t) EXCEPT !.ended = clock, !.status = "done",
                                       !.outcome = "completed", !.pid = FALSE]
           task == [src[t] EXCEPT !.status = "done", !.completed = clock,
                                  !.runs = @ \cup {run}]
           event == Event("completed", run.id, "")
<1>1. Record(t, task, event) /\ clock' = clock
  BY DEF CompleteByHand
<1>2. clock \in Nat /\ src[t] \in KanbanTasks
  BY DEF SourcesOK
<1>3. /\ run \in Runs /\ run.id = Cardinality(src[t].runs) + 1 /\ run.id \in Nat
      /\ run.started = clock /\ run.ended = clock
  <2>1. \A r \in Runs, now \in Nat :
          LET new == [r EXCEPT !.ended = now, !.status = "done",
                               !.outcome = "completed", !.pid = FALSE]
          IN  new \in Runs /\ new.id = r.id /\ new.started = r.started /\ new.ended = now
    BY WordsAre DEF Runs, Times
  <2> QED
    BY <1>2, <2>1, StartsNowIs
<1> HIDE DEF run
<1>4. event \in Events
  BY <1>3, EventIs, WordsAre DEF Times
<1>5. task \in KanbanTasks /\ task.events = src[t].events /\ task.runs = src[t].runs \cup {run}
  BY <1>2, <1>3, WordsAre DEF KanbanTasks, Times
<1>6. /\ src' \in [Tasks -> KanbanTasks]
      /\ src'[t].runs = src[t].runs \cup {run}
      /\ Len(src'[t].events) = Len(src[t].events) + 1
      /\ \A u \in Tasks : u # t => src'[u] = src[u]
  <2> HIDE DEF task, event
  <2> QED
    BY <1>1, <1>4, <1>5, RecordIs
<1>7. AsWritten({run}, clock)
  <2>1. run.started \in Nat /\ run.started <= clock /\ run.ended # None
    BY <1>2, <1>3, NoneAssumption
  <2> QED
    BY <2>1 DEF AsWritten
<1>8. RunsMove(t)
  BY <1>3, <1>6, <1>7 DEF RunsMove
<1>9. clock' \in Nat /\ clock <= clock'
  <2>1. clock \in Nat
    BY <1>2
  <2>2. clock' = clock
    BY <1>1
  <2> QED
    BY <2>1, <2>2
<1> QED
  BY <1>6, <1>8, <1>9 DEF Moved

LEMMA EndRunMoves ==
  ASSUME SourcesOK, NEW t \in Tasks, EndRun(t)
  PROVE  Moved(t)
<1>1. PICK run \in OpenRuns(t), ending \in left.endings :
        /\ clock' = clock + ending.seconds
        /\ LET done == ending.outcome = "completed"
               ended == [run EXCEPT !.ended = clock', !.outcome = ending.outcome,
                                    !.status = IF done THEN "done" ELSE ending.outcome,
                                    !.pid = FALSE, !.objective = ending.objective]
           IN  Record(t, [src[t] EXCEPT
                             !.status = IF done THEN "done" ELSE "ready",
                             !.completed = IF done THEN clock' ELSE @,
                             !.runs = (@ \ {run}) \cup {ended}],
                      Event(ending.outcome, run.id, ""))
  BY DEF EndRun
<1> DEFINE done == ending.outcome = "completed"
           ended == [run EXCEPT !.ended = clock', !.outcome = ending.outcome,
                                !.status = IF done THEN "done" ELSE ending.outcome,
                                !.pid = FALSE, !.objective = ending.objective]
           task == [src[t] EXCEPT !.status = IF done THEN "done" ELSE "ready",
                                  !.completed = IF done THEN clock' ELSE @,
                                  !.runs = (@ \ {run}) \cup {ended}]
           event == Event(ending.outcome, run.id, "")
<1>2. clock \in Nat /\ src[t] \in KanbanTasks /\ left \in WorldRecords
  BY DEF SourcesOK
<1>3. /\ ending.outcome \in RunOutcomes /\ ending.objective \in {"PASS", "FAIL", None}
      /\ ending.seconds \in Nat
  BY <1>2 DEF WorldRecords
<1>4. clock' \in Nat /\ clock <= clock'
  <2>1. clock' = clock + ending.seconds
    BY <1>1
  <2> QED
    BY <1>2, <1>3, <2>1
<1>5. run \in src[t].runs /\ run \in Runs /\ run.ended = None /\ run.id \in Nat
  BY <1>2 DEF OpenRuns, KanbanTasks, Runs
<1>6. /\ ended \in Runs /\ ended.id = run.id /\ ended.started = run.started
      /\ ended.ended \in Nat
  <2>2. (IF done THEN "done" ELSE ending.outcome) \in RunStatuses
    BY <1>3, WordsAre
  <2> DEFINE status == IF done THEN "done" ELSE ending.outcome
  <2>3. ended = [run EXCEPT !.ended = clock', !.outcome = ending.outcome,
                            !.status = status, !.pid = FALSE, !.objective = ending.objective]
    OBVIOUS
  <2>4. status \in RunStatuses
    BY <2>2
  <2> HIDE DEF done, ended, task, event, status
  <2>5. clock' \in Times /\ FALSE \in BOOLEAN
    BY <1>4 DEF Times
  <2>6. ended \in Runs
    BY <1>3, <1>5, <2>3, <2>4, <2>5 DEF Runs
  <2>7. ended.id = run.id /\ ended.started = run.started /\ ended.ended = clock'
    BY <1>5, <2>3 DEF Runs
  <2> QED
    BY <1>4, <2>6, <2>7
<1>7. Record(t, task, event)
  BY <1>1
<1> HIDE DEF ended
<1>8. event \in Events
  BY <1>3, <1>5, EventIs, WordsAre DEF Times
<1>9. /\ task \in KanbanTasks /\ task.events = src[t].events
      /\ task.runs = (src[t].runs \ {run}) \cup {ended}
  BY <1>2, <1>4, <1>6, WordsAre DEF KanbanTasks, Times
<1>10. /\ src' \in [Tasks -> KanbanTasks]
       /\ src'[t].runs = (src[t].runs \ {run}) \cup {ended}
       /\ Len(src'[t].events) = Len(src[t].events) + 1
       /\ \A u \in Tasks : u # t => src'[u] = src[u]
  <2> HIDE DEF task, event
  <2> QED
    BY <1>7, <1>8, <1>9, RecordIs
<1>11. RunsMove(t)
  BY <1>5, <1>6, <1>10 DEF RunsMove
<1> QED
  BY <1>4, <1>10, <1>11 DEF Moved

LEMMA ReopenMoves ==
  ASSUME SourcesOK, NEW t \in Tasks, Reopen(t)
  PROVE  Moved(t)
<1>6. clock' \in Nat /\ clock <= clock'
  <2>1. clock \in Nat
    BY DEF SourcesOK
  <2>2. clock' = clock + 1
    BY DEF Reopen
  <2> QED
    BY <2>1, <2>2
<1> DEFINE task == [src[t] EXCEPT !.status = "ready"]
<1>1. PICK event \in {Event("review_reopened", None, ""), Event("status", None, "ready")} :
        Record(t, task, event)
  BY DEF Reopen
<1>2. event \in Events
  BY EventIs, WordsAre DEF Times
<1>3. clock \in Nat /\ src[t] \in KanbanTasks /\ clock' = clock + 1
  BY DEF SourcesOK, Reopen
<1>4. task \in KanbanTasks /\ task.events = src[t].events /\ task.runs = src[t].runs
  BY <1>3, WordsAre DEF KanbanTasks
<1>5. /\ src' \in [Tasks -> KanbanTasks]
      /\ src'[t].runs = src[t].runs
      /\ Len(src'[t].events) = Len(src[t].events) + 1
      /\ \A u \in Tasks : u # t => src'[u] = src[u]
  <2> HIDE DEF task
  <2> QED
    BY <1>1, <1>2, <1>4, RecordIs
<1> QED
  BY <1>5, <1>6 DEF Moved, RunsMove

\* A move of a task leaves sources of their types.
LEMMA TaskMovesIs ==
  ASSUME SourcesOK, NEW t \in Tasks, TaskMoves(t)
  PROVE  /\ Moved(t)
         /\ SourcesOK'
         /\ left'.life[t] = left.life[t] - 1 /\ left.life[t] \in Nat
         /\ \A u \in Tasks : u # t => left'.life[u] = left.life[u]
<1>1. Moved(t)
  BY StartRunMoves, EndRunMoves, CompleteByHandMoves, ReopenMoves DEF TaskMoves
<1>2. left \in WorldRecords /\ left.life[t] > 0 /\ up \in SourceStates
        /\ left' = [left EXCEPT !.life[t] = @ - 1] /\ up' = up
  BY DEF SourcesOK, TaskMoves
<1>3. left' \in WorldRecords
  BY <1>2, WorldSpent
<1>4. /\ left'.life[t] = left.life[t] - 1 /\ left.life[t] \in Nat
      /\ \A u \in Tasks : u # t => left'.life[u] = left.life[u]
  BY <1>2 DEF WorldRecords
<1>5. src[t].runs \in SUBSET Runs /\ Numbered(src[t].runs)
  BY DEF SourcesOK, KanbanTasks
<1>6. Numbered(src'[t].runs)
  <2>1. CASE src'[t].runs = src[t].runs
    BY <1>5, <2>1
  <2>2. CASE \E new \in Runs : /\ src'[t].runs = src[t].runs \cup {new}
                               /\ new.id = Cardinality(src[t].runs) + 1
    BY <1>5, <2>2, NumberedAdd
  <2>3. CASE \E run \in src[t].runs, ended \in Runs :
               /\ src'[t].runs = (src[t].runs \ {run}) \cup {ended}
               /\ ended.id = run.id
    BY <1>5, <2>3, NumberedReplace
  <2> QED
    BY <1>1, <2>1, <2>2, <2>3 DEF Moved, RunsMove
<1>7. \A u \in Tasks : Numbered(src'[u].runs)
  BY <1>1, <1>6 DEF Moved, SourcesOK
<1>8. SourcesOK'
  BY <1>1, <1>2, <1>3, <1>7 DEF Moved, SourcesOK
<1> QED
  BY <1>1, <1>4, <1>8

\* The sources answer as they may.
LEMMA SourceFlipsIs ==
  ASSUME SourcesOK, SourceFlips
  PROVE  SourcesOK' /\ left'.life = left.life
<1>1. up \in SourceStates /\ left \in WorldRecords /\ left.flips > 0
  BY DEF SourcesOK, SourceFlips
<1>2. PICK s \in DOMAIN up : \E answer \in left.answers[s] \ {up[s]} :
        up' = [up EXCEPT ![s] = answer]
  BY DEF SourceFlips
<1>3. PICK answer \in left.answers[s] : up' = [up EXCEPT ![s] = answer]
  BY <1>2
<1>4. s \in {"phoenix", "git", "github"}
  BY <1>1 DEF SourceStates
<1>5. /\ left.answers.phoenix \subseteq {"up", "window", "down"}
      /\ left.answers.git \subseteq {"up", "down"}
      /\ left.answers.github \subseteq {"up", "noauth", "down"}
  BY <1>1 DEF WorldRecords
<1>6. up' \in SourceStates
  <2>1. CASE s = "phoenix"
    BY <1>1, <1>3, <1>5, <2>1 DEF SourceStates
  <2>2. CASE s = "git"
    BY <1>1, <1>3, <1>5, <2>2 DEF SourceStates
  <2>3. CASE s = "github"
    BY <1>1, <1>3, <1>5, <2>3 DEF SourceStates
  <2> QED
    BY <1>4, <2>1, <2>2, <2>3
<1>7. left' = [left EXCEPT !.flips = @ - 1]
  BY DEF SourceFlips
<1>8. left' \in WorldRecords
  BY <1>1, <1>7, WorldSpent
<1>9. left'.life = left.life
  BY <1>1, <1>7 DEF WorldRecords
<1> QED
  BY <1>6, <1>8, <1>9 DEF SourcesOK, SourceFlips

-----------------------------------------------------------------------------
(* The passes. *)

\* Nothing read and nobody at work are of their types.
LEMMA NothingIs ==
  /\ NothingRead \in Reads /\ Distinct(NothingRead.runs)
  /\ NothingRead.traces = {} /\ NothingRead.failed = FALSE /\ NothingRead.runs = {}
  /\ Idle \in SessionRecords /\ Idle.pc = "idle" /\ Idle.errors = 0
  /\ Idle.read = NothingRead
<1>1. << >> \in Seq(Events) /\ {} \in SUBSET Runs /\ {} \in SUBSET Traces
  OBVIOUS
<1>2. NothingRead \in Reads
  BY <1>1 DEF NothingRead, Reads
<1>3. Distinct(NothingRead.runs)
  BY FS_EmptySet DEF NothingRead, Distinct
<1>4. Idle \in SessionRecords
  BY <1>2 DEF Idle, SessionRecords, Steps
<1>5. NothingRead.traces = {} /\ NothingRead.failed = FALSE /\ NothingRead.runs = {}
  BY DEF NothingRead
<1> QED
  BY <1>2, <1>3, <1>4, <1>5 DEF Idle

\* A session's step leaves the others where they are.
Stepped(s) ==
  /\ session' \in [Sessions -> SessionRecords]
  /\ \A o \in Sessions : o # s => session'[o] = session[o]

LEMMA SteppedIs ==
  ASSUME PassesOK, NEW s \in Sessions, NEW new \in SessionRecords,
         session' = [session EXCEPT ![s] = new]
  PROVE  Stepped(s) /\ session'[s] = new
BY DEF PassesOK, Stepped

\* A session in a pass has the lock, and no other is in one.
LEMMA OneAtWork ==
  ASSUME PassesOK, NEW s \in Sessions, session[s].pc # "idle"
  PROVE  /\ holder = s /\ runRow[s].status = "running"
         /\ \A o \in Sessions : o # s => session[o].pc = "idle" /\ holder # o
BY DEF PassesOK

LEMMA BeginIs ==
  ASSUME PassesOK, SourcesOK, NEW s \in Sessions, Begin(s)
  PROVE  /\ Stepped(s) /\ session[s].pc = "idle" /\ holder = None /\ holder' = s
         /\ session'[s].pc = "task" /\ session'[s].errors = 0
         /\ session'[s].read = NothingRead
         /\ runRow' \in [Sessions -> RunRows]
         /\ runRow'[s].status = "running" /\ runRow'[s].targets = session'[s].todo
         /\ \A o \in Sessions : o # s => runRow'[o] = runRow[o]
         /\ SourcesOK' /\ left'.life = left.life
         /\ UNCHANGED <<sourceVars, db>>
<1>1. /\ session[s].pc = "idle" /\ holder = None /\ holder' = s
      /\ UNCHANGED <<sourceVars, db>>
  BY DEF Begin, TryAdvisoryLock
<1>2. PICK recompute \in {left.recompute, FALSE}, targets \in Targets(s) :
        /\ session' = [session EXCEPT ![s] =
                [Idle EXCEPT !.pc = "task", !.todo = targets, !.recompute = recompute]]
        /\ runRow' = [runRow EXCEPT ![s] = [status |-> "running", targets |-> targets]]
  BY DEF Begin
<1>3. left \in WorldRecords
  BY DEF SourcesOK
<1>4. targets \in SUBSET Tasks /\ recompute \in BOOLEAN
  <2>1. left.board \in SUBSET Tasks /\ left.recompute \in BOOLEAN
    BY <1>3 DEF WorldRecords
  <2>2. targets = left.board \/ \E t \in Tasks : targets = {t}
    BY DEF Targets
  <2> QED
    BY <2>1, <2>2
<1> DEFINE new == [Idle EXCEPT !.pc = "task", !.todo = targets, !.recompute = recompute]
<1>5. /\ new \in SessionRecords /\ new.pc = "task" /\ new.todo = targets /\ new.errors = 0
      /\ new.read = NothingRead
  <2>1. \A idle \in SessionRecords :
          LET n == [idle EXCEPT !.pc = "task", !.todo = targets, !.recompute = recompute]
          IN  /\ n \in SessionRecords /\ n.pc = "task" /\ n.todo = targets
              /\ n.errors = idle.errors /\ n.read = idle.read
    BY <1>4 DEF SessionRecords, Steps
  <2> QED
    BY <2>1, NothingIs
<1>6. Stepped(s) /\ session'[s] = new
  <2> HIDE DEF new
  <2>1. session' = [session EXCEPT ![s] = new]
    BY <1>2 DEF new
  <2> QED
    BY <1>5, <2>1, SteppedIs
<1>7. /\ runRow' \in [Sessions -> RunRows]
      /\ runRow'[s].status = "running" /\ runRow'[s].targets = targets
      /\ \A o \in Sessions : o # s => runRow'[o] = runRow[o]
  <2>1. runRow \in [Sessions -> RunRows]
    BY DEF PassesOK
  <2>2. [status |-> "running", targets |-> targets] \in RunRows
    BY <1>4 DEF RunRows
  <2> QED
    BY <1>2, <2>1, <2>2
<1>8. SourcesOK' /\ left'.life = left.life
  <2>1. left' = left \/ left' = [left EXCEPT !.passes[s] = @ - 1]
    BY DEF Begin
  <2>2. left.passes[s] > 0
    BY DEF Begin
  <2>3. left' \in WorldRecords
    BY <1>3, <2>1, <2>2, WorldSpent
  <2>4. left'.life = left.life
    BY <1>3, <2>1 DEF WorldRecords
  <2>5. UNCHANGED <<src, clock, up>>
    BY <1>1 DEF sourceVars
  <2> QED
    BY <2>3, <2>4, <2>5 DEF SourcesOK
<1> HIDE DEF new
<1> QED
  BY <1>1, <1>5, <1>6, <1>7, <1>8

\* A pass that was refused leaves nothing.
LEMMA LockedIs ==
  ASSUME SourcesOK, NEW s \in Sessions, Locked(s)
  PROVE  SourcesOK' /\ left'.life = left.life
<1>1. left \in WorldRecords /\ UNCHANGED <<src, clock, up>> /\ left.passes[s] > 0
  BY DEF SourcesOK, Locked, sourceVars
<1>2. left' = left \/ left' = [left EXCEPT !.passes[s] = @ - 1]
  BY DEF Locked
<1>3. left' \in WorldRecords
  BY <1>1, <1>2, WorldSpent
<1>4. left'.life = left.life
  BY <1>1, <1>2 DEF WorldRecords
<1> QED
  BY <1>1, <1>3, <1>4 DEF SourcesOK

\* A task that no board has is taken off the list, and nothing else happens.
LEMMA MissTaskIs ==
  ASSUME PassesOK, NEW s \in Sessions, NEW t \in Tasks, MissTask(s, t)
  PROVE  /\ Stepped(s) /\ session[s].pc = "task" /\ t \in Unlisted
         /\ session'[s].pc = "task" /\ session'[s].errors = session[s].errors
         /\ session'[s].todo = session[s].todo \ {t}
         /\ session'[s].read = session[s].read
         /\ UNCHANGED <<src, clock, up, holder, db, runRow, left>>
<1> DEFINE new == [session[s] EXCEPT !.todo = @ \ {t}]
<1>1. session[s] \in SessionRecords /\ session \in [Sessions -> SessionRecords]
  BY DEF PassesOK
<1>2. /\ new \in SessionRecords /\ new.pc = session[s].pc
      /\ new.todo = session[s].todo \ {t}
      /\ new.errors = session[s].errors /\ new.read = session[s].read
  BY <1>1 DEF SessionRecords
<1>3. /\ session[s].pc = "task" /\ t \in Unlisted
      /\ session' = [session EXCEPT ![s] = new]
      /\ UNCHANGED <<src, clock, up, holder, db, runRow, left>>
  BY <1>1 DEF MissTask, sourceVars
<1> HIDE DEF new
<1>4. Stepped(s) /\ session'[s] = new
  BY <1>2, <1>3, SteppedIs
<1> QED
  BY <1>2, <1>3, <1>4

LEMMA ReadTaskIs ==
  ASSUME PassesOK, SourcesOK, NEW s \in Sessions, NEW t \in Tasks, ReadTask(s, t)
  PROVE  /\ Stepped(s) /\ session[s].pc = "task"
         /\ session'[s].pc = "runs" /\ session'[s].errors = session[s].errors
         /\ session'[s].todo = session[s].todo \ {t} /\ t \in session[s].todo
         /\ session'[s].read.task \in TaskRows /\ session'[s].read.task.id = t
         /\ Distinct(session'[s].read.runs)
<1> DEFINE row == [id |-> t, status |-> src[t].status, completed |-> src[t].completed]
           read == [NothingRead EXCEPT !.task = row]
           new == [session[s] EXCEPT !.pc = "runs", !.todo = @ \ {t}, !.read = read]
<1>1. session[s].pc = "task" /\ t \in session[s].todo
  BY DEF ReadTask
<1>2. session[s] \in SessionRecords /\ session \in [Sessions -> SessionRecords]
  BY DEF PassesOK
<1>3. row \in TaskRows /\ row.id = t
  BY DEF SourcesOK, KanbanTasks, TaskRows
<1>4. read \in Reads /\ read.task = row /\ read.runs = {}
  <2> HIDE DEF row
  <2>1. \A r \in Reads : LET n == [r EXCEPT !.task = row]
                         IN  n \in Reads /\ n.task = row /\ n.runs = r.runs
    BY <1>3 DEF Reads
  <2> QED
    BY <2>1, NothingIs
<1>5. /\ new \in SessionRecords /\ new.pc = "runs" /\ new.todo = session[s].todo \ {t}
      /\ new.errors = session[s].errors /\ new.read = read
  <2> HIDE DEF read
  <2> QED
    BY <1>2, <1>4 DEF SessionRecords, Steps
<1>6. session' = [session EXCEPT ![s] = new]
  BY <1>2 DEF ReadTask
<1> HIDE DEF new, read, row
<1>7. Stepped(s) /\ session'[s] = new
  BY <1>5, <1>6, SteppedIs
<1>8. Distinct({})
  BY FS_EmptySet DEF Distinct
<1> QED
  BY <1>1, <1>3, <1>4, <1>5, <1>7, <1>8

\* The newest runs are some of the runs.
LEMMA NewestRunsAre ==
  ASSUME NEW runs \in SUBSET Runs, Distinct(runs)
  PROVE  NewestRuns(runs) \in SUBSET runs /\ Distinct(NewestRuns(runs))
<1>1. NewestRuns(runs) \in SUBSET runs
  BY DEF NewestRuns
<1> QED
  BY <1>1, FS_Subset DEF Distinct

LEMMA ReadRunsIs ==
  ASSUME PassesOK, SourcesOK, NEW s \in Sessions, ReadRuns(s),
         session[s].read.task \in TaskRows
  PROVE  /\ Stepped(s) /\ session[s].pc = "runs"
         /\ session'[s].pc = "evidence" /\ session'[s].errors = session[s].errors
         /\ session'[s].todo = session[s].todo
         /\ session'[s].read.task = session[s].read.task
         /\ session'[s].read.runs = NewestRuns(src[session[s].read.task.id].runs)
         /\ Distinct(session'[s].read.runs)
<1> DEFINE t == session[s].read.task.id
           runs == NewestRuns(src[t].runs)
           read == [session[s].read EXCEPT !.runs = runs]
           new == [session[s] EXCEPT !.pc = "evidence", !.read = read]
<1>1. session[s].pc = "runs"
  BY DEF ReadRuns
<1>2. session[s] \in SessionRecords /\ session \in [Sessions -> SessionRecords]
  BY DEF PassesOK
<1>3. t \in Tasks
  BY DEF TaskRows
<1>4. runs \in SUBSET Runs /\ Distinct(runs)
  <2>1. src[t].runs \in SUBSET Runs /\ Distinct(src[t].runs)
    BY <1>3 DEF SourcesOK, KanbanTasks, Numbered, Distinct
  <2> QED
    BY <2>1, NewestRunsAre
<1> HIDE DEF runs
<1>5. session[s].read \in Reads
  BY <1>2 DEF SessionRecords
<1>6. read \in Reads /\ read.task = session[s].read.task /\ read.runs = runs
  BY <1>4, <1>5 DEF Reads
<1>7. /\ new \in SessionRecords /\ new.pc = "evidence" /\ new.todo = session[s].todo
      /\ new.errors = session[s].errors /\ new.read = read
  <2> HIDE DEF read
  <2> QED
    BY <1>2, <1>6 DEF SessionRecords, Steps
<1>8. session' = [session EXCEPT ![s] = new]
  <2>1. session' = [session EXCEPT ![s].pc = "evidence", ![s].read.runs = runs]
    BY DEF ReadRuns, runs
  <2> QED
    BY <1>2, <2>1 DEF SessionRecords
<1> HIDE DEF new, read
<1>9. Stepped(s) /\ session'[s] = new
  BY <1>7, <1>8, SteppedIs
<1> QED
  BY <1>1, <1>4, <1>6, <1>7, <1>9 DEF runs

\* The sources answer in their types, and a Phoenix that fails shows no trace.
LEMMA AnswersAre ==
  ASSUME SourcesOK, NEW t \in Tasks
  PROVE  /\ PhoenixAnswer(t) \in SUBSET Traces /\ PhoenixFails \in BOOLEAN
         /\ PhoenixFails => PhoenixAnswer(t) = {}
         /\ GitAnswer \in {"AVAILABLE", "UNKNOWN"} /\ GithubAnswer \in GithubRows
<1>1. up.phoenix \in {"up", "window", "down"} /\ up.github \in {"up", "noauth", "down"}
  BY DEF SourcesOK, SourceStates
<1>2. src[t].runs \in SUBSET Runs
  BY DEF SourcesOK, KanbanTasks
<1>3. TracesOf(src[t]) \in SUBSET Traces
  <2>1. \A run \in Runs : [id |-> run.id, calls |-> IF run.ended = None THEN 1 ELSE 2,
                           models |-> TRUE] \in Traces
    BY DEF Runs, Traces
  <2> QED
    BY <1>2, <2>1 DEF TracesOf
<1>4. PhoenixAnswer(t) \in SUBSET Traces
  <2>1. CASE up.phoenix = "up"
    BY <1>3, <2>1 DEF PhoenixAnswer
  <2>2. CASE up.phoenix = "window"
    BY <1>3, <2>2 DEF PhoenixAnswer
  <2>3. CASE up.phoenix = "down"
    BY <2>3 DEF PhoenixAnswer
  <2> QED
    BY <1>1, <2>1, <2>2, <2>3
<1>5. PhoenixFails => PhoenixAnswer(t) = {}
  BY DEF PhoenixFails, PhoenixAnswer
<1>6. GithubAnswer \in GithubRows
  BY <1>1 DEF GithubAnswer, GithubRows
<1> QED
  BY <1>4, <1>5, <1>6 DEF PhoenixFails, GitAnswer

LEMMA ReadEvidenceIs ==
  ASSUME PassesOK, SourcesOK, NEW s \in Sessions, ReadEvidence(s),
         session[s].read.task \in TaskRows
  PROVE  /\ Stepped(s) /\ session[s].pc = "evidence"
         /\ session'[s].pc = "write" /\ session'[s].errors = session[s].errors
         /\ session'[s].todo = session[s].todo
         /\ session'[s].read.task = session[s].read.task
         /\ session'[s].read.runs = session[s].read.runs
         /\ session'[s].read.events = src[session[s].read.task.id].events
         /\ session'[s].read.failed => session'[s].read.traces = {}
         /\ session'[s].read.github \in GithubRows
<1> DEFINE t == session[s].read.task.id
           read == [session[s].read EXCEPT !.events = src[t].events,
                                           !.traces = PhoenixAnswer(t),
                                           !.failed = PhoenixFails,
                                           !.git = GitAnswer,
                                           !.github = GithubAnswer]
           new == [session[s] EXCEPT !.pc = "write", !.read = read]
<1>1. session[s].pc = "evidence"
  BY DEF ReadEvidence
<1>2. session[s] \in SessionRecords /\ session \in [Sessions -> SessionRecords]
  BY DEF PassesOK
<1>3. t \in Tasks
  BY DEF TaskRows
<1>4. src[t].events \in Seq(Events)
  BY <1>3 DEF SourcesOK, KanbanTasks
<1>5. session[s].read \in Reads
  BY <1>2 DEF SessionRecords
<1>6. /\ read \in Reads /\ read.task = session[s].read.task
      /\ read.runs = session[s].read.runs /\ read.events = src[t].events
      /\ read.failed = PhoenixFails /\ read.traces = PhoenixAnswer(t)
      /\ read.github = GithubAnswer
  <2>1. /\ PhoenixAnswer(t) \in SUBSET Traces /\ PhoenixFails \in BOOLEAN
        /\ GitAnswer \in {"AVAILABLE", "UNKNOWN"} /\ GithubAnswer \in GithubRows
    BY <1>3, AnswersAre
  <2> QED
    BY <1>4, <1>5, <2>1 DEF Reads
<1>7. /\ new \in SessionRecords /\ new.pc = "write" /\ new.todo = session[s].todo
      /\ new.errors = session[s].errors /\ new.read = read
  <2> HIDE DEF read
  <2> QED
    BY <1>2, <1>6 DEF SessionRecords, Steps
<1>8. session' = [session EXCEPT ![s] = new]
  BY <1>2 DEF ReadEvidence
<1>9. (PhoenixFails => PhoenixAnswer(t) = {}) /\ GithubAnswer \in GithubRows
  BY <1>3, AnswersAre
<1> HIDE DEF new, read
<1>10. Stepped(s) /\ session'[s] = new
  BY <1>7, <1>8, SteppedIs
<1> QED
  BY <1>1, <1>6, <1>7, <1>9, <1>10

\* A task that is done with, written or given up.
LEMMA TaskLeft ==
  ASSUME PassesOK, NEW s \in Sessions, NEW n \in Nat,
         session' = [session EXCEPT ![s].pc = "task", ![s].read = NothingRead,
                                    ![s].errors = n]
  PROVE  /\ Stepped(s) /\ session'[s].pc = "task" /\ session'[s].errors = n
         /\ session'[s].todo = session[s].todo /\ session'[s].read = NothingRead
<1> DEFINE new == [session[s] EXCEPT !.pc = "task", !.read = NothingRead, !.errors = n]
<1>1. session[s] \in SessionRecords /\ session \in [Sessions -> SessionRecords]
  BY DEF PassesOK
<1>2. /\ new \in SessionRecords /\ new.pc = "task" /\ new.todo = session[s].todo
      /\ new.errors = n /\ new.read = NothingRead
  BY <1>1, NothingIs DEF SessionRecords, Steps
<1>3. session' = [session EXCEPT ![s] = new]
  BY <1>1
<1> HIDE DEF new
<1> QED
  BY <1>2, <1>3, SteppedIs

LEMMA TaskFailsIs ==
  ASSUME PassesOK, SourcesOK, NEW s \in Sessions, TaskFails(s)
  PROVE  /\ Stepped(s) /\ session[s].pc # "idle" /\ session'[s].pc = "task"
         /\ session'[s].errors = session[s].errors + 1 /\ session[s].errors \in Nat
         /\ session'[s].read = NothingRead
         /\ SourcesOK' /\ left'.life = left.life
<1>1. session[s] \in SessionRecords /\ session \in [Sessions -> SessionRecords]
        /\ session[s].errors \in Nat
  BY DEF PassesOK, SessionRecords
<1>2. session' = [session EXCEPT ![s].pc = "task", ![s].read = NothingRead,
                                 ![s].errors = session[s].errors + 1]
  <2>1. session' = [session EXCEPT ![s].pc = "task", ![s].read = NothingRead,
                                   ![s].errors = @ + 1]
    BY DEF TaskFails
  <2> QED
    BY <1>1, <2>1 DEF SessionRecords
<1>3. session[s].errors + 1 \in Nat
  BY <1>1
<1>4. /\ Stepped(s) /\ session'[s].pc = "task"
      /\ session'[s].errors = session[s].errors + 1 /\ session'[s].read = NothingRead
  BY <1>2, <1>3, TaskLeft
<1>5. session[s].pc # "idle"
  BY DEF TaskFails
<1>6. left \in WorldRecords /\ left.faults > 0 /\ left' = [left EXCEPT !.faults = @ - 1]
        /\ UNCHANGED <<src, clock, up>>
  BY DEF SourcesOK, TaskFails, sourceVars
<1>7. left' \in WorldRecords /\ left'.life = left.life
  BY <1>6, WorldSpent DEF WorldRecords
<1> QED
  BY <1>1, <1>4, <1>5, <1>6, <1>7 DEF SourcesOK

\* A pass that ends, by itself or by a crash.
LEMMA PassLeft ==
  ASSUME PassesOK, NEW s \in Sessions, session' = [session EXCEPT ![s] = Idle]
  PROVE  Stepped(s) /\ session'[s] = Idle
BY NothingIs, SteppedIs

LEMMA CrashIs ==
  ASSUME SourcesOK, NEW s \in Sessions, Crash(s)
  PROVE  SourcesOK' /\ left'.life = left.life
<1>1. left \in WorldRecords /\ left.faults > 0 /\ left' = [left EXCEPT !.faults = @ - 1]
        /\ UNCHANGED <<src, clock, up>>
  BY DEF SourcesOK, Crash, sourceVars
<1>2. left' \in WorldRecords /\ left'.life = left.life
  BY <1>1, WorldSpent DEF WorldRecords
<1> QED
  BY <1>1, <1>2 DEF SourcesOK

-----------------------------------------------------------------------------
(* The write. *)

\* The usage and the traces keep their types.
LEMMA ModelsAre ==
  ASSUME NEW traces \in SUBSET Traces
  PROVE  Models(traces) \in SUBSET Nat /\ {trace.id : trace \in traces} \in SUBSET Nat
BY DEF Models, Traces

LEMMA UpsertTracesIs ==
  ASSUME NEW old \in SUBSET Traces, NEW new \in SUBSET Traces
  PROVE  /\ UpsertTraces(old, new) \in SUBSET Traces
         /\ {trace.id : trace \in new} \subseteq {trace.id : trace \in UpsertTraces(old, new)}
<1>1. \A trace \in Traces : /\ [trace EXCEPT !.models = FALSE] \in Traces
                            /\ [trace EXCEPT !.models = FALSE].id = trace.id
  BY DEF Traces
<1>2. UpsertTraces(old, new) \in SUBSET Traces
  BY <1>1 DEF UpsertTraces
<1>3. \A trace \in new : [trace EXCEPT !.models = FALSE] \in UpsertTraces(old, new)
  BY DEF UpsertTraces
<1> QED
  BY <1>1, <1>2, <1>3

\* What each statement changes of the tables.
LEMMA UpsertTaskIs ==
  ASSUME NEW tables \in Tables, NEW t \in Tasks, NEW bundle \in Bundles
  PROVE  LET new == UpsertTask(tables, t, bundle) IN
         /\ new \in Tables
         /\ new.taskFacts = [tables.taskFacts EXCEPT ![t] = bundle.task.status]
         /\ new.outcomes = tables.outcomes /\ new.history = tables.history
         /\ new.runFacts = tables.runFacts /\ new.usage = tables.usage
         /\ new.traces = tables.traces /\ new.refs = tables.refs
<1>1. tables.taskFacts \in [Tasks -> TaskStatuses \cup {None}]
  BY DEF Tables
<1>2. bundle.task.status \in TaskStatuses
  BY DEF Bundles, TaskRows
<1>3. [tables.taskFacts EXCEPT ![t] = bundle.task.status] \in [Tasks -> TaskStatuses \cup {None}]
  BY <1>1, <1>2
<1> QED
  BY <1>3 DEF UpsertTask, Tables

LEMMA UpsertSourcesIs ==
  ASSUME NEW tables \in Tables, NEW t \in Tasks, NEW bundle \in Bundles
  PROVE  LET new == UpsertSources(tables, t, bundle) IN
         /\ new \in Tables
         /\ new.taskFacts = tables.taskFacts
         /\ new.outcomes = tables.outcomes /\ new.history = tables.history
         /\ new.runFacts = tables.runFacts /\ new.usage = tables.usage
         /\ new.traces = tables.traces /\ new.refs = tables.refs
<1>1. /\ tables.git \in [Tasks -> {"AVAILABLE", "UNKNOWN", None}]
      /\ tables.github \in [Tasks -> {"AVAILABLE", "BLOCKED_AUTH", "UNKNOWN", None}]
  BY DEF Tables
<1>2. /\ bundle.git \in {"AVAILABLE", "UNKNOWN"}
      /\ bundle.github.state \in {"AVAILABLE", "BLOCKED_AUTH", "UNKNOWN"}
  BY DEF Bundles, GithubRows
<1>3. /\ [tables.git EXCEPT ![t] = bundle.git] \in [Tasks -> {"AVAILABLE", "UNKNOWN", None}]
      /\ [tables.github EXCEPT ![t] = bundle.github.state]
           \in [Tasks -> {"AVAILABLE", "BLOCKED_AUTH", "UNKNOWN", None}]
  BY <1>1, <1>2
<1> QED
  BY <1>3 DEF UpsertSources, Tables

LEMMA ReplaceChildrenIs ==
  ASSUME NEW tables \in Tables, NEW t \in Tasks, NEW bundle \in Bundles
  PROVE  LET new == ReplaceChildren(tables, t, bundle) IN
         /\ new \in Tables
         /\ new.taskFacts = tables.taskFacts
         /\ new.outcomes = tables.outcomes /\ new.history = tables.history
         /\ new.runFacts = [tables.runFacts EXCEPT ![t] = bundle.runs]
         /\ new.traces = [tables.traces EXCEPT ![t] = UpsertTraces(@, bundle.traces)]
         /\ new.refs = [tables.refs EXCEPT ![t] = {trace.id : trace \in bundle.traces}]
<1> DEFINE base == UpsertSources(tables, t, bundle)
           ids == {trace.id : trace \in bundle.traces}
           usage == ReplaceUsage(base.usage[t], bundle.runs, bundle.traces)
           traces == UpsertTraces(base.traces[t], bundle.traces)
<1>1. /\ base \in Tables
      /\ base.taskFacts = tables.taskFacts
      /\ base.outcomes = tables.outcomes /\ base.history = tables.history
      /\ base.runFacts = tables.runFacts /\ base.usage = tables.usage
      /\ base.traces = tables.traces /\ base.refs = tables.refs
  BY UpsertSourcesIs
<1>2. bundle.runs \in SUBSET Runs /\ bundle.traces \in SUBSET Traces
  BY DEF Bundles
<1>3. ids \in SUBSET Nat /\ Models(bundle.traces) \in SUBSET Nat
  BY <1>2, ModelsAre
<1> HIDE DEF base
<1>4. /\ base.runFacts \in [Tasks -> SUBSET Runs] /\ base.usage \in [Tasks -> SUBSET Nat]
      /\ base.traces \in [Tasks -> SUBSET Traces] /\ base.refs \in [Tasks -> SUBSET Nat]
  BY <1>1 DEF Tables
<1>5. usage \in SUBSET Nat
  BY <1>3, <1>4 DEF ReplaceUsage
<1>6. traces \in SUBSET Traces
  BY <1>2, <1>4, UpsertTracesIs
<1>7. ReplaceChildren(tables, t, bundle)
        = [base EXCEPT !.runFacts = [base.runFacts EXCEPT ![t] = bundle.runs],
                       !.usage = [base.usage EXCEPT ![t] = usage],
                       !.traces = [base.traces EXCEPT ![t] = traces],
                       !.refs = [base.refs EXCEPT ![t] = ids]]
  BY <1>1 DEF ReplaceChildren, Tables, base
<1> HIDE DEF ids, usage, traces
<1>8. /\ [base.runFacts EXCEPT ![t] = bundle.runs] \in [Tasks -> SUBSET Runs]
      /\ [base.usage EXCEPT ![t] = usage] \in [Tasks -> SUBSET Nat]
      /\ [base.traces EXCEPT ![t] = traces] \in [Tasks -> SUBSET Traces]
      /\ [base.refs EXCEPT ![t] = ids] \in [Tasks -> SUBSET Nat]
  BY <1>2, <1>3, <1>4, <1>5, <1>6
<1> DEFINE new == ReplaceChildren(tables, t, bundle)
<1>9. /\ new \in Tables
      /\ new.taskFacts = base.taskFacts /\ new.outcomes = base.outcomes
      /\ new.history = base.history
      /\ new.runFacts = [base.runFacts EXCEPT ![t] = bundle.runs]
      /\ new.traces = [base.traces EXCEPT ![t] = traces]
      /\ new.refs = [base.refs EXCEPT ![t] = ids]
  <2> HIDE DEF new
  <2>1. new = [base EXCEPT !.runFacts = [base.runFacts EXCEPT ![t] = bundle.runs],
                       !.usage = [base.usage EXCEPT ![t] = usage],
                       !.traces = [base.traces EXCEPT ![t] = traces],
                       !.refs = [base.refs EXCEPT ![t] = ids]]
    BY <1>7 DEF new
  <2> QED
    BY <1>1, <1>8, <2>1 DEF Tables
<1>10. [base.traces EXCEPT ![t] = traces]
         = [tables.traces EXCEPT ![t] = UpsertTraces(@, bundle.traces)]
  BY <1>1 DEF traces
<1> QED
  BY <1>1, <1>9, <1>10 DEF ids

\* The outcome is in its row, and in the history if it is news.
OutcomeWritten(old, new, t, outcome) ==
  /\ new \in Tables
  /\ new.taskFacts = old.taskFacts /\ new.runFacts = old.runFacts
  /\ new.traces = old.traces /\ new.refs = old.refs
  /\ new.outcomes = [old.outcomes EXCEPT ![t] = outcome]
  /\ \A u \in Tasks : u # t => new.history[u] = old.history[u]
  /\ Differs(old.outcomes[t], outcome) =>
       new.history[t] =
         Append(old.history[t], [final |-> outcome.final, hash |-> outcome.hash])
  /\ ~Differs(old.outcomes[t], outcome) => new.history[t] = old.history[t]

LEMMA WriteOutcomeIs ==
  ASSUME NEW tables \in Tables, NEW t \in Tasks, NEW outcome \in Outcomes
  PROVE  OutcomeWritten(tables, WriteOutcome(tables, t, outcome), t, outcome)
<1> DEFINE row == [final |-> outcome.final, hash |-> outcome.hash]
           rows == IF Differs(tables.outcomes[t], outcome) THEN <<row>> ELSE << >>
           new == WriteOutcome(tables, t, outcome)
<1>1. tables.history \in [Tasks -> Seq(HistoryRows)] /\ tables.history[t] \in Seq(HistoryRows)
        /\ tables.outcomes \in [Tasks -> Outcomes \cup {None}]
  BY DEF Tables
<1>2. row \in HistoryRows
  BY DEF HistoryRows, Outcomes
<1>3. new = [tables EXCEPT !.outcomes[t] = outcome, !.history[t] = @ \o rows]
  BY DEF WriteOutcome
<1> HIDE DEF row, new
<1>4. /\ Differs(tables.outcomes[t], outcome) =>
           tables.history[t] \o rows = Append(tables.history[t], row)
      /\ ~Differs(tables.outcomes[t], outcome) =>
           tables.history[t] \o rows = tables.history[t]
  <2>1. \A history \in Seq(HistoryRows), new_row \in HistoryRows :
          history \o <<new_row>> = Append(history, new_row) /\ history \o << >> = history
    OBVIOUS
  <2>2. CASE Differs(tables.outcomes[t], outcome)
    <3>1. rows = <<row>>
      BY <2>2
    <3> QED
      BY <1>1, <1>2, <2>1, <2>2, <3>1
  <2>3. CASE ~Differs(tables.outcomes[t], outcome)
    <3>1. rows = << >>
      BY <2>3
    <3> QED
      BY <1>1, <1>2, <2>1, <2>3, <3>1
  <2> QED
    BY <2>2, <2>3
<1>5. tables.history[t] \o rows \in Seq(HistoryRows)
  BY <1>1, <1>2, <1>4
<1> HIDE DEF rows
<1>6. new = [tables EXCEPT !.outcomes = [tables.outcomes EXCEPT ![t] = outcome],
                           !.history = [tables.history EXCEPT ![t] = tables.history[t] \o rows]]
  BY <1>1, <1>3 DEF Tables
<1>7. /\ [tables.outcomes EXCEPT ![t] = outcome] \in [Tasks -> Outcomes \cup {None}]
      /\ [tables.history EXCEPT ![t] = tables.history[t] \o rows] \in [Tasks -> Seq(HistoryRows)]
  BY <1>1, <1>5
<1>8. /\ new \in Tables
      /\ new.taskFacts = tables.taskFacts /\ new.runFacts = tables.runFacts
      /\ new.traces = tables.traces /\ new.refs = tables.refs
      /\ new.outcomes = [tables.outcomes EXCEPT ![t] = outcome]
      /\ new.history = [tables.history EXCEPT ![t] = tables.history[t] \o rows]
  BY <1>6, <1>7 DEF Tables
<1>9. /\ new.history[t] = tables.history[t] \o rows
      /\ \A u \in Tasks : u # t => new.history[u] = tables.history[u]
  BY <1>1, <1>8
<1> QED
  BY <1>4, <1>8, <1>9 DEF row, new, OutcomeWritten

\* What a write leaves: the rows of one task, derived from what was read of it.
Written(s, t, bundle, outcome) ==
  /\ t = session[s].read.task.id /\ t \in Tasks
  /\ bundle \in Bundles /\ Distinct(bundle.runs)
  /\ bundle.runs = session[s].read.runs /\ bundle.events = session[s].read.events
  /\ bundle.traces = RestoreLastGoodTraces(t, session[s].read)
  /\ outcome = DeriveOutcome(t, bundle)
  /\ db' \in Tables
  /\ db'.outcomes = [db.outcomes EXCEPT ![t] = outcome]
  /\ db'.taskFacts = [db.taskFacts EXCEPT ![t] = bundle.task.status]
  /\ db'.runFacts = [db.runFacts EXCEPT ![t] = bundle.runs]
  /\ db'.traces = [db.traces EXCEPT ![t] = UpsertTraces(@, bundle.traces)]
  /\ db'.refs = [db.refs EXCEPT ![t] = {trace.id : trace \in bundle.traces}]
  /\ \A u \in Tasks : u # t => db'.history[u] = db.history[u]
  /\ Differs(db.outcomes[t], outcome) =>
       db'.history[t] = Append(db.history[t], [final |-> outcome.final, hash |-> outcome.hash])
  /\ ~Differs(db.outcomes[t], outcome) => db'.history[t] = db.history[t]

LEMMA MaterializeTaskIs ==
  ASSUME PassesOK, db \in Tables, NEW s \in Sessions, ReadOK(s), MaterializeTask(s)
  PROVE  /\ Stepped(s) /\ session[s].pc = "write" /\ session'[s].pc = "task"
         /\ session'[s].errors = session[s].errors
         /\ session'[s].todo = session[s].todo /\ session'[s].read = NothingRead
         /\ session[s].read.task.id \in Tasks
         /\ \/ UNCHANGED db /\ db.outcomes[session[s].read.task.id] # None
            \/ \E t \in Tasks, bundle \in Bundles, outcome \in Outcomes :
                 Written(s, t, bundle, outcome)
<1> DEFINE read == session[s].read
           t == read.task.id
           bundle == Bundle(t, read)
           outcome == DeriveOutcome(t, bundle)
<1>1. session[s].pc = "write"
  BY DEF MaterializeTask
<1>2. session[s] \in SessionRecords /\ session \in [Sessions -> SessionRecords]
        /\ session[s].errors \in Nat /\ read \in Reads
  BY DEF PassesOK, SessionRecords
<1>3. read.task \in TaskRows /\ read.github \in GithubRows /\ Distinct(read.runs)
  BY <1>1 DEF ReadOK, Reading
<1>4. t \in Tasks
  BY <1>3 DEF TaskRows
<1>5. RestoreLastGoodTraces(t, read) \in SUBSET Traces
  BY <1>2, <1>4 DEF RestoreLastGoodTraces, Tables, Reads
<1>6. /\ bundle \in Bundles /\ bundle.runs = read.runs /\ bundle.events = read.events
      /\ bundle.traces = RestoreLastGoodTraces(t, read)
  BY <1>2, <1>3, <1>5 DEF Bundle, Bundles, Reads
<1> HIDE DEF bundle
<1>7. outcome \in Outcomes
  BY <1>3, <1>4, <1>6, OutcomeIs
<1>8. /\ Stepped(s) /\ session'[s].pc = "task" /\ session'[s].errors = session[s].errors
      /\ session'[s].todo = session[s].todo /\ session'[s].read = NothingRead
  <2>1. session' = [session EXCEPT ![s].pc = "task", ![s].read = NothingRead,
                                   ![s].errors = session[s].errors]
    <3>1. session' = [session EXCEPT ![s].pc = "task", ![s].read = NothingRead]
      BY DEF MaterializeTask
    <3> QED
      BY <1>2, <3>1 DEF SessionRecords
  <2> QED
    BY <1>2, <2>1, TaskLeft
<1> HIDE DEF outcome
<1>9. db' = IF IsUnchanged(s, t, outcome) THEN db
            ELSE WriteOutcome(ReplaceChildren(UpsertTask(db, t, bundle), t, bundle), t, outcome)
  BY DEF MaterializeTask, bundle, outcome
<1>10. CASE IsUnchanged(s, t, outcome)
  <2>1. db' = db /\ db.outcomes[t] # None
    BY <1>9, <1>10 DEF IsUnchanged
  <2> QED
    BY <1>1, <1>4, <1>8, <2>1
<1>11. CASE ~IsUnchanged(s, t, outcome)
  <2> DEFINE one == UpsertTask(db, t, bundle)
             two == ReplaceChildren(one, t, bundle)
  <2>1. /\ one \in Tables
        /\ one.taskFacts = [db.taskFacts EXCEPT ![t] = bundle.task.status]
        /\ one.outcomes = db.outcomes /\ one.history = db.history
        /\ one.runFacts = db.runFacts
        /\ one.traces = db.traces /\ one.refs = db.refs
    BY <1>4, <1>6, UpsertTaskIs
  <2> HIDE DEF one
  <2>2. /\ two \in Tables
        /\ two.taskFacts = one.taskFacts
        /\ two.outcomes = one.outcomes /\ two.history = one.history
        /\ two.runFacts = [one.runFacts EXCEPT ![t] = bundle.runs]
        /\ two.traces = [one.traces EXCEPT ![t] = UpsertTraces(@, bundle.traces)]
        /\ two.refs = [one.refs EXCEPT ![t] = {trace.id : trace \in bundle.traces}]
    BY <1>4, <1>6, <2>1, ReplaceChildrenIs
  <2>3. db' = WriteOutcome(two, t, outcome)
    BY <1>9, <1>11 DEF one
  <2> HIDE DEF two
  <2> DEFINE new == WriteOutcome(two, t, outcome)
             row == [final |-> outcome.final, hash |-> outcome.hash]
  <2>4. OutcomeWritten(two, new, t, outcome)
    <3>1. two \in Tables
      BY <2>2
    <3> QED
      BY <1>4, <1>7, <3>1, WriteOutcomeIs
  <2> HIDE DEF new
  <2>7. db' = new
    BY <2>3 DEF new
  <2>8. two.outcomes = db.outcomes /\ two.history = db.history
    BY <2>1, <2>2
  <2>9. /\ db' \in Tables
        /\ db'.outcomes = [db.outcomes EXCEPT ![t] = outcome]
        /\ db'.taskFacts = [db.taskFacts EXCEPT ![t] = bundle.task.status]
        /\ db'.runFacts = [db.runFacts EXCEPT ![t] = bundle.runs]
        /\ db'.traces = [db.traces EXCEPT ![t] = UpsertTraces(@, bundle.traces)]
        /\ db'.refs = [db.refs EXCEPT ![t] = {trace.id : trace \in bundle.traces}]
    BY <2>1, <2>2, <2>4, <2>7, <2>8 DEF OutcomeWritten
  <2>10. /\ \A u \in Tasks : u # t => db'.history[u] = db.history[u]
         /\ Differs(db.outcomes[t], outcome) => db'.history[t] = Append(db.history[t], row)
         /\ ~Differs(db.outcomes[t], outcome) => db'.history[t] = db.history[t]
    BY <2>4, <2>7, <2>8 DEF OutcomeWritten
  <2>5. outcome = DeriveOutcome(t, bundle)
    BY DEF outcome
  <2>6. Written(s, t, bundle, outcome)
    BY <1>3, <1>4, <1>6, <2>5, <2>9, <2>10, Zenon DEF Written
  <2> QED
    BY <1>1, <1>4, <1>6, <1>7, <1>8, <2>6
<1> QED
  BY <1>10, <1>11

-----------------------------------------------------------------------------
(* The invariant is inductive. *)

\* No step takes an event from a task.
Grows == \A t \in Tasks : Len(src[t].events) <= Len(src'[t].events)

\* The initial tables.
LEMMA EmptyTablesAre ==
  /\ EmptyTables \in Tables
  /\ \A t \in Tasks : /\ EmptyTables.outcomes[t] = None /\ EmptyTables.history[t] = << >>
                      /\ EmptyTables.runFacts[t] = {} /\ EmptyTables.refs[t] = {}
<1>1. << >> \in Seq(HistoryRows) /\ {} \in SUBSET Runs /\ {} \in SUBSET Nat /\ {} \in SUBSET Traces
  OBVIOUS
<1>2. EmptyTables \in Tables
  BY <1>1 DEF EmptyTables, Tables
<1> QED
  BY <1>2 DEF EmptyTables

LEMMA InitInvariant ==
  Init => IInv
<1> SUFFICES ASSUME Init PROVE IInv
  OBVIOUS
<1>1. SourcesOK
  <2>1. left \in WorldRecords /\ \A t \in Tasks : Numbered(left.found[t].runs)
    BY WorldAssumption DEF Init
  <2>2. left.found \in [Tasks -> KanbanTasks] /\ left.second \in Nat
    BY <2>1 DEF WorldRecords
  <2>3. AllUp \in SourceStates
    BY DEF AllUp, SourceStates
  <2> QED
    BY <2>1, <2>2, <2>3 DEF Init, SourcesOK
<1>2. /\ holder = None /\ session = [s \in Sessions |-> Idle] /\ db = EmptyTables
      /\ runRow = [s \in Sessions |-> [status |-> "none", targets |-> {}]]
  BY DEF Init
<1>3. PassesOK
  <2>1. [status |-> "none", targets |-> {}] \in RunRows
    BY DEF RunRows
  <2>2. \A s \in Sessions : session[s].pc = "idle" /\ holder # s
    BY <1>2, NothingIs, NoneAssumption
  <2>3. session \in [Sessions -> SessionRecords]
    BY <1>2, NothingIs
  <2> QED
    BY <1>2, <2>1, <2>2, <2>3 DEF PassesOK
<1>4. \A s \in Sessions : ReadOK(s) /\ CoverOK(s)
  <2> TAKE s \in Sessions
  <2>1. session[s].pc = "idle" /\ session[s].read = NothingRead /\ holder # s
    BY <1>2, NothingIs, NoneAssumption
  <2>2. Distinct(session[s].read.runs)
    BY <2>1, NothingIs
  <2> QED
    BY <2>1, <2>2 DEF ReadOK, CoverOK, Reading
<1>5. \A t \in Tasks : RowOK(t) /\ HistoryOK(t)
  BY <1>2, EmptyTablesAre DEF RowOK, HistoryOK
<1>6. SuccessMeansRecorded
  BY <1>2 DEF SuccessMeansRecorded
<1> QED
  BY <1>1, <1>2, <1>3, <1>4, <1>5, <1>6, EmptyTablesAre DEF IInv

\* Logs have lengths.
LEMMA LogLength == \A events \in Seq(Events) : Len(events) \in Nat
OBVIOUS

\* What a session read stays right while its rows stay and the tasks grow.
LEMMA ReadFrame ==
  ASSUME SourcesOK, SourcesOK', PassesOK, NEW s \in Sessions, ReadOK(s), Grows,
         session'[s] = session[s],
         session[s].pc = "write" => db'.outcomes = db.outcomes
  PROVE  ReadOK(s)'
<1> DEFINE read == session[s].read
           t == read.task.id
<1>1. session[s].pc = "write" =>
        /\ t \in Tasks
        /\ read.github \in GithubRows
        /\ read.failed => read.traces = {}
        /\ Len(read.events) <= Len(src[t].events)
        /\ db.outcomes[t] # None => Len(db.outcomes[t].hash.events) <= Len(read.events)
  BY DEF ReadOK, Reading, TaskRows
<1>2. session[s].pc = "write" => Len(read.events) <= Len(src'[t].events)
  <2> SUFFICES ASSUME session[s].pc = "write"
               PROVE  Len(read.events) <= Len(src'[t].events)
    OBVIOUS
  <2>1. Len(read.events) <= Len(src[t].events) /\ Len(src[t].events) <= Len(src'[t].events)
    BY <1>1 DEF Grows
  <2>2. read.events \in Seq(Events) /\ src[t].events \in Seq(Events) /\ src'[t].events \in Seq(Events)
    BY <1>1 DEF PassesOK, SessionRecords, Reads, SourcesOK, KanbanTasks
  <2>3. \A a, b, c \in Nat : a <= b /\ b <= c => a <= c
    OBVIOUS
  <2>4. Len(read.events) \in Nat /\ Len(src[t].events) \in Nat /\ Len(src'[t].events) \in Nat
    BY <2>2, LogLength
  <2> QED
    BY <2>1, <2>3, <2>4
<1>3. (Reading(s) => read.task \in TaskRows) /\ Distinct(read.runs)
  BY DEF ReadOK
<1> QED
  BY <1>1, <1>2, <1>3 DEF ReadOK, Reading

\* So do the rows.
LEMMA RowFrame ==
  ASSUME SourcesOK, SourcesOK', db \in Tables, Grows, NEW t \in Tasks, RowOK(t), HistoryOK(t),
         db'.outcomes[t] = db.outcomes[t], db'.taskFacts[t] = db.taskFacts[t],
         db'.runFacts[t] = db.runFacts[t], db'.refs[t] = db.refs[t],
         db'.traces[t] = db.traces[t], db'.history[t] = db.history[t]
  PROVE  RowOK(t)' /\ HistoryOK(t)'
<1> DEFINE outcome == db.outcomes[t]
<1>1. outcome # None => Len(outcome.hash.events) <= Len(src'[t].events)
  <2> SUFFICES ASSUME outcome # None PROVE Len(outcome.hash.events) <= Len(src'[t].events)
    OBVIOUS
  <2>1. Len(outcome.hash.events) <= Len(src[t].events) /\ Len(src[t].events) <= Len(src'[t].events)
    BY DEF Grows, RowOK
  <2>2. outcome.hash.events \in Seq(Events)
    BY DEF Tables, Outcomes, Hashes
  <2>3. src[t].events \in Seq(Events) /\ src'[t].events \in Seq(Events)
    BY DEF SourcesOK, KanbanTasks
  <2>4. \A a, b, c \in Nat : a <= b /\ b <= c => a <= c
    OBVIOUS
  <2>5. Len(outcome.hash.events) \in Nat /\ Len(src[t].events) \in Nat /\ Len(src'[t].events) \in Nat
    BY <2>2, <2>3, LogLength
  <2> QED
    BY <2>1, <2>4, <2>5
<1>2. RowOK(t)'
  BY <1>1 DEF RowOK
<1>3. HistoryOK(t)'
  BY DEF HistoryOK
<1> QED
  BY <1>2, <1>3

\* A step of the sources, or a refusal, disturbs nothing that was derived.
LEMMA QuietStep ==
  ASSUME IInv, SourcesOK', Grows, UNCHANGED <<holder, session, db, runRow>>
  PROVE  IInv'
<1>1. SourcesOK /\ PassesOK /\ db \in Tables
  BY DEF IInv
<1>2. PassesOK' /\ db' \in Tables
  BY <1>1 DEF PassesOK
<1>3. \A s \in Sessions : ReadOK(s)'
  BY <1>1, ReadFrame DEF IInv
<1>4. \A s \in Sessions : CoverOK(s)'
  <2> TAKE s \in Sessions
  <2>1. CoverOK(s)
    BY DEF IInv
  <2> QED
    BY <2>1 DEF CoverOK, Reading
<1>5. \A t \in Tasks : RowOK(t)' /\ HistoryOK(t)'
  BY <1>1, RowFrame DEF IInv
<1>6. SuccessMeansRecorded'
  BY DEF IInv, SuccessMeansRecorded
<1> QED
  BY <1>2, <1>3, <1>4, <1>5, <1>6 DEF IInv

\* A pass that has its target before it, in hand or recorded still has it when
\* nothing but sessions moved.
LEMMA CoverFrame ==
  ASSUME PassesOK, PassesOK', NEW s \in Sessions, CoverOK(s),
         session'[s] = session[s], runRow'[s] = runRow[s],
         \A t \in Tasks : db.outcomes[t] # None => db'.outcomes[t] # None
  PROVE  CoverOK(s)'
<1>1. holder' = s => holder = s
  BY DEF PassesOK
<1>2. runRow[s].targets \in SUBSET Tasks
  BY DEF PassesOK, RunRows
<1> QED
  BY <1>1, <1>2 DEF CoverOK, Reading

\* A step of one session that writes nothing disturbs what is its own only.
LEMMA SessionStep ==
  ASSUME IInv, SourcesOK', UNCHANGED <<src, db>>, NEW s \in Sessions, Stepped(s),
         PassesOK', ReadOK(s)', CoverOK(s)',
         \A o \in Sessions : o # s => runRow'[o] = runRow[o],
         runRow'[s].status = "success" => runRow'[s] = runRow[s]
  PROVE  IInv'
<1>1. SourcesOK /\ PassesOK /\ db \in Tables
  BY DEF IInv
<1>2. Grows
  <2>1. \A t \in Tasks : Len(src[t].events) \in Nat
    BY <1>1 DEF SourcesOK, KanbanTasks
  <2> QED
    BY <2>1 DEF Grows
<1>3. \A o \in Sessions : ReadOK(o)' /\ CoverOK(o)'
  <2> TAKE o \in Sessions
  <2>1. CASE o = s
    BY <2>1
  <2>2. CASE o # s
    <3>1. session'[o] = session[o] /\ runRow'[o] = runRow[o] /\ ReadOK(o) /\ CoverOK(o)
      BY <2>2 DEF Stepped, IInv
    <3>2. ReadOK(o)'
      BY <1>1, <1>2, <3>1, ReadFrame
    <3>3. CoverOK(o)'
      BY <1>1, <3>1, CoverFrame
    <3> QED
      BY <3>2, <3>3
  <2> QED
    BY <2>1, <2>2
<1>4. \A t \in Tasks : RowOK(t)' /\ HistoryOK(t)'
  BY <1>1, <1>2, RowFrame DEF IInv
<1>5. SuccessMeansRecorded'
  BY DEF IInv, SuccessMeansRecorded
<1> QED
  BY <1>1, <1>3, <1>4, <1>5 DEF IInv

LEMMA BeginKeeps ==
  ASSUME IInv, NEW s \in Sessions, Begin(s)
  PROVE  IInv'
<1>1. SourcesOK /\ PassesOK
  BY DEF IInv
<1>2. /\ Stepped(s) /\ session[s].pc = "idle" /\ holder = None /\ holder' = s
      /\ session'[s].pc = "task" /\ session'[s].errors = 0
      /\ session'[s].read = NothingRead
      /\ runRow' \in [Sessions -> RunRows]
      /\ runRow'[s].status = "running" /\ runRow'[s].targets = session'[s].todo
      /\ \A o \in Sessions : o # s => runRow'[o] = runRow[o]
      /\ SourcesOK' /\ UNCHANGED <<src, db>>
  BY <1>1, BeginIs DEF sourceVars
<1>3. PassesOK'
  <2>1. \A o \in Sessions : o # s => session[o].pc = "idle"
    BY <1>1, <1>2, NoneAssumption DEF PassesOK
  <2> QED
    BY <1>1, <1>2, <2>1 DEF PassesOK, Stepped
<1>4. ReadOK(s)'
  BY <1>2, NothingIs DEF ReadOK, Reading
<1>5. CoverOK(s)'
  BY <1>2 DEF CoverOK
<1> QED
  BY <1>2, <1>3, <1>4, <1>5, SessionStep

\* A step inside a pass keeps the lock where it is.
LEMMA InsideKeeps ==
  ASSUME PassesOK, NEW s \in Sessions, Stepped(s), session[s].pc # "idle",
         session'[s].pc # "idle", UNCHANGED <<holder, runRow>>
  PROVE  PassesOK'
BY DEF PassesOK, Stepped

LEMMA MissTaskKeeps ==
  ASSUME IInv, NEW s \in Sessions, NEW t \in Tasks, MissTask(s, t)
  PROVE  IInv'
<1>1. SourcesOK /\ PassesOK /\ ReadOK(s) /\ CoverOK(s)
  BY DEF IInv
<1>2. /\ Stepped(s) /\ session[s].pc = "task" /\ t \in Unlisted
      /\ session'[s].pc = "task" /\ session'[s].errors = session[s].errors
      /\ session'[s].todo = session[s].todo \ {t}
      /\ session'[s].read = session[s].read
      /\ UNCHANGED <<src, clock, up, holder, db, runRow, left>>
  BY <1>1, MissTaskIs
<1>3. PassesOK'
  BY <1>1, <1>2, InsideKeeps
<1>4. ReadOK(s)'
  BY <1>1, <1>2 DEF ReadOK, Reading
<1>5. CoverOK(s)'
  BY <1>1, <1>2 DEF CoverOK, Reading
<1>6. SourcesOK'
  BY <1>1, <1>2 DEF SourcesOK
<1> QED
  BY <1>2, <1>3, <1>4, <1>5, <1>6, SessionStep

LEMMA ReadTaskKeeps ==
  ASSUME IInv, NEW s \in Sessions, NEW t \in Tasks, ReadTask(s, t)
  PROVE  IInv'
<1>1. SourcesOK /\ PassesOK /\ ReadOK(s) /\ CoverOK(s)
  BY DEF IInv
<1>2. /\ Stepped(s) /\ session[s].pc = "task"
      /\ session'[s].pc = "runs" /\ session'[s].errors = session[s].errors
      /\ session'[s].todo = session[s].todo \ {t} /\ t \in session[s].todo
      /\ session'[s].read.task \in TaskRows /\ session'[s].read.task.id = t
      /\ Distinct(session'[s].read.runs)
  BY <1>1, ReadTaskIs
<1>3. UNCHANGED <<src, clock, up, holder, db, runRow, left>>
  BY DEF ReadTask, sourceVars
<1>4. PassesOK'
  BY <1>1, <1>2, <1>3, InsideKeeps
<1>5. ReadOK(s)'
  BY <1>2 DEF ReadOK, Reading
<1>6. CoverOK(s)'
  BY <1>1, <1>2, <1>3 DEF CoverOK, Reading
<1>7. SourcesOK'
  BY <1>1, <1>3 DEF SourcesOK
<1> QED
  BY <1>2, <1>3, <1>4, <1>5, <1>6, <1>7, SessionStep

LEMMA ReadRunsKeeps ==
  ASSUME IInv, NEW s \in Sessions, ReadRuns(s)
  PROVE  IInv'
<1>1. SourcesOK /\ PassesOK /\ ReadOK(s) /\ CoverOK(s)
  BY DEF IInv
<1>2. session[s].read.task \in TaskRows
  BY <1>1 DEF ReadRuns, ReadOK, Reading
<1>3. /\ Stepped(s) /\ session[s].pc = "runs"
      /\ session'[s].pc = "evidence" /\ session'[s].errors = session[s].errors
      /\ session'[s].todo = session[s].todo
      /\ session'[s].read.task = session[s].read.task
      /\ Distinct(session'[s].read.runs)
  BY <1>1, <1>2, ReadRunsIs
<1>4. UNCHANGED <<src, clock, up, holder, db, runRow, left>>
  BY DEF ReadRuns, sourceVars
<1>5. PassesOK'
  BY <1>1, <1>3, <1>4, InsideKeeps
<1>6. ReadOK(s)'
  BY <1>2, <1>3 DEF ReadOK, Reading
<1>7. CoverOK(s)'
  BY <1>1, <1>3, <1>4 DEF CoverOK, Reading
<1>8. SourcesOK'
  BY <1>1, <1>4 DEF SourcesOK
<1> QED
  BY <1>3, <1>4, <1>5, <1>6, <1>7, <1>8, SessionStep

LEMMA ReadEvidenceKeeps ==
  ASSUME IInv, NEW s \in Sessions, ReadEvidence(s)
  PROVE  IInv'
<1> DEFINE t == session[s].read.task.id
<1>1. SourcesOK /\ PassesOK /\ ReadOK(s) /\ CoverOK(s)
  BY DEF IInv
<1>2. session[s].read.task \in TaskRows
  BY <1>1 DEF ReadEvidence, ReadOK, Reading
<1>3. /\ Stepped(s) /\ session[s].pc = "evidence"
      /\ session'[s].pc = "write" /\ session'[s].errors = session[s].errors
      /\ session'[s].todo = session[s].todo
      /\ session'[s].read.task = session[s].read.task
      /\ session'[s].read.runs = session[s].read.runs
      /\ session'[s].read.events = src[t].events
      /\ session'[s].read.failed => session'[s].read.traces = {}
      /\ session'[s].read.github \in GithubRows
  BY <1>1, <1>2, ReadEvidenceIs
<1>4. UNCHANGED <<src, clock, up, holder, db, runRow, left>>
  BY DEF ReadEvidence, sourceVars
<1>5. PassesOK'
  BY <1>1, <1>3, <1>4, InsideKeeps
<1>6. t \in Tasks /\ RowOK(t)
  BY <1>2 DEF TaskRows, IInv
<1>7. Len(src[t].events) <= Len(src[t].events)
  <2>1. src[t].events \in Seq(Events)
    BY <1>1, <1>6 DEF SourcesOK, KanbanTasks
  <2> QED
    BY <2>1, LogLength
<1>8. ReadOK(s)'
  <2>1. session'[s].read.task.id = t /\ src' = src /\ db' = db
    BY <1>3, <1>4
  <2>2. Distinct(session'[s].read.runs)
    BY <1>1, <1>3 DEF ReadOK
  <2>3. Len(session'[s].read.events) <= Len(src'[t].events)
    BY <1>3, <1>7, <2>1
  <2>4. db'.outcomes[t] # None =>
          Len(db'.outcomes[t].hash.events) <= Len(session'[s].read.events)
    BY <1>3, <1>6, <2>1 DEF RowOK
  <2> HIDE DEF t
  <2> QED
    BY <1>2, <1>3, <2>1, <2>2, <2>3, <2>4 DEF ReadOK, Reading
<1>9. CoverOK(s)'
  BY <1>1, <1>3, <1>4 DEF CoverOK, Reading
<1>10. SourcesOK'
  BY <1>1, <1>4 DEF SourcesOK
<1> QED
  BY <1>3, <1>4, <1>5, <1>8, <1>9, <1>10, SessionStep

LEMMA TaskFailsKeeps ==
  ASSUME IInv, NEW s \in Sessions, TaskFails(s)
  PROVE  IInv'
<1>1. SourcesOK /\ PassesOK
  BY DEF IInv
<1>2. /\ Stepped(s) /\ session[s].pc # "idle" /\ session'[s].pc = "task"
      /\ session'[s].errors = session[s].errors + 1 /\ session[s].errors \in Nat
      /\ session'[s].read = NothingRead
      /\ SourcesOK'
  BY <1>1, TaskFailsIs
<1>3. UNCHANGED <<src, holder, db, runRow>>
  BY DEF TaskFails, sourceVars
<1>4. PassesOK'
  BY <1>1, <1>2, <1>3, InsideKeeps
<1>5. ReadOK(s)'
  BY <1>2, NothingIs DEF ReadOK, Reading
<1>6. CoverOK(s)'
  <2>1. session'[s].errors # 0
    BY <1>2
  <2> QED
    BY <2>1 DEF CoverOK
<1> QED
  BY <1>2, <1>3, <1>4, <1>5, <1>6, SessionStep

\* The lock is free after a pass, and nobody is in one.
LEMMA ReleaseKeeps ==
  ASSUME PassesOK, NEW s \in Sessions, session' = [session EXCEPT ![s] = Idle],
         holder' = None, session[s].pc # "idle", runRow' \in [Sessions -> RunRows]
  PROVE  PassesOK' /\ Stepped(s) /\ session'[s] = Idle
<1>1. Stepped(s) /\ session'[s] = Idle
  BY PassLeft
<1>2. \A o \in Sessions : session'[o].pc = "idle" /\ holder' # o
  BY <1>1, OneAtWork, NothingIs, NoneAssumption DEF Stepped
<1> QED
  BY <1>1, <1>2 DEF PassesOK, Stepped

LEMMA CrashKeeps ==
  ASSUME IInv, NEW s \in Sessions, Crash(s)
  PROVE  IInv'
<1>1. SourcesOK /\ PassesOK
  BY DEF IInv
<1>2. /\ session' = [session EXCEPT ![s] = Idle] /\ holder' = None
      /\ session[s].pc # "idle" /\ UNCHANGED <<src, db, runRow>>
  BY DEF Crash, sourceVars
<1>3. PassesOK' /\ Stepped(s) /\ session'[s] = Idle
  <2>1. runRow' \in [Sessions -> RunRows]
    BY <1>1, <1>2 DEF PassesOK
  <2> QED
    BY <1>1, <1>2, <2>1, ReleaseKeeps
<1>4. SourcesOK'
  BY <1>1, CrashIs
<1>5. ReadOK(s)'
  BY <1>3, NothingIs DEF ReadOK, Reading
<1>6. CoverOK(s)'
  BY <1>2, NoneAssumption DEF CoverOK
<1> QED
  BY <1>2, <1>3, <1>4, <1>5, <1>6, SessionStep

\* A pass that ends without an error has recorded its targets.
LEMMA FinishKeeps ==
  ASSUME IInv, NEW s \in Sessions, Finish(s)
  PROVE  IInv'
<1>1. SourcesOK /\ PassesOK /\ db \in Tables /\ CoverOK(s)
  BY DEF IInv
<1>2. /\ session' = [session EXCEPT ![s] = Idle] /\ holder' = None
      /\ session[s].pc = "task" /\ session[s].todo = {}
      /\ UNCHANGED <<src, clock, up, left>>
      /\ runRow' = [runRow EXCEPT ![s].status = FinalStatus(s)]
      /\ db' = [db EXCEPT !.checkpoint = s]
  BY DEF Finish, sourceVars
<1>3. /\ db' \in Tables /\ db'.outcomes = db.outcomes /\ db'.history = db.history
      /\ db'.taskFacts = db.taskFacts /\ db'.runFacts = db.runFacts
      /\ db'.traces = db.traces /\ db'.refs = db.refs
  BY <1>1, <1>2 DEF Tables
<1>4. /\ runRow' \in [Sessions -> RunRows]
      /\ runRow'[s].status = FinalStatus(s) /\ runRow'[s].targets = runRow[s].targets
      /\ \A o \in Sessions : o # s => runRow'[o] = runRow[o]
  <2>1. runRow \in [Sessions -> RunRows]
    BY <1>1 DEF PassesOK
  <2>2. FinalStatus(s) \in {"success", "partial"}
    BY DEF FinalStatus
  <2> QED
    BY <1>2, <2>1, <2>2 DEF RunRows
<1>5. PassesOK' /\ Stepped(s) /\ session'[s] = Idle
  BY <1>1, <1>2, <1>4, ReleaseKeeps
<1>6. SourcesOK' /\ Grows
  <2>1. \A t \in Tasks : Len(src[t].events) \in Nat
    BY <1>1 DEF SourcesOK, KanbanTasks
  <2> QED
    BY <1>1, <1>2, <2>1 DEF SourcesOK, Grows
<1>7. \A o \in Sessions : ReadOK(o)'
  <2> TAKE o \in Sessions
  <2>1. CASE o = s
    BY <1>5, <2>1, NothingIs DEF ReadOK, Reading
  <2>2. CASE o # s
    <3>1. session'[o] = session[o] /\ ReadOK(o)
      BY <1>5, <2>2 DEF Stepped, IInv
    <3> QED
      BY <1>1, <1>3, <1>6, <3>1, ReadFrame
  <2> QED
    BY <2>1, <2>2
<1>8. \A o \in Sessions : CoverOK(o)'
  BY <1>2, NoneAssumption DEF CoverOK
<1>9. \A t \in Tasks : RowOK(t)' /\ HistoryOK(t)'
  BY <1>1, <1>3, <1>6, RowFrame DEF IInv
<1>10. SuccessMeansRecorded'
  <2>1. ASSUME runRow'[s].status = "success"
        PROVE  \A t \in runRow'[s].targets \ Unlisted : db'.outcomes[t] # None
    <3>1. session[s].errors = 0 /\ holder = s
      BY <1>1, <1>2, <1>4, <2>1, OneAtWork DEF FinalStatus
    <3> QED
      BY <1>1, <1>2, <1>3, <1>4, <3>1 DEF CoverOK, Reading
  <2> QED
    BY <1>3, <1>4, <2>1 DEF IInv, SuccessMeansRecorded
<1> QED
  BY <1>3, <1>5, <1>6, <1>7, <1>8, <1>9, <1>10 DEF IInv

\* A write records its task, and leaves rows that agree.
LEMMA WriteKeeps ==
  ASSUME IInv, NEW s \in Sessions, ReadOK(s), session[s].pc = "write", src' = src, SourcesOK',
         NEW t \in Tasks, NEW bundle \in Bundles, NEW outcome \in Outcomes,
         Written(s, t, bundle, outcome)
  PROVE  /\ \A u \in Tasks : RowOK(u)' /\ HistoryOK(u)'
         /\ \A u \in Tasks : db.outcomes[u] # None \/ u = t => db'.outcomes[u] # None
         /\ db' \in Tables
<1>1. /\ t = session[s].read.task.id
      /\ Distinct(bundle.runs)
      /\ bundle.events = session[s].read.events
      /\ outcome = DeriveOutcome(t, bundle)
      /\ db' \in Tables
      /\ db'.outcomes = [db.outcomes EXCEPT ![t] = outcome]
      /\ db'.taskFacts = [db.taskFacts EXCEPT ![t] = bundle.task.status]
      /\ db'.runFacts = [db.runFacts EXCEPT ![t] = bundle.runs]
      /\ db'.traces = [db.traces EXCEPT ![t] = UpsertTraces(@, bundle.traces)]
      /\ db'.refs = [db.refs EXCEPT ![t] = {trace.id : trace \in bundle.traces}]
      /\ \A u \in Tasks : u # t => db'.history[u] = db.history[u]
      /\ Differs(db.outcomes[t], outcome) =>
           db'.history[t] =
             Append(db.history[t], [final |-> outcome.final, hash |-> outcome.hash])
      /\ ~Differs(db.outcomes[t], outcome) => db'.history[t] = db.history[t]
  BY DEF Written
<1>2. /\ outcome # None
      /\ outcome.hash.events = bundle.events
      /\ outcome.firstPass = "PASS" => outcome.retries = 0
      /\ outcome.final = "VERIFIED_SUCCESS" => outcome.verification = "PASS"
  <2> DEFINE derived == DeriveOutcome(t, bundle)
  <2>1. Distinct(bundle.runs) /\ outcome = derived
    BY <1>1
  <2>2. /\ derived # None
        /\ derived.hash.events = bundle.events
        /\ derived.firstPass = "PASS" => derived.retries = 0
        /\ derived.final = "VERIFIED_SUCCESS" => derived.verification = "PASS"
    BY <2>1, OutcomeIs
  <2> HIDE DEF derived
  <2> QED
    BY <2>1, <2>2
<1>3. db \in Tables /\ SourcesOK /\ RowOK(t) /\ HistoryOK(t)
  BY DEF IInv
<1>4. /\ db.outcomes \in [Tasks -> Outcomes \cup {None}]
      /\ db.taskFacts \in [Tasks -> TaskStatuses \cup {None}]
      /\ db.runFacts \in [Tasks -> SUBSET Runs] /\ db.history \in [Tasks -> Seq(HistoryRows)]
      /\ db.traces \in [Tasks -> SUBSET Traces] /\ db.refs \in [Tasks -> SUBSET Nat]
  BY <1>3 DEF Tables
<1>5. ASSUME NEW u \in Tasks, u # t PROVE RowOK(u)' /\ HistoryOK(u)'
  <2>1. /\ db'.outcomes[u] = db.outcomes[u] /\ db'.taskFacts[u] = db.taskFacts[u]
        /\ db'.runFacts[u] = db.runFacts[u] /\ db'.refs[u] = db.refs[u]
        /\ db'.traces[u] = db.traces[u] /\ db'.history[u] = db.history[u]
    BY <1>1, <1>4, <1>5
  <2>2. Grows
    <3>1. \A v \in Tasks : Len(src[v].events) \in Nat
      BY <1>3 DEF SourcesOK, KanbanTasks
    <3> QED
      BY <3>1 DEF Grows
  <2> QED
    BY <1>3, <2>1, <2>2, RowFrame DEF IInv
<1>6. RowOK(t)'
  <2>1. /\ db'.outcomes[t] = outcome /\ db'.taskFacts[t] = bundle.task.status
        /\ db'.traces[t] = UpsertTraces(db.traces[t], bundle.traces)
        /\ db'.refs[t] = {trace.id : trace \in bundle.traces}
    BY <1>1, <1>4
  <2>2. bundle.task.status # None
    BY NoneAssumption DEF Bundles, TaskRows
  <2>3. Len(outcome.hash.events) <= Len(src'[t].events)
    BY <1>1, <1>2 DEF ReadOK
  <2>4. db'.refs[t] \subseteq {trace.id : trace \in db'.traces[t]}
    <3>1. bundle.traces \in SUBSET Traces
      BY DEF Bundles
    <3>2. db.traces[t] \in SUBSET Traces
      BY <1>4
    <3>3. {trace.id : trace \in bundle.traces}
            \subseteq {trace.id : trace \in UpsertTraces(db.traces[t], bundle.traces)}
      BY <3>1, <3>2, UpsertTracesIs
    <3> QED
      BY <2>1, <3>3
  <2> QED
    BY <1>2, <2>1, <2>2, <2>3, <2>4 DEF RowOK
<1>7. HistoryOK(t)'
  <2> DEFINE row == [final |-> outcome.final, hash |-> outcome.hash]
             history == db.history[t]
             previous == db.outcomes[t]
  <2>1. history \in Seq(HistoryRows) /\ db'.outcomes[t] = outcome
    BY <1>1, <1>4
  <2>2. /\ previous = None <=> history = << >>
        /\ history # << >> =>
             Last(history) = [final |-> previous.final, hash |-> previous.hash]
        /\ \A i \in 1..(Len(history) - 1) : history[i] # history[i + 1]
    BY <1>3 DEF HistoryOK
  <2>3. CASE Differs(previous, outcome)
    <3>1. db'.history[t] = Append(history, row)
      BY <1>1, <2>3
    <3>2. /\ Append(history, row) # << >>
          /\ Len(Append(history, row)) = Len(history) + 1
          /\ Append(history, row)[Len(history) + 1] = row
          /\ \A i \in 1..Len(history) : Append(history, row)[i] = history[i]
          /\ Len(history) \in Nat
      <4> HIDE DEF history, row
      <4> QED
        BY <2>1
    <3>3. Last(Append(history, row)) = row
      BY <3>2 DEF Last
    <3>4. ASSUME history # << >> PROVE history[Len(history)] # row
      <4>1. previous # None
        BY <2>2, <3>4
      <4>2. previous.final # outcome.final \/ previous.hash # outcome.hash
        BY <2>3, <4>1 DEF Differs
      <4>3. history[Len(history)] = [final |-> previous.final, hash |-> previous.hash]
        BY <2>2, <3>4 DEF Last
      <4> QED
        BY <4>2, <4>3
    <3>5. \A i \in 1..(Len(Append(history, row)) - 1) :
            Append(history, row)[i] # Append(history, row)[i + 1]
      <4> TAKE i \in 1..(Len(Append(history, row)) - 1)
      <4>1. i \in 1..Len(history)
        BY <3>2
      <4>2. CASE i = Len(history)
        <5>1. history # << >>
          BY <4>1, <4>2
        <5> QED
          BY <3>2, <3>4, <4>1, <4>2, <5>1
      <4>3. CASE i # Len(history)
        <5>1. i \in 1..(Len(history) - 1) /\ i + 1 \in 1..Len(history)
          BY <3>2, <4>1, <4>3
        <5> QED
          BY <2>2, <3>2, <4>1, <5>1
      <4> QED
        BY <4>2, <4>3
    <3> HIDE DEF history
    <3> QED
      BY <1>2, <2>1, <3>1, <3>2, <3>3, <3>5 DEF HistoryOK
  <2>4. CASE ~Differs(previous, outcome)
    <3>1. db'.history[t] = history
      BY <1>1, <2>4
    <3>2. previous # None /\ previous.final = outcome.final /\ previous.hash = outcome.hash
      BY <2>4 DEF Differs
    <3> QED
      BY <1>2, <2>1, <2>2, <3>1, <3>2 DEF HistoryOK
  <2> QED
    BY <2>3, <2>4
<1>8. \A u \in Tasks : db.outcomes[u] # None \/ u = t => db'.outcomes[u] # None
  BY <1>1, <1>2, <1>4
<1> QED
  BY <1>1, <1>5, <1>6, <1>7, <1>8

LEMMA MaterializeTaskKeeps ==
  ASSUME IInv, NEW s \in Sessions, MaterializeTask(s)
  PROVE  IInv'
<1> DEFINE t == session[s].read.task.id
<1>1. SourcesOK /\ PassesOK /\ db \in Tables /\ ReadOK(s) /\ CoverOK(s)
  BY DEF IInv
<1>2. /\ Stepped(s) /\ session[s].pc = "write" /\ session'[s].pc = "task"
      /\ session'[s].errors = session[s].errors
      /\ session'[s].todo = session[s].todo /\ session'[s].read = NothingRead
      /\ t \in Tasks
      /\ \/ UNCHANGED db /\ db.outcomes[t] # None
         \/ \E u \in Tasks, bundle \in Bundles, outcome \in Outcomes :
              Written(s, u, bundle, outcome)
  BY <1>1, MaterializeTaskIs
<1>3. UNCHANGED <<src, clock, up, holder, runRow, left>>
  BY DEF MaterializeTask, sourceVars
<1>4. PassesOK'
  BY <1>1, <1>2, <1>3, InsideKeeps
<1>5. SourcesOK' /\ Grows
  <2>1. \A u \in Tasks : Len(src[u].events) \in Nat
    BY <1>1 DEF SourcesOK, KanbanTasks
  <2> QED
    BY <1>1, <1>3, <2>1 DEF SourcesOK, Grows
<1>6. /\ \A u \in Tasks : RowOK(u)' /\ HistoryOK(u)'
      /\ \A u \in Tasks : db.outcomes[u] # None \/ u = t => db'.outcomes[u] # None
      /\ db' \in Tables
  <2>1. CASE UNCHANGED db /\ db.outcomes[t] # None
    BY <1>1, <1>5, <2>1, RowFrame DEF IInv
  <2>2. ASSUME NEW u \in Tasks, NEW bundle \in Bundles, NEW outcome \in Outcomes,
               Written(s, u, bundle, outcome)
        PROVE  /\ \A v \in Tasks : RowOK(v)' /\ HistoryOK(v)'
               /\ \A v \in Tasks : db.outcomes[v] # None \/ v = t => db'.outcomes[v] # None
               /\ db' \in Tables
    <3>1. u = t
      BY <2>2 DEF Written
    <3> QED
      BY <1>1, <1>2, <1>3, <1>5, <2>2, <3>1, WriteKeeps
  <2> QED
    BY <1>2, <2>1, <2>2
<1>7. \A o \in Sessions : o # s => session'[o] = session[o] /\ session[o].pc = "idle"
  BY <1>1, <1>2, OneAtWork DEF Stepped
<1>8. \A o \in Sessions : ReadOK(o)'
  <2> TAKE o \in Sessions
  <2>1. CASE o = s
    BY <1>2, <2>1, NothingIs DEF ReadOK, Reading
  <2>2. CASE o # s
    <3>1. ReadOK(o) /\ session'[o] = session[o] /\ session[o].pc # "write"
      BY <1>7, <2>2 DEF IInv
    <3> QED
      BY <1>1, <1>5, <3>1, ReadFrame
  <2> QED
    BY <2>1, <2>2
<1>9. \A o \in Sessions : CoverOK(o)'
  <2> TAKE o \in Sessions
  <2>1. CASE o = s
    <3>1. runRow[s].targets \in SUBSET Tasks
      BY <1>1 DEF PassesOK, RunRows
    <3> QED
      BY <1>1, <1>2, <1>3, <1>6, <2>1, <3>1 DEF CoverOK, Reading
  <2>2. CASE o # s
    <3>1. session'[o] = session[o] /\ runRow'[o] = runRow[o] /\ CoverOK(o)
      BY <1>3, <1>7, <2>2 DEF IInv
    <3> QED
      BY <1>1, <1>4, <1>6, <3>1, CoverFrame
  <2> QED
    BY <2>1, <2>2
<1>10. SuccessMeansRecorded'
  <2>1. \A o \in Sessions : runRow[o].targets \in SUBSET Tasks
    BY <1>1 DEF PassesOK, RunRows
  <2> QED
    BY <1>3, <1>6, <2>1 DEF IInv, SuccessMeansRecorded
<1> QED
  BY <1>4, <1>5, <1>6, <1>8, <1>9, <1>10 DEF IInv

\* The moves of a task only add to its log.
LEMMA TaskMovesGrows ==
  ASSUME SourcesOK, NEW t \in Tasks, TaskMoves(t)
  PROVE  SourcesOK' /\ Grows
<1>1. Moved(t) /\ SourcesOK'
  BY TaskMovesIs
<1>2. \A u \in Tasks : Len(src[u].events) \in Nat
  BY DEF SourcesOK, KanbanTasks
<1>3. Len(src[t].events) <= Len(src'[t].events)
  BY <1>1, <1>2 DEF Moved
<1>4. \A u \in Tasks : u # t => Len(src[u].events) <= Len(src'[u].events)
  BY <1>1, <1>2 DEF Moved
<1> QED
  BY <1>1, <1>3, <1>4 DEF Grows

\* Every step of the specification keeps the invariant.
LEMMA NextInvariant ==
  IInv /\ [Next]_vars => IInv'
<1> SUFFICES ASSUME IInv, [Next]_vars PROVE IInv'
  OBVIOUS
<1>1. SourcesOK
  BY DEF IInv
<1>2. ASSUME src' = src PROVE Grows
  <2>1. \A u \in Tasks : Len(src[u].events) \in Nat
    BY <1>1 DEF SourcesOK, KanbanTasks
  <2> QED
    BY <1>2, <2>1 DEF Grows
<1>3. ASSUME NEW t \in Tasks, TaskMoves(t) PROVE IInv'
  <2>1. UNCHANGED <<holder, session, db, runRow>>
    BY <1>3 DEF TaskMoves
  <2> QED
    BY <1>1, <1>3, <2>1, TaskMovesGrows, QuietStep
<1>4. CASE SourceFlips
  <2>1. UNCHANGED <<src, holder, session, db, runRow>>
    BY <1>4 DEF SourceFlips
  <2> QED
    BY <1>1, <1>2, <1>4, <2>1, SourceFlipsIs, QuietStep
<1>5. ASSUME NEW s \in Sessions, Locked(s) PROVE IInv'
  <2>1. UNCHANGED <<src, holder, session, db, runRow>>
    BY <1>5 DEF Locked, sourceVars
  <2> QED
    BY <1>1, <1>2, <1>5, <2>1, LockedIs, QuietStep
<1>6. ASSUME NEW s \in Sessions, Continue(s) PROVE IInv'
  BY <1>6, MissTaskKeeps, ReadTaskKeeps, ReadRunsKeeps, ReadEvidenceKeeps,
     MaterializeTaskKeeps, FinishKeeps DEF Continue
<1>7. ASSUME NEW s \in Sessions, Begin(s) \/ TaskFails(s) \/ Crash(s) PROVE IInv'
  BY <1>7, BeginKeeps, TaskFailsKeeps, CrashKeeps
<1>8. CASE UNCHANGED vars
  <2>1. UNCHANGED <<src, clock, up, left, holder, session, db, runRow>>
    BY <1>8 DEF vars, sourceVars
  <2>2. SourcesOK'
    BY <1>1, <2>1 DEF SourcesOK
  <2> QED
    BY <1>2, <2>1, <2>2, QuietStep
<1> QED
  BY <1>3, <1>4, <1>5, <1>6, <1>7, <1>8 DEF Next

\* The inductive invariant is one.
THEOREM Invariant == Spec => []IInv
<1>1. Init => IInv
  BY InitInvariant
<1>2. IInv /\ [Next]_vars => IInv'
  BY NextInvariant
<1> QED
  BY <1>1, <1>2, PTL DEF Spec

\* The derived tables agree with each other and with the record of the passes,
\* for all tasks, sessions and worlds, whatever fails, crashes or is refused:
\* a pass that says success left an outcome for every task that a board has, and
\* nothing is promised of an id that none has
\* (materialize_task, run_materialization; the checks of analytics/quality.py).
THEOREM ConsistentHolds == Spec => []Consistent
<1>1. IInv => Consistent
  <2> SUFFICES ASSUME IInv PROVE Consistent
    OBVIOUS
  <2>1. PassesOK /\ db \in Tables /\ SuccessMeansRecorded
    BY DEF IInv
  <2>2. TypeOK
    BY <2>1 DEF TypeOK, PassesOK, Tables, SessionRecords, Steps, RunRows
  <2>3. HistoryTellsOutcome
    BY DEF IInv, HistoryOK, HistoryTellsOutcome
  <2>4. NoQualityViolation
    BY DEF IInv, RowOK, NoQualityViolation, QualityViolations
  <2> QED
    BY <2>1, <2>2, <2>3, <2>4 DEF Consistent
<1> QED
  BY <1>1, Invariant, PTL

-----------------------------------------------------------------------------
(* The other properties. *)

\* Only a write changes the derived rows of a task.
LEMMA OnlyWritesWrite ==
  ASSUME IInv, Next
  PROVE  \/ \E s \in Sessions : MaterializeTask(s)
         \/ /\ \/ UNCHANGED db
               \/ \E s \in Sessions : Finish(s)
            /\ db'.outcomes = db.outcomes /\ db'.refs = db.refs
<1>1. db \in Tables
  BY DEF IInv
<1>2. ASSUME NEW s \in Sessions, Finish(s)
      PROVE  db'.outcomes = db.outcomes /\ db'.refs = db.refs
  BY <1>1, <1>2 DEF Finish, Tables
<1>3. ASSUME NEW t \in Tasks, TaskMoves(t) PROVE UNCHANGED db
  BY <1>3 DEF TaskMoves
<1>4. CASE SourceFlips
  BY <1>4 DEF SourceFlips
<1>5. ASSUME NEW s \in Sessions,
             \/ Begin(s) \/ Locked(s) \/ TaskFails(s) \/ Crash(s)
             \/ (\E t \in Tasks : MissTask(s, t) \/ ReadTask(s, t)) \/ ReadRuns(s) \/ ReadEvidence(s)
      PROVE  UNCHANGED db
  BY <1>5 DEF Begin, Locked, TaskFails, Crash, MissTask, ReadTask, ReadRuns, ReadEvidence
<1> QED
  BY <1>2, <1>3, <1>4, <1>5 DEF Next, Continue

\* The step of a pass that found Phoenix failing leaves the references there.
LEMMA OutageStep ==
  ASSUME IInv, Next, NEW s \in Sessions, session[s].pc = "write", session[s].read.failed
  PROVE  \A t \in Tasks : db.refs[t] \subseteq db'.refs[t]
<1>1. CASE \E o \in Sessions : MaterializeTask(o)
  <2>1. PICK o \in Sessions : MaterializeTask(o)
    BY <1>1
  <2>2. session[o].pc = "write" /\ PassesOK /\ db \in Tables /\ ReadOK(o)
    BY <2>1 DEF MaterializeTask, IInv
  <2>3. o = s
    BY <2>2, OneAtWork
  <2>4. \/ UNCHANGED db
        \/ \E t \in Tasks, bundle \in Bundles, outcome \in Outcomes :
             Written(s, t, bundle, outcome)
    BY <2>1, <2>2, <2>3, MaterializeTaskIs
  <2>5. ASSUME NEW t \in Tasks, NEW bundle \in Bundles, NEW outcome \in Outcomes,
               Written(s, t, bundle, outcome)
        PROVE  \A u \in Tasks : db.refs[u] \subseteq db'.refs[u]
    <3>1. /\ db'.refs = [db.refs EXCEPT ![t] = {trace.id : trace \in bundle.traces}]
          /\ bundle.traces = RestoreLastGoodTraces(t, session[s].read)
      BY <2>5 DEF Written
    <3>2. db.refs \in [Tasks -> SUBSET Nat]
      BY <2>2 DEF Tables
    <3>3. db.refs[t] \subseteq {trace.id : trace \in db.traces[t]}
      BY DEF IInv, RowOK
    <3>4. db.refs[t] \subseteq {trace.id : trace \in bundle.traces}
      <4>1. CASE db.traces[t] = {}
        BY <3>3, <4>1
      <4>2. CASE db.traces[t] # {}
        <5>1. bundle.traces = db.traces[t]
          BY <3>1, <4>2 DEF RestoreLastGoodTraces
        <5> QED
          BY <3>3, <5>1
      <4> QED
        BY <4>1, <4>2
    <3> QED
      BY <3>1, <3>2, <3>4
  <2> QED
    BY <2>4, <2>5
<1>2. CASE db'.refs = db.refs
  BY <1>2
<1> QED
  BY <1>1, <1>2, OnlyWritesWrite

\* A pass that found Phoenix failing takes no trace away from the evidence of a
\* task (materialize_task restores the last good traces), whoever else runs.
THEOREM OutageKeepsEvidenceHolds == Spec => OutageKeepsEvidence
<1>1. IInv /\ [Next]_vars =>
        [\A s \in Sessions : session[s].pc = "write" /\ session[s].read.failed =>
           \A t \in Tasks : db.refs[t] \subseteq db'.refs[t]]_vars
  BY OutageStep
<1> QED
  BY <1>1, Invariant, PTL DEF Spec, OutageKeepsEvidence

\* The number a row was derived from.
Derived(t) == IF db.outcomes[t] = None THEN 0 ELSE Len(db.outcomes[t].hash.events)

\* The numbers of the abstract table are naturals, a row's no greater than its task's.
LEMMA NumbersAre ==
  ASSUME IInv
  PROVE  \A t \in Tasks : /\ Len(src[t].events) \in Nat /\ Derived(t) \in Nat
                          /\ Derived(t) <= Len(src[t].events)
<1> TAKE t \in Tasks
<1>1. Len(src[t].events) \in Nat
  <2>1. src[t].events \in Seq(Events)
    BY DEF IInv, SourcesOK, KanbanTasks
  <2> QED
    BY <2>1, LogLength
<1>2. CASE db.outcomes[t] = None
  BY <1>1, <1>2 DEF Derived
<1>3. CASE db.outcomes[t] # None
  <2>1. db.outcomes[t].hash.events \in Seq(Events)
    BY <1>3 DEF IInv, Tables, Outcomes, Hashes
  <2>2. Len(db.outcomes[t].hash.events) <= Len(src[t].events)
    BY <1>3 DEF IInv, RowOK
  <2> QED
    BY <1>1, <1>3, <2>1, <2>2, LogLength DEF Derived
<1> QED
  BY <1>2, <1>3

\* The refined initial states are initial states of the table.
LEMMA TableInitially ==
  ASSUME Init
  PROVE  Table!TableInit
<1>1. \A t \in Tasks : Len(src[t].events) \in Nat /\ db.outcomes[t] = None
  BY InitInvariant, NumbersAre, EmptyTablesAre DEF Init
<1> QED
  BY <1>1 DEF Table!TableInit

\* A write publishes an outcome of its task, no older than the last.
LEMMA WritePublishes ==
  ASSUME IInv, NEW s \in Sessions, session[s].pc = "write", src' = src,
         NEW t \in Tasks, NEW bundle \in Bundles, NEW outcome \in Outcomes,
         Written(s, t, bundle, outcome)
  PROVE  Table!Publish(t)
<1> DEFINE n == Len(bundle.events)
<1>1. /\ t = session[s].read.task.id /\ bundle.events = session[s].read.events
      /\ Distinct(bundle.runs) /\ outcome = DeriveOutcome(t, bundle)
      /\ db'.outcomes = [db.outcomes EXCEPT ![t] = outcome]
  BY DEF Written
<1>2. db.outcomes \in [Tasks -> Outcomes \cup {None}]
  BY DEF IInv, Tables
<1>3. outcome # None /\ outcome.hash.events = bundle.events
  <2> DEFINE derived == DeriveOutcome(t, bundle)
  <2>1. Distinct(bundle.runs) /\ outcome = derived
    BY <1>1
  <2>2. derived # None /\ derived.hash.events = bundle.events
    BY <2>1, OutcomeIs
  <2> HIDE DEF derived
  <2> QED
    BY <2>1, <2>2
<1>4. ReadOK(s)
  BY DEF IInv
<1>5. /\ n <= Len(src[t].events)
      /\ db.outcomes[t] # None => Len(db.outcomes[t].hash.events) <= n
  BY <1>1, <1>4 DEF ReadOK
<1>6. n \in Nat
  BY LogLength DEF Bundles
<1>7. n \in Derived(t)..Len(src[t].events)
  <2>1. Derived(t) \in Nat /\ Len(src[t].events) \in Nat
    BY NumbersAre
  <2>2. Derived(t) <= n
    BY <1>5, <1>6 DEF Derived
  <2> QED
    BY <1>5, <1>6, <2>1, <2>2
<1>8. [u \in Tasks |-> IF db'.outcomes[u] = None THEN 0 ELSE Len(db'.outcomes[u].hash.events)]
        = [[u \in Tasks |-> Derived(u)] EXCEPT ![t] = n]
  <2>1. \A u \in Tasks : u # t => db'.outcomes[u] = db.outcomes[u]
    BY <1>1, <1>2
  <2>2. db'.outcomes[t] = outcome
    BY <1>1, <1>2
  <2> QED
    BY <1>3, <2>1, <2>2 DEF Derived
<1>9. [u \in Tasks |-> Len(src'[u].events)] = [u \in Tasks |-> Len(src[u].events)]
  OBVIOUS
<1> HIDE DEF n
<1> QED
  BY <1>7, <1>8, <1>9 DEF Table!Publish, Derived

\* A move of a task is one more event of it.
LEMMA MoveChanges ==
  ASSUME IInv, NEW t \in Tasks, TaskMoves(t)
  PROVE  Table!TaskChanges(t)
<1>1. Moved(t) /\ db' = db
  BY TaskMovesIs DEF IInv, TaskMoves
<1>2. \A u \in Tasks : u # t => src'[u] = src[u]
  BY <1>1 DEF Moved
<1>3. Len(src'[t].events) = Len(src[t].events) + 1
  BY <1>1 DEF Moved
<1>4. [u \in Tasks |-> Len(src'[u].events)]
        = [[u \in Tasks |-> Len(src[u].events)] EXCEPT ![t] = @ + 1]
  BY <1>2, <1>3
<1> QED
  BY <1>1, <1>4 DEF Table!TaskChanges

\* Every step is a step of the table or a stutter.
LEMMA TableSteps ==
  ASSUME IInv, [Next]_vars
  PROVE  [Table!TableNext]_Table!tableVars
<1>1. ASSUME NEW t \in Tasks, TaskMoves(t) PROVE Table!TableNext
  BY <1>1, MoveChanges DEF Table!TableNext
<1>2. ASSUME src' = src, db'.outcomes = db.outcomes PROVE UNCHANGED Table!tableVars
  BY <1>2 DEF Table!tableVars
<1>3. ASSUME NEW s \in Sessions, MaterializeTask(s)
      PROVE  Table!TableNext \/ UNCHANGED Table!tableVars
  <2>1. session[s].pc = "write" /\ src' = src /\ PassesOK /\ db \in Tables /\ ReadOK(s)
    BY <1>3 DEF MaterializeTask, sourceVars, IInv
  <2>2. \/ UNCHANGED db
        \/ \E t \in Tasks, bundle \in Bundles, outcome \in Outcomes :
             Written(s, t, bundle, outcome)
    BY <1>3, <2>1, MaterializeTaskIs
  <2>3. CASE UNCHANGED db
    BY <1>2, <2>1, <2>3
  <2>4. ASSUME NEW t \in Tasks, NEW bundle \in Bundles, NEW outcome \in Outcomes,
               Written(s, t, bundle, outcome)
        PROVE  Table!TableNext
    BY <2>1, <2>4, WritePublishes DEF Table!TableNext
  <2> QED
    BY <2>2, <2>3, <2>4
<1>4. CASE Next
  <2>1. ASSUME db'.outcomes = db.outcomes, ~\E t \in Tasks : TaskMoves(t)
        PROVE  UNCHANGED Table!tableVars
    <3>1. src' = src
      BY <1>4, <2>1 DEF Next, Continue, SourceFlips, Begin, Locked, TaskFails, Crash,
                        MissTask, ReadTask, ReadRuns, ReadEvidence, MaterializeTask, Finish, sourceVars
    <3> QED
      BY <1>2, <2>1, <3>1
  <2> QED
    BY <1>1, <1>3, <1>4, <2>1, OnlyWritesWrite
<1>5. CASE UNCHANGED vars
  BY <1>2, <1>5 DEF vars, sourceVars
<1> QED
  BY <1>4, <1>5

\* The materializer implements the table the layers above rely on: a row never
\* goes back to an older state of its task, however long a pass took and
\* whatever moved, failed or died while it was reading.
THEOREM ImplementsTableHolds == Spec => ImplementsTable
<1>1. Init => Table!TableInit
  BY TableInitially
<1>2. IInv /\ [Next]_vars => [Table!TableNext]_Table!tableVars
  BY TableSteps
<1> QED
  BY <1>1, <1>2, Invariant, PTL DEF Spec, ImplementsTable, Table!TableSpec

-----------------------------------------------------------------------------
(* A first pass that was decided stays. *)

\* The runs a board writes qualify unless they are synthetic.
LEMMA QualifiesUnlessSynthetic ==
  ASSUME NEW runs \in SUBSET Runs, NEW now \in Nat, AsWritten(runs, now),
         NEW run \in runs, NEW events
  PROVE  IsQualifyingRun(run, events) <=> ~IsSyntheticRun(run)
<1>1. run.started \in Nat /\ (run.ended = None => run.pid)
  BY DEF AsWritten
<1>2. run.started # None
  BY <1>1, NoneAssumption
<1> QED
  BY <1>1, <1>2 DEF IsQualifyingRun, IsSyntheticRun

\* An open run says nothing.
LEMMA OpenRunSaysNothing ==
  ASSUME NEW runs \in SUBSET Runs, NEW now \in Nat, AsWritten(runs, now),
         NEW run \in runs, run.ended = None
  PROVE  ~RunIsSuccess(run) /\ ~RunIsFailure(run)
BY DEF AsWritten, RunIsSuccess, RunIsFailure, FailureOutcomes

\* The rules find the first pass the runs are settled in, and no other.
LEMMA FirstPassIs ==
  ASSUME NEW runs \in SUBSET Runs, Distinct(runs), NEW now \in Nat, AsWritten(runs, now),
         NEW events, NEW verdict \in {"PASS", "FAIL"}
  PROVE  FirstPass(Qualifying(runs, events)) = verdict <=> SettledIn(runs, verdict)
<1> DEFINE qualifying == Qualifying(runs, events)
           those == {run \in runs : IsQualifyingRun(run, events)}
<1>1. /\ qualifying \in Seq(Runs)
      /\ \A i \in DOMAIN qualifying : qualifying[i] \in those
      /\ qualifying = << >> <=> those = {}
      /\ qualifying # << >> =>
           \A run \in runs : IsQualifyingRun(run, events) => StartsBefore(qualifying[1], run)
  BY QualifyingAre
<1> HIDE DEF qualifying
<1>2. qualifying # << >> => qualifying[1] \in those
  <2>1. qualifying # << >> => 1 \in DOMAIN qualifying
    BY <1>1
  <2> QED
    BY <1>1, <2>1
<1>3. ASSUME FirstPass(qualifying) = verdict
      PROVE  SettledIn(runs, verdict)
  <2> DEFINE first == qualifying[1]
  <2>1. qualifying # << >>
    BY <1>3 DEF FirstPass
  <2>2. Says(first, verdict)
    BY <1>3, <2>1 DEF FirstPass, Says
  <2>3. first \in runs /\ IsQualifyingRun(first, events)
    BY <1>2, <2>1
  <2>4. first.ended # None
    BY <2>2, <2>3, OpenRunSaysNothing DEF Says
  <2>5. first.started # first.ended
    BY <2>3, <2>4, QualifiesUnlessSynthetic, NoneAssumption DEF IsSyntheticRun, AsWritten
  <2>6. ASSUME NEW run \in runs, StartsBefore(run, first)
        PROVE  run = first \/ IsSyntheticRun(run)
    <3>1. CASE IsSyntheticRun(run)
      BY <3>1
    <3>2. CASE ~IsSyntheticRun(run)
      <4>1. StartsBefore(first, run)
        BY <1>1, <2>1, <3>2, QualifiesUnlessSynthetic
      <4>2. run.id = first.id
        BY <2>3, <2>6, <4>1, StartsBeforeOrders
      <4> QED
        BY <2>3, <4>2 DEF Distinct
    <3> QED
      BY <3>1, <3>2
  <2> HIDE DEF first
  <2> QED
    BY <2>2, <2>3, <2>4, <2>5, <2>6 DEF SettledIn
<1>4. ASSUME SettledIn(runs, verdict)
      PROVE  FirstPass(qualifying) = verdict
  <2>1. PICK first \in runs :
          /\ first.ended # None /\ first.started # first.ended
          /\ Says(first, verdict)
          /\ \A run \in runs : StartsBefore(run, first) => run = first \/ IsSyntheticRun(run)
    BY <1>4 DEF SettledIn
  <2>2. IsQualifyingRun(first, events)
    BY <2>1, QualifiesUnlessSynthetic DEF IsSyntheticRun
  <2>3. qualifying # << >>
    BY <1>1, <2>2
  <2>4. StartsBefore(qualifying[1], first)
    BY <1>1, <2>2, <2>3
  <2>5. qualifying[1] \in runs /\ ~IsSyntheticRun(qualifying[1])
    BY <1>2, <2>3, QualifiesUnlessSynthetic
  <2>6. qualifying[1] = first
    BY <2>1, <2>4, <2>5
  <2> QED
    BY <2>1, <2>3, <2>6, SuccessIsNoFailure DEF FirstPass, Says
<1> QED
  BY <1>3, <1>4 DEF qualifying

\* What the clock allows it goes on to allow.
LEMMA WrittenLater ==
  ASSUME NEW runs, NEW now \in Nat, NEW later \in Nat, now <= later, AsWritten(runs, now)
  PROVE  AsWritten(runs, later)
<1>1. \A run \in runs : run.started \in Nat /\ run.started <= now
  BY Zenon DEF AsWritten
<1>2. \A run \in runs : run.started \in Nat /\ run.started <= later
  BY <1>1
<1> QED
  BY <1>2, Zenon DEF AsWritten

\* A board goes on writing runs as it does.
LEMMA WrittenMoves ==
  ASSUME SourcesOK, NEW t \in Tasks, Moved(t), AsWritten(src[t].runs, clock)
  PROVE  AsWritten(src'[t].runs, clock')
<1>1. clock \in Nat /\ clock' \in Nat /\ clock <= clock'
  BY DEF SourcesOK, Moved
<1>2. AsWritten(src[t].runs, clock')
  BY <1>1, WrittenLater
<1>3. ASSUME NEW new \in Runs, src'[t].runs = src[t].runs \cup {new}, AsWritten({new}, clock)
      PROVE  AsWritten(src'[t].runs, clock')
  <2>1. AsWritten({new}, clock')
    BY <1>1, <1>3, WrittenLater
  <2> QED
    BY <1>2, <1>3, <2>1 DEF AsWritten
<1>4. ASSUME NEW run \in src[t].runs, NEW ended \in Runs,
             src'[t].runs = (src[t].runs \ {run}) \cup {ended},
             ended.ended \in Nat, ended.started = run.started
      PROVE  AsWritten(src'[t].runs, clock')
  <2>1. ended.started \in Nat /\ ended.started <= clock' /\ ended.ended # None
    BY <1>2, <1>4, NoneAssumption DEF AsWritten
  <2> QED
    BY <1>2, <1>4, <2>1 DEF AsWritten
<1> QED
  BY <1>2, <1>3, <1>4 DEF Moved, RunsMove

\* Runs that are settled stay settled.
LEMMA SettledMoves ==
  ASSUME SourcesOK, NEW t \in Tasks, Moved(t), AsWritten(src[t].runs, clock),
         NEW verdict, SettledIn(src[t].runs, verdict)
  PROVE  SettledIn(src'[t].runs, verdict)
<1>1. PICK first \in src[t].runs :
        /\ first.ended # None /\ first.started # first.ended
        /\ Says(first, verdict)
        /\ \A run \in src[t].runs :
             StartsBefore(run, first) => run = first \/ IsSyntheticRun(run)
  BY DEF SettledIn
<1>2. src[t].runs \in SUBSET Runs /\ Numbered(src[t].runs) /\ clock \in Nat
  BY DEF SourcesOK, KanbanTasks
<1>3. CASE src'[t].runs = src[t].runs
  BY <1>3
<1>4. ASSUME NEW new \in Runs, src'[t].runs = src[t].runs \cup {new},
             new.id = Cardinality(src[t].runs) + 1, new.started = clock
      PROVE  SettledIn(src'[t].runs, verdict)
  <2>1. Cardinality(src[t].runs) \in Nat /\ first.id \in 1..Cardinality(src[t].runs)
    BY <1>2, FS_CardinalityType DEF Numbered
  <2>2. first.started \in Nat /\ first.started <= clock
    BY DEF AsWritten
  <2>3. ~StartsBefore(new, first)
    <3>1. new.started # None /\ first.started # None
      BY <1>2, <1>4, <2>2, NoneAssumption
    <3>2. ~(new.started < first.started) /\ ~(new.id <= first.id)
      BY <1>2, <1>4, <2>1, <2>2
    <3> QED
      BY <3>1, <3>2 DEF StartsBefore
  <2> QED
    BY <1>1, <1>4, <2>3 DEF SettledIn
<1>5. ASSUME NEW run \in src[t].runs, NEW ended \in Runs,
             src'[t].runs = (src[t].runs \ {run}) \cup {ended},
             run.ended = None, ended.id = run.id, ended.started = run.started
      PROVE  SettledIn(src'[t].runs, verdict)
  <2>1. run # first /\ ~IsSyntheticRun(run)
    BY <1>1, <1>5 DEF IsSyntheticRun
  <2>2. ~StartsBefore(run, first)
    BY <1>1, <2>1
  <2>3. ~StartsBefore(ended, first)
    BY <1>5, <2>2 DEF StartsBefore
  <2>4. first \in src'[t].runs
    BY <1>5, <2>1
  <2> QED
    BY <1>1, <1>5, <2>3, <2>4 DEF SettledIn
<1> QED
  BY <1>3, <1>4, <1>5 DEF Moved, RunsMove

\* A task has no more runs than it may have had.
LEMMA RunsCountMoves ==
  ASSUME SourcesOK, NEW t \in Tasks, TaskMoves(t), RunLimit \in Nat,
         Cardinality(src[t].runs) + left.life[t] <= RunLimit
  PROVE  Cardinality(src'[t].runs) + left'.life[t] <= RunLimit
<1>1. src[t].runs \in SUBSET Runs /\ Numbered(src[t].runs)
  BY DEF SourcesOK, KanbanTasks
<1>2. Moved(t) /\ left'.life[t] = left.life[t] - 1 /\ left.life[t] \in Nat
  BY TaskMovesIs
<1>3. Cardinality(src[t].runs) \in Nat
  BY <1>1, FS_CardinalityType DEF Numbered
<1>4. Cardinality(src'[t].runs) \in {Cardinality(src[t].runs), Cardinality(src[t].runs) + 1}
  <2>1. CASE src'[t].runs = src[t].runs
    BY <2>1
  <2>2. CASE \E new \in Runs : /\ src'[t].runs = src[t].runs \cup {new}
                               /\ new.id = Cardinality(src[t].runs) + 1
    BY <1>1, <2>2, NumberedAdd
  <2>3. CASE \E run \in src[t].runs, ended \in Runs :
               /\ src'[t].runs = (src[t].runs \ {run}) \cup {ended}
               /\ ended.id = run.id
    BY <1>1, <2>3, NumberedReplace
  <2> QED
    BY <1>2, <2>1, <2>2, <2>3 DEF Moved, RunsMove
<1> QED
  BY <1>2, <1>3, <1>4

\* Kanban shows all the runs there are.
LEMMA AllRunsShown ==
  ASSUME NEW runs, IsFiniteSet(runs), RunLimit \in Nat, Cardinality(runs) <= RunLimit
  PROVE  NewestRuns(runs) = runs
<1>1. ASSUME NEW run \in runs
      PROVE  Cardinality({r \in runs : StartsBefore(run, r)}) <= RunLimit
  <2> DEFINE after == {r \in runs : StartsBefore(run, r)}
  <2>1. after \in SUBSET runs
    OBVIOUS
  <2> HIDE DEF after
  <2>2. IsFiniteSet(after) /\ Cardinality(after) <= Cardinality(runs)
    BY <2>1, FS_Subset
  <2>3. Cardinality(after) \in Nat /\ Cardinality(runs) \in Nat
    BY <2>2, FS_CardinalityType
  <2>4. Cardinality(after) <= RunLimit
    BY <2>2, <2>3
  <2> QED
    BY <2>4 DEF after
<1> QED
  BY <1>1 DEF NewestRuns

LEMMA InitSettled ==
  ASSUME RunsFit, Init
  PROVE  SettledInv
<1>1. ASSUME NEW t \in Tasks PROVE SettledTask(t)
  <2>1. /\ left \in Worlds /\ src[t].runs = left.found[t].runs /\ clock = left.second
        /\ db.outcomes[t] = None
    BY EmptyTablesAre DEF Init
  <2> QED
    BY <2>1 DEF SettledTask, RunsFit, Verdict
<1>2. \A s \in Sessions : SettledRead(s)
  BY NothingIs DEF Init, SettledRead
<1> QED
  BY <1>1, <1>2 DEF SettledInv

\* The moves of a task keep what is settled.
LEMMA TaskMovesSettled ==
  ASSUME RunsFit, IInv, SettledInv, NEW t \in Tasks, TaskMoves(t)
  PROVE  SettledInv'
<1>1. SourcesOK /\ RunLimit \in Nat /\ UNCHANGED <<session, db>>
  BY DEF IInv, RunsFit, TaskMoves
<1>2. /\ Moved(t) /\ SourcesOK'
      /\ \A u \in Tasks : u # t => left'.life[u] = left.life[u]
  BY <1>1, TaskMovesIs
<1>3. clock \in Nat /\ clock' \in Nat /\ clock <= clock'
  BY <1>1, <1>2 DEF SourcesOK, Moved
<1>4. \A u \in Tasks : u # t => src'[u] = src[u]
  BY <1>2 DEF Moved
<1>5. \A u \in Tasks : \A verdict : SettledIn(src[u].runs, verdict) => SettledIn(src'[u].runs, verdict)
  <2> TAKE u \in Tasks
  <2> TAKE verdict
  <2>1. CASE u = t
    BY <1>1, <1>2, <2>1, SettledMoves DEF SettledInv, SettledTask
  <2>2. CASE u # t
    BY <1>4, <2>2
  <2> QED
    BY <2>1, <2>2
<1>6. \A u \in Tasks : Verdict(u)' = Verdict(u)
  BY <1>1 DEF Verdict
<1>7. ASSUME NEW u \in Tasks PROVE SettledTask(u)'
  <2>1. SettledTask(u)
    BY DEF SettledInv
  <2>2. AsWritten(src'[u].runs, clock')
    <3>1. CASE u = t
      BY <1>1, <1>2, <2>1, <3>1, WrittenMoves DEF SettledTask
    <3>2. CASE u # t
      BY <1>3, <1>4, <2>1, <3>2, WrittenLater DEF SettledTask
    <3> QED
      BY <3>1, <3>2
  <2>3. Cardinality(src'[u].runs) + left'.life[u] <= RunLimit
    <3>1. CASE u = t
      BY <1>1, <2>1, <3>1, RunsCountMoves DEF SettledTask
    <3>2. CASE u # t
      BY <1>2, <1>4, <2>1, <3>2 DEF SettledTask
    <3> QED
      BY <3>1, <3>2
  <2> QED
    BY <1>5, <1>6, <2>1, <2>2, <2>3 DEF SettledTask
<1>8. ASSUME NEW s \in Sessions PROVE SettledRead(s)'
  <2>1. SettledRead(s) /\ ReadOK(s)
    BY DEF SettledInv, IInv
  <2>2. SUFFICES ASSUME session[s].pc \in {"evidence", "write"} PROVE SettledRead(s)'
    BY <1>1 DEF SettledRead
  <2> DEFINE runs == session[s].read.runs
             u == session[s].read.task.id
  <2>3. u \in Tasks
    BY <2>1, <2>2 DEF ReadOK, Reading, TaskRows
  <2>4. AsWritten(runs, clock')
    BY <1>3, <2>1, <2>2, WrittenLater DEF SettledRead
  <2>5. \A verdict \in {"PASS", "FAIL"} :
          /\ SettledIn(runs, verdict) => SettledIn(src[u].runs, verdict)
          /\ Verdict(u) = verdict => SettledIn(runs, verdict)
    BY <2>1, <2>2 DEF SettledRead
  <2>6. \A verdict \in {"PASS", "FAIL"} :
          /\ SettledIn(runs, verdict) => SettledIn(src'[u].runs, verdict)
          /\ Verdict(u) = verdict => SettledIn(runs, verdict)
    BY <1>5, <2>3, <2>5
  <2> QED
    BY <1>1, <2>4, <2>6 DEF SettledRead, Verdict
<1> QED
  BY <1>7, <1>8 DEF SettledInv

\* A step that moves no task and writes no outcome keeps what is settled, if
\* what a session reads is.
LEMMA ReadingSettled ==
  ASSUME SettledInv, UNCHANGED <<src, clock>>, left'.life = left.life,
         db'.outcomes = db.outcomes,
         \A s \in Sessions : session'[s] = session[s] \/ SettledRead(s)'
  PROVE  SettledInv'
<1>1. \A t \in Tasks : Verdict(t)' = Verdict(t)
  BY DEF Verdict
<1>2. ASSUME NEW t \in Tasks PROVE SettledTask(t)'
  BY <1>1 DEF SettledInv, SettledTask
<1>3. ASSUME NEW s \in Sessions, session'[s] = session[s] PROVE SettledRead(s)'
  BY <1>3 DEF SettledInv, SettledRead, Verdict
<1> QED
  BY <1>2, <1>3 DEF SettledInv

LEMMA ReadRunsSettled ==
  ASSUME RunsFit, IInv, SettledInv, NEW s \in Sessions, ReadRuns(s)
  PROVE  SettledInv'
<1> DEFINE t == session[s].read.task.id
<1>1. SourcesOK /\ PassesOK /\ ReadOK(s)
  BY DEF IInv
<1>2. session[s].read.task \in TaskRows
  BY <1>1 DEF ReadRuns, ReadOK, Reading
<1>3. /\ Stepped(s) /\ session'[s].pc = "evidence"
      /\ session'[s].read.task = session[s].read.task
      /\ session'[s].read.runs = NewestRuns(src[t].runs)
  BY <1>1, <1>2, ReadRunsIs
<1>4. t \in Tasks /\ SettledTask(t)
  BY <1>2 DEF TaskRows, SettledInv
<1>5. UNCHANGED <<src, clock, db, left>>
  BY DEF ReadRuns, sourceVars
<1>6. NewestRuns(src[t].runs) = src[t].runs
  <2>1. IsFiniteSet(src[t].runs) /\ Cardinality(src[t].runs) \in Nat
    BY <1>1, <1>4, FS_CardinalityType DEF SourcesOK, Numbered
  <2>2. left.life[t] \in Nat /\ RunLimit \in Nat
    BY <1>1, <1>4 DEF SourcesOK, WorldRecords, RunsFit
  <2>3. Cardinality(src[t].runs) <= RunLimit
    <3>1. Cardinality(src[t].runs) + left.life[t] <= RunLimit
      BY <1>4 DEF SettledTask
    <3> QED
      BY <2>1, <2>2, <3>1
  <2> QED
    BY <2>1, <2>2, <2>3, AllRunsShown
<1>7. SettledRead(s)'
  <2>1. session'[s].read.runs = src[t].runs /\ session'[s].read.task.id = t
    BY <1>3, <1>6
  <2>2. src' = src /\ clock' = clock /\ db' = db
    BY <1>5
  <2>3. AsWritten(src[t].runs, clock)
          /\ \A verdict \in {"PASS", "FAIL"} : Verdict(t) = verdict => SettledIn(src[t].runs, verdict)
    BY <1>4 DEF SettledTask
  <2> HIDE DEF t
  <2> QED
    BY <2>1, <2>2, <2>3 DEF SettledRead, Verdict
<1> QED
  BY <1>3, <1>5, <1>7, ReadingSettled DEF Stepped

LEMMA ReadEvidenceSettled ==
  ASSUME IInv, SettledInv, NEW s \in Sessions, ReadEvidence(s)
  PROVE  SettledInv'
<1>1. SourcesOK /\ PassesOK /\ ReadOK(s) /\ SettledRead(s)
  BY DEF IInv, SettledInv
<1>2. session[s].read.task \in TaskRows
  BY <1>1 DEF ReadEvidence, ReadOK, Reading
<1>3. /\ Stepped(s) /\ session[s].pc = "evidence"
      /\ session'[s].read.task = session[s].read.task
      /\ session'[s].read.runs = session[s].read.runs
  BY <1>1, <1>2, ReadEvidenceIs
<1>4. UNCHANGED <<src, clock, db, left>>
  BY DEF ReadEvidence, sourceVars
<1>5. SettledRead(s)'
  BY <1>1, <1>3, <1>4 DEF SettledRead, Verdict
<1> QED
  BY <1>3, <1>4, <1>5, ReadingSettled DEF Stepped

\* A pass before and after its reading holds nothing settled.
LEMMA OtherStepsSettled ==
  ASSUME IInv, SettledInv, NEW s \in Sessions,
         \/ Begin(s) \/ TaskFails(s) \/ Crash(s) \/ Finish(s)
         \/ \E t \in Tasks : MissTask(s, t) \/ ReadTask(s, t)
  PROVE  SettledInv'
<1>1. SourcesOK /\ PassesOK /\ db \in Tables
  BY DEF IInv
<1>2. CASE Begin(s)
  <2>1. /\ Stepped(s) /\ session'[s].pc = "task" /\ left'.life = left.life
        /\ UNCHANGED <<src, clock, db>>
    BY <1>1, <1>2, BeginIs DEF sourceVars
  <2>2. SettledRead(s)'
    BY <2>1 DEF SettledRead
  <2> QED
    BY <2>1, <2>2, ReadingSettled DEF Stepped
<1>3. CASE TaskFails(s)
  <2>1. /\ Stepped(s) /\ session'[s].pc = "task" /\ left'.life = left.life
    BY <1>1, <1>3, TaskFailsIs
  <2>2. UNCHANGED <<src, clock, db>>
    BY <1>3 DEF TaskFails, sourceVars
  <2>3. SettledRead(s)'
    BY <2>1 DEF SettledRead
  <2> QED
    BY <2>1, <2>2, <2>3, ReadingSettled DEF Stepped
<1>4. CASE Crash(s)
  <2>1. session' = [session EXCEPT ![s] = Idle] /\ UNCHANGED <<src, clock, db>>
    BY <1>4 DEF Crash, sourceVars
  <2>2. Stepped(s) /\ session'[s].pc = "idle" /\ left'.life = left.life
    BY <1>1, <1>4, <2>1, PassLeft, NothingIs, CrashIs
  <2>3. SettledRead(s)'
    BY <2>2 DEF SettledRead
  <2> QED
    BY <2>1, <2>2, <2>3, ReadingSettled DEF Stepped
<1>5. CASE Finish(s)
  <2>1. /\ session' = [session EXCEPT ![s] = Idle] /\ UNCHANGED <<src, clock, left>>
        /\ db' = [db EXCEPT !.checkpoint = s]
    BY <1>5 DEF Finish, sourceVars
  <2>2. Stepped(s) /\ session'[s].pc = "idle" /\ db'.outcomes = db.outcomes
    BY <1>1, <2>1, PassLeft, NothingIs DEF Tables
  <2>3. SettledRead(s)'
    BY <2>2 DEF SettledRead
  <2> QED
    BY <2>1, <2>2, <2>3, ReadingSettled DEF Stepped
<1>6. ASSUME NEW t \in Tasks, ReadTask(s, t) PROVE SettledInv'
  <2>1. Stepped(s) /\ session'[s].pc = "runs"
    BY <1>1, <1>6, ReadTaskIs
  <2>2. UNCHANGED <<src, clock, db, left>>
    BY <1>6 DEF ReadTask, sourceVars
  <2>3. SettledRead(s)'
    BY <2>1 DEF SettledRead
  <2> QED
    BY <2>1, <2>2, <2>3, ReadingSettled DEF Stepped
<1>7. ASSUME NEW t \in Tasks, MissTask(s, t) PROVE SettledInv'
  <2>1. Stepped(s) /\ session'[s].pc = "task" /\ UNCHANGED <<src, clock, db, left>>
    BY <1>1, <1>7, MissTaskIs
  <2>2. SettledRead(s)'
    BY <2>1 DEF SettledRead
  <2> QED
    BY <2>1, <2>2, ReadingSettled DEF Stepped
<1> QED
  BY <1>2, <1>3, <1>4, <1>5, <1>6, <1>7

\* A write says of the first pass what the runs it read are settled in.
LEMMA WriteSettled ==
  ASSUME IInv, SettledInv, NEW s \in Sessions, session[s].pc = "write",
         NEW t \in Tasks, NEW bundle \in Bundles, NEW outcome \in Outcomes,
         Written(s, t, bundle, outcome)
  PROVE  /\ Verdict(t)' = outcome.firstPass
         /\ \A verdict \in {"PASS", "FAIL"} :
              /\ Verdict(t)' = verdict => SettledIn(src[t].runs, verdict)
              /\ Verdict(t) = verdict => outcome.firstPass = verdict
<1>1. /\ t = session[s].read.task.id /\ bundle.runs = session[s].read.runs
      /\ Distinct(bundle.runs) /\ outcome = DeriveOutcome(t, bundle)
      /\ db'.outcomes = [db.outcomes EXCEPT ![t] = outcome]
  BY DEF Written
<1>2. outcome # None /\ outcome.firstPass = FirstPass(Qualifying(bundle.runs, bundle.events))
  <2> DEFINE derived == DeriveOutcome(t, bundle)
  <2>1. Distinct(bundle.runs) /\ outcome = derived
    BY <1>1
  <2>2. derived # None /\ derived.firstPass = FirstPass(Qualifying(bundle.runs, bundle.events))
    BY <2>1, OutcomeIs
  <2> HIDE DEF derived
  <2> QED
    BY <2>1, <2>2
<1>3. Verdict(t)' = outcome.firstPass
  <2>1. db.outcomes \in [Tasks -> Outcomes \cup {None}]
    BY DEF IInv, Tables
  <2>2. db'.outcomes[t] = outcome
    BY <1>1, <2>1
  <2> QED
    BY <1>2, <2>2 DEF Verdict
<1>4. /\ AsWritten(bundle.runs, clock)
      /\ \A verdict \in {"PASS", "FAIL"} :
           /\ SettledIn(bundle.runs, verdict) => SettledIn(src[t].runs, verdict)
           /\ Verdict(t) = verdict => SettledIn(bundle.runs, verdict)
  BY <1>1 DEF SettledInv, SettledRead
<1>5. bundle.runs \in SUBSET Runs /\ clock \in Nat
  BY DEF Bundles, IInv, SourcesOK
<1>6. \A verdict \in {"PASS", "FAIL"} :
        outcome.firstPass = verdict <=> SettledIn(bundle.runs, verdict)
  BY <1>1, <1>2, <1>4, <1>5, FirstPassIs
<1> QED
  BY <1>3, <1>4, <1>6

LEMMA MaterializeTaskSettled ==
  ASSUME IInv, SettledInv, NEW s \in Sessions, MaterializeTask(s)
  PROVE  /\ SettledInv'
         /\ \A t \in Tasks : Verdict(t) \in {"PASS", "FAIL"} => Verdict(t)' = Verdict(t)
<1>1. SourcesOK /\ PassesOK /\ db \in Tables /\ ReadOK(s)
  BY DEF IInv
<1>2. /\ Stepped(s) /\ session[s].pc = "write" /\ session'[s].pc = "task"
      /\ \/ UNCHANGED db
         \/ \E t \in Tasks, bundle \in Bundles, outcome \in Outcomes :
              Written(s, t, bundle, outcome)
  BY <1>1, MaterializeTaskIs
<1>3. UNCHANGED <<src, clock, left>>
  BY DEF MaterializeTask, sourceVars
<1>4. \A o \in Sessions : SettledRead(o)'
  <2>1. \A o \in Sessions : o # s => session'[o].pc = "idle"
    BY <1>1, <1>2, OneAtWork DEF Stepped
  <2> QED
    BY <1>2, <2>1 DEF SettledRead
<1>5. CASE UNCHANGED db
  BY <1>3, <1>4, <1>5, ReadingSettled DEF Verdict
<1>6. ASSUME NEW t \in Tasks, NEW bundle \in Bundles, NEW outcome \in Outcomes,
             Written(s, t, bundle, outcome)
      PROVE  /\ SettledInv'
             /\ \A u \in Tasks : Verdict(u) \in {"PASS", "FAIL"} => Verdict(u)' = Verdict(u)
  <2>1. /\ Verdict(t)' = outcome.firstPass
        /\ \A verdict \in {"PASS", "FAIL"} :
             /\ Verdict(t)' = verdict => SettledIn(src[t].runs, verdict)
             /\ Verdict(t) = verdict => outcome.firstPass = verdict
    BY <1>2, <1>6, WriteSettled
  <2>2. \A u \in Tasks : u # t => Verdict(u)' = Verdict(u)
    <3>1. db.outcomes \in [Tasks -> Outcomes \cup {None}]
      BY <1>1 DEF Tables
    <3>2. db'.outcomes = [db.outcomes EXCEPT ![t] = outcome]
      BY <1>6 DEF Written
    <3>3. \A u \in Tasks : u # t => db'.outcomes[u] = db.outcomes[u]
      BY <3>1, <3>2
    <3> QED
      BY <3>3 DEF Verdict
  <2>3. \A u \in Tasks : Verdict(u) \in {"PASS", "FAIL"} => Verdict(u)' = Verdict(u)
    BY <2>1, <2>2
  <2>4. \A u \in Tasks : SettledTask(u)'
    <3> TAKE u \in Tasks
    <3>1. SettledTask(u)
      BY DEF SettledInv
    <3>2. Verdict(u)' \in {"PASS", "FAIL"} => SettledIn(src[u].runs, Verdict(u)')
      BY <2>1, <2>2, <3>1 DEF SettledTask
    <3> QED
      BY <1>3, <3>1, <3>2 DEF SettledTask
  <2> QED
    BY <1>4, <2>3, <2>4 DEF SettledInv
<1> QED
  BY <1>2, <1>5, <1>6

\* Every step keeps what is settled.
LEMMA NextSettled ==
  ASSUME RunsFit, IInv, SettledInv, [Next]_vars
  PROVE  SettledInv'
<1>1. SourcesOK
  BY DEF IInv
<1>2. ASSUME UNCHANGED <<src, clock, session, db>>, left'.life = left.life PROVE SettledInv'
  BY <1>2, ReadingSettled
<1>3. CASE SourceFlips
  <2>1. UNCHANGED <<src, clock, session, db>> /\ left'.life = left.life
    BY <1>1, <1>3, SourceFlipsIs DEF SourceFlips
  <2> QED
    BY <1>2, <2>1
<1>4. ASSUME NEW s \in Sessions, Locked(s) PROVE SettledInv'
  <2>1. UNCHANGED <<src, clock, session, db>> /\ left'.life = left.life
    BY <1>1, <1>4, LockedIs DEF Locked, sourceVars
  <2> QED
    BY <1>2, <2>1
<1>5. CASE UNCHANGED vars
  BY <1>2, <1>5 DEF vars, sourceVars
<1>6. ASSUME NEW s \in Sessions, Begin(s) \/ Continue(s) \/ TaskFails(s) \/ Crash(s)
      PROVE  SettledInv'
  BY <1>6, ReadRunsSettled, ReadEvidenceSettled, OtherStepsSettled, MaterializeTaskSettled
     DEF Continue
<1> QED
  BY <1>3, <1>4, <1>5, <1>6, TaskMovesSettled DEF Next

\* No step changes a first pass that was decided.
LEMMA VerdictStep ==
  ASSUME IInv, SettledInv, Next, NEW t \in Tasks,
         db.outcomes[t] # None, db.outcomes[t].firstPass \in {"PASS", "FAIL"}
  PROVE  db'.outcomes[t].firstPass = db.outcomes[t].firstPass
<1>1. Verdict(t) = db.outcomes[t].firstPass /\ Verdict(t) \in {"PASS", "FAIL"}
  BY DEF Verdict
<1>2. CASE \E s \in Sessions : MaterializeTask(s)
  <2>1. Verdict(t)' = Verdict(t)
    BY <1>1, <1>2, MaterializeTaskSettled
  <2>2. Verdict(t)' = "UNKNOWN" \/ Verdict(t)' = db'.outcomes[t].firstPass
    BY DEF Verdict
  <2> QED
    BY <1>1, <2>1, <2>2
<1>3. CASE db'.outcomes = db.outcomes
  BY <1>3
<1> QED
  BY <1>2, <1>3, OnlyWritesWrite

\* Once decided, the first pass of a task never changes, whatever runs,
\* reopenings and passes follow (first_pass_success over the qualifying runs),
\* as long as Kanban's answer holds all the runs of the task (list_runs, 100).
THEOREM FirstPassSettlesHolds ==
  ASSUME RunsFit PROVE Spec => FirstPassSettles
<1>1. Init => SettledInv
  BY InitSettled
<1>2. IInv /\ SettledInv /\ [Next]_vars => SettledInv'
  BY NextSettled
<1>3. IInv /\ SettledInv /\ [Next]_vars =>
        [\A t \in Tasks :
           db.outcomes[t] # None /\ db.outcomes[t].firstPass \in {"PASS", "FAIL"} =>
             db'.outcomes[t].firstPass = db.outcomes[t].firstPass]_vars
  BY VerdictStep
<1> QED
  BY <1>1, <1>2, <1>3, Invariant, PTL DEF Spec, FirstPassSettles

=============================================================================
