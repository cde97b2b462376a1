---------------------------- MODULE PolicyPipeline ----------------------------
(***************************************************************************)
(* From an experiment's conclusion to a canary (engineering_os/adaptation: *)
(* persist, recommend, compiler, schema, approval, shadow, guardrails).    *)
(* Every database write happens in one transaction under the adaptation    *)
(* lock and is one step here; what an operator has read before it asks for *)
(* the lock (the experiment's result, the loaded cache) is kept in         *)
(* `doing` and may be stale by then.  AdaptationControl models the lock,   *)
(* the files and the crashes of the binding operations; here the cache     *)
(* holds the newest committed binding.                                     *)
(***************************************************************************)
EXTENDS Naturals, Sequences, FiniteSets

CONSTANTS
  Operators,     \* concurrent command lines
  Experiments,   \* experiment ids with a frozen protocol
  Policies,      \* policy files: [id, experiment, treatment, scope, outcome, sound]
  Unnamed,       \* the experiment of a file without source_experiment
  Scope,         \* Scope[e], Treatment[e]: fixed by the protocol of e
  Treatment,
  Outcomes,      \* <<conclusion, validity>> an analysis may end with
  MaxProtocols,  \* bound: MaxProtocols[e], protocol versions of experiment e
  MaxRecs,       \* bound: recommendation rows
  MaxBundles,    \* bound: policy bundles
  MaxApprovals,  \* bound: distinct approval rows
  MaxVersions    \* bound: binding versions

ASSUME PipelineAssumption ==
  MaxProtocols \in [Experiments -> Nat \ {0}] /\ Unnamed \notin Experiments

VARIABLES
  result,        \* result[e]: newest protocol and its current result
  recs,          \* adaptation_recommendations, oldest first
  bundles,       \* adaptation_policy_bundles, oldest first
  approvals,     \* adaptation_approvals (equal rows count once)
  guards,        \* guards[i]: event states of the newest canary of bundle i
  binding,       \* the current row of adaptation_bindings: [version, policy, mode]
  shadowed,      \* newest row of adaptation_shadow_decisions: <<policy, result>>
  doing          \* doing[o]: what operator o has read and not yet written

vars == <<result, recs, bundles, approvals, guards, binding, shadowed, doing>>

TestScopes == {"FIXTURE", "BENCHMARK", "NON_PRODUCTION"}
Actuating == {"PRODUCTION_CANARY", "PRODUCTION_BOUNDED", "PRODUCTION_FULL"}
ProductionScopes == Actuating \union {"PRODUCTION_SHADOW"}
RealTreatments == {"MODEL", "PROFILE", "PROMPT", "SKILL", "TOOLS"}

\* Which validity checks pass: "missing" not all required ones, "required"
\* those, "production" the isolation of memory and workspace too.
Result(version, outcome) ==
  [protocol |-> version, conclusion |-> outcome[1], validity |-> outcome[2]]

-----------------------------------------------------------------------------
(* recommend_from_result: eligibility of a result. *)

FixtureOnly(r) ==
  r.scope = "FIXTURE" \/ (r.scope = "BENCHMARK" /\ r.treatment \notin RealTreatments)

Promotable(r) ==
  /\ r.source = "phase6" /\ ~r.contaminated /\ r.guard \in {"PASS", "NA"}
  /\ r.validity # "missing" /\ r.conclusion = "EVIDENCE_FOR_CANDIDATE"

ProductionOk(r) ==
  /\ ~FixtureOnly(r) /\ r.treatment \in RealTreatments
  /\ r.validity = "production" /\ r.real

Classify(r) ==
  IF ~Promotable(r) THEN "NOT_PROMOTABLE"
  ELSE IF ProductionOk(r) THEN "PRODUCTION_CANDIDATE" ELSE "TEST_ONLY"

StateOf(class) ==
  CASE class = "NOT_PROMOTABLE" -> "NOT_PROMOTABLE"
    [] class = "PRODUCTION_CANDIDATE" -> "APPROVAL_REQUIRED"
    [] class = "TEST_ONLY" -> "EVIDENCE_VALIDATED"

\* load_experiment_result: guardrail and contamination are constants, and
\* real_hermes_inference is never set.
Load(e) ==
  [source |-> "phase6", experiment |-> e, contaminated |-> FALSE, guard |-> "PASS",
   scope |-> Scope[e], treatment |-> Treatment[e], real |-> FALSE,
   protocol |-> result[e].protocol, conclusion |-> result[e].conclusion,
   validity |-> result[e].validity]

RecommendationOf(r) ==
  [experiment |-> r.experiment, protocol |-> r.protocol, scope |-> r.scope,
   treatment |-> r.treatment, evidence |-> r.conclusion, checks |-> r.validity,
   class |-> Classify(r), state |-> StateOf(Classify(r))]

-----------------------------------------------------------------------------
(* compile_policy: which files compile with which recommendation. *)

\* validate_raw: `sound` stands for keys, contracts, selectors, guardrails,
\* canary limits and rollback target.
Valid(p) == p.sound /\ p.scope \in TestScopes \union {"PRODUCTION_SHADOW"}

\* A file may name its source_experiment or leave it out; a stored
\* recommendation always has a treatment (the columns are NOT NULL), so the
\* treatment is always compared.
Compiles(rec, p) ==
  /\ rec.class # "NOT_PROMOTABLE" /\ rec.state # "NOT_PROMOTABLE"
  /\ Valid(p)
  /\ p.experiment \in {Unnamed, rec.experiment} /\ p.treatment = rec.treatment
  /\ (rec.scope = "FIXTURE" \/ rec.class = "TEST_ONLY") => p.scope \notin Actuating

\* pre_registration_hash: it covers the experiment's id and the version.
ProtocolHash(rec) == <<rec.experiment, rec.protocol>>

\* Mutant of PolicyHash: it covers the protocol's version, not whose it is.
PolicyHashOfVersion(rec, p) ==
  <<p, <<CHOOSE e \in Experiments : TRUE, rec.protocol>>, rec.class>>

\* The hash covers the file, the protocol hash the recommendation carries
\* and its class, not the recommendation's id.
PolicyHash(rec, p) == <<p, ProtocolHash(rec), rec.class>>

File(i) == bundles[i].hash[1]
NoPolicy == <<>>

\* What a command names: a bundle's hash, its file's id, or (NoPolicy) neither.
Refs ==
  {bundles[i].hash : i \in DOMAIN bundles} \union {File(i).id : i \in DOMAIN bundles}
    \union {NoPolicy}

Named(ref, i) == bundles[i].hash = ref \/ File(i).id = ref

\* _bundle: the newest row with this hash or policy id, none when there is none.
Bundle(ref) ==
  {i \in DOMAIN bundles :
     Named(ref, i) /\ \A j \in DOMAIN bundles : Named(ref, j) => j <= i}

-----------------------------------------------------------------------------
Nothing == [op |-> "nothing"]
NoBinding == [version |-> 0, policy |-> NoPolicy, mode |-> "BASELINE"]

\* _cas_insert under the lock: the expected version is the current one.
Moved(policy, mode) ==
  /\ binding.version < MaxVersions
  /\ binding' = [version |-> binding.version + 1, policy |-> policy, mode |-> mode]

Init ==
  /\ result \in [Experiments -> {Result(1, u) : u \in Outcomes}]
  /\ recs = <<>> /\ bundles = <<>> /\ approvals = {}
  /\ guards = <<>> /\ binding = NoBinding /\ shadowed = <<>>
  /\ doing = [o \in Operators |-> Nothing]

Do(o, what) == doing' = [doing EXCEPT ![o] = what]

\* The experiment layer amends the protocol, analyses again or invalidates.
ExperimentMoves(e) ==
  /\ \E v \in result[e].protocol..MaxProtocols[e], u \in Outcomes :
       result' = [result EXCEPT ![e] = Result(v, u)]
  /\ UNCHANGED <<recs, bundles, approvals, guards, binding, shadowed, doing>>

\* recommend reads the analytics database before it asks for the lock.
ReadResult(o, e) ==
  /\ doing[o] = Nothing /\ Len(recs) < MaxRecs
  /\ Do(o, [op |-> "recommend", read |-> Load(e)])
  /\ UNCHANGED <<result, recs, bundles, approvals, guards, binding, shadowed>>

Recommend(o) ==
  /\ doing[o].op = "recommend" /\ Len(recs) < MaxRecs
  /\ recs' = Append(recs, RecommendationOf(doing[o].read))
  /\ Do(o, Nothing)
  /\ UNCHANGED <<result, bundles, approvals, guards, binding, shadowed>>

\* The lock is held, here or by a lower layer, or the process dies: nothing
\* more is written.
GiveUp(o) ==
  /\ doing[o] # Nothing
  /\ Do(o, Nothing)
  /\ UNCHANGED <<result, recs, bundles, approvals, guards, binding, shadowed>>

\* Mutant of Compile: a conflict updates the source.
CompileUpsert(r, p) ==
  LET b == [hash |-> PolicyHash(recs[r], p), source |-> r]
      same == {i \in DOMAIN bundles : bundles[i].hash = b.hash} IN
  /\ Compiles(recs[r], p) /\ Len(bundles) < MaxBundles
  /\ bundles' = IF same = {} THEN Append(bundles, b)
                ELSE [i \in DOMAIN bundles |-> IF i \in same THEN b ELSE bundles[i]]
  /\ guards' = IF same = {} THEN Append(guards, {}) ELSE guards
  /\ UNCHANGED <<result, recs, approvals, binding, shadowed, doing>>

\* ON CONFLICT (policy_hash) DO NOTHING: a hash keeps its first source.
Compile(r, p) ==
  /\ Compiles(recs[r], p) /\ Len(bundles) < MaxBundles
  /\ \A i \in DOMAIN bundles : bundles[i].hash # PolicyHash(recs[r], p)
  /\ bundles' = Append(bundles, [hash |-> PolicyHash(recs[r], p), source |-> r])
  /\ guards' = Append(guards, {})
  /\ UNCHANGED <<result, recs, approvals, binding, shadowed, doing>>

\* A new row: units is max_exposure, "canary" for canary.max_units.
Insert(i, stage, class, state, units) ==
  /\ approvals' = approvals \union
       {[bundle |-> i, stage |-> stage, class |-> class, state |-> state, units |-> units]}
  /\ Cardinality(approvals') <= MaxApprovals

RequestApproval(ref, stage) ==
  /\ \E i \in Bundle(ref) : Insert(i, stage, "TEST", "REQUESTED", "canary")
  /\ UNCHANGED <<result, recs, bundles, guards, binding, shadowed, doing>>

\* Mutant of Signable: only the actuating scopes are refused.
SignableButActuating(scope) == scope \notin Actuating

\* sign_test and verify_test.
Signable(scope) == scope \notin ProductionScopes /\ scope \in TestScopes

\* Mutant of ApproveTest: the newest recommendation is marked.
ApproveNewestRec(ref, stage) ==
  /\ \E i \in Bundle(ref) :
       Signable(File(i).scope) /\ Insert(i, stage, "TEST", "GRANTED", "canary")
  /\ recs' = IF stage = "A" THEN [recs EXCEPT ![Len(recs)].state = "APPROVED_FOR_SHADOW"]
                            ELSE recs
  /\ UNCHANGED <<result, bundles, guards, binding, shadowed, doing>>

\* A grant needs no request; stage A marks the bundle's first source.
ApproveTest(ref, stage) ==
  /\ \E i \in Bundle(ref) :
       /\ Signable(File(i).scope)
       /\ Insert(i, stage, "TEST", "GRANTED", "canary")
       /\ recs' = IF stage = "A"
                    THEN [recs EXCEPT ![bundles[i].source].state = "APPROVED_FOR_SHADOW"]
                    ELSE recs
  /\ UNCHANGED <<result, bundles, guards, binding, shadowed, doing>>

\* bind_policy as the first step of shadow-start and canary-start-fixture: no
\* approval is looked for.
Bind(o, ref, mode) ==
  /\ doing[o] = Nothing
  /\ \E i \in Bundle(ref) :
       /\ Moved(bundles[i].hash, mode)
       /\ Do(o, [op |-> mode, ref |-> ref, bundle |-> i])
  /\ UNCHANGED <<result, recs, bundles, approvals, guards, shadowed>>

\* resolve_policy for a context every policy selects.
Resolved ==
  CASE binding.mode \in {"SHADOW", "CANARY"} -> "CANDIDATE"
    [] binding.mode = "DISABLED" -> "BASELINE"
    [] binding.mode = "BASELINE" -> "NOT_ELIGIBLE"

\* The cache is loaded and the contexts resolved without the lock.
Decide(o) ==
  /\ doing[o].op = "SHADOW"
  /\ Do(o, [op |-> "shadow-write", ref |-> doing[o].ref, would |-> Resolved])
  /\ UNCHANGED <<result, recs, bundles, approvals, guards, binding, shadowed>>

RecordShadow(o) ==
  /\ doing[o].op = "shadow-write"
  /\ \E i \in Bundle(doing[o].ref) : shadowed' = <<i, doing[o].would>>
  /\ Do(o, Nothing)
  /\ UNCHANGED <<result, recs, bundles, approvals, guards, binding>>

\* evaluate for the two guardrails of the shipped policies: the candidate
\* units' tests (UNKNOWN when no unit ran the candidate) and llm_call_count.
CanaryEvents(i) ==
  IF binding.mode = "CANARY" THEN {File(i).outcome, "PASS"} ELSE {"UNKNOWN", "PASS"}

RunCanary(o) ==
  /\ doing[o].op = "CANARY"
  /\ Do(o, [op |-> "verdict", bundle |-> doing[o].bundle,
            events |-> CanaryEvents(doing[o].bundle)])
  /\ UNCHANGED <<result, recs, bundles, approvals, guards, binding, shadowed>>

\* Mutant of Verdict: the auto-disable overwrites the current row in place.
VerdictReenables(o) ==
  /\ doing[o].op = "verdict"
  /\ guards' = [guards EXCEPT ![doing[o].bundle] = doing[o].events]
  /\ binding' = IF "FAIL" \in doing[o].events
                  THEN [binding EXCEPT !.mode = "DISABLED"] ELSE binding
  /\ Do(o, Nothing)
  /\ UNCHANGED <<result, recs, bundles, approvals, shadowed>>

\* The verdict's transaction: events, and the auto-disable of a FAIL.
Verdict(o) ==
  /\ doing[o].op = "verdict"
  /\ guards' = [guards EXCEPT ![doing[o].bundle] = doing[o].events]
  /\ IF "FAIL" \in doing[o].events
       THEN Moved(bundles[doing[o].bundle].hash, "DISABLED") ELSE UNCHANGED binding
  /\ Do(o, Nothing)
  /\ UNCHANGED <<result, recs, bundles, approvals, shadowed>>

\* disable and rollback; the row keeps its bundle when the reference is unknown.
Disable(ref) ==
  /\ \/ \E i \in Bundle(ref) : Moved(bundles[i].hash, "DISABLED")
     \/ Bundle(ref) = {} /\ Moved(binding.policy, "DISABLED")
  /\ UNCHANGED <<result, recs, bundles, approvals, guards, shadowed, doing>>

PromotionClass(i) == IF File(i).scope \in ProductionScopes THEN "PRODUCTION" ELSE "TEST"

Blocks(state) == state \in {"FAIL", "UNKNOWN"}

\* promotion_request looks at one event: the newest, and those of one canary
\* share their created_at.
PromotionRequest(ref) ==
  /\ \E i \in Bundle(ref) :
       /\ guards[i] = {} \/ \E last \in guards[i] : ~Blocks(last)
       /\ Insert(i, "B", PromotionClass(i), "REQUESTED", "none")
  /\ UNCHANGED <<result, recs, bundles, guards, binding, shadowed, doing>>

Next ==
  \/ \E e \in Experiments : ExperimentMoves(e)
  \/ \E o \in Operators :
       \/ \E e \in Experiments : ReadResult(o, e)
       \/ Recommend(o) \/ GiveUp(o) \/ Decide(o) \/ RecordShadow(o)
       \/ RunCanary(o) \/ Verdict(o)
       \/ \E ref \in Refs, mode \in {"SHADOW", "CANARY"} : Bind(o, ref, mode)
  \/ \E r \in DOMAIN recs, p \in Policies : Compile(r, p)
  \/ \E ref \in Refs :
       \/ \E stage \in {"A", "B"} : RequestApproval(ref, stage) \/ ApproveTest(ref, stage)
       \/ Disable(ref) \/ PromotionRequest(ref)

Spec == Init /\ [][Next]_vars

-----------------------------------------------------------------------------
(* Properties. *)

Classes == {"NOT_PROMOTABLE", "TEST_ONLY", "PRODUCTION_CANDIDATE"}
Hashes == Policies \X (Experiments \X Nat) \X Classes

TypeOK ==
  /\ \A i \in DOMAIN recs : recs[i].experiment \in Experiments /\ recs[i].class \in Classes
  /\ \A i \in DOMAIN bundles :
       bundles[i].hash \in Hashes /\ bundles[i].source \in DOMAIN recs
  /\ \A a \in approvals : a.bundle \in DOMAIN bundles
  /\ Len(guards) = Len(bundles)
  /\ binding.policy \in Hashes \union {NoPolicy}

\* A bundle rests on the recommendation it names: one with evidence when it
\* was made, on the protocol of its experiment that the bundle's hash covers, of
\* the bundle's treatment, and of the experiment the file names.  A file that
\* names none rests on whatever experiment it was compiled with; even then no
\* other experiment's evidence slips under a hash already stored.
EvidenceChain ==
  \A i \in DOMAIN bundles :
    LET rec == recs[bundles[i].source] IN
    /\ rec.evidence = "EVIDENCE_FOR_CANDIDATE" /\ rec.checks # "missing"
    /\ bundles[i].hash = <<File(i), ProtocolHash(rec), rec.class>>
    /\ File(i).treatment = rec.treatment
    /\ File(i).experiment # Unnamed => File(i).experiment = rec.experiment

\* A recommendation is marked approved for shadow exactly when a stage A grant
\* exists for a bundle compiled from it, however names, recompilations and
\* operators interleave.
ShadowApprovalIsGranted ==
  \A r \in DOMAIN recs :
    recs[r].state = "APPROVED_FOR_SHADOW" <=>
      \E a \in approvals :
        a.state = "GRANTED" /\ a.stage = "A" /\ bundles[a.bundle].source = r

\* The pipeline never opens production: no result read from the database
\* becomes a production candidate, no bundle has an actuating scope, and a test
\* approval is never granted for a production scope (quality.py's
\* test_approval_production and policy_without_experiment count to zero).
TestStaysTest ==
  /\ \A r \in DOMAIN recs : recs[r].class # "PRODUCTION_CANDIDATE"
  /\ \A i \in DOMAIN bundles : File(i).scope \notin Actuating
  /\ \A a \in approvals : a.state = "GRANTED" => File(a.bundle).scope \in TestScopes

\* Nothing recorded is rewritten: rows are only added, a bundle never changes
\* (its trigger forbids it), and of a recommendation only EVIDENCE_VALIDATED
\* may become APPROVED_FOR_SHADOW.
OnlyForward ==
  [][/\ \A i \in DOMAIN bundles : i \in DOMAIN bundles' /\ bundles'[i] = bundles[i]
     /\ approvals \subseteq approvals'
     /\ \A r \in DOMAIN recs :
          /\ r \in DOMAIN recs'
          /\ recs'[r] # recs[r] =>
               /\ recs[r].state = "EVIDENCE_VALIDATED"
               /\ recs'[r] = [recs[r] EXCEPT !.state = "APPROVED_FOR_SHADOW"]]_vars

\* The pipeline moves the same versioned pointer as the control plane.
Ptr == INSTANCE PolicyPointer WITH
         Policies <- Hashes, pointer <- binding, killed <- FALSE
ImplementsPointer == Ptr!PtrSpec

\* A promotion is requested only when no guardrail of the newest canary failed
\* or is unknown.
BadCanaryBlocksPromotion ==
  [][\A a \in approvals' \ approvals :
       a.units = "none" => \A s \in guards[a.bundle] : ~Blocks(s)]_vars

\* A candidate becomes usable only while its source experiment is not
\* INVALIDATED (docs/adaptation/ADAPTATION_VALIDITY.md); binding looks neither
\* at the experiment nor at the recommendation again.
CandidateStands ==
  [][binding' # binding /\ binding'.mode \in {"SHADOW", "CANARY"} =>
       \A e \in Experiments :
         binding'.policy[2][1] = e => result[e].conclusion # "INVALIDATED"]_vars
=============================================================================
