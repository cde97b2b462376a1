------------------------ MODULE PolicyPipeline_proofs ------------------------
(***************************************************************************)
(* Proofs about PolicyPipeline for every set of policies, experiments and  *)
(* operators and every bound.  The argument:                               *)
(*                                                                         *)
(*   - what was read from a result, and so every recommendation, is never  *)
(*     real inference, hence never a production candidate (Typed);         *)
(*   - a bundle was compiled from the recommendation it names, of which    *)
(*     only the state changes later (BundleOK);                            *)
(*   - an approval names a bundle, and bundles never change (ApprovalOK);  *)
(*   - what an operator is doing names a bundle that exists (DoingOK).     *)
(***************************************************************************)
EXTENDS PolicyPipeline, SequenceTheorems, TLAPS

Protocols == Nat
Conclusions == {u[1] : u \in Outcomes}
Validities == {u[2] : u \in Outcomes}
Scopes == {Scope[e] : e \in Experiments}
Treatments == {Treatment[e] : e \in Experiments}

Results == [protocol : Protocols, conclusion : Conclusions, validity : Validities]

\* What Load returns.
Reads ==
  [source : {"phase6"}, experiment : Experiments, contaminated : {FALSE}, guard : {"PASS"},
   scope : Scopes, treatment : Treatments, real : {FALSE}, protocol : Protocols,
   conclusion : Conclusions, validity : Validities]

RecClasses == {"NOT_PROMOTABLE", "TEST_ONLY"}
RecStates == {"NOT_PROMOTABLE", "EVIDENCE_VALIDATED", "APPROVED_FOR_SHADOW"}
RecRows ==
  [experiment : Experiments, protocol : Protocols, scope : Scopes, treatment : Treatments,
   evidence : Conclusions, checks : Validities, class : RecClasses, state : RecStates]

BundleRows == [hash : Hashes, source : Nat]
EventSets == SUBSET ({p.outcome : p \in Policies} \union {"PASS", "UNKNOWN"})
Modes == {"SHADOW", "CANARY", "DISABLED", "BASELINE"}
Bindings == [version : Nat, policy : Hashes \union {NoPolicy}, mode : Modes]

Typed ==
  /\ result \in [Experiments -> Results]
  /\ recs \in Seq(RecRows)
  /\ bundles \in Seq(BundleRows)
  /\ guards \in Seq(EventSets) /\ Len(guards) = Len(bundles)
  /\ binding \in Bindings

\* A recommendation that is not refused had its evidence.
RecOK(rec) ==
  rec.class = "TEST_ONLY" =>
    /\ rec.evidence = "EVIDENCE_FOR_CANDIDATE" /\ rec.checks # "missing"
    /\ rec.state # "NOT_PROMOTABLE"

\* The bundle b was compiled from the recommendation it names, one of R.
BundleOK(b, R) ==
  /\ b.source \in DOMAIN R
  /\ R[b.source].class = "TEST_ONLY"
  /\ b.hash = <<b.hash[1], ProtocolHash(R[b.source]), R[b.source].class>>
  /\ b.hash[1] \in Policies
  /\ b.hash[1].scope \notin Actuating
  /\ b.hash[1].experiment \in {Unnamed, R[b.source].experiment}
  /\ b.hash[1].treatment = R[b.source].treatment

ApprovalOK(a, B) ==
  /\ a.bundle \in DOMAIN B
  /\ a.state = "GRANTED" => B[a.bundle].hash[1].scope \in TestScopes

DoingOK(d, B) ==
  /\ d.op = "recommend" => d.read \in Reads
  /\ d.op \in {"CANARY", "verdict"} => d.bundle \in DOMAIN B
  /\ d.op = "verdict" => d.events \in EventSets

\* The recommendations R that are marked are those of a stage A grant in A.
Marked(R, B, A) ==
  \A r \in DOMAIN R :
    R[r].state = "APPROVED_FOR_SHADOW" <=>
      \E a \in A : a.state = "GRANTED" /\ a.stage = "A" /\ B[a.bundle].source = r

Chained ==
  /\ \A r \in DOMAIN recs : RecOK(recs[r])
  /\ \A i \in DOMAIN bundles : BundleOK(bundles[i], recs)
  /\ \A a \in approvals : ApprovalOK(a, bundles)
  /\ Marked(recs, bundles, approvals)

IInv ==
  /\ Typed
  /\ Chained
  /\ DOMAIN doing = Operators
  /\ doing = [o \in Operators |-> doing[o]]
  /\ \A o \in Operators : DoingOK(doing[o], bundles)

-----------------------------------------------------------------------------
(* Sequences.                                                              *)

\* What appending does to the domain and the elements.
LEMMA AppendAt ==
  ASSUME NEW S, NEW s \in Seq(S), NEW e \in S
  PROVE  /\ Append(s, e) \in Seq(S)
         /\ DOMAIN Append(s, e) = DOMAIN s \union {Len(s) + 1}
         /\ Len(s) + 1 \notin DOMAIN s
         /\ \A i \in DOMAIN s : Append(s, e)[i] = s[i]
         /\ Append(s, e)[Len(s) + 1] = e
         /\ Len(Append(s, e)) = Len(s) + 1
<1>1. Len(s) \in Nat /\ DOMAIN s = 1..Len(s) OBVIOUS
<1>2. Append(s, e) \in Seq(S) /\ Len(Append(s, e)) = Len(s) + 1 BY AppendProperties
<1>3. DOMAIN Append(s, e) = 1..(Len(s) + 1) BY <1>2
<1> QED BY <1>1, <1>2, <1>3, AppendProperties

\* What replacing an element does.
LEMMA ReplaceAt ==
  ASSUME NEW S, NEW s \in Seq(S), NEW i \in DOMAIN s, NEW e \in S
  PROVE  /\ [s EXCEPT ![i] = e] \in Seq(S)
         /\ DOMAIN [s EXCEPT ![i] = e] = DOMAIN s
         /\ Len([s EXCEPT ![i] = e]) = Len(s)
         /\ \A j \in DOMAIN s : [s EXCEPT ![i] = e][j] = IF j = i THEN e ELSE s[j]
<1>1. DOMAIN s = 1..Len(s) OBVIOUS
<1> QED BY <1>1, ExceptSeq

\* An element of a sequence over S is in S.
LEMMA ElementAt ==
  ASSUME NEW S, NEW s \in Seq(S), NEW i \in DOMAIN s
  PROVE  s[i] \in S
<1>1. DOMAIN s = 1..Len(s) OBVIOUS
<1> QED BY <1>1, ElementOfSeq

-----------------------------------------------------------------------------
(* The recommendation of a result that was read.                           *)

\* What was read from the analytics database becomes a row that is refused or
\* for tests, and the latter only on evidence.
LEMMA RecommendationTyped ==
  ASSUME NEW r \in Reads
  PROVE  /\ RecommendationOf(r) \in RecRows
         /\ RecOK(RecommendationOf(r))
         /\ RecommendationOf(r).state # "APPROVED_FOR_SHADOW"
<1>1. /\ r.real = FALSE /\ r.experiment \in Experiments /\ r.protocol \in Protocols
      /\ r.scope \in Scopes /\ r.treatment \in Treatments
      /\ r.conclusion \in Conclusions /\ r.validity \in Validities
  BY DEF Reads
<1>2. ~ProductionOk(r) BY <1>1 DEF ProductionOk
<1>3. Classify(r) \in RecClasses BY <1>2 DEF Classify, RecClasses
<1>4. Classify(r) = "TEST_ONLY" => Promotable(r) BY DEF Classify
<1>5. /\ StateOf("NOT_PROMOTABLE") = "NOT_PROMOTABLE"
      /\ StateOf("TEST_ONLY") = "EVIDENCE_VALIDATED"
  BY DEF StateOf
<1>6. StateOf(Classify(r)) \in RecStates BY <1>3, <1>5 DEF RecClasses, RecStates
<1>7. RecommendationOf(r) \in RecRows
  BY <1>1, <1>3, <1>6 DEF RecommendationOf, RecRows
<1>8. RecOK(RecommendationOf(r))
  BY <1>4, <1>5 DEF RecOK, RecommendationOf, Promotable
<1>9. RecommendationOf(r).state # "APPROVED_FOR_SHADOW"
  BY <1>3, <1>5 DEF RecommendationOf, RecClasses
<1> QED BY <1>7, <1>8, <1>9

-----------------------------------------------------------------------------
(* What the parts of a step keep.                                          *)

\* An operator goes on to d, which names a bundle that exists.
LEMMA DoKeeps ==
  ASSUME IInv, NEW o \in Operators, NEW d, Do(o, d), DoingOK(d, bundles), bundles' = bundles
  PROVE  /\ DOMAIN doing' = Operators
         /\ doing' = [x \in Operators |-> doing'[x]]
         /\ \A x \in Operators : DoingOK(doing'[x], bundles')
<1>1. doing' = [x \in Operators |-> IF x = o THEN d ELSE doing[x]] BY DEF Do, IInv
<1>2. \A x \in Operators : doing'[x] = IF x = o THEN d ELSE doing[x] BY <1>1
<1> QED BY <1>1, <1>2 DEF IInv

\* The rows that are not touched keep what is said of them.
LEMMA RowsStand ==
  ASSUME IInv, UNCHANGED <<recs, bundles, approvals>>
  PROVE  Chained'
BY DEF IInv, Chained

\* A binding moves to a policy that was compiled.
LEMMA MovedTyped ==
  ASSUME IInv, NEW h \in Hashes \union {NoPolicy}, NEW m \in Modes, Moved(h, m)
  PROVE  binding' \in Bindings
BY DEF IInv, Typed, Moved, Bindings

\* The row a reference names.
LEMMA BundleRow ==
  ASSUME IInv, NEW ref, NEW i \in Bundle(ref)
  PROVE  i \in DOMAIN bundles /\ bundles[i] \in BundleRows /\ bundles[i].hash \in Hashes
<1>1. i \in DOMAIN bundles BY DEF Bundle
<1>2. bundles[i] \in BundleRows BY <1>1, ElementAt DEF IInv, Typed
<1> QED BY <1>1, <1>2 DEF BundleRows

-----------------------------------------------------------------------------
(* Steps that write no row.                                                *)

\* What Load returns now.
LEMMA LoadTyped ==
  ASSUME IInv, NEW e \in Experiments
  PROVE  Load(e) \in Reads
<1>1. result[e] \in Results BY DEF IInv, Typed
<1>2. Scope[e] \in Scopes /\ Treatment[e] \in Treatments BY DEF Scopes, Treatments
<1> QED BY <1>1, <1>2 DEF Load, Reads, Results

LEMMA ExperimentMovesKeeps ==
  ASSUME IInv, NEW e \in Experiments, ExperimentMoves(e)
  PROVE  IInv'
<1> USE DEF ExperimentMoves
<1>1. PICK v \in result[e].protocol..MaxProtocols[e], u \in Outcomes :
        result' = [result EXCEPT ![e] = Result(v, u)]
  OBVIOUS
<1>2. result[e] \in Results BY DEF IInv, Typed
<1>3. v \in Protocols BY <1>1, <1>2, PipelineAssumption DEF Results, Protocols
<1>4. Result(v, u) \in Results
  BY <1>1, <1>3 DEF Result, Results, Conclusions, Validities
<1>5. result' \in [Experiments -> Results] BY <1>1, <1>4 DEF IInv, Typed
<1>6. Typed' BY <1>5 DEF IInv, Typed
<1>7. Chained' BY RowsStand
<1> QED BY <1>6, <1>7 DEF IInv

LEMMA ReadResultKeeps ==
  ASSUME IInv, NEW o \in Operators, NEW e \in Experiments, ReadResult(o, e)
  PROVE  IInv'
<1> DEFINE d == [op |-> "recommend", read |-> Load(e)]
<1>1. Do(o, d) BY DEF ReadResult
<1>2. d.op = "recommend" /\ d.read = Load(e) OBVIOUS
<1>3. DoingOK(d, bundles) BY <1>2, LoadTyped DEF DoingOK
<1>4. Chained' BY RowsStand DEF ReadResult
<1>5. Typed' BY DEF IInv, Typed, ReadResult
<1> HIDE DEF d
<1> QED BY <1>1, <1>3, <1>4, <1>5, DoKeeps DEF IInv, ReadResult

LEMMA GiveUpKeeps ==
  ASSUME IInv, NEW o \in Operators, GiveUp(o)
  PROVE  IInv'
<1>1. Do(o, Nothing) BY DEF GiveUp
<1>2. DoingOK(Nothing, bundles) BY DEF DoingOK, Nothing
<1>3. Chained' BY RowsStand DEF GiveUp
<1>4. Typed' BY DEF IInv, Typed, GiveUp
<1> QED BY <1>1, <1>2, <1>3, <1>4, DoKeeps DEF IInv, GiveUp

LEMMA BindKeeps ==
  ASSUME IInv, NEW o \in Operators, NEW ref, NEW mode \in {"SHADOW", "CANARY"},
         Bind(o, ref, mode)
  PROVE  IInv'
<1>1. PICK i \in Bundle(ref) :
        /\ Moved(bundles[i].hash, mode)
        /\ Do(o, [op |-> mode, ref |-> ref, bundle |-> i])
  BY DEF Bind
<1> DEFINE d == [op |-> mode, ref |-> ref, bundle |-> i]
<1>2. i \in DOMAIN bundles /\ bundles[i].hash \in Hashes BY BundleRow
<1>3. binding' \in Bindings BY <1>1, <1>2, MovedTyped DEF Modes
<1>4. d.op = mode /\ d.bundle = i OBVIOUS
<1>5. DoingOK(d, bundles) BY <1>2, <1>4 DEF DoingOK
<1>6. Chained' BY RowsStand DEF Bind
<1>7. Typed' BY <1>3 DEF IInv, Typed, Bind
<1>8. Do(o, d) BY <1>1
<1> HIDE DEF d
<1> QED BY <1>5, <1>6, <1>7, <1>8, DoKeeps DEF IInv, Bind

LEMMA DecideKeeps ==
  ASSUME IInv, NEW o \in Operators, Decide(o)
  PROVE  IInv'
<1> DEFINE d == [op |-> "shadow-write", ref |-> doing[o].ref, would |-> Resolved]
<1>1. Do(o, d) BY DEF Decide
<1>2. d.op = "shadow-write" OBVIOUS
<1>3. DoingOK(d, bundles) BY <1>2 DEF DoingOK
<1>4. Chained' BY RowsStand DEF Decide
<1>5. Typed' BY DEF IInv, Typed, Decide
<1> HIDE DEF d
<1> QED BY <1>1, <1>3, <1>4, <1>5, DoKeeps DEF IInv, Decide

LEMMA RecordShadowKeeps ==
  ASSUME IInv, NEW o \in Operators, RecordShadow(o)
  PROVE  IInv'
<1>1. Do(o, Nothing) BY DEF RecordShadow
<1>2. DoingOK(Nothing, bundles) BY DEF DoingOK, Nothing
<1>3. Chained' BY RowsStand DEF RecordShadow
<1>4. Typed' BY DEF IInv, Typed, RecordShadow
<1> QED BY <1>1, <1>2, <1>3, <1>4, DoKeeps DEF IInv, RecordShadow

LEMMA RunCanaryKeeps ==
  ASSUME IInv, NEW o \in Operators, RunCanary(o)
  PROVE  IInv'
<1> DEFINE i == doing[o].bundle
           d == [op |-> "verdict", bundle |-> i, events |-> CanaryEvents(i)]
<1>1. Do(o, d) BY DEF RunCanary
<1>2. d.op = "verdict" /\ d.bundle = i /\ d.events = CanaryEvents(i) OBVIOUS
<1>3. i \in DOMAIN bundles BY DEF IInv, DoingOK, RunCanary
<1>4. BundleOK(bundles[i], recs) BY <1>3 DEF IInv, Chained
<1>5. CanaryEvents(i) \in EventSets BY <1>4 DEF CanaryEvents, EventSets, File, BundleOK
<1>6. DoingOK(d, bundles) BY <1>2, <1>3, <1>5 DEF DoingOK
<1>7. Chained' BY RowsStand DEF RunCanary
<1>8. Typed' BY DEF IInv, Typed, RunCanary
<1> HIDE DEF d
<1> QED BY <1>1, <1>6, <1>7, <1>8, DoKeeps DEF IInv, RunCanary

LEMMA VerdictKeeps ==
  ASSUME IInv, NEW o \in Operators, Verdict(o)
  PROVE  IInv'
<1> DEFINE i == doing[o].bundle
<1>1. i \in DOMAIN bundles /\ doing[o].events \in EventSets BY DEF IInv, DoingOK, Verdict
<1>2. i \in DOMAIN guards BY <1>1 DEF IInv, Typed
<1>3. guards' \in Seq(EventSets) /\ Len(guards') = Len(bundles')
  BY <1>1, <1>2, ReplaceAt DEF IInv, Typed, Verdict
<1>4. bundles[i] \in BundleRows BY <1>1, ElementAt DEF IInv, Typed
<1>5. bundles[i].hash \in Hashes BY <1>4 DEF BundleRows
<1>6. binding' \in Bindings
  <2>1. CASE "FAIL" \in doing[o].events
    BY <1>5, <2>1, MovedTyped DEF Verdict, Modes
  <2>2. CASE "FAIL" \notin doing[o].events
    BY <2>2 DEF Verdict, IInv, Typed
  <2> QED BY <2>1, <2>2
<1>7. Typed' BY <1>3, <1>6 DEF IInv, Typed, Verdict
<1>8. Chained' BY RowsStand DEF Verdict
<1>9. Do(o, Nothing) BY DEF Verdict
<1>10. DoingOK(Nothing, bundles) BY DEF DoingOK, Nothing
<1> QED BY <1>7, <1>8, <1>9, <1>10, DoKeeps DEF IInv, Verdict

LEMMA DisableKeeps ==
  ASSUME IInv, NEW ref, Disable(ref)
  PROVE  IInv'
<1>1. binding' \in Bindings
  <2>1. CASE \E i \in Bundle(ref) : Moved(bundles[i].hash, "DISABLED")
    BY <2>1, BundleRow, MovedTyped DEF Modes
  <2>2. CASE Moved(binding.policy, "DISABLED")
    <3>1. binding.policy \in Hashes \union {NoPolicy} BY DEF IInv, Typed, Bindings
    <3> QED BY <2>2, <3>1, MovedTyped DEF Modes
  <2> QED BY <2>1, <2>2 DEF Disable
<1>2. Chained' BY RowsStand DEF Disable
<1>3. Typed' BY <1>1 DEF IInv, Typed, Disable
<1> QED BY <1>2, <1>3 DEF IInv, Disable

-----------------------------------------------------------------------------
(* Steps that write rows.                                                  *)

\* A new recommendation: no bundle names it and it is not marked.
LEMMA RecommendKeeps ==
  ASSUME IInv, NEW o \in Operators, Recommend(o)
  PROVE  IInv'
<1> DEFINE rec == RecommendationOf(doing[o].read)
<1>1. doing[o].read \in Reads BY DEF IInv, DoingOK, Recommend
<1>2. rec \in RecRows /\ RecOK(rec) /\ rec.state # "APPROVED_FOR_SHADOW"
  BY <1>1, RecommendationTyped
<1>3. recs' = Append(recs, rec) BY DEF Recommend
<1> HIDE DEF rec
<1>4. recs \in Seq(RecRows) BY DEF IInv, Typed
<1>5. /\ recs' \in Seq(RecRows)
      /\ DOMAIN recs' = DOMAIN recs \union {Len(recs) + 1}
      /\ Len(recs) + 1 \notin DOMAIN recs
      /\ \A r \in DOMAIN recs : recs'[r] = recs[r]
      /\ recs'[Len(recs) + 1] = rec
  BY <1>2, <1>3, <1>4, AppendAt
<1>6. Typed' BY <1>5 DEF IInv, Typed, Recommend
<1>7. \A r \in DOMAIN recs' : RecOK(recs'[r]) BY <1>2, <1>5 DEF IInv, Chained
<1>8. \A i \in DOMAIN bundles : BundleOK(bundles[i], recs')
  BY <1>5 DEF IInv, Chained, BundleOK
<1>9. \A a \in approvals : bundles[a.bundle].source \in DOMAIN recs
  BY DEF IInv, Chained, ApprovalOK, BundleOK
<1>10. Marked(recs', bundles, approvals)
  <2> SUFFICES ASSUME NEW r \in DOMAIN recs'
               PROVE  recs'[r].state = "APPROVED_FOR_SHADOW" <=>
                        \E a \in approvals : a.state = "GRANTED" /\ a.stage = "A"
                                               /\ bundles[a.bundle].source = r
    BY DEF Marked
  <2>1. CASE r \in DOMAIN recs BY <1>5, <2>1 DEF IInv, Chained, Marked
  <2>2. CASE r = Len(recs) + 1 BY <1>2, <1>5, <1>9, <2>2
  <2> QED BY <1>5, <2>1, <2>2
<1>11. Chained' BY <1>7, <1>8, <1>10 DEF IInv, Chained, Recommend
<1>12. Do(o, Nothing) BY DEF Recommend
<1>13. DoingOK(Nothing, bundles) BY DEF DoingOK, Nothing
<1> QED BY <1>6, <1>11, <1>12, <1>13, DoKeeps DEF IInv, Recommend

\* A new bundle rests on a recommendation that is not refused.
LEMMA CompileKeeps ==
  ASSUME IInv, NEW r \in DOMAIN recs, NEW p \in Policies, Compile(r, p)
  PROVE  IInv'
<1> DEFINE b == [hash |-> PolicyHash(recs[r], p), source |-> r]
<1>1. recs[r] \in RecRows BY ElementAt DEF IInv, Typed
<1>2. b.hash = <<p, ProtocolHash(recs[r]), recs[r].class>> /\ b.source = r BY DEF PolicyHash
<1>3. r \in Nat BY DEF IInv, Typed
<1>4. recs[r].class = "TEST_ONLY"
  BY <1>1 DEF Compile, Compiles, RecRows, RecClasses
<1>5. b \in BundleRows
  BY <1>1, <1>3, <1>4
     DEF BundleRows, Hashes, Protocols, Classes, RecRows, PolicyHash, ProtocolHash
<1>6. /\ p.scope \notin Actuating
      /\ p.experiment \in {Unnamed, recs[r].experiment} /\ p.treatment = recs[r].treatment
  BY <1>4 DEF Compile, Compiles
<1>7. BundleOK(b, recs) BY <1>2, <1>4, <1>6 DEF BundleOK
<1>8. bundles' = Append(bundles, b) /\ guards' = Append(guards, {}) BY DEF Compile
<1> HIDE DEF b
<1>9. bundles \in Seq(BundleRows) /\ guards \in Seq(EventSets) /\ {} \in EventSets
  BY DEF IInv, Typed, EventSets
<1>10. /\ bundles' \in Seq(BundleRows)
       /\ DOMAIN bundles' = DOMAIN bundles \union {Len(bundles) + 1}
       /\ \A i \in DOMAIN bundles : bundles'[i] = bundles[i]
       /\ bundles'[Len(bundles) + 1] = b
       /\ Len(bundles') = Len(bundles) + 1
  BY <1>5, <1>8, <1>9, AppendAt
<1>11. guards' \in Seq(EventSets) /\ Len(guards') = Len(guards) + 1
  BY <1>8, <1>9, AppendAt
<1>12. Typed' BY <1>10, <1>11 DEF IInv, Typed, Compile
<1>13. \A i \in DOMAIN bundles' : BundleOK(bundles'[i], recs)
  BY <1>7, <1>10 DEF IInv, Chained
<1>14. \A a \in approvals : a.bundle \in DOMAIN bundles /\ bundles'[a.bundle] = bundles[a.bundle]
  BY <1>10 DEF IInv, Chained, ApprovalOK
<1>15. \A a \in approvals : ApprovalOK(a, bundles')
  BY <1>10, <1>14 DEF IInv, Chained, ApprovalOK
<1>16. Marked(recs, bundles', approvals) BY <1>14 DEF IInv, Chained, Marked
<1>17. Chained' BY <1>13, <1>15, <1>16 DEF IInv, Chained, Compile
<1>18. \A o \in Operators : DoingOK(doing[o], bundles') BY <1>10 DEF IInv, DoingOK
<1> QED BY <1>12, <1>17, <1>18 DEF IInv, Compile

\* A row that is no grant of stage A marks nothing.
LEMMA InsertKeeps ==
  ASSUME IInv, NEW i \in DOMAIN bundles, NEW stage, NEW class, NEW state, NEW units,
         Insert(i, stage, class, state, units),
         ~(state = "GRANTED" /\ stage = "A"),
         state = "GRANTED" => File(i).scope \in TestScopes,
         UNCHANGED <<result, recs, bundles, guards, binding, doing>>
  PROVE  IInv'
<1> DEFINE a == [bundle |-> i, stage |-> stage, class |-> class, state |-> state, units |-> units]
<1>1. approvals' = approvals \union {a} BY DEF Insert
<1>2. a.bundle = i /\ a.stage = stage /\ a.state = state OBVIOUS
<1> HIDE DEF a
<1>3. ApprovalOK(a, bundles) BY <1>2 DEF ApprovalOK, File
<1>4. Marked(recs, bundles, approvals') BY <1>1, <1>2 DEF IInv, Chained, Marked
<1>5. Chained' BY <1>1, <1>3, <1>4 DEF IInv, Chained
<1>6. Typed' BY DEF IInv, Typed
<1> QED BY <1>5, <1>6 DEF IInv

LEMMA RequestApprovalKeeps ==
  ASSUME IInv, NEW ref, NEW stage, RequestApproval(ref, stage)
  PROVE  IInv'
<1>1. PICK i \in Bundle(ref) : Insert(i, stage, "TEST", "REQUESTED", "canary")
  BY DEF RequestApproval
<1>2. i \in DOMAIN bundles BY BundleRow
<1> QED BY <1>1, <1>2, InsertKeeps DEF RequestApproval

LEMMA PromotionRequestKeeps ==
  ASSUME IInv, NEW ref, PromotionRequest(ref)
  PROVE  IInv'
<1>1. PICK i \in Bundle(ref) : Insert(i, "B", PromotionClass(i), "REQUESTED", "none")
  BY DEF PromotionRequest
<1>2. i \in DOMAIN bundles BY BundleRow
<1> QED BY <1>1, <1>2, InsertKeeps DEF PromotionRequest

\* A grant of stage A marks the recommendation its bundle names; one of stage B
\* marks nothing.
LEMMA ApproveTestKeeps ==
  ASSUME IInv, NEW ref, NEW stage \in {"A", "B"}, ApproveTest(ref, stage)
  PROVE  IInv'
<1>1. PICK i \in Bundle(ref) :
        /\ Signable(File(i).scope)
        /\ Insert(i, stage, "TEST", "GRANTED", "canary")
        /\ recs' = IF stage = "A"
                     THEN [recs EXCEPT ![bundles[i].source].state = "APPROVED_FOR_SHADOW"]
                     ELSE recs
  BY DEF ApproveTest
<1>2. i \in DOMAIN bundles /\ File(i).scope \in TestScopes
  BY <1>1, BundleRow DEF Signable
<1>3. CASE stage = "B"
  BY <1>1, <1>2, <1>3, InsertKeeps DEF ApproveTest
<1>4. CASE stage = "A"
  <2> DEFINE r == bundles[i].source
             marked == [recs[r] EXCEPT !.state = "APPROVED_FOR_SHADOW"]
             a == [bundle |-> i, stage |-> stage, class |-> "TEST", state |-> "GRANTED",
                   units |-> "canary"]
  <2>1. r \in DOMAIN recs /\ recs[r].class = "TEST_ONLY"
    BY <1>2 DEF IInv, Chained, BundleOK
  <2>2. recs[r] \in RecRows BY <2>1, ElementAt DEF IInv, Typed
  <2>3. \A x \in RecRows :
           /\ [x EXCEPT !.state = "APPROVED_FOR_SHADOW"] \in RecRows
           /\ [x EXCEPT !.state = "APPROVED_FOR_SHADOW"].state = "APPROVED_FOR_SHADOW"
           /\ RecOK(x) => RecOK([x EXCEPT !.state = "APPROVED_FOR_SHADOW"])
           /\ [x EXCEPT !.state = "APPROVED_FOR_SHADOW"].class = x.class
           /\ [x EXCEPT !.state = "APPROVED_FOR_SHADOW"].protocol = x.protocol
           /\ [x EXCEPT !.state = "APPROVED_FOR_SHADOW"].experiment = x.experiment
           /\ [x EXCEPT !.state = "APPROVED_FOR_SHADOW"].treatment = x.treatment
    BY DEF RecRows, RecStates, RecOK
  <2>4. /\ marked \in RecRows /\ marked.state = "APPROVED_FOR_SHADOW"
        /\ RecOK(marked) /\ marked.class = recs[r].class /\ marked.protocol = recs[r].protocol
        /\ marked.experiment = recs[r].experiment /\ marked.treatment = recs[r].treatment
    BY <2>1, <2>2, <2>3 DEF IInv, Chained
  <2>5. recs' = [recs EXCEPT ![r] = marked] BY <1>1, <1>4
  <2>6. approvals' = approvals \union {a} BY <1>1 DEF Insert
  <2>7. a.bundle = i /\ a.stage = "A" /\ a.state = "GRANTED" BY <1>4
  <2>8. bundles' = bundles BY DEF ApproveTest
  <2>9. r = bundles[i].source OBVIOUS
  <2> HIDE DEF marked, a, r
  <2>10. /\ recs' \in Seq(RecRows) /\ DOMAIN recs' = DOMAIN recs
         /\ \A q \in DOMAIN recs : recs'[q] = IF q = r THEN marked ELSE recs[q]
    BY <2>1, <2>4, <2>5, ReplaceAt DEF IInv, Typed
  <2>11. Typed' BY <2>10 DEF IInv, Typed, ApproveTest
  <2>12. \A q \in DOMAIN recs' : RecOK(recs'[q]) BY <2>4, <2>10 DEF IInv, Chained
  <2>13. \A j \in DOMAIN bundles : BundleOK(bundles[j], recs')
    BY <2>4, <2>10 DEF IInv, Chained, BundleOK, ProtocolHash
  <2>14. ApprovalOK(a, bundles) BY <1>2, <2>7 DEF ApprovalOK, File
  <2>15. Marked(recs', bundles, approvals')
    <3> SUFFICES ASSUME NEW q \in DOMAIN recs
                 PROVE  recs'[q].state = "APPROVED_FOR_SHADOW" <=>
                          \E x \in approvals' : x.state = "GRANTED" /\ x.stage = "A"
                                                 /\ bundles[x.bundle].source = q
      BY <2>10 DEF Marked
    <3>1. CASE q = r BY <2>4, <2>6, <2>7, <2>9, <2>10, <3>1
    <3>2. CASE q # r
      <4>1. recs'[q] = recs[q] BY <2>10, <3>2
      <4>2. bundles[a.bundle].source # q BY <2>7, <2>9, <3>2
      <4> QED BY <2>6, <4>1, <4>2 DEF IInv, Chained, Marked
    <3> QED BY <3>1, <3>2
  <2>16. Chained' BY <2>6, <2>8, <2>12, <2>13, <2>14, <2>15 DEF IInv, Chained
  <2> QED BY <2>11, <2>16 DEF IInv, ApproveTest
<1> QED BY <1>3, <1>4

-----------------------------------------------------------------------------
(* The invariant.                                                          *)

LEMMA InitOK == Init => IInv
<1> SUFFICES ASSUME Init PROVE IInv OBVIOUS
<1>1. recs = <<>> /\ bundles = <<>> /\ guards = <<>> /\ approvals = {} /\ binding = NoBinding
      /\ doing = [o \in Operators |-> Nothing]
  BY DEF Init
<1>2. result \in [Experiments -> Results]
  <2>1. 1 \in Protocols BY PipelineAssumption DEF Protocols
  <2>2. \A u \in Outcomes : Result(1, u) \in Results
    BY <2>1 DEF Result, Results, Conclusions, Validities
  <2> QED BY <2>2 DEF Init
<1>3. binding \in Bindings BY <1>1 DEF NoBinding, Bindings, Modes
<1>4. Typed BY <1>1, <1>2, <1>3 DEF Typed
<1>5. Chained BY <1>1 DEF Chained, Marked
<1>6. DoingOK(Nothing, bundles) BY DEF DoingOK, Nothing
<1> QED BY <1>1, <1>4, <1>5, <1>6 DEF IInv

LEMMA NextKeeps == IInv /\ [Next]_vars => IInv'
<1> SUFFICES ASSUME IInv, [Next]_vars PROVE IInv' OBVIOUS
<1>1. CASE UNCHANGED vars BY <1>1 DEF vars, IInv, Typed, Chained
<1>2. ASSUME NEW e \in Experiments, ExperimentMoves(e) PROVE IInv'
  BY <1>2, ExperimentMovesKeeps
<1>3. ASSUME NEW o \in Operators, NEW e \in Experiments, ReadResult(o, e) PROVE IInv'
  BY <1>3, ReadResultKeeps
<1>4. ASSUME NEW o \in Operators, Recommend(o) PROVE IInv' BY <1>4, RecommendKeeps
<1>5. ASSUME NEW o \in Operators, GiveUp(o) PROVE IInv' BY <1>5, GiveUpKeeps
<1>6. ASSUME NEW o \in Operators, Decide(o) PROVE IInv' BY <1>6, DecideKeeps
<1>7. ASSUME NEW o \in Operators, RecordShadow(o) PROVE IInv' BY <1>7, RecordShadowKeeps
<1>8. ASSUME NEW o \in Operators, RunCanary(o) PROVE IInv' BY <1>8, RunCanaryKeeps
<1>9. ASSUME NEW o \in Operators, Verdict(o) PROVE IInv' BY <1>9, VerdictKeeps
<1>10. ASSUME NEW o \in Operators, NEW ref, NEW mode \in {"SHADOW", "CANARY"}, Bind(o, ref, mode)
       PROVE IInv'
  BY <1>10, BindKeeps
<1>11. ASSUME NEW r \in DOMAIN recs, NEW p \in Policies, Compile(r, p) PROVE IInv'
  BY <1>11, CompileKeeps
<1>12. ASSUME NEW ref, NEW stage, RequestApproval(ref, stage) PROVE IInv'
  BY <1>12, RequestApprovalKeeps
<1>13. ASSUME NEW ref, NEW stage \in {"A", "B"}, ApproveTest(ref, stage) PROVE IInv'
  BY <1>13, ApproveTestKeeps
<1>14. ASSUME NEW ref, Disable(ref) PROVE IInv' BY <1>14, DisableKeeps
<1>15. ASSUME NEW ref, PromotionRequest(ref) PROVE IInv' BY <1>15, PromotionRequestKeeps
<1> QED BY <1>1, <1>2, <1>3, <1>4, <1>5, <1>6, <1>7, <1>8, <1>9, <1>10, <1>11, <1>12,
          <1>13, <1>14, <1>15 DEF Next

\* The inductive invariant: recommendations are never production candidates,
\* bundles rest on the recommendation they name, approvals and marks agree.
THEOREM Invariance == Spec => []IInv
BY InitOK, NextKeeps, PTL DEF Spec

-----------------------------------------------------------------------------
(* The properties.                                                         *)

\* The hash of a stored bundle is one of the hashes.
LEMMA BundleHash ==
  ASSUME IInv, NEW i \in DOMAIN bundles
  PROVE  bundles[i].hash \in Hashes
<1>1. bundles[i] \in BundleRows BY ElementAt DEF IInv, Typed
<1> QED BY <1>1 DEF BundleRows

\* The recommendations, bundles, approvals and the binding keep their types: a
\* bundle names a recommendation, an approval a bundle, the binding a bundle's hash.
THEOREM TypeCorrect == Spec => []TypeOK
<1>1. IInv => TypeOK
  <2> SUFFICES ASSUME IInv PROVE TypeOK OBVIOUS
  <2>1. \A r \in DOMAIN recs : recs[r].experiment \in Experiments /\ recs[r].class \in Classes
    <3> SUFFICES ASSUME NEW r \in DOMAIN recs
                 PROVE  recs[r].experiment \in Experiments /\ recs[r].class \in Classes
      OBVIOUS
    <3>1. recs[r] \in RecRows BY ElementAt DEF IInv, Typed
    <3> QED BY <3>1 DEF RecRows, RecClasses, Classes
  <2>2. \A i \in DOMAIN bundles : bundles[i].hash \in Hashes BY BundleHash
  <2>3. \A i \in DOMAIN bundles : bundles[i].source \in DOMAIN recs
    BY DEF IInv, Chained, BundleOK
  <2>4. \A a \in approvals : a.bundle \in DOMAIN bundles BY DEF IInv, Chained, ApprovalOK
  <2>5. Len(guards) = Len(bundles) /\ binding.policy \in Hashes \union {NoPolicy}
    BY DEF IInv, Typed, Bindings
  <2> QED BY <2>1, <2>2, <2>3, <2>4, <2>5 DEF TypeOK
<1> QED BY <1>1, Invariance, PTL

\* Every bundle rests on the evidence of the recommendation it names: on the
\* protocol of its experiment, with the file's treatment and, unless the file
\* names none, the file's experiment.
THEOREM EvidenceHolds == Spec => []EvidenceChain
<1>1. IInv => EvidenceChain
  BY DEF IInv, Chained, BundleOK, RecOK, EvidenceChain, File, ProtocolHash
<1> QED BY <1>1, Invariance, PTL

\* A recommendation is marked exactly when a stage A grant exists for a bundle
\* compiled from it.
THEOREM MarksAreGrants == Spec => []ShadowApprovalIsGranted
<1>1. IInv => ShadowApprovalIsGranted
  BY DEF IInv, Chained, Marked, ShadowApprovalIsGranted
<1> QED BY <1>1, Invariance, PTL

\* No production candidate, no bundle with an actuating scope and no test
\* approval of a production scope, whatever policies and results there are.
THEOREM ProductionClosed == Spec => []TestStaysTest
<1>1. IInv => TestStaysTest
  <2> SUFFICES ASSUME IInv PROVE TestStaysTest OBVIOUS
  <2>1. \A r \in DOMAIN recs : recs[r].class \in RecClasses
    <3> SUFFICES ASSUME NEW r \in DOMAIN recs PROVE recs[r].class \in RecClasses OBVIOUS
    <3>1. recs[r] \in RecRows BY ElementAt DEF IInv, Typed
    <3> QED BY <3>1 DEF RecRows
  <2> QED BY <2>1 DEF IInv, Chained, BundleOK, ApprovalOK, TestStaysTest, File, RecClasses
<1> QED BY <1>1, Invariance, PTL

\* A step that changes neither rows of recommendations nor of bundles nor of
\* approvals.
LEMMA StandStill ==
  ASSUME IInv, UNCHANGED <<recs, bundles, approvals>>
  PROVE  /\ \A i \in DOMAIN bundles : i \in DOMAIN bundles' /\ bundles'[i] = bundles[i]
         /\ approvals \subseteq approvals'
         /\ \A r \in DOMAIN recs : r \in DOMAIN recs' /\ recs'[r] = recs[r]
OBVIOUS

\* Rows are only added, a bundle never changes, and of a recommendation only
\* EVIDENCE_VALIDATED becomes APPROVED_FOR_SHADOW.
THEOREM RowsStay == Spec => OnlyForward
<1> DEFINE Forward ==
      /\ \A i \in DOMAIN bundles : i \in DOMAIN bundles' /\ bundles'[i] = bundles[i]
      /\ approvals \subseteq approvals'
      /\ \A r \in DOMAIN recs :
           /\ r \in DOMAIN recs'
           /\ recs'[r] # recs[r] =>
                /\ recs[r].state = "EVIDENCE_VALIDATED"
                /\ recs'[r] = [recs[r] EXCEPT !.state = "APPROVED_FOR_SHADOW"]
<1>1. IInv /\ [Next]_vars => [Forward]_vars
  <2> SUFFICES ASSUME IInv, Next PROVE Forward OBVIOUS
  <2>1. CASE UNCHANGED <<recs, bundles, approvals>> BY <2>1, StandStill
  <2>2. ASSUME NEW o \in Operators, Recommend(o) PROVE Forward
    <3>1. doing[o].read \in Reads BY <2>2 DEF IInv, DoingOK, Recommend
    <3>2. RecommendationOf(doing[o].read) \in RecRows BY <3>1, RecommendationTyped
    <3>3. DOMAIN recs \subseteq DOMAIN recs' /\ \A r \in DOMAIN recs : recs'[r] = recs[r]
      BY <2>2, <3>2, AppendAt DEF IInv, Typed, Recommend
    <3> QED BY <2>2, <3>3 DEF Recommend
  <2>3. ASSUME NEW r \in DOMAIN recs, NEW p \in Policies, Compile(r, p) PROVE Forward
    <3> DEFINE b == [hash |-> PolicyHash(recs[r], p), source |-> r]
    <3>1. bundles' = Append(bundles, b) BY <2>3 DEF Compile
    <3>2. DOMAIN bundles \subseteq DOMAIN bundles'
          /\ \A i \in DOMAIN bundles : bundles'[i] = bundles[i]
      <4>1. bundles \in Seq(BundleRows \union {b}) BY SeqMonotonic DEF IInv, Typed
      <4>2. b \in BundleRows \union {b} OBVIOUS
      <4> HIDE DEF b
      <4> QED BY <3>1, <4>1, <4>2, AppendAt
    <3> QED BY <2>3, <3>2 DEF Compile
  <2>4. ASSUME NEW ref, NEW stage, NEW class, NEW state, NEW units, NEW i \in Bundle(ref),
               Insert(i, stage, class, state, units), UNCHANGED <<recs, bundles>>
        PROVE Forward
    BY <2>4 DEF Insert
  <2>5. ASSUME NEW ref, NEW stage \in {"A", "B"}, ApproveTest(ref, stage) PROVE Forward
    <3>1. PICK i \in Bundle(ref) :
            /\ Insert(i, stage, "TEST", "GRANTED", "canary")
            /\ recs' = IF stage = "A"
                         THEN [recs EXCEPT ![bundles[i].source].state = "APPROVED_FOR_SHADOW"]
                         ELSE recs
      BY <2>5 DEF ApproveTest
    <3>2. bundles' = bundles /\ approvals \subseteq approvals'
      BY <2>5, <3>1 DEF ApproveTest, Insert
    <3>3. CASE stage = "B" BY <3>1, <3>2, <3>3
    <3>4. CASE stage = "A"
      <4> DEFINE r == bundles[i].source
                 marked == [recs[r] EXCEPT !.state = "APPROVED_FOR_SHADOW"]
      <4>1. i \in DOMAIN bundles BY BundleRow
      <4>2. r \in DOMAIN recs /\ recs[r].class = "TEST_ONLY"
        BY <4>1 DEF IInv, Chained, BundleOK
      <4>3. recs[r] \in RecRows BY <4>2, ElementAt DEF IInv, Typed
      <4>4. \A x \in RecRows :
              /\ [x EXCEPT !.state = "APPROVED_FOR_SHADOW"] \in RecRows
              /\ x.state = "APPROVED_FOR_SHADOW" => [x EXCEPT !.state = "APPROVED_FOR_SHADOW"] = x
        BY DEF RecRows, RecStates
      <4>5. recs[r].state \in {"EVIDENCE_VALIDATED", "APPROVED_FOR_SHADOW"}
        BY <4>2, <4>3 DEF IInv, Chained, RecOK, RecRows, RecStates
      <4>6. recs' = [recs EXCEPT ![r] = marked] BY <3>1, <3>4
      <4>7. marked \in RecRows BY <4>3, <4>4
      <4>8. recs[r].state = "APPROVED_FOR_SHADOW" => marked = recs[r] BY <4>3, <4>4
      <4>9. marked = [recs[r] EXCEPT !.state = "APPROVED_FOR_SHADOW"] OBVIOUS
      <4> HIDE DEF marked, r
      <4>10. /\ DOMAIN recs' = DOMAIN recs
             /\ \A q \in DOMAIN recs : recs'[q] = IF q = r THEN marked ELSE recs[q]
        BY <4>2, <4>6, <4>7, ReplaceAt DEF IInv, Typed
      <4> QED BY <3>2, <4>5, <4>8, <4>9, <4>10
    <3> QED BY <3>3, <3>4
  <2>6. ASSUME NEW ref, NEW stage, RequestApproval(ref, stage) PROVE Forward
    <3>1. PICK i \in Bundle(ref) : Insert(i, stage, "TEST", "REQUESTED", "canary")
      BY <2>6 DEF RequestApproval
    <3> QED BY <2>4, <2>6, <3>1 DEF RequestApproval
  <2>7. ASSUME NEW ref, PromotionRequest(ref) PROVE Forward
    <3>1. PICK i \in Bundle(ref) : Insert(i, "B", PromotionClass(i), "REQUESTED", "none")
      BY <2>7 DEF PromotionRequest
    <3> QED BY <2>4, <2>7, <3>1 DEF PromotionRequest
  <2> HIDE DEF Forward
  <2> QED BY <2>1, <2>2, <2>3, <2>5, <2>6, <2>7
          DEF Next, ExperimentMoves, ReadResult, GiveUp, Decide, RecordShadow, RunCanary,
              Verdict, Bind, Disable
<1> QED BY <1>1, Invariance, PTL DEF Spec, OnlyForward

\* The pipeline's binding is the control plane's versioned pointer: every step
\* is one of its moves or none.
THEOREM Refinement == Spec => ImplementsPointer
<1>1. Init => Ptr!PtrInit BY DEF Init, NoBinding, Ptr!PtrInit
<1>2. IInv /\ [Next]_vars => [Ptr!PtrNext]_(Ptr!ptrVars)
  <2> SUFFICES ASSUME IInv, [Next]_vars PROVE [Ptr!PtrNext]_(Ptr!ptrVars) OBVIOUS
  <2>1. ASSUME UNCHANGED binding PROVE [Ptr!PtrNext]_(Ptr!ptrVars) BY <2>1 DEF Ptr!ptrVars
  <2>2. ASSUME NEW h \in Hashes \union {NoPolicy}, Moved(h, "DISABLED") PROVE Ptr!PtrNext
    BY <2>2 DEF Moved, Ptr!PtrNext, Ptr!Disable, Ptr!Moved
  <2>3. ASSUME NEW o \in Operators, NEW ref, NEW mode \in {"SHADOW", "CANARY"}, Bind(o, ref, mode)
        PROVE  Ptr!PtrNext
    <3>1. PICK i \in Bundle(ref) : Moved(bundles[i].hash, mode) BY <2>3 DEF Bind
    <3>2. bundles[i].hash \in Hashes BY BundleRow
    <3> QED BY <3>1, <3>2 DEF Moved, Ptr!PtrNext, Ptr!Activate, Ptr!Moved, Ptr!ActiveModes
  <2>4. ASSUME NEW o \in Operators, Verdict(o) PROVE [Ptr!PtrNext]_(Ptr!ptrVars)
    <3>1. doing[o].bundle \in DOMAIN bundles BY <2>4 DEF IInv, DoingOK, Verdict
    <3>2. bundles[doing[o].bundle].hash \in Hashes BY <3>1, BundleHash
    <3> QED BY <2>1, <2>2, <2>4, <3>2 DEF Verdict
  <2>5. ASSUME NEW ref, Disable(ref) PROVE Ptr!PtrNext
    <3>1. CASE \E i \in Bundle(ref) : Moved(bundles[i].hash, "DISABLED")
      BY <2>2, <3>1, BundleRow
    <3>2. CASE Moved(binding.policy, "DISABLED")
      <4>1. binding.policy \in Hashes \union {NoPolicy} BY DEF IInv, Typed, Bindings
      <4> QED BY <2>2, <3>2, <4>1
    <3> QED BY <2>5, <3>1, <3>2 DEF Disable
  <2>6. CASE UNCHANGED vars BY <2>1, <2>6 DEF vars
  <2> QED BY <2>1, <2>3, <2>4, <2>5, <2>6
          DEF Next, ExperimentMoves, ReadResult, Recommend, GiveUp, Decide, RecordShadow,
              RunCanary, Compile, RequestApproval, ApproveTest, PromotionRequest
<1> QED BY <1>1, <1>2, Invariance, PTL DEF Spec, ImplementsPointer, Ptr!PtrSpec
=============================================================================
