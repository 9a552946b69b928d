---------------------------- MODULE Reviews_proofs ----------------------------
(***************************************************************************)
(* Proofs about Reviews: requests and analyses that follow one another     *)
(* never leave an analysis beside a body it was not made from, and a body  *)
(* without its own analysis has one on its way even when they overlap; for *)
(* any number of requests.                                                 *)
(***************************************************************************)
EXTENDS Reviews, TLAPS

LEMMA InitSerialInv == Init => SerialInv
<1> SUFFICES ASSUME Init PROVE SerialInv
  OBVIOUS
<1>1. TypeOK
  BY DEF Init, TypeOK
<1>2. \A r \in Requests : ~Holding(r)
  BY DEF Init, Holding
<1>3. Describes /\ OneAtATime
  BY DEF Init, Describes, OneAtATime, Busy
<1> QED BY <1>1, <1>2, <1>3 DEF SerialInv, LoadedCurrent

\* The arrival of a request keeps what is said of a time without overlaps, if
\* what the request makes of the review describes it.
LEMMA ArrivalKeeps ==
    ASSUME SerialInv, NEW r \in Requests, Arrive(r), TypeOK',
           \A q \in Requests : q # r => pc'[q] = pc[q] /\ loaded'[q] = loaded[q],
           Holding(r)' => loaded'[r] # NULL /\ loaded'[r] = review',
           Describes => Describes'
    PROVE  SerialInv'
<1>1. ASSUME NEW q \in Requests, Holding(q)'
      PROVE  loaded'[q] # NULL
  BY <1>1 DEF SerialInv, Holding
<1>2. ASSUME ~overlapped'
      PROVE  Describes' /\ OneAtATime' /\ LoadedCurrent'
  <2>1. ~overlapped /\ \A q \in Requests : pc[q] \notin Busy
    BY <1>2 DEF Arrive, SerialInv, TypeOK
  <2>2. OneAtATime'
    BY <2>1 DEF OneAtATime
  <2>3. LoadedCurrent'
    BY <2>1 DEF LoadedCurrent, Holding, Busy
  <2> QED BY <2>1, <2>2, <2>3 DEF SerialInv
<1> QED BY <1>1, <1>2 DEF SerialInv

\* A busy request goes on: when it is alone, nobody else has the review in hand.
LEMMA ProgressKeeps ==
    ASSUME SerialInv, NEW r \in Requests, pc[r] \in Busy, TypeOK', overlapped' = overlapped,
           \A q \in Requests : q # r => pc'[q] = pc[q] /\ loaded'[q] = loaded[q],
           Holding(r)' => loaded'[r] # NULL /\ loaded'[r] = review',
           ~overlapped => Describes'
    PROVE  SerialInv'
<1>1. ASSUME NEW q \in Requests, Holding(q)'
      PROVE  loaded'[q] # NULL
  BY <1>1 DEF SerialInv, Holding
<1>2. ASSUME ~overlapped
      PROVE  OneAtATime' /\ LoadedCurrent'
  <2>1. \A q \in Requests : q # r => pc'[q] \notin Busy
    BY <1>2 DEF SerialInv, OneAtATime
  <2>2. OneAtATime'
    BY <2>1 DEF OneAtATime
  <2>3. LoadedCurrent'
    BY <2>1 DEF LoadedCurrent, Holding, Busy
  <2> QED BY <2>2, <2>3
<1> QED BY <1>1, <1>2 DEF SerialInv

LEMMA CreateKeeps == ASSUME SerialInv, NEW r \in Requests, Create(r) PROVE SerialInv'
<1>1. PICK b \in Bodies : review' = [body |-> b, llm_analysis |-> NULL]
  BY DEF Create
<1>2. review' \in Row /\ Describes'
  BY <1>1 DEF Row, Describes
<1>3. overlapped' \in BOOLEAN /\ broken' \in BOOLEAN /\ overtaken' \in BOOLEAN
  BY DEF Create, Arrive, SerialInv, TypeOK
<1>4. TypeOK'
  BY <1>2, <1>3 DEF Create, Goto, SerialInv, TypeOK, Busy
<1>5. /\ Arrive(r) /\ pc'[r] = "respond" /\ loaded' = loaded
      /\ \A q \in Requests : q # r => pc'[q] = pc[q]
  BY DEF Create, Goto, SerialInv, TypeOK
<1> QED BY <1>2, <1>4, <1>5, ArrivalKeeps DEF Holding

LEMMA LoadKeeps == ASSUME SerialInv, NEW r \in Requests, Load(r) PROVE SerialInv'
<1>1. PICK o \in {"patch", "analyze", "delete"}, b \in Bodies \cup {NULL} :
        /\ op' = [op EXCEPT ![r] = o]
        /\ input' = [input EXCEPT ![r] = b]
        /\ Goto(r, IF review = NULL THEN "not_found" ELSE o)
  BY DEF Load
<1>2. overlapped' \in BOOLEAN /\ broken' \in BOOLEAN /\ overtaken' \in BOOLEAN
  BY DEF Load, Arrive, SerialInv, TypeOK
<1>3. TypeOK'
  BY <1>1, <1>2 DEF Load, Goto, SerialInv, TypeOK, Busy, Ended
<1>4. /\ Arrive(r) /\ loaded'[r] = review /\ review' = review
      /\ \A q \in Requests : q # r => pc'[q] = pc[q] /\ loaded'[q] = loaded[q]
      /\ review = NULL => pc'[r] = "not_found"
  BY <1>1 DEF Load, Goto, SerialInv, TypeOK
<1>5. Describes => Describes'
  BY <1>4 DEF Describes
<1> QED BY <1>3, <1>4, <1>5, ArrivalKeeps DEF Holding

\* An edit of the body drops the analysis there is.
LEMMA CommitPatchKeeps ==
    ASSUME SerialInv, NEW r \in Requests, CommitPatch(r), UNCHANGED history
    PROVE  SerialInv'
<1>1. /\ pc[r] = "patch" /\ ~PatchRaises(r) /\ pc[r] \in Busy /\ Holding(r)
      /\ UNCHANGED <<loaded, overlapped>> /\ pc'[r] = "respond"
      /\ \A q \in Requests : q # r => pc'[q] = pc[q]
  BY DEF CommitPatch, Goto, Busy, Holding, history, SerialInv, TypeOK
<1>2. loaded[r] \in Row /\ overtaken' \in BOOLEAN
  BY <1>1 DEF CommitPatch, SerialInv, TypeOK
<1>3. CASE review = NULL
  <2>1. review' = NULL
    BY <1>3 DEF CommitPatch
  <2>2. TypeOK'
    BY <1>2, <2>1 DEF CommitPatch, Schedules, BodyChanged, Goto, history, SerialInv, TypeOK, Busy
  <2> QED BY <1>1, <2>1, <2>2, ProgressKeeps DEF Holding, Describes
<1>4. CASE review # NULL
  <2>1. review' = Patched(r) /\ review \in Row
    BY <1>4 DEF CommitPatch, SerialInv, TypeOK
  <2>2. BodyChanged(r) => input[r] \in Bodies
    BY <1>1 DEF PatchRaises, SerialInv, TypeOK
  <2>3. Patched(r) \in Row
    BY <2>1, <2>2 DEF Patched, Row
  <2>4. TypeOK'
    BY <1>2, <2>1, <2>3 DEF CommitPatch, Schedules, BodyChanged, Goto, history, SerialInv, TypeOK, Busy
  <2>5. ASSUME ~overlapped
        PROVE  Describes'
    <3>1. loaded[r] = review
      BY <1>1, <2>5 DEF SerialInv, LoadedCurrent
    <3>2. CASE BodyChanged(r)
      <4>1. Patched(r).llm_analysis = NULL
        BY <3>1, <3>2 DEF Patched
      <4> QED BY <2>1, <4>1 DEF Describes
    <3>3. CASE ~BodyChanged(r)
      <4>1. review' = review
        BY <2>1, <3>3 DEF Patched
      <4> QED BY <2>5, <4>1 DEF SerialInv, Describes
    <3> QED BY <3>2, <3>3
  <2> QED BY <1>1, <2>4, <2>5, ProgressKeeps DEF Holding
<1> QED BY <1>3, <1>4

\* An analysis is committed beside the body it was made from.
LEMMA CommitAnalysisKeeps ==
    ASSUME SerialInv, NEW r \in Requests, CommitAnalysis(r), UNCHANGED history
    PROVE  SerialInv'
<1>1. /\ pc[r] = "analyze" /\ pc[r] \in Busy /\ Holding(r)
      /\ UNCHANGED <<loaded, overlapped>>
  BY DEF CommitAnalysis, Busy, Holding, history
<1>2. /\ pc'[r] \in {"failed", "respond", "done"}
      /\ \A q \in Requests : q # r => pc'[q] = pc[q]
      /\ pc' \in [Requests -> {"idle"} \cup Busy \cup Ended]
  <2>1. PICK label \in {"failed", "respond", "done"} : Goto(r, label)
    <3>1. CASE op[r] = "analyze" /\ review = NULL
      BY <3>1 DEF CommitAnalysis
    <3>2. CASE op[r] = "analyze" /\ review # NULL
      BY <3>2 DEF CommitAnalysis
    <3>3. CASE op[r] # "analyze"
      BY <3>3 DEF CommitAnalysis
    <3> QED BY <3>1, <3>2, <3>3
  <2> QED BY <2>1 DEF Goto, SerialInv, TypeOK, Busy, Ended
<1>3. loaded[r] \in Row
  BY <1>1 DEF SerialInv, TypeOK
<1>4. review' = IF review = NULL THEN NULL ELSE [review EXCEPT !.llm_analysis = loaded[r].body]
  BY DEF CommitAnalysis
<1>5. review' \in Row \cup {NULL}
  <2>1. CASE review = NULL
    BY <1>4, <2>1
  <2>2. CASE review # NULL
    <3>1. review \in Row
      BY <2>2 DEF SerialInv, TypeOK
    <3> QED BY <1>3, <1>4, <2>2, <3>1 DEF Row
  <2> QED BY <2>1, <2>2
<1>6. TypeOK'
  BY <1>2, <1>5 DEF CommitAnalysis, history, SerialInv, TypeOK
<1>7. ASSUME ~overlapped
      PROVE  Describes'
  <2>1. loaded[r] = review
    BY <1>1, <1>7 DEF SerialInv, LoadedCurrent
  <2> QED BY <1>3, <1>4, <2>1 DEF Describes, Row
<1> QED BY <1>1, <1>2, <1>6, <1>7, ProgressKeeps DEF Holding

\* The other steps leave the review as it is, or remove it.
LEMMA OtherStepKeeps ==
    ASSUME SerialInv, NEW r \in Requests,
           \/ PatchFails(r) \/ Delete(r) \/ Respond(r) \/ BeginAnalysis(r)
           \/ Fail(r),
           overlapped' = overlapped, broken' \in BOOLEAN
    PROVE  SerialInv'
<1>1. /\ pc[r] \in Busy
      /\ \E label \in {"failed", "answered", "not_found", "scheduled", "done", "analyze"} :
            Goto(r, label) /\ (label = "analyze" => BeginAnalysis(r) /\ review # NULL)
  <2>1. CASE Respond(r)
    <3>1. pc[r] \in Busy
      BY <2>1 DEF Respond, Busy
    <3>2. \E label \in {"not_found", "failed", "scheduled", "answered"} : Goto(r, label)
      BY <2>1 DEF Respond
    <3> QED BY <3>1, <3>2
  <2>2. CASE BeginAnalysis(r)
    BY <2>2 DEF BeginAnalysis, Busy
  <2>3. CASE PatchFails(r) \/ Delete(r) \/ Fail(r)
    BY <2>3 DEF PatchFails, Delete, Fail, Busy
  <2> QED BY <2>1, <2>2, <2>3
<1>2. PICK label \in {"failed", "answered", "not_found", "scheduled", "done", "analyze"} :
        Goto(r, label) /\ (label = "analyze" => BeginAnalysis(r) /\ review # NULL)
  BY <1>1
<1>3. /\ UNCHANGED <<created, op, input, task, overtaken>>
      /\ review' \in {review, NULL} /\ loaded' \in {loaded, [loaded EXCEPT ![r] = review]}
  BY DEF PatchFails, Delete, Respond, BeginAnalysis, Fail
<1>4. pc'[r] = label /\ \A q \in Requests : q # r => pc'[q] = pc[q] /\ loaded'[q] = loaded[q]
  BY <1>2, <1>3 DEF Goto, SerialInv, TypeOK
<1>5. TypeOK'
  BY <1>2, <1>3 DEF Goto, SerialInv, TypeOK, Busy, Ended
<1>6. Holding(r)' => loaded'[r] # NULL /\ loaded'[r] = review'
  <2>1. SUFFICES ASSUME label = "analyze"
                 PROVE  loaded'[r] # NULL /\ loaded'[r] = review'
    BY <1>4 DEF Holding
  <2> QED BY <1>2, <2>1 DEF BeginAnalysis, SerialInv, TypeOK
<1>7. ~overlapped => Describes'
  BY <1>3 DEF SerialInv, Describes
<1> QED BY <1>1, <1>4, <1>5, <1>6, <1>7, ProgressKeeps

LEMMA NextSerialInv == SerialInv /\ [Next]_vars => SerialInv'
<1> SUFFICES ASSUME SerialInv, [Next]_vars PROVE SerialInv'
  OBVIOUS
<1>1. ASSUME NEW r \in Requests, Create(r) \/ Load(r) \/ Proceed(r) \/ Fail(r)
      PROVE  SerialInv'
  <2>1. CASE Proceed(r)
    <3>1. UNCHANGED <<overlapped, broken>> /\ broken' \in BOOLEAN
      BY <2>1 DEF Proceed, history, SerialInv, TypeOK
    <3> QED BY <2>1, <3>1, CommitPatchKeeps, CommitAnalysisKeeps, OtherStepKeeps
            DEF Proceed, RequestStep
  <2>2. CASE Fail(r)
    <3>1. overlapped' = overlapped /\ broken' \in BOOLEAN
      BY <2>2 DEF Fail
    <3> QED BY <2>2, <3>1, OtherStepKeeps
  <2> QED BY <1>1, <2>1, <2>2, CreateKeeps, LoadKeeps
<1>2. CASE UNCHANGED vars
  BY <1>2 DEF vars, history, SerialInv, TypeOK, Holding, Describes, OneAtATime, LoadedCurrent
<1> QED BY <1>1, <1>2 DEF Next, Rest

\* As long as requests and analyses follow one another, the analysis of a review
\* is of its body, whatever fails and whenever the process stops.
THEOREM SerialAnalyses == Spec => []SerialInv
<1>1. SerialInv /\ [Next]_vars => SerialInv'
  BY NextSerialInv
<1> QED BY InitSerialInv, <1>1, PTL DEF Spec

-----------------------------------------------------------------------------
(***************************************************************************)
(* No body is forgotten.                                                   *)
(***************************************************************************)
\* A step of r that leaves the review as it is, or removes it, and that does not
\* lead r away from an analysis.
LEMMA OnItsWayKept ==
    ASSUME AnalysisOnItsWay, NEW r \in Requests,
           \A q \in Requests : q # r => /\ pc'[q] = pc[q] /\ task'[q] = task[q]
                                        /\ loaded'[q] = loaded[q],
           review' \in {review, NULL}, broken' = broken, overtaken' = overtaken,
           review' # NULL /\ WillAnalyze(r) => WillAnalyze(r)'
    PROVE  AnalysisOnItsWay'
<1> SUFFICES ASSUME review' # NULL, review'.llm_analysis # review'.body, ~broken', ~overtaken'
             PROVE  \E q \in Requests : WillAnalyze(q)'
  BY DEF AnalysisOnItsWay, WillAnalyze
<1>1. review' = review
  OBVIOUS
<1> PICK w \in Requests : WillAnalyze(w)
  BY <1>1 DEF AnalysisOnItsWay
<1>2. CASE w = r
  BY <1>2
<1>3. CASE w # r
  BY <1>1, <1>3 DEF WillAnalyze
<1> QED BY <1>2, <1>3

LEMMA RequestKeepsOnItsWay ==
    ASSUME SerialInv, AnalysisOnItsWay, NEW r \in Requests,
           Create(r) \/ Load(r) \/ Proceed(r) \/ Fail(r)
    PROVE  AnalysisOnItsWay'
<1>1. CASE Create(r)
  <2>1. pc'[r] = "respond" /\ task'[r]
    BY <1>1 DEF Create, Goto, SerialInv, TypeOK
  <2>2. WillAnalyze(r)'
    BY <2>1 DEF WillAnalyze
  <2> QED BY <2>2 DEF AnalysisOnItsWay
<1>2. CASE Fail(r)
  BY <1>2 DEF Fail, AnalysisOnItsWay
<1>3. CASE Load(r)
  <2>1. /\ review' = review /\ broken' = broken /\ task' = task /\ overtaken' = overtaken
        /\ pc[r] = "idle"
        /\ \A q \in Requests : q # r => pc'[q] = pc[q] /\ loaded'[q] = loaded[q]
    BY <1>3 DEF Load, Arrive, Goto, SerialInv, TypeOK
  <2>2. ~WillAnalyze(r)
    BY <2>1 DEF WillAnalyze
  <2> QED BY <2>1, <2>2, OnItsWayKept
<1>4. CASE Proceed(r)
  <2>1. broken' = broken
    BY <1>4 DEF Proceed, history
  <2>2. CASE CommitPatch(r)
    <3>1. /\ pc[r] = "patch" /\ pc'[r] = "respond" /\ loaded' = loaded
          /\ task'[r] <=> BodyChanged(r)
          /\ overtaken' = (overtaken /\ ~BodyChanged(r))
          /\ \A q \in Requests : q # r => pc'[q] = pc[q] /\ task'[q] = task[q]
      BY <2>2 DEF CommitPatch, Schedules, BodyChanged, Goto, SerialInv, TypeOK
    <3>2. CASE BodyChanged(r)
      <4>1. WillAnalyze(r)'
        BY <3>1, <3>2 DEF WillAnalyze
      <4> QED BY <4>1 DEF AnalysisOnItsWay
    <3>3. CASE ~BodyChanged(r)
      <4>1. review' \in {review, NULL}
        BY <2>2, <3>3 DEF CommitPatch, Patched
      <4>2. ~WillAnalyze(r)
        BY <3>1 DEF WillAnalyze
      <4>3. overtaken' = overtaken
        BY <3>1, <3>3 DEF SerialInv, TypeOK
      <4> QED BY <2>1, <3>1, <4>1, <4>2, <4>3, OnItsWayKept
    <3> QED BY <3>2, <3>3
  <2>3. CASE CommitAnalysis(r)
    <3>1. CASE review = NULL
      <4>1. review' = NULL
        BY <2>3, <3>1 DEF CommitAnalysis
      <4> QED BY <4>1 DEF AnalysisOnItsWay
    <3>2. CASE review # NULL
      <4>1. /\ review' = [review EXCEPT !.llm_analysis = loaded[r].body] /\ review \in Row
            /\ overtaken' = (review.body # loaded[r].body)
        BY <2>3, <3>2 DEF CommitAnalysis, SerialInv, TypeOK
      <4>2. review'.llm_analysis = loaded[r].body /\ review'.body = review.body
        BY <4>1 DEF Row
      <4> QED BY <4>1, <4>2 DEF AnalysisOnItsWay
    <3> QED BY <3>1, <3>2
  <2>4. CASE Respond(r)
    <3>1. /\ review' = review /\ task' = task /\ loaded' = loaded /\ overtaken' = overtaken
          /\ pc[r] = "respond"
          /\ \A q \in Requests : q # r => pc'[q] = pc[q]
      BY <2>4 DEF Respond, Goto, SerialInv, TypeOK
    <3>2. ASSUME review # NULL, task[r]
          PROVE  pc'[r] = "scheduled"
      BY <2>4, <3>2 DEF Respond, Goto, SerialInv, TypeOK
    <3>3. review' # NULL /\ WillAnalyze(r) => WillAnalyze(r)'
      BY <3>1, <3>2 DEF WillAnalyze
    <3> QED BY <2>1, <3>1, <3>3, OnItsWayKept
  <2>5. CASE BeginAnalysis(r)
    <3>1. /\ review' = review /\ task' = task /\ overtaken' = overtaken
          /\ loaded'[r] = review
          /\ review # NULL => pc'[r] = "analyze"
          /\ \A q \in Requests : q # r => pc'[q] = pc[q] /\ loaded'[q] = loaded[q]
      BY <2>5 DEF BeginAnalysis, Goto, SerialInv, TypeOK
    <3>2. review' # NULL => WillAnalyze(r)'
      BY <3>1 DEF WillAnalyze
    <3> QED BY <2>1, <3>1, <3>2, OnItsWayKept
  <2>6. CASE PatchFails(r) \/ Delete(r)
    <3>1. /\ review' \in {review, NULL} /\ task' = task /\ loaded' = loaded
          /\ overtaken' = overtaken /\ pc[r] \in {"patch", "delete"}
          /\ \A q \in Requests : q # r => pc'[q] = pc[q]
      BY <2>6 DEF PatchFails, Delete, Goto, SerialInv, TypeOK
    <3>2. ~WillAnalyze(r)
      BY <3>1 DEF WillAnalyze
    <3> QED BY <2>1, <3>1, <3>2, OnItsWayKept
  <2> QED BY <1>4, <2>2, <2>3, <2>4, <2>5, <2>6 DEF Proceed, RequestStep
<1> QED BY <1>1, <1>2, <1>3, <1>4

\* However edits, analyses and removals overlap, a body that has no analysis of its
\* own has one on its way, unless the provider or the process has failed, or an
\* analysis was stored whose body had been replaced: the safety that BodyGetsAnalyzed
\* rests on.
THEOREM NoneForgotten == Spec => []AnalysisOnItsWay
<1>1. Init => AnalysisOnItsWay
  BY DEF Init, AnalysisOnItsWay
<1>2. SerialInv /\ AnalysisOnItsWay /\ [Next]_vars => AnalysisOnItsWay'
  <2> SUFFICES ASSUME SerialInv, AnalysisOnItsWay, [Next]_vars PROVE AnalysisOnItsWay'
    OBVIOUS
  <2>1. CASE UNCHANGED vars
    BY <2>1 DEF vars, history, AnalysisOnItsWay, WillAnalyze
  <2> QED BY <2>1, RequestKeepsOnItsWay DEF Next, Rest
<1> QED BY <1>1, <1>2, SerialAnalyses, PTL DEF Spec

=============================================================================
