------------------------------- MODULE Reviews -------------------------------
(***************************************************************************)
(* One review of a user (app/api/routes/reviews.py) and its analyses       *)
(* (HabitAnalysisService.analyze_review).  A creation and an edit of the   *)
(* body schedule an analysis that runs once the response is sent, in a     *)
(* session of its own; POST /{review_id}/analyze runs one in the request.  *)
(*                                                                         *)
(* A step ends where the code awaits.  An UPDATE has only the columns that *)
(* differ from what the session has loaded, so that clearing an analysis   *)
(* that was not there when the review was read writes nothing.             *)
(*                                                                         *)
(* Of an analysis the model keeps the body it was made from.  The score,   *)
(* the activity of a creation and the text of the answers are left out;    *)
(* no two answers of the provider are the same.                            *)
(*                                                                         *)
(* Bounds: a request is made once, with the analysis it schedules.         *)
(* Three variables only remember: overlapped, broken and overtaken.        *)
(***************************************************************************)
EXTENDS Naturals

CONSTANTS Requests,
          Bodies,
          NULL

ASSUME NullAssumption == NULL \notin Bodies

Row == [body : Bodies, llm_analysis : Bodies \cup {NULL}]

ASSUME NoRowAssumption == NULL \notin Row

VARIABLES review,       \* the committed row, or NULL
          created,      \* it has been created
          pc,
          op,           \* what each request is for
          input,        \* the body a PATCH brings
          loaded,       \* the row as the session has it
          task,         \* an analysis is to follow the response
          overlapped,   \* two requests or analyses have run at the same time
          broken,       \* the provider or the process has failed
          overtaken     \* the analysis was stored after its body had been replaced

history == <<overlapped, broken>>
vars == <<review, created, pc, op, input, loaded, task, history, overtaken>>

Busy  == {"patch", "delete", "respond", "scheduled", "analyze"}
Ended == {"answered", "not_found", "failed", "done"}

TypeOK == /\ review \in Row \cup {NULL}
          /\ created \in BOOLEAN
          /\ pc \in [Requests -> {"idle"} \cup Busy \cup Ended]
          /\ op \in [Requests -> {"create", "patch", "analyze", "delete", NULL}]
          /\ input \in [Requests -> Bodies \cup {NULL}]
          /\ loaded \in [Requests -> Row \cup {NULL}]
          /\ task \in [Requests -> BOOLEAN]
          /\ overlapped \in BOOLEAN /\ broken \in BOOLEAN /\ overtaken \in BOOLEAN

Init == /\ review = NULL
        /\ created = FALSE
        /\ pc = [r \in Requests |-> "idle"]
        /\ op = [r \in Requests |-> NULL]
        /\ input = [r \in Requests |-> NULL]
        /\ loaded = [r \in Requests |-> NULL]
        /\ task = [r \in Requests |-> FALSE]
        /\ overlapped = FALSE /\ broken = FALSE /\ overtaken = FALSE

Goto(r, label) == pc' = [pc EXCEPT ![r] = label]

\* A request that comes in while another one is not over.
Arrive(r) == /\ pc[r] = "idle"
             /\ overlapped' = (overlapped \/ \E q \in Requests : pc[q] \in Busy)
             /\ UNCHANGED broken

-----------------------------------------------------------------------------
\* create_review, up to its commit.
Create(r) == /\ Arrive(r) /\ ~created
             /\ \E b \in Bodies : review' = [body |-> b, llm_analysis |-> NULL]
             /\ created' = TRUE
             /\ op' = [op EXCEPT ![r] = "create"]
             /\ task' = [task EXCEPT ![r] = TRUE]
             /\ Goto(r, "respond")
             /\ UNCHANGED <<input, loaded, overtaken>>

\* _get_owned_review, for an edit, an analysis or a removal.
Load(r) == /\ Arrive(r) /\ created
           /\ \E o \in {"patch", "analyze", "delete"}, b \in Bodies \cup {NULL} :
                 /\ o = "patch" \/ b = NULL
                 /\ op' = [op EXCEPT ![r] = o]
                 /\ input' = [input EXCEPT ![r] = b]
                 /\ Goto(r, IF review = NULL THEN "not_found" ELSE o)
           /\ loaded' = [loaded EXCEPT ![r] = review]
           /\ UNCHANGED <<review, created, task, overtaken>>

BodyChanged(r) == input[r] # loaded[r].body

\* Mutant of Patched: an edit leaves the analysis.
BodyOnly(r) == IF BodyChanged(r) THEN [review EXCEPT !.body = input[r]] ELSE review

\* The row with the columns that the edit has made dirty.
Patched(r) ==
    IF BodyChanged(r)
    THEN [body |-> input[r],
          llm_analysis |-> IF loaded[r].llm_analysis = NULL THEN review.llm_analysis ELSE NULL]
    ELSE review

\* Mutant of Schedules: only a review without an analysis is analyzed.
SchedulesFirst(r) == BodyChanged(r) /\ loaded[r].llm_analysis = NULL

\* The edit is followed by an analysis of the new body.
Schedules(r) == BodyChanged(r)

\* A body of null violates the constraint of the column, and an UPDATE of a row
\* that is gone matches nothing: the commit raises.
PatchRaises(r) == BodyChanged(r) /\ (input[r] = NULL \/ review = NULL)

CommitPatch(r) == /\ pc[r] = "patch" /\ ~PatchRaises(r)
                  /\ review' = IF review = NULL THEN NULL ELSE Patched(r)
                  /\ task' = [task EXCEPT ![r] = Schedules(r)]
                  /\ overtaken' = (overtaken /\ ~BodyChanged(r))
                  /\ Goto(r, "respond")
                  /\ UNCHANGED <<created, op, input, loaded>>

PatchFails(r) == /\ pc[r] = "patch" /\ PatchRaises(r)
                 /\ Goto(r, "failed")
                 /\ UNCHANGED <<review, created, op, input, loaded, task, overtaken>>

\* delete_review; a DELETE that matches nothing is not an error.
Delete(r) == /\ pc[r] = "delete"
             /\ review' = NULL
             /\ Goto(r, "answered")
             /\ UNCHANGED <<created, op, input, loaded, task, overtaken>>

\* The review is read once more for the response, of a creation twice: the first of
\* these, a refresh, raises if the row is gone.  Then, and after a 404, the response
\* is that of an exception, which drops the tasks of the request.
Respond(r) == /\ pc[r] = "respond"
              /\ \/ review = NULL /\ Goto(r, "not_found")
                 \/ review = NULL /\ op[r] = "create" /\ Goto(r, "failed")
                 \/ review # NULL /\ task[r] /\ Goto(r, "scheduled")
                 \/ review # NULL /\ ~task[r] /\ Goto(r, "answered")
              /\ UNCHANGED <<review, created, op, input, loaded, task, overtaken>>

\* Mutant of BeginAnalysis: a review that has an analysis is left alone.
BeginIfNone(r) == /\ pc[r] = "scheduled"
                  /\ loaded' = [loaded EXCEPT ![r] = review]
                  /\ Goto(r, IF review = NULL THEN "done"
                             ELSE IF review.llm_analysis # NULL THEN "done" ELSE "analyze")
                  /\ UNCHANGED <<review, created, op, input, task, overtaken>>

\* _analyze_review_in_background reads the review in its own session.
BeginAnalysis(r) == /\ pc[r] = "scheduled"
                    /\ loaded' = [loaded EXCEPT ![r] = review]
                    /\ Goto(r, IF review = NULL THEN "done" ELSE "analyze")
                    /\ UNCHANGED <<review, created, op, input, task, overtaken>>

\* analyze_review, after generate_structured: the analysis of what was loaded is
\* committed, unless the row is gone, which raises.
CommitAnalysis(r) ==
    LET now == op[r] = "analyze" IN
    /\ pc[r] = "analyze"
    /\ review' = IF review = NULL THEN NULL
                 ELSE [review EXCEPT !.llm_analysis = loaded[r].body]
    /\ overtaken' = (review # NULL /\ review.body # loaded[r].body)
    /\ CASE now /\ review = NULL -> Goto(r, "failed")
         [] now /\ review # NULL -> Goto(r, "respond")
         [] ~now                 -> Goto(r, "done")
    /\ UNCHANGED <<created, op, input, loaded, task>>

\* The provider raises (logged, if nobody waits), or the process is stopped with
\* what it has scheduled.
Fail(r) == /\ pc[r] \in Busy
           /\ Goto(r, "failed")
           /\ broken' = TRUE
           /\ UNCHANGED <<review, created, op, input, loaded, task, overlapped, overtaken>>

Rest == /\ \A r \in Requests : pc[r] \in Ended
        /\ UNCHANGED vars

RequestStep(r) == \/ CommitPatch(r)
                  \/ PatchFails(r)
                  \/ Delete(r)
                  \/ Respond(r)
                  \/ BeginAnalysis(r)
                  \/ CommitAnalysis(r)

Proceed(r) == RequestStep(r) /\ UNCHANGED history

Next == \/ \E r \in Requests : Create(r) \/ Load(r) \/ Proceed(r) \/ Fail(r)
        \/ Rest

\* What has begun goes on: a call of Gemini times out after three minutes.
Spec == /\ Init /\ [][Next]_vars
        /\ \A r \in Requests : WF_vars(Proceed(r))

-----------------------------------------------------------------------------
(***************************************************************************)
(* Properties.                                                             *)
(***************************************************************************)
\* The analysis of a review is of its body.
Describes == review # NULL => review.llm_analysis \in {NULL, review.body}

Holding(r) == pc[r] \in {"patch", "delete", "analyze"}

OneAtATime == \A q, r \in Requests : pc[q] \in Busy /\ pc[r] \in Busy => q = r

\* What a request or an analysis works on is the review as it is now.
LoadedCurrent == \A r \in Requests : Holding(r) => loaded[r] = review

\* As long as requests and analyses follow one another, an analysis is never seen
\* beside a body it was not made from, whatever fails and whenever the process
\* stops; with what makes that inductive.
SerialInv == /\ TypeOK
             /\ \A r \in Requests : Holding(r) => loaded[r] # NULL
             /\ ~overlapped => Describes /\ OneAtATime /\ LoadedCurrent

\* The request r is on its way to an analysis of the body there is now.
WillAnalyze(r) == \/ pc[r] = "respond" /\ task[r]
                  \/ pc[r] = "scheduled"
                  \/ pc[r] = "analyze" /\ loaded[r].body = review.body

\* A body without its analysis has one on its way, however requests overlap: no edit
\* leaves an old analysis, or none, without scheduling the next, and none that is
\* scheduled gets lost.  The exceptions: something has failed, or the analysis there
\* is was stored by one who did not know that its body had been replaced.
AnalysisOnItsWay ==
    review # NULL /\ review.llm_analysis # review.body /\ ~broken /\ ~overtaken =>
        \E r \in Requests : WillAnalyze(r)

\* A body that has no analysis of its own, because it is new or was edited, gets one,
\* however edits, analyses and removals interleave, with the same exceptions.
BodyGetsAnalyzed ==
    (review # NULL /\ review.llm_analysis # review.body)
        ~> \/ review = NULL \/ broken \/ overtaken
           \/ review # NULL /\ review.llm_analysis = review.body

=============================================================================
