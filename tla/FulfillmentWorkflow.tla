------------------------ MODULE FulfillmentWorkflow ------------------------
(***************************************************************************)
(* The workflows of OrderFulfillmentWorkflowOrchestrator.                  *)
(*                                                                         *)
(* The orchestrator is told the result of a step by advanceStep, which     *)
(* runs to its end without suspending on anything it shares (compensation  *)
(* is a loop before the first suspension).  The services that execute the  *)
(* steps are external: one executes a step once it has been started and    *)
(* reports one result, which reaches advanceStep at least once.  For the   *)
(* workflows in Redeliver it may arrive again at any time.                 *)
(***************************************************************************)
EXTENDS Naturals

CONSTANTS
    Workflows,      \* the workflows created by initializeWorkflow
    NSteps,         \* five in initializeWorkflow
    Redeliver       \* the workflows whose results may arrive again

ASSUME WorkflowAssumption == NSteps \in Nat \ {0}

VARIABLES
    overallStatus,  \* overallStatus[w]
    step,           \* step[w][i]: status of step i
    result,         \* result[w][i]: what the service of step i reported
    applied         \* the <<w, i>> whose result has reached advanceStep

workflowVars == <<overallStatus, step, result, applied>>

Steps == 1 .. NSteps

StepStatus == {"PENDING", "IN_PROGRESS", "COMPLETED", "FAILED", "COMPENSATED"}

\* initializeWorkflow
WorkflowInit ==
    /\ overallStatus = [w \in Workflows |-> "INITIALIZED"]
    /\ step = [w \in Workflows |-> [i \in Steps |-> "PENDING"]]
    /\ result = [w \in Workflows |-> [i \in Steps |-> "NONE"]]
    /\ applied = {}

----------------------------------------------------------------------------
(* Variants of the definitions below, each with one plausible mistake.     *)

\* "No step is pending" taken for "all steps are completed".
NonePending(st) == \A i \in Steps : st[i] # "PENDING"

\* Every pending step is started, not only the first.
StartAll(st) ==
    [i \in Steps |-> IF st[i] = "PENDING" THEN "IN_PROGRESS" ELSE st[i]]

\* advanceStep forgets to start the next step.
StartNothing(st) == st

----------------------------------------------------------------------------
\* external: the service of step i has done its work, or failed.  Nothing
\* starts step 1 but its service, when the workflow has been initialized.
Report(w, i, r) ==
    /\ result[w][i] = "NONE"
    /\ step[w][i] = "IN_PROGRESS" \/ (i = 1 /\ overallStatus[w] = "INITIALIZED")
    /\ result' = [result EXCEPT ![w][i] = r]
    /\ UNCHANGED <<overallStatus, step, applied>>

\* triggerCompensation: every COMPLETED step is COMPENSATED
triggerCompensation(st) ==
    [i \in Steps |-> IF st[i] = "COMPLETED" THEN "COMPENSATED" ELSE st[i]]

AllCompleted(st) == \A i \in Steps : st[i] = "COMPLETED"

\* The first PENDING step, if there is one, is IN_PROGRESS.
StartNext(st) ==
    [i \in Steps |-> IF st[i] = "PENDING" /\ \A j \in 1 .. i - 1 : st[j] # "PENDING"
                     THEN "IN_PROGRESS" ELSE st[i]]

Succeed(w, i) ==
    LET st == [step[w] EXCEPT ![i] = "COMPLETED"]
        all == AllCompleted(st)
    IN  /\ overallStatus' = [overallStatus EXCEPT ![w] =
                IF all THEN "FULFILLED" ELSE "PROCESSING"]
        /\ step' = [step EXCEPT ![w] = IF all THEN st ELSE StartNext(st)]

Fail(w, i) ==
    /\ overallStatus' = [overallStatus EXCEPT ![w] = "CANCELLED"]
    /\ step' = [step EXCEPT ![w] = triggerCompensation([@ EXCEPT ![i] = "FAILED"])]

\* advanceStep(w, step i) with the result its service reported
advanceStep(w, i) ==
    /\ result[w][i] # "NONE"
    /\ <<w, i>> \notin applied \/ w \in Redeliver
    /\ IF result[w][i] = "SUCCESS" THEN Succeed(w, i) ELSE Fail(w, i)
    /\ applied' = applied \cup {<<w, i>>}
    /\ UNCHANGED result

WorkflowNext ==
    \E w \in Workflows, i \in Steps :
        \/ \E r \in {"SUCCESS", "FAILURE"} : Report(w, i, r)
        \/ advanceStep(w, i)

WorkflowSpec == WorkflowInit /\ [][WorkflowNext]_workflowVars

\* Services finish the steps they were given, and results are delivered.
WorkflowFairness ==
    \A w \in Workflows :
        /\ WF_workflowVars(\E i \in Steps, r \in {"SUCCESS", "FAILURE"} : Report(w, i, r))
        /\ WF_workflowVars(\E i \in Steps : <<w, i>> \notin applied /\ advanceStep(w, i))

FairWorkflowSpec == WorkflowSpec /\ WorkflowFairness

----------------------------------------------------------------------------
\* Where everything can be
WorkflowTypeOK ==
    /\ overallStatus \in [Workflows -> {"INITIALIZED", "PROCESSING", "FULFILLED", "CANCELLED"}]
    /\ step \in [Workflows -> [Steps -> StepStatus]]
    /\ result \in [Workflows -> [Steps -> {"NONE", "SUCCESS", "FAILURE"}]]
    /\ applied \subseteq Workflows \X Steps

\* The overall status that advanceStep leaves behind is true of the steps,
\* in whatever order and however often results arrive: a FULFILLED workflow
\* has every step completed, a CANCELLED one has none that is not undone.
OverallAgrees ==
    \A w \in Workflows :
        /\ overallStatus[w] = "FULFILLED" => \A i \in Steps : step[w][i] = "COMPLETED"
        /\ overallStatus[w] = "CANCELLED" =>
            /\ \A i \in Steps : step[w][i] # "COMPLETED"
            /\ \E i \in Steps : step[w][i] = "FAILED"

\* When each result arrives once, the steps are executed one at a time and in
\* order: a step is under way only when all before it are completed.
OneAtATime ==
    \A w \in Workflows \ Redeliver, i, j \in Steps :
        i < j /\ step[w][j] # "PENDING" => step[w][i] \in {"COMPLETED", "COMPENSATED"}

\* When each result arrives once, every workflow ends FULFILLED or CANCELLED.
Finishes ==
    \A w \in Workflows \ Redeliver : <>[](overallStatus[w] \in {"FULFILLED", "CANCELLED"})
=============================================================================
