----------------------------- MODULE JobContract -----------------------------
(***************************************************************************)
(* What a SheetPilot job promises to the person who approved it, with      *)
(* every file operation abstracted away.                                   *)
(*                                                                         *)
(* A job is open until it is reported completed or failed; it is lost when *)
(* the process dies under it.  `delivered` is what the result directory    *)
(* shows of it: its output file, its audit report, both or neither.        *)
(* JobExecution implements this contract (see Contract there).             *)
(***************************************************************************)
CONSTANT Jobs

VARIABLES outcome, delivered

contractVars == <<outcome, delivered>>

Outcomes == {"open", "completed", "failed", "lost"}
Deliverables == {"output", "audit"}

Init ==
  /\ outcome = [j \in Jobs |-> "open"]
  /\ delivered = [j \in Jobs |-> {}]

\* A validated file appears under its final name; the audit never comes first.
Deliver(j, k) ==
  /\ outcome[j] = "open"
  /\ k \notin delivered[j]
  /\ k = "audit" => "output" \in delivered[j]
  /\ delivered' = [delivered EXCEPT ![j] = @ \union {k}]
  /\ UNCHANGED outcome

\* A file that turned out not to belong to a completed job is taken back.
Withdraw(j, k) ==
  /\ outcome[j] = "open"
  /\ k \in delivered[j]
  /\ k = "output" => "audit" \notin delivered[j]
  /\ delivered' = [delivered EXCEPT ![j] = @ \ {k}]
  /\ UNCHANGED outcome

\* Completion is reported only for an output with its audit report.
Complete(j) ==
  /\ outcome[j] = "open"
  /\ delivered[j] = Deliverables
  /\ outcome' = [outcome EXCEPT ![j] = "completed"]
  /\ UNCHANGED delivered

\* The audit report may become visible in the step that completes the job.
DeliverAndComplete(j) ==
  /\ outcome[j] = "open"
  /\ delivered[j] = {"output"}
  /\ delivered' = [delivered EXCEPT ![j] = Deliverables]
  /\ outcome' = [outcome EXCEPT ![j] = "completed"]

\* Failure is reported only for a job that left nothing in the results.
Fail(j) ==
  /\ outcome[j] = "open"
  /\ delivered[j] = {}
  /\ outcome' = [outcome EXCEPT ![j] = "failed"]
  /\ UNCHANGED delivered

\* The last file is taken back in the step that reports the failure.
WithdrawAndFail(j) ==
  /\ outcome[j] = "open"
  /\ delivered[j] = {"output"}
  /\ delivered' = [delivered EXCEPT ![j] = {}]
  /\ outcome' = [outcome EXCEPT ![j] = "failed"]

\* A dying process reports nothing and promises nothing.
Lose(j) ==
  /\ outcome[j] = "open"
  /\ outcome' = [outcome EXCEPT ![j] = "lost"]
  /\ UNCHANGED delivered

Next ==
  \E j \in Jobs :
    \/ \E k \in Deliverables : Deliver(j, k) \/ Withdraw(j, k)
    \/ Complete(j)
    \/ DeliverAndComplete(j)
    \/ Fail(j)
    \/ WithdrawAndFail(j)
    \/ Lose(j)

Spec == Init /\ [][Next]_contractVars
=============================================================================
