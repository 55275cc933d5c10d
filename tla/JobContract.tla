---------------------------- MODULE JobContract ----------------------------
(* What the rest of the server may rely on about one job: how jobs.status   *)
(* moves while somebody drives the job, while nobody does, and when the     *)
(* server dies.  Runner's EndJob and Restart rest on it, and Job is shown   *)
(* to implement it.                                                         *)

VARIABLES
  row,    \* jobs.status
  stage   \* "idle", or how far the thread that drives the job has got

InFlight == {"queued", "running"}
Outcomes == {"stuck", "awaiting_input", "crashed", "timed_out", "stopped", "lost"}
Verdicts == {"succeeded", "tests_failed", "lint_failed", "error"}

Init == row = "absent" /\ stage = "idle"

(* Somebody takes the job on; run_job declines what is parked or finished.  *)
Ask     == stage = "idle" /\ stage' = "asked" /\ UNCHANGED row
Decline == stage = "asked" /\ row \in {"awaiting_input", "succeeded"}
           /\ stage' = "idle" /\ UNCHANGED row
Start   == stage = "asked" /\ stage' = "going" /\ row' \in {row} \cup InFlight

(* An attempt shows as running until it ends: in an outcome, or in "done",  *)
(* which is followed by a verdict and by nothing else.                      *)
Run      == stage = "going" /\ row' = "running" /\ UNCHANGED stage
Conclude == /\ stage = "going"
            /\ \/ row' = "done" /\ stage' = "judging"
               \/ row' \in Outcomes /\ stage' = "ended"
Judge    == stage = "judging" /\ row' \in Verdicts /\ stage' \in {"idle", "ended"}
Fail     == stage = "going" /\ row' = "error" /\ stage' = "idle"
End      == stage = "ended" /\ stage' = "idle" /\ UNCHANGED row

(* A person writes over any row there is, driven or not.                    *)
Overrule == row # "absent" /\ row' \in {"stopped", "lost"} /\ UNCHANGED stage

(* The server dies: a row in flight is taken up again or written off.       *)
Die == \/ row \in InFlight /\ stage' = "asked" /\ UNCHANGED row
       \/ row \in InFlight /\ stage' = "idle" /\ row' = "lost"
       \/ row \notin InFlight /\ stage' = "idle" /\ UNCHANGED row

Next == Ask \/ Decline \/ Start \/ Run \/ Conclude \/ Judge \/ Fail \/ End \/ Overrule \/ Die

Spec == Init /\ [][Next]_<<row, stage>>

=============================================================================
