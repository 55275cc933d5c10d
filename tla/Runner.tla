------------------------------- MODULE Runner -------------------------------
(***************************************************************************)
(* Who drives which sandbox: backend/api/runner.py, with the thread pool   *)
(* of job/lifecycle.run_all and the restart reconciliation of main.py.     *)
(*                                                                         *)
(* An HTTP call validates a request, claims the sandbox names it is about  *)
(* to drive and hands a work item to the dispatcher.  A work item is one   *)
(* run (several jobs), one answer / follow-up / respawn (one job), or the  *)
(* re-attachment of one job after a restart.  The claim table is what      *)
(* keeps two work items off the same sandbox; the slots bound how many     *)
(* jobs of runs execute at once.  What a job does while it is driven is    *)
(* the business of Job: here it starts, writes its row, and ends.          *)
(***************************************************************************)
EXTENDS Integers, FiniteSets, Sequences

CONSTANTS
  Names,          \* sandbox names; also the identity of a re-attachment of that name
  Runs,           \* run ids
  Requests,       \* HTTP calls that answer, follow up, respawn, start or delete
  None,           \* "no claim", "no run id"
  MaxConcurrency, \* config.max_concurrency: size of the slot semaphore and of a run's pool
  MaxActiveRuns,  \* MAX_ACTIVE_RUNS: dispatcher threads
  MaxCalls,       \* bound: HTTP calls in the foreground at the same time
  MaxTurns,       \* bound: no agent asks once one of them has asked so many questions
  CanCrash,       \* whether the process may die
  StoreCanFail,   \* whether a write to the state store may raise; a start that raises is no start
  ListCanFail,    \* whether `sbx ls` may fail, which reads as "no sandboxes"
  Forgotten       \* names whose feature is no longer in the features file

Work == Runs \cup Requests \cup Names

ASSUME IdentitiesAssumption ==
  /\ Runs \cap Requests = {} /\ Runs \cap Names = {} /\ Requests \cap Names = {}
  /\ None \notin Work
  /\ IsFiniteSet(Names) /\ IsFiniteSet(Runs) /\ IsFiniteSet(Requests)

ASSUME BoundsAssumption ==
  /\ MaxConcurrency \in Nat \ {0} /\ MaxActiveRuns \in Nat \ {0} /\ MaxCalls \in Nat
  /\ MaxTurns \in Nat /\ CanCrash \in BOOLEAN
  /\ StoreCanFail \in BOOLEAN /\ ListCanFail \in BOOLEAN
  /\ Forgotten \subseteq Names

VARIABLES
  claims,    \* _claims: sandbox name -> the work item holding it
  phase,     \* where a work item is
  owned,     \* the names a work item was given
  stage,     \* a job within its work item
  pending,   \* the dispatcher's queue
  slots,     \* free permits of the job-slot semaphore
  sampled,   \* runs that counted as users of the telemetry sampler
  sampler,   \* _holder: users, and whether a sampler thread exists
  call,      \* foreground part of an HTTP call, and what it asked for
  row,       \* jobs.status ("absent": no row)
  rowRun,    \* jobs.run_id
  unwritten, \* history: jobs in flight whose work ended on a write to the store that raised
  runRow,    \* runs.status
  asked,     \* how many questions the agent in a sandbox has asked so far
  alive      \* whether the sandbox exists on the host

dispatchVars == <<claims, phase, owned, stage, pending, slots, sampled, sampler>>
storeVars    == <<row, rowRun, runRow, unwritten>>
hostVars     == <<asked, alive>>
vars         == <<dispatchVars, call, storeVars, hostVars>>

InFlight == {"queued", "running"}
(* "failed" stands for every status that is neither in flight, parked nor
   succeeded: done, stuck, crashed, timed_out, lost, error, tests_failed ... *)
Status == {"absent", "awaiting_input", "stopped", "succeeded", "failed"} \cup InFlight

Phases == {"idle", "claimed", "recorded", "queued", "executing", "released", "over"}
Stages == {"none", "unrecorded", "waiting", "driving", "finished"}
Ops    == {"none", "start", "answer", "followup", "resume", "fresh", "delete"}
CallPc == {"idle", "planned", "recording", "checked", "listed"}

CallRecord == [pc : CallPc, op : Ops, name : Names \cup {None}, turn : Nat,
               runs : SUBSET Runs, names : SUBSET Names]
NoCall == [pc |-> "idle", op |-> "none", name |-> None, turn |-> 0, runs |-> {}, names |-> {}]

TypeOK ==
  /\ claims \in [Names -> Work \cup {None}]
  /\ phase \in [Work -> Phases]
  /\ owned \in [Work -> SUBSET Names]
  /\ stage \in [Work -> [Names -> Stages]]
  /\ pending \in Seq(Work)
  /\ slots \in 0..MaxConcurrency
  /\ sampled \in SUBSET Runs
  /\ sampler \in [users : Nat, on : BOOLEAN]
  /\ call \in [Requests -> CallRecord]
  /\ row \in [Names -> Status]
  /\ rowRun \in [Names -> Runs \cup {None}]
  /\ unwritten \in SUBSET Names
  /\ runRow \in [Runs -> {"none", "running", "finished", "deleted"}]
  /\ asked \in [Names -> Nat]
  /\ alive \in [Names -> BOOLEAN]

Holding(w) == phase[w] \in {"claimed", "recorded", "queued", "executing"}
Idle       == [n \in Names |-> "none"]

Init ==
  /\ claims = [n \in Names |-> None]
  /\ phase = [w \in Work |-> "idle"]
  /\ owned = [w \in Work |-> {}]
  /\ stage = [w \in Work |-> Idle]
  /\ pending = <<>>
  /\ slots = MaxConcurrency
  /\ sampled = {}
  /\ sampler = [users |-> 0, on |-> FALSE]
  /\ call = [q \in Requests |-> NoCall]
  /\ row = [n \in Names |-> "absent"]
  /\ rowRun = [n \in Names |-> None]
  /\ unwritten = {}
  /\ runRow = [r \in Runs |-> "none"]
  /\ asked = [n \in Names |-> 0]
  /\ alive = [n \in Names |-> FALSE]

-----------------------------------------------------------------------------
(* The listing: every live sandbox, or nothing when the command fails.      *)
Live     == {n \in Names : alive[n]}
Listings == {Live} \cup (IF ListCanFail THEN {{}} ELSE {})

(* Mutant of Claim: takes the names without looking at who holds them.      *)
ClaimUnchecked(owner, names) ==
  claims' = [n \in Names |-> IF n \in names THEN owner[n] ELSE claims[n]]

(* _claim: all of the batch or none of it.                                  *)
Claim(owner, names) ==
  /\ \A n \in names : claims[n] = None
  /\ claims' = [n \in Names |-> IF n \in names THEN owner[n] ELSE claims[n]]

(* _release pops the names, whoever holds them.                             *)
Release(names) ==
  claims' = [n \in Names |-> IF n \in names THEN None ELSE claims[n]]

(* A call thread is free: no foreground part of its own still going, no     *)
(* work of its own in the background, and room for one more call.           *)
CanCall(q) ==
  /\ call[q].pc = "idle" /\ phase[q] = "idle"
  /\ Cardinality({p \in Requests : call[p].pc # "idle"}) < MaxCalls

Return(q) == call' = [call EXCEPT ![q] = NoCall]

-----------------------------------------------------------------------------
(* start_run: one run per entry.  expand_jobs has refused a batch in which  *)
(* two jobs share a sandbox name, so every name has one run.                *)
StartRun(q) ==
  /\ CanCall(q)
  /\ \E batch \in SUBSET {r \in Runs : phase[r] = "idle"} \ {{}},
        names \in SUBSET Names :
       \E owner \in [names -> batch] :
         /\ \A r \in batch : \E n \in names : owner[n] = r
         /\ Claim(owner, names)
         /\ phase' = [w \in Work |-> IF w \in batch THEN "claimed" ELSE phase[w]]
         /\ owned' = [w \in Work |-> IF w \in batch THEN {n \in names : owner[n] = w}
                                                    ELSE owned[w]]
         /\ call' = [call EXCEPT ![q] = [pc |-> "recording", op |-> "start", name |-> None,
                                             turn |-> 0, runs |-> batch, names |-> {}]]
  /\ UNCHANGED <<stage, pending, slots, sampled, sampler, storeVars, hostVars>>

(* The loop over the claimed runs: record one, submit it, go to the next.   *)
RecordRun(q, r) ==
  /\ call[q].pc = "recording" /\ r \in call[q].runs
  /\ \A other \in call[q].runs : phase[other] # "recorded"
  /\ phase' = [phase EXCEPT ![r] = "recorded"]
  /\ runRow' = [runRow EXCEPT ![r] = "running"]
  /\ UNCHANGED <<claims, owned, stage, pending, slots, sampled, sampler, call, row, rowRun,
                 unwritten, hostVars>>

SubmitRun(q, r) ==
  /\ call[q].pc = "recording" /\ r \in call[q].runs /\ phase[r] = "recorded"
  /\ phase' = [phase EXCEPT ![r] = "queued"]
  /\ pending' = Append(pending, r)
  /\ IF call[q].runs = {r} THEN Return(q)
     ELSE call' = [call EXCEPT ![q].runs = @ \ {r}]
  /\ UNCHANGED <<claims, owned, stage, slots, sampled, sampler, storeVars, hostVars>>

(* add_run or delete_run of the store raises: the call ends with an error,  *)
(* and nothing undoes the claims of a batch.                                *)
CallFails(q) ==
  /\ StoreCanFail
  /\ \/ call[q].pc = "recording" /\ \A r \in call[q].runs : phase[r] # "recorded"
     \/ call[q].pc = "listed"
  /\ Return(q)
  /\ UNCHANGED <<dispatchVars, storeVars, hostVars>>

-----------------------------------------------------------------------------
(* start_answer, start_followup, start_respawn: plan against the row and    *)
(* the listing, and only then claim.                                        *)
Answerable(n, live)  == row[n] = "awaiting_input" /\ n \in live
Followable(n, live)  == row[n] \notin InFlight \cup {"absent", "stopped"} /\ n \in live
Restartable(n, live) == row[n] = "stopped" /\ n \in live
Refreshable(n, live) == row[n] \notin {"absent", "succeeded", "awaiting_input"} /\ n \notin live

Plan(q, n, op) ==
  /\ CanCall(q)
  /\ n \notin Forgotten
  /\ \E live \in Listings :
       \/ op = "answer"   /\ Answerable(n, live)
       \/ op = "followup" /\ Followable(n, live)
       \/ op = "resume"   /\ Restartable(n, live)
       \/ op = "fresh"    /\ Refreshable(n, live)
  /\ call' = [call EXCEPT ![q] = [pc |-> "planned", op |-> op, name |-> n,
                                  turn |-> IF op = "answer" THEN asked[n] ELSE 0,
                                  runs |-> {}, names |-> {}]]
  /\ UNCHANGED <<dispatchVars, storeVars, hostVars>>

(* plan_resume of a sandbox that is not listed marks the job lost.          *)
AnswerFindsNoSandbox(q, n) ==
  /\ CanCall(q)
  /\ row[n] = "awaiting_input"
  /\ \E live \in Listings : n \notin live
  /\ row' = [row EXCEPT ![n] = "failed"]
  /\ UNCHANGED <<dispatchVars, call, rowRun, runRow, unwritten, hostVars>>

ClaimOne(q) ==
  LET n == call[q].name IN
  /\ call[q].pc = "planned"
  /\ Claim([m \in {n} |-> q], {n})
  /\ owned' = [owned EXCEPT ![q] = {n}]
  /\ phase' = [phase EXCEPT ![q] = "queued"]
  /\ pending' = Append(pending, q)
  /\ call' = [call EXCEPT ![q].pc = "idle"]
  /\ UNCHANGED <<stage, slots, sampled, sampler, storeVars, hostVars>>

(* Mutant of ClaimRefused: the refused call releases the name on its way out. *)
ClaimRefusedReleases(q) ==
  /\ call[q].pc = "planned"
  /\ claims[call[q].name] # None
  /\ Release({call[q].name})
  /\ Return(q)
  /\ UNCHANGED <<phase, owned, stage, pending, slots, sampled, sampler, storeVars, hostVars>>

(* RunConflictError: somebody owns the name.                                *)
ClaimRefused(q) ==
  /\ call[q].pc = "planned"
  /\ claims[call[q].name] # None
  /\ Return(q)
  /\ UNCHANGED <<dispatchVars, storeVars, hostVars>>

-----------------------------------------------------------------------------
(* The dispatcher takes the oldest item; a run first enters its sampler     *)
(* use (if telemetry is on) and then gives its jobs their rows.             *)
Dispatchable(w) ==
  /\ pending # <<>> /\ Head(pending) = w
  /\ phase[w] = "queued"
  /\ Cardinality({v \in Work : phase[v] \in {"executing", "released"}}) < MaxActiveRuns

Dispatch(w, first) ==
  /\ Dispatchable(w)
  /\ phase' = [phase EXCEPT ![w] = "executing"]
  /\ pending' = Tail(pending)
  /\ stage' = [stage EXCEPT ![w] = [n \in Names |-> IF n \in owned[w] THEN first ELSE "none"]]

DispatchWork(w) ==
  /\ w \in Requests \cup Names
  /\ Dispatch(w, "waiting")
  /\ UNCHANGED <<claims, owned, slots, sampled, sampler, call, storeVars, hostVars>>

DispatchRun(r) ==
  /\ Dispatch(r, "unrecorded")
  /\ \/ /\ sampled' = sampled \cup {r}
        /\ sampler' = [users |-> sampler.users + 1, on |-> TRUE]
     \/ UNCHANGED <<sampled, sampler>>
  /\ UNCHANGED <<claims, owned, slots, call, storeVars, hostVars>>

(* record_queued writes one row after the other.                            *)
QueueJob(r, n) ==
  /\ phase[r] = "executing" /\ stage[r][n] = "unrecorded"
  /\ stage' = [stage EXCEPT ![r][n] = "waiting"]
  /\ row' = [row EXCEPT ![n] = IF @ = "absent" THEN "queued" ELSE @]
  /\ rowRun' = [rowRun EXCEPT ![n] = r]
  /\ UNCHANGED <<claims, phase, owned, pending, slots, sampled, sampler, call, runRow, unwritten,
                 hostVars>>

(* One of them raises: no job is started, the finally of _execute_run is    *)
(* all that follows, and the rows written so far are left as they are.      *)
QueueFails(r) ==
  /\ StoreCanFail
  /\ phase[r] = "executing" /\ \E n \in Names : stage[r][n] = "unrecorded"
  /\ stage' = [stage EXCEPT ![r] = [n \in Names |-> IF n \in owned[r] THEN "finished" ELSE "none"]]
  /\ unwritten' = unwritten \cup {n \in owned[r] : row[n] \in InFlight}
  /\ UNCHANGED <<claims, phase, owned, pending, slots, sampled, sampler, call, row, rowRun, runRow,
                 hostVars>>

-----------------------------------------------------------------------------
(* A job of a run and a re-attached job hold a slot while they execute;     *)
(* answers, follow-ups and respawns do not ask for one.                     *)
UsesSlot(w) == w \in Runs \cup Names

(* Mutant of JobReady: the pool alone decides, no permit is waited for.     *)
JobReadyNoPermit(w, n) ==
  /\ phase[w] = "executing" /\ stage[w][n] = "waiting"
  /\ \A m \in owned[w] : stage[w][m] # "unrecorded"

JobReady(w, n) ==
  /\ phase[w] = "executing" /\ stage[w][n] = "waiting"
  /\ \A m \in owned[w] : stage[w][m] # "unrecorded"
  /\ UsesSlot(w) => slots > 0

(* Mutant of Drive: every driver takes a permit, also those that return none. *)
DriveTakesPermit(w, n) ==
  /\ stage' = [stage EXCEPT ![w][n] = "driving"]
  /\ slots' = IF slots > 0 THEN slots - 1 ELSE slots
  /\ unwritten' = unwritten \ {n}

Drive(w, n) ==
  /\ stage' = [stage EXCEPT ![w][n] = "driving"]
  /\ slots' = IF UsesSlot(w) THEN slots - 1 ELSE slots
  /\ unwritten' = unwritten \ {n}

Skip(w, n) == stage' = [stage EXCEPT ![w][n] = "finished"] /\ UNCHANGED <<slots, unwritten>>

Leave(w, n) ==
  /\ phase[w] = "executing" /\ stage[w][n] = "driving"
  /\ stage' = [stage EXCEPT ![w][n] = "finished"]
  /\ slots' = IF UsesSlot(w) THEN slots + 1 ELSE slots

RunsFresh(w)  == w \in Runs \/ (w \in Requests /\ call[w].op = "fresh")
Relaunches(w) == w \in Requests /\ call[w].op \in {"answer", "followup", "resume"}

(* run_job: a row that waits for an answer or has succeeded is left alone;  *)
(* any other job is (re)launched or re-attached, and its row says running.  *)
BeginFresh(w, n) ==
  /\ RunsFresh(w) /\ JobReady(w, n)
  /\ IF row[n] \in {"awaiting_input", "succeeded"}
     THEN Skip(w, n) /\ UNCHANGED <<row, alive>>
     ELSE /\ Drive(w, n)
          /\ row' = [row EXCEPT ![n] = "running"]
          /\ alive' = [alive EXCEPT ![n] = TRUE]
  /\ UNCHANGED <<claims, phase, owned, pending, sampled, sampler, call, rowRun, runRow, asked>>

(* relaunch_and_await, _respawn_in_place: the launch fails without a        *)
(* sandbox, and the row is only updated, never created.                     *)
BeginRelaunch(w, n) ==
  /\ Relaunches(w) /\ JobReady(w, n)
  /\ IF alive[n] /\ row[n] # "absent"
     THEN Drive(w, n) /\ row' = [row EXCEPT ![n] = "running"]
     ELSE Skip(w, n) /\ row' = [row EXCEPT ![n] = IF @ = "absent" THEN @ ELSE "failed"]
  /\ UNCHANGED <<claims, phase, owned, pending, sampled, sampler, call, rowRun, runRow, hostVars>>

(* _reattach_one: no launch, only the row.                                  *)
BeginReattach(w, n) ==
  /\ w \in Names /\ JobReady(w, n)
  /\ IF row[n] # "absent"
     THEN Drive(w, n) /\ row' = [row EXCEPT ![n] = "running"]
     ELSE Skip(w, n) /\ UNCHANGED row
  /\ UNCHANGED <<claims, phase, owned, pending, sampled, sampler, call, rowRun, runRow, hostVars>>

(* await_and_finalize returns, or an exception was recorded as "error".     *)
EndJob(w, n) ==
  /\ Leave(w, n)
  /\ \E outcome \in {"awaiting_input", "stopped", "succeeded", "failed"} :
       /\ row' = [row EXCEPT ![n] = IF @ = "absent" THEN @ ELSE outcome]
       /\ IF outcome = "awaiting_input"
          THEN (\A m \in Names : asked[m] < MaxTurns) /\ asked' = [asked EXCEPT ![n] = @ + 1]
          ELSE UNCHANGED asked
       /\ \/ UNCHANGED alive
          \/ outcome \in {"succeeded", "failed"} /\ alive' = [alive EXCEPT ![n] = FALSE]
  /\ UNCHANGED <<claims, phase, owned, pending, sampled, sampler, call, rowRun, runRow, unwritten>>

(* The work raises, and so does the write that would record "error": the    *)
(* row stays as it is, and what the sandbox was asked for may be done.      *)
LosesOutcome(w, n) ==
  /\ StoreCanFail
  /\ \/ JobReady(w, n) /\ stage' = [stage EXCEPT ![w][n] = "finished"] /\ UNCHANGED <<slots, alive>>
     \/ Leave(w, n) /\ alive' \in {alive, [alive EXCEPT ![n] = FALSE]}
  /\ unwritten' = unwritten \cup {m \in {n} : row[m] \in InFlight}
  /\ UNCHANGED <<claims, phase, owned, pending, sampled, sampler, call, row, rowRun, runRow, asked>>

(* Mutant of AllFinished: the pool is not joined, the first job ends it.    *)
AnyFinished(w) == phase[w] = "executing" /\ \E n \in owned[w] : stage[w][n] = "finished"

AllFinished(w) == phase[w] = "executing" /\ \A n \in owned[w] : stage[w][n] = "finished"

(* Mutant of ReleaseWork: the claim is not given back.                      *)
ReleaseWorkKeepsClaim(w) ==
  /\ w \in Requests \cup Names
  /\ AllFinished(w)
  /\ phase' = [phase EXCEPT ![w] = "idle"]
  /\ owned' = [owned EXCEPT ![w] = {}]
  /\ stage' = [stage EXCEPT ![w] = Idle]
  /\ call' = [q \in Requests |-> IF q = w THEN NoCall ELSE call[q]]
  /\ UNCHANGED <<claims, pending, slots, sampled, sampler, storeVars, hostVars>>

(* The finally of _execute_claimed and _reattach_one.                       *)
ReleaseWork(w) ==
  /\ w \in Requests \cup Names
  /\ AllFinished(w)
  /\ Release(owned[w])
  /\ phase' = [phase EXCEPT ![w] = "idle"]
  /\ owned' = [owned EXCEPT ![w] = {}]
  /\ stage' = [stage EXCEPT ![w] = Idle]
  /\ call' = [q \in Requests |-> IF q = w THEN NoCall ELSE call[q]]
  /\ UNCHANGED <<pending, slots, sampled, sampler, storeVars, hostVars>>

(* Mutant of StopSampler: whoever ends first stops the thread.              *)
StopSamplerAlways(r) ==
  IF r \in sampled
  THEN /\ sampled' = sampled \ {r}
       /\ sampler' = [users |-> sampler.users - 1, on |-> FALSE]
  ELSE UNCHANGED <<sampled, sampler>>

(* The finally of _execute_run: stop_sampler and _release, then the row.    *)
StopSampler(r) ==
  IF r \in sampled
  THEN /\ sampled' = sampled \ {r}
       /\ LET users == IF sampler.users > 0 THEN sampler.users - 1 ELSE 0
          IN  sampler' = [users |-> users, on |-> sampler.on /\ users # 0]
  ELSE UNCHANGED <<sampled, sampler>>

ReleaseRun(r) ==
  /\ AllFinished(r)
  /\ StopSampler(r)
  /\ Release(owned[r])
  /\ phase' = [phase EXCEPT ![r] = "released"]
  /\ stage' = [stage EXCEPT ![r] = Idle]
  /\ UNCHANGED <<owned, pending, slots, call, storeVars, hostVars>>

(* Mutant of FinishRun: only a run whose jobs all succeeded is closed.      *)
FinishRunOnSuccess(r) ==
  /\ phase[r] = "released"
  /\ \A n \in owned[r] : row[n] = "succeeded"
  /\ phase' = [phase EXCEPT ![r] = "over"]
  /\ runRow' = [runRow EXCEPT ![r] = "finished"]
  /\ UNCHANGED <<claims, owned, stage, pending, slots, sampled, sampler, call, row, rowRun,
                 unwritten, hostVars>>

(* A finish_run that raises leaves the row "running".                       *)
FinishRun(r) ==
  /\ phase[r] = "released"
  /\ phase' = [phase EXCEPT ![r] = "over"]
  /\ \/ runRow' = [runRow EXCEPT ![r] = "finished"]
     \/ StoreCanFail /\ UNCHANGED runRow
  /\ UNCHANGED <<claims, owned, stage, pending, slots, sampled, sampler, call, row, rowRun,
                 unwritten, hostVars>>

-----------------------------------------------------------------------------
(* delete_run: check the run row, the claims and the job rows; list the     *)
(* sandboxes; delete whatever rows carry the run id by then.                *)
JobsOf(r) == {n \in Names : rowRun[n] = r}

(* Mutant of DeleteCheck: the rows are looked at, the claims are not.       *)
DeleteCheckRowsOnly(q, r) ==
  /\ CanCall(q)
  /\ runRow[r] = "finished"
  /\ \A n \in JobsOf(r) : row[n] \notin InFlight
  /\ call' = [call EXCEPT ![q] = [pc |-> "checked", op |-> "delete", name |-> None, turn |-> 0,
                                  runs |-> {r}, names |-> JobsOf(r)]]
  /\ UNCHANGED <<dispatchVars, storeVars, hostVars>>

DeleteCheck(q, r) ==
  /\ CanCall(q)
  /\ runRow[r] = "finished"
  /\ \A n \in JobsOf(r) : claims[n] = None /\ row[n] \notin InFlight
  /\ call' = [call EXCEPT ![q] = [pc |-> "checked", op |-> "delete", name |-> None, turn |-> 0,
                                  runs |-> {r}, names |-> JobsOf(r)]]
  /\ UNCHANGED <<dispatchVars, storeVars, hostVars>>

(* Mutant of DeleteList: deletes without asking which sandboxes exist.      *)
DeleteListSkipped(q) ==
  /\ call[q].pc = "checked"
  /\ call' = [call EXCEPT ![q].pc = "listed"]
  /\ UNCHANGED <<dispatchVars, storeVars, hostVars>>

DeleteList(q) ==
  /\ call[q].pc = "checked"
  /\ \E live \in Listings :
       IF call[q].names \cap live = {} THEN call' = [call EXCEPT ![q].pc = "listed"] ELSE Return(q)
  /\ UNCHANGED <<dispatchVars, storeVars, hostVars>>

DeleteCommit(q, r) ==
  /\ call[q].pc = "listed" /\ call[q].runs = {r}
  /\ row' = [n \in Names |-> IF rowRun[n] = r THEN "absent" ELSE row[n]]
  /\ rowRun' = [n \in Names |-> IF rowRun[n] = r THEN None ELSE rowRun[n]]
  /\ runRow' = [runRow EXCEPT ![r] = "deleted"]
  /\ Return(q)
  /\ UNCHANGED <<dispatchVars, unwritten, hostVars>>

-----------------------------------------------------------------------------
(* sandboxes.py: a person stops or removes sandboxes, claimed or not.  The  *)
(* row is written after the command, and that write may raise.              *)
UserStop(n) ==
  /\ alive[n]
  /\ row' = [row EXCEPT ![n] = IF @ = "absent" THEN @ ELSE "stopped"]
  /\ UNCHANGED <<dispatchVars, call, rowRun, runRow, unwritten, hostVars>>

UserRemove(n) ==
  /\ alive' = [alive EXCEPT ![n] = FALSE]
  /\ \/ row[n] # "absent" /\ row' = [row EXCEPT ![n] = "failed"]
     \/ (row[n] = "absent" \/ StoreCanFail) /\ UNCHANGED row
  /\ UNCHANGED <<dispatchVars, call, rowRun, runRow, unwritten, asked>>

KillAll ==
  /\ alive' = [n \in Names |-> FALSE]
  /\ LET inFlight == {n \in Names : row[n] \in InFlight}
     IN  \E marked \in IF StoreCanFail THEN SUBSET inFlight ELSE {inFlight} :
           row' = [n \in Names |-> IF n \in marked THEN "failed" ELSE row[n]]
  /\ UNCHANGED <<dispatchVars, call, rowRun, runRow, unwritten, asked>>

(* The process dies and comes back: everything in memory is gone, the store *)
(* and the sandboxes are not, and reattach_in_flight_jobs goes over the     *)
(* rows before the first call is served.                                    *)
Restart ==
  /\ CanCrash
  /\ \E live \in Listings :
       LET inFlight == {n \in Names : row[n] \in InFlight}
           back     == (inFlight \cap live) \ Forgotten
       IN  /\ row' = [n \in Names |-> IF n \in inFlight \ live THEN "failed" ELSE row[n]]
           /\ claims' = [n \in Names |-> IF n \in back THEN n ELSE None]
           /\ phase' = [w \in Work |-> IF w \in back THEN "queued"
                                       ELSE IF w \in Runs /\ phase[w] # "idle" THEN "over"
                                       ELSE "idle"]
           /\ owned' = [w \in Work |-> IF w \in back THEN {w} ELSE {}]
           /\ \E order \in [1..Cardinality(back) -> back] :
                /\ \A n \in back : \E i \in DOMAIN order : order[i] = n
                /\ pending' = order
  /\ stage' = [w \in Work |-> Idle]
  /\ slots' = MaxConcurrency
  /\ sampled' = {}
  /\ sampler' = [users |-> 0, on |-> FALSE]
  /\ call' = [q \in Requests |-> NoCall]
  /\ unwritten' = {}
  /\ UNCHANGED <<rowRun, runRow, hostVars>>

-----------------------------------------------------------------------------
Background(w) ==
  \/ DispatchWork(w)
  \/ \E n \in Names : BeginFresh(w, n) \/ BeginRelaunch(w, n) \/ BeginReattach(w, n) \/ EndJob(w, n)
  \/ ReleaseWork(w)

RunStep(r) == DispatchRun(r) \/ (\E n \in Names : QueueJob(r, n)) \/ ReleaseRun(r) \/ FinishRun(r)

Raise == (\E r \in Runs : QueueFails(r)) \/ \E w \in Work, n \in Names : LosesOutcome(w, n)

Foreground(q) ==
  \/ \E r \in Runs : RecordRun(q, r) \/ SubmitRun(q, r) \/ DeleteCommit(q, r)
  \/ ClaimOne(q) \/ ClaimRefused(q) \/ DeleteList(q)

Arrive(q) ==
  \/ StartRun(q)
  \/ \E n \in Names :
       \/ \E op \in {"answer", "followup", "resume", "fresh"} : Plan(q, n, op)
       \/ AnswerFindsNoSandbox(q, n)
  \/ \E r \in Runs : DeleteCheck(q, r)

Person == KillAll \/ \E n \in Names : UserStop(n) \/ UserRemove(n)

Next ==
  \/ \E w \in Work : Background(w)
  \/ \E r \in Runs : RunStep(r)
  \/ \E q \in Requests : Arrive(q) \/ Foreground(q) \/ CallFails(q)
  \/ Raise
  \/ Person
  \/ Restart

Spec == Init /\ [][Next]_vars

(* Threads that have something to do get to do it, and a job ends: the      *)
(* dispatcher and the pools never drop a submitted item, and polling stops  *)
(* at the job's deadline.  Nobody has to press anything.                    *)
Fairness ==
  /\ \A w \in Work : WF_vars(Background(w))
  /\ \A r \in Runs : WF_vars(RunStep(r))
  /\ \A q \in Requests : WF_vars(Foreground(q))

FairSpec == Spec /\ Fairness

-----------------------------------------------------------------------------
(* The claim table is exact: a name is claimed by a work item if and only   *)
(* if that item was given the name and has not released it, so _release     *)
(* (runner.py:140-144), which pops a name without looking at its holder,    *)
(* never drops somebody else's claim and never leaves one behind.           *)
ClaimsExact ==
  \A n \in Names, w \in Work : claims[n] = w <=> (Holding(w) /\ n \in owned[w])

(* RunConflictError (runner.py:62-68): two work items never drive one       *)
(* sandbox, whatever mix of runs, answers, respawns and re-attachments      *)
(* the calls and the restarts produce.                                      *)
OneDriver ==
  \A n \in Names, v, w \in Work :
    stage[v][n] = "driving" /\ stage[w][n] = "driving" => v = w

(* A permit of the slot semaphore (runner.py:88-114) is out exactly for     *)
(* each job of a run, and each re-attached job, that is being driven.       *)
SlotUsers == {p \in Work \X Names : UsesSlot(p[1]) /\ stage[p[1]][p[2]] = "driving"}
SlotsExact == slots + Cardinality(SlotUsers) = MaxConcurrency

(* A job the board shows as queued or running is owned by some work item,   *)
(* which will write its row again (lifespan, main.py:33-40).  One thing     *)
(* leaves a job in flight without an owner until the next restart: a write  *)
(* to the store that raises in record_queued (expand.py:226-242) or in the  *)
(* handler that would record an error (lifecycle.py:616, runner.py:477 and  *)
(* 543), as the claim is released all the same (runner.py:315, 480, 546).   *)
InFlightIsOwned == \A n \in Names : row[n] \in InFlight => claims[n] # None \/ n \in unwritten

(* The sampler thread lives exactly as long as some run wants it, however   *)
(* the runs overlap (start_sampler and stop_sampler, runner.py:483-527).    *)
SamplerExact ==
  /\ sampler.on <=> \E r \in Runs : phase[r] = "executing" /\ r \in sampled
  /\ sampler.users = Cardinality(sampled)

(* delete_run refuses "anything still live rather than deleting around it"  *)
(* (runner.py:419-421): no driven job is without its row ...                *)
DrivenHasRow == \A w \in Work, n \in Names : stage[w][n] = "driving" => row[n] # "absent"

(* ... and no sandbox on the host "would be left with no record pointing    *)
(* at it".                                                                  *)
SandboxHasRow == \A n \in Names : alive[n] => row[n] # "absent"

(* start_answer (runner.py:355-360): "The claim is what stops a double      *)
(* submit": an answer is given to the question it was written for, not to   *)
(* one the agent asked after it.                                            *)
AnswerMeetsItsQuestion ==
  [][\A q \in Requests, n \in Names :
       stage[q][n] = "waiting" /\ stage'[q][n] = "driving" /\ call[q].op = "answer"
         => asked[n] = call[q].turn]_vars

(* A run's row leaves "running": what "wait for it to finish" in the        *)
(* refusal of delete_run (runner.py:439-440) tells the user to count on.    *)
RunFinishes == \A r \in Runs : runRow[r] = "running" ~> runRow[r] # "running"

(* Every claim is given back (runner.py:102-104), so a refused name can be  *)
(* used again "once it finishes".                                           *)
ClaimReleased == \A n \in Names : claims[n] # None ~> claims[n] = None

-----------------------------------------------------------------------------
(* What the proofs of RunnerProofs add to the properties: only an executing *)
(* item has jobs under way, and only of names it was given ...              *)
StagesOwned ==
  \A w \in Work, n \in Names :
    stage[w][n] # "none" => phase[w] = "executing" /\ n \in owned[w]

(* ... a call that has planned has a name to claim and no work of its own,  *)
(* a call that records runs is the only one to record them ...              *)
PlannedCall ==
  \A q \in Requests : call[q].pc = "planned" => phase[q] = "idle" /\ call[q].name \in Names

RecordingOwnsRuns ==
  \A q \in Requests : call[q].pc = "recording" =>
    /\ \A r \in call[q].runs : phase[r] \in {"claimed", "recorded"}
    /\ \A p \in Requests \ {q} : call[p].pc = "recording" => call[p].runs \cap call[q].runs = {}

(* ... and a job that has ended has left a row that is not in flight, or    *)
(* has ended on a write that raised.                                        *)
FinishedIsSettled ==
  \A w \in Work, n \in Names :
    stage[w][n] = "finished" => row[n] \notin InFlight \/ n \in unwritten

(* No job of a run starts before the last of them has its row.              *)
RecordedFirst ==
  \A w \in Work, m, n \in Names :
    stage[w][m] = "unrecorded" => stage[w][n] \in {"none", "unrecorded", "waiting"}

Ownership == ClaimsExact /\ StagesOwned /\ PlannedCall /\ RecordingOwnsRuns

=============================================================================
