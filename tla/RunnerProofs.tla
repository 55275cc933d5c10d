---------------------------- MODULE RunnerProofs ----------------------------
(* Theorems about Runner for every set of names, runs and calls, every cap  *)
(* and every bound.                                                         *)
EXTENDS Runner, FiniteSetTheorems, SequenceTheorems, TLAPS

(* The types without the upper bound of slots, which follows from SlotsExact. *)
Types ==
  /\ claims \in [Names -> Work \cup {None}]
  /\ phase \in [Work -> Phases]
  /\ owned \in [Work -> SUBSET Names]
  /\ stage \in [Work -> [Names -> Stages]]
  /\ pending \in Seq(Work)
  /\ slots \in Nat
  /\ sampled \in SUBSET Runs
  /\ sampler \in [users : Nat, on : BOOLEAN]
  /\ call \in [Requests -> CallRecord]
  /\ row \in [Names -> Status]
  /\ rowRun \in [Names -> Runs \cup {None}]
  /\ unwritten \in SUBSET Names
  /\ runRow \in [Runs -> {"none", "running", "finished", "deleted"}]
  /\ asked \in [Names -> Nat]
  /\ alive \in [Names -> BOOLEAN]

USE IdentitiesAssumption, BoundsAssumption

(* What work items and runs do, when the store lets them and when not.      *)
Works(w)    == Background(w) \/ \E n \in Names : LosesOutcome(w, n)
RunWorks(r) == RunStep(r) \/ QueueFails(r)

(* A function on an initial segment of the numbers is a sequence.           *)
LEMMA ListIsSeq ==
  ASSUME NEW S, NEW k \in Nat, NEW f \in [1..k -> S]
  PROVE  f \in Seq(S)
<1>1. f \in UNION {[1..n -> S] : n \in Nat}
  OBVIOUS
<1>2. QED  BY <1>1, SeqDef

LEMMA NoCallType == NoCall \in CallRecord
BY DEF NoCall, CallRecord, CallPc, Ops

LEMMA CallPcType ==
  ASSUME Types, NEW q \in Requests, NEW pc \in CallPc
  PROVE  [call EXCEPT ![q].pc = pc] \in [Requests -> CallRecord]
<1>1. call[q] \in CallRecord
  BY DEF Types
<1>2. [call[q] EXCEPT !.pc = pc] \in CallRecord
  BY <1>1 DEF CallRecord
<1>3. QED  BY <1>2 DEF Types

LEMMA CallRunsType ==
  ASSUME Types, NEW q \in Requests, NEW R \in SUBSET Runs
  PROVE  [call EXCEPT ![q].runs = R] \in [Requests -> CallRecord]
<1>1. call[q] \in CallRecord
  BY DEF Types
<1>2. [call[q] EXCEPT !.runs = R] \in CallRecord
  BY <1>1 DEF CallRecord
<1>3. QED  BY <1>2 DEF Types

LEMMA StageType ==
  ASSUME Types, NEW w \in Work, NEW n \in Names, NEW s \in Stages
  PROVE  [stage EXCEPT ![w][n] = s] \in [Work -> [Names -> Stages]]
BY DEF Types

(* Driving a job takes at most one permit, and only when there is one.      *)
LEMMA DriveType ==
  ASSUME Types, NEW w \in Work, NEW n \in Names, JobReady(w, n), Drive(w, n) \/ Skip(w, n)
  PROVE  stage' \in [Work -> [Names -> Stages]] /\ slots' \in Nat /\ unwritten' \in SUBSET Names
<1>1. stage' \in [Work -> [Names -> Stages]]
  BY StageType DEF Drive, Skip, Stages
<1>2. slots' \in Nat /\ unwritten' \in SUBSET Names
  BY DEF Types, JobReady, Drive, Skip
<1>3. QED  BY <1>1, <1>2

LEMMA LeaveType ==
  ASSUME Types, NEW w \in Work, NEW n \in Names, Leave(w, n)
  PROVE  stage' \in [Work -> [Names -> Stages]] /\ slots' \in Nat
<1>1. stage' \in [Work -> [Names -> Stages]]
  BY StageType DEF Leave, Stages
<1>2. QED  BY <1>1 DEF Types, Leave

-----------------------------------------------------------------------------
(* Every step keeps the types.                                              *)
LEMMA TypesStep == ASSUME Types, PlannedCall, [Next]_vars PROVE Types'
<1> USE NoCallType DEF Types, CallRecord
<1>1. ASSUME NEW q \in Requests, StartRun(q) PROVE Types'
  <2>1. PICK batch \in SUBSET Runs, names \in SUBSET Names :
          \E owner \in [names -> batch] :
            /\ Claim(owner, names)
            /\ phase' = [w \in Work |-> IF w \in batch THEN "claimed" ELSE phase[w]]
            /\ owned' = [w \in Work |-> IF w \in batch THEN {n \in names : owner[n] = w}
                                                       ELSE owned[w]]
            /\ call' = [call EXCEPT ![q] = [pc |-> "recording", op |-> "start", name |-> None,
                                            turn |-> 0, runs |-> batch, names |-> {}]]
    BY <1>1 DEF StartRun
  <2>2. call' \in [Requests -> CallRecord]
    BY <2>1 DEF CallRecord, CallPc, Ops
  <2>3. claims' \in [Names -> Work \cup {None}]
    BY <2>1 DEF Claim, Work
  <2>4. phase' \in [Work -> Phases] /\ owned' \in [Work -> SUBSET Names]
    BY <2>1 DEF Phases
  <2>5. QED
    BY <1>1, <2>2, <2>3, <2>4 DEF StartRun, storeVars, hostVars
<1>2. ASSUME NEW q \in Requests, NEW r \in Runs, RecordRun(q, r) PROVE Types'
  BY <1>2 DEF RecordRun, Phases, hostVars
<1>3. ASSUME NEW q \in Requests, NEW r \in Runs, SubmitRun(q, r) PROVE Types'
  <2>1. call' \in [Requests -> CallRecord]
    <3>1. call[q].runs \ {r} \in SUBSET Runs
      OBVIOUS
    <3>2. CASE Return(q)
      BY <3>2 DEF Return
    <3>3. CASE call' = [call EXCEPT ![q].runs = call[q].runs \ {r}]
      BY <3>1, <3>3, CallRunsType
    <3>4. QED  BY <1>3, <3>2, <3>3 DEF SubmitRun
  <2>2. phase' \in [Work -> Phases]
    BY <1>3 DEF SubmitRun, Phases
  <2>3. r \in Work /\ pending' = Append(pending, r)
    BY <1>3 DEF SubmitRun, Work
  <2>4. pending' \in Seq(Work)
    BY <2>3
  <2>5. QED
    BY <1>3, <2>1, <2>2, <2>4 DEF SubmitRun, storeVars, hostVars
<1>4. ASSUME NEW q \in Requests, CallFails(q) PROVE Types'
  BY <1>4 DEF CallFails, Return, dispatchVars, storeVars, hostVars
<1>5. ASSUME NEW q \in Requests, NEW n \in Names,
             NEW op \in {"answer", "followup", "resume", "fresh"}, Plan(q, n, op)
      PROVE  Types'
  BY <1>5 DEF Plan, NoCall, CallPc, Ops, dispatchVars, storeVars, hostVars
<1>6. ASSUME NEW q \in Requests, NEW n \in Names, AnswerFindsNoSandbox(q, n) PROVE Types'
  BY <1>6 DEF AnswerFindsNoSandbox, Status, dispatchVars, hostVars
<1>7. ASSUME NEW q \in Requests, ClaimOne(q) PROVE Types'
  <2>1. call' \in [Requests -> CallRecord]
    BY <1>7, CallPcType DEF ClaimOne, CallPc
  <2>2. claims' \in [Names -> Work \cup {None}]
    BY <1>7 DEF ClaimOne, Claim, Work
  <2>3. owned' \in [Work -> SUBSET Names]
    BY <1>7 DEF ClaimOne, PlannedCall, Work
  <2>4. QED
    <3>1. phase' \in [Work -> Phases]
      BY <1>7 DEF ClaimOne, Phases, Work
    <3>2. q \in Work /\ pending' = Append(pending, q)
      BY <1>7 DEF ClaimOne, Work
    <3>3. pending' \in Seq(Work)
      BY <3>2
    <3>4. QED
      BY <1>7, <2>1, <2>2, <2>3, <3>1, <3>3 DEF ClaimOne, storeVars, hostVars
<1>8. ASSUME NEW q \in Requests, ClaimRefused(q) PROVE Types'
  BY <1>8 DEF ClaimRefused, Return, dispatchVars, storeVars, hostVars
<1>9. ASSUME NEW w \in Work, DispatchWork(w) PROVE Types'
  BY <1>9 DEF DispatchWork, Dispatch, Dispatchable, Phases, Stages, storeVars, hostVars
<1>10. ASSUME NEW r \in Runs, DispatchRun(r) PROVE Types'
  <2>1. /\ phase' \in [Work -> Phases]
        /\ pending' \in Seq(Work)
        /\ stage' \in [Work -> [Names -> Stages]]
    BY <1>10 DEF DispatchRun, Dispatch, Dispatchable, Phases, Stages, Work
  <2>2. sampled' \in SUBSET Runs /\ sampler' \in [users : Nat, on : BOOLEAN]
    <3>1. sampler.users \in Nat
      OBVIOUS
    <3>2. CASE UNCHANGED <<sampled, sampler>>
      BY <3>2
    <3>3. CASE /\ sampled' = sampled \cup {r}
               /\ sampler' = [users |-> sampler.users + 1, on |-> TRUE]
      BY <3>1, <3>3
    <3>4. QED  BY <1>10, <3>2, <3>3 DEF DispatchRun
  <2>3. QED
    BY <1>10, <2>1, <2>2 DEF DispatchRun, storeVars, hostVars
<1>11. ASSUME NEW w \in Work, NEW n \in Names, BeginFresh(w, n) PROVE Types'
  <2>1. stage' \in [Work -> [Names -> Stages]] /\ slots' \in Nat /\ unwritten' \in SUBSET Names
    BY <1>11, DriveType DEF BeginFresh
  <2>2. row' \in [Names -> Status] /\ alive' \in [Names -> BOOLEAN]
    <3>1. row' \in [Names -> Status]
      BY <1>11 DEF BeginFresh, Status, InFlight
    <3>2. alive' \in [Names -> BOOLEAN]
      <4>1. alive' = alive \/ alive' = [alive EXCEPT ![n] = TRUE]
        BY <1>11 DEF BeginFresh
      <4>2. QED BY <4>1
    <3>3. QED BY <3>1, <3>2
  <2>3. QED
    BY <1>11, <2>1, <2>2 DEF BeginFresh
<1>12. ASSUME NEW w \in Work, NEW n \in Names, BeginRelaunch(w, n) PROVE Types'
  <2>1. stage' \in [Work -> [Names -> Stages]] /\ slots' \in Nat /\ unwritten' \in SUBSET Names
    BY <1>12, DriveType DEF BeginRelaunch
  <2>2. row' \in [Names -> Status] /\ alive' \in [Names -> BOOLEAN]
    <3>1. row' = row \/ \E s \in Status : row' = [row EXCEPT ![n] = s]
      BY <1>12 DEF BeginRelaunch, Status, InFlight
    <3>2. QED  BY <1>12, <3>1 DEF BeginRelaunch, hostVars
  <2>3. QED
    BY <1>12, <2>1, <2>2 DEF BeginRelaunch, hostVars
<1>13. ASSUME NEW w \in Work, NEW n \in Names, BeginReattach(w, n) PROVE Types'
  <2>1. stage' \in [Work -> [Names -> Stages]] /\ slots' \in Nat /\ unwritten' \in SUBSET Names
    BY <1>13, DriveType DEF BeginReattach
  <2>2. row' \in [Names -> Status] /\ alive' \in [Names -> BOOLEAN]
    <3>1. row' \in [Names -> Status]
      BY <1>13 DEF BeginReattach, Status, InFlight
    <3>2. alive' \in [Names -> BOOLEAN]
      BY <1>13 DEF BeginReattach, hostVars
    <3>3. QED BY <3>1, <3>2
  <2>3. QED
    BY <1>13, <2>1, <2>2 DEF BeginReattach, hostVars
<1>14. ASSUME NEW w \in Work, NEW n \in Names, EndJob(w, n) PROVE Types'
  <2>1. stage' \in [Work -> [Names -> Stages]] /\ slots' \in Nat
    BY <1>14, LeaveType DEF EndJob
  <2>2. /\ row' \in [Names -> Status]
        /\ asked' \in [Names -> Nat]
        /\ alive' \in [Names -> BOOLEAN]
    <3>1. row' \in [Names -> Status]
      BY <1>14 DEF EndJob, Status, InFlight
    <3>2. asked' \in [Names -> Nat]
      <4>1. UNCHANGED asked \/ asked' = [asked EXCEPT ![n] = asked[n] + 1]
        BY <1>14 DEF EndJob
      <4>2. asked[n] + 1 \in Nat
        OBVIOUS
      <4>3. CASE UNCHANGED asked
        BY <4>3
      <4>4. CASE asked' = [asked EXCEPT ![n] = asked[n] + 1]
        BY <4>2, <4>4
      <4>5. QED  BY <4>1, <4>3, <4>4
    <3>3. alive' \in [Names -> BOOLEAN]
      BY <1>14 DEF EndJob
    <3>4. QED  BY <3>1, <3>2, <3>3
  <2>3. QED
    BY <1>14, <2>1, <2>2 DEF EndJob
<1>15. ASSUME NEW w \in Work, ReleaseWork(w) PROVE Types'
  BY <1>15 DEF ReleaseWork, Release, Idle, Phases, Stages, storeVars, hostVars
<1>16. ASSUME NEW r \in Runs, ReleaseRun(r) PROVE Types'
  <2>1. sampled' \in SUBSET Runs /\ sampler' \in [users : Nat, on : BOOLEAN]
    <3>1. sampler.users \in Nat /\ sampler.on \in BOOLEAN
      OBVIOUS
    <3>2. CASE r \notin sampled
      BY <1>16, <3>2 DEF ReleaseRun, StopSampler
    <3>3. CASE r \in sampled
      <4>1. PICK users \in Nat : sampler' = [users |-> users, on |-> sampler.on /\ users # 0]
        BY <1>16, <3>1, <3>3 DEF ReleaseRun, StopSampler
      <4>2. sampled' \in SUBSET Runs
        BY <1>16, <3>3 DEF ReleaseRun, StopSampler
      <4>3. QED  BY <3>1, <4>1, <4>2
    <3>4. QED  BY <3>2, <3>3
  <2>2. /\ phase' \in [Work -> Phases]
        /\ stage' \in [Work -> [Names -> Stages]]
        /\ claims' \in [Names -> Work \cup {None}]
    BY <1>16 DEF ReleaseRun, Release, Idle, Phases, Stages, Work
  <2>3. QED
    BY <1>16, <2>1, <2>2 DEF ReleaseRun, storeVars, hostVars
<1>17. ASSUME NEW r \in Runs, FinishRun(r) PROVE Types'
  <2>1. runRow' \in [Runs -> {"none", "running", "finished", "deleted"}]
    BY <1>17 DEF FinishRun
  <2>2. QED  BY <1>17, <2>1 DEF FinishRun, Phases, hostVars
<1>18. ASSUME NEW q \in Requests, NEW r \in Runs, DeleteCheck(q, r) PROVE Types'
  BY <1>18 DEF DeleteCheck, JobsOf, NoCall, CallPc, Ops, dispatchVars, storeVars, hostVars
<1>19. ASSUME NEW q \in Requests, DeleteList(q) PROVE Types'
  <2>1. call' \in [Requests -> CallRecord]
    <3>1. CASE Return(q)
      BY <3>1 DEF Return
    <3>2. CASE call' = [call EXCEPT ![q].pc = "listed"]
      BY <3>2, CallPcType DEF CallPc
    <3>3. QED  BY <1>19, <3>1, <3>2 DEF DeleteList
  <2>2. QED
    BY <1>19, <2>1 DEF DeleteList, dispatchVars, storeVars, hostVars
<1>20. ASSUME NEW q \in Requests, NEW r \in Runs, DeleteCommit(q, r) PROVE Types'
  BY <1>20 DEF DeleteCommit, Return, Status, dispatchVars, hostVars
<1>21. ASSUME NEW n \in Names, UserStop(n) PROVE Types'
  BY <1>21 DEF UserStop, Status, dispatchVars, hostVars
<1>22. ASSUME NEW n \in Names, UserRemove(n) PROVE Types'
  <2>1. row' \in [Names -> Status]
    BY <1>22 DEF UserRemove, Status
  <2>2. QED  BY <1>22, <2>1 DEF UserRemove, dispatchVars
<1>23. CASE KillAll
  <2>1. row' \in [Names -> Status]
    BY <1>23 DEF KillAll, Status
  <2>2. QED  BY <1>23, <2>1 DEF KillAll, dispatchVars
<1>24. CASE Restart
  <2>1. row' \in [Names -> Status]
    BY <1>24 DEF Restart, Status
  <2>2. /\ claims' \in [Names -> Work \cup {None}]
        /\ owned' \in [Work -> SUBSET Names]
    BY <1>24 DEF Restart, Work
  <2>3. phase' \in [Work -> Phases] /\ stage' \in [Work -> [Names -> Stages]]
    BY <1>24 DEF Restart, Idle, Phases, Stages
  <2>4. pending' \in Seq(Work)
    <3>1. PICK back \in SUBSET Names : \E order \in [1..Cardinality(back) -> back] :
            pending' = order
      BY <1>24 DEF Restart
    <3>2. Cardinality(back) \in Nat
      BY FS_Subset, FS_CardinalityType
    <3>3. PICK order \in [1..Cardinality(back) -> back] : pending' = order
      BY <3>1
    <3>4. pending' \in Seq(back)
      BY <3>2, <3>3, ListIsSeq
    <3>5. Seq(back) \subseteq Seq(Work)
      BY DEF Work
    <3>6. QED  BY <3>4, <3>5
  <2>5. QED
    BY <1>24, <2>1, <2>2, <2>3, <2>4 DEF Restart, hostVars
<1>25. CASE UNCHANGED vars
  BY <1>25 DEF vars, dispatchVars, storeVars, hostVars
<1>27. ASSUME NEW r \in Runs, NEW n \in Names, QueueJob(r, n) PROVE Types'
  <2>1. r \in Work /\ "waiting" \in Stages
    BY DEF Work, Stages
  <2>2. stage' \in [Work -> [Names -> Stages]]
    BY <1>27, <2>1, StageType DEF QueueJob
  <2>3. row' \in [Names -> Status] /\ rowRun' \in [Names -> Runs \cup {None}]
    BY <1>27 DEF QueueJob, Status, InFlight
  <2>4. QED  BY <1>27, <2>2, <2>3 DEF QueueJob, hostVars
<1>28. ASSUME NEW r \in Runs, QueueFails(r) PROVE Types'
  <2>1. stage' \in [Work -> [Names -> Stages]]
    BY <1>28 DEF QueueFails, Stages
  <2>2. unwritten' \in SUBSET Names
    BY <1>28 DEF QueueFails, Work
  <2>3. QED  BY <1>28, <2>1, <2>2 DEF QueueFails, hostVars
<1>29. ASSUME NEW w \in Work, NEW n \in Names, LosesOutcome(w, n) PROVE Types'
  <2>1. stage' \in [Work -> [Names -> Stages]] /\ slots' \in Nat
    <3>1. CASE Leave(w, n)
      BY <3>1, LeaveType
    <3>2. CASE stage' = [stage EXCEPT ![w][n] = "finished"] /\ UNCHANGED slots
      BY <3>2, StageType DEF Stages
    <3>3. QED  BY <1>29, <3>1, <3>2 DEF LosesOutcome
  <2>2. alive' \in [Names -> BOOLEAN]
    BY <1>29 DEF LosesOutcome
  <2>3. unwritten' \in SUBSET Names
    BY <1>29 DEF LosesOutcome
  <2>4. QED  BY <1>29, <2>1, <2>2, <2>3 DEF LosesOutcome
<1> HIDE DEF Types, CallRecord
<1>26. QED
  BY <1>1, <1>2, <1>3, <1>4, <1>5, <1>6, <1>7, <1>8, <1>9, <1>10, <1>11, <1>12, <1>13, <1>14,
     <1>15, <1>16, <1>17, <1>18, <1>19, <1>20, <1>21, <1>22, <1>23, <1>24, <1>25, <1>27, <1>28,
     <1>29
     DEF Next, Background, RunStep, Raise, Foreground, Arrive, Person

-----------------------------------------------------------------------------
(* Every step keeps claims, work items and calls in line.                   *)
LEMMA OwnershipStep == ASSUME Types, Ownership, [Next]_vars PROVE Ownership'
<1> USE DEF Ownership
<1>1. ASSUME NEW q \in Requests, StartRun(q) PROVE Ownership'
  <2>1. PICK batch \in SUBSET {r \in Runs : phase[r] = "idle"}, names \in SUBSET Names :
          \E owner \in [names -> batch] :
            /\ Claim(owner, names)
            /\ phase' = [w \in Work |-> IF w \in batch THEN "claimed" ELSE phase[w]]
            /\ owned' = [w \in Work |-> IF w \in batch THEN {n \in names : owner[n] = w}
                                                       ELSE owned[w]]
            /\ call' = [call EXCEPT ![q] = [pc |-> "recording", op |-> "start", name |-> None,
                                            turn |-> 0, runs |-> batch, names |-> {}]]
    BY <1>1 DEF StartRun
  <2>2. PICK owner \in [names -> batch] :
            /\ Claim(owner, names)
            /\ owned' = [w \in Work |-> IF w \in batch THEN {n \in names : owner[n] = w}
                                                       ELSE owned[w]]
    BY <2>1
  <2>3. ClaimsExact'
    BY <2>1, <2>2 DEF ClaimsExact, Claim, Holding, Types, Work
  <2>4. StagesOwned'
    BY <1>1, <2>1, <2>2 DEF StartRun, StagesOwned, Types, Work
  <2>5. PlannedCall'
    BY <2>1 DEF PlannedCall, Types, Work
  <2>6. RecordingOwnsRuns'
    <3>1. /\ call'[q].runs = batch
          /\ \A p \in Requests \ {q} : call'[p] = call[p]
      BY <2>1 DEF Types
    <3>2. \A p \in Requests \ {q} : call[p].pc = "recording" => call[p].runs \cap batch = {}
      BY DEF RecordingOwnsRuns
    <3>3. /\ \A r \in batch : phase'[r] = "claimed"
          /\ \A r \in Runs \ batch : phase'[r] = phase[r]
      BY <2>1 DEF Types, Work
    <3>4. \A p \in Requests : call[p].runs \subseteq Runs
      BY DEF Types, CallRecord
    <3>5. QED  BY <3>1, <3>2, <3>3, <3>4 DEF RecordingOwnsRuns
  <2>7. QED  BY <2>3, <2>4, <2>5, <2>6
<1>2. ASSUME NEW q \in Requests, NEW r \in Runs, RecordRun(q, r) PROVE Ownership'
  <2>1. ClaimsExact'
    BY <1>2 DEF RecordRun, ClaimsExact, RecordingOwnsRuns, Holding, Types, Work
  <2>2. StagesOwned'
    BY <1>2 DEF RecordRun, StagesOwned, RecordingOwnsRuns, Types, Work
  <2>3. PlannedCall'
    BY <1>2 DEF RecordRun, PlannedCall, Types, Work
  <2>4. RecordingOwnsRuns'
    BY <1>2 DEF RecordRun, RecordingOwnsRuns, Types, Work
  <2>5. QED  BY <2>1, <2>2, <2>3, <2>4
<1>3. ASSUME NEW q \in Requests, NEW r \in Runs, SubmitRun(q, r) PROVE Ownership'
  <2>1. ClaimsExact'
    BY <1>3 DEF SubmitRun, ClaimsExact, Holding, Types, Work
  <2>2. StagesOwned'
    BY <1>3 DEF SubmitRun, StagesOwned, Types, Work
  <2>3. CASE Return(q)
    <3>1. PlannedCall'
      BY <1>3, <2>3 DEF SubmitRun, Return, NoCall, PlannedCall, Types, Work
    <3>2. RecordingOwnsRuns'
      BY <1>3, <2>3 DEF SubmitRun, Return, NoCall, RecordingOwnsRuns, Types, Work
    <3>3. QED  BY <2>1, <2>2, <3>1, <3>2
  <2>4. CASE call' = [call EXCEPT ![q].runs = @ \ {r}]
    <3>1. PlannedCall'
      BY <1>3, <2>4 DEF SubmitRun, PlannedCall, CallRecord, Types, Work
    <3>2. RecordingOwnsRuns'
      BY <1>3, <2>4 DEF SubmitRun, RecordingOwnsRuns, CallRecord, Types, Work
    <3>3. QED  BY <2>1, <2>2, <3>1, <3>2
  <2>5. QED  BY <1>3, <2>3, <2>4 DEF SubmitRun
<1>4. ASSUME NEW q \in Requests, ClaimOne(q) PROVE Ownership'
  <2>1. call[q].name \in Names /\ phase[q] = "idle" /\ q \in Work
    BY <1>4 DEF ClaimOne, PlannedCall, Work
  <2>2. ClaimsExact'
    BY <1>4, <2>1 DEF ClaimOne, Claim, ClaimsExact, Holding, Types
  <2>3. StagesOwned'
    BY <1>4, <2>1 DEF ClaimOne, StagesOwned, Types
  <2>4. /\ call'[q].pc = "idle"
        /\ \A p \in Requests \ {q} : call'[p] = call[p]
    BY <1>4 DEF ClaimOne, CallRecord, Types
  <2>5. PlannedCall'
    BY <1>4, <2>1, <2>4 DEF ClaimOne, PlannedCall, Types, Work
  <2>6. RecordingOwnsRuns'
    <3>1. \A r \in Runs : phase'[r] = phase[r]
      BY <1>4, <2>1 DEF ClaimOne, Types, Work
    <3>2. \A p \in Requests : call[p].runs \subseteq Runs
      BY DEF Types, CallRecord
    <3>3. QED  BY <2>4, <3>1, <3>2 DEF RecordingOwnsRuns
  <2>7. QED  BY <2>2, <2>3, <2>5, <2>6
<1>5. ASSUME NEW w \in Work, NEW first, Dispatch(w, first), UNCHANGED <<claims, owned, call>>
      PROVE  Ownership'
  <2>1. /\ phase[w] = "queued"
        /\ phase' = [phase EXCEPT ![w] = "executing"]
        /\ stage' = [stage EXCEPT ![w] = [n \in Names |-> IF n \in owned[w] THEN first
                                                                         ELSE "none"]]
    BY <1>5 DEF Dispatch, Dispatchable
  <2>2. ClaimsExact'
    BY <1>5, <2>1 DEF ClaimsExact, Holding, Types
  <2>3. StagesOwned'
    BY <1>5, <2>1 DEF StagesOwned, Types
  <2>4. PlannedCall'
    BY <1>5, <2>1 DEF PlannedCall, Types, Work
  <2>5. RecordingOwnsRuns'
    BY <1>5, <2>1 DEF RecordingOwnsRuns, CallRecord, Types, Work
  <2>6. QED  BY <2>2, <2>3, <2>4, <2>5
<1>6. ASSUME NEW w \in Work, NEW n \in Names, NEW s \in Stages \ {"none"},
             phase[w] = "executing", stage[w][n] # "none",
             stage' = [stage EXCEPT ![w][n] = s], UNCHANGED <<claims, phase, owned, call>>
      PROVE  Ownership'
  <2>1. StagesOwned'
    BY <1>6 DEF StagesOwned, Types
  <2>2. QED
    BY <1>6, <2>1 DEF ClaimsExact, Holding, PlannedCall, RecordingOwnsRuns
<1>7. ASSUME NEW w \in Work, ReleaseWork(w) PROVE Ownership'
  <2>1. ClaimsExact'
    BY <1>7 DEF ReleaseWork, AllFinished, Release, ClaimsExact, Holding, Types
  <2>2. StagesOwned'
    BY <1>7 DEF ReleaseWork, Idle, StagesOwned, Types
  <2>3. PlannedCall'
    BY <1>7 DEF ReleaseWork, NoCall, PlannedCall, Types, Work
  <2>4. RecordingOwnsRuns'
    <3>1. \A r \in Runs : phase'[r] = phase[r]
      BY <1>7 DEF ReleaseWork, Types, Work
    <3>2. QED
      BY <1>7, <3>1 DEF ReleaseWork, NoCall, RecordingOwnsRuns, CallRecord, Types
  <2>5. QED  BY <2>1, <2>2, <2>3, <2>4
<1>8. ASSUME NEW r \in Runs, ReleaseRun(r) PROVE Ownership'
  <2>1. ClaimsExact'
    BY <1>8 DEF ReleaseRun, AllFinished, Release, ClaimsExact, Holding, Types, Work
  <2>2. StagesOwned'
    BY <1>8 DEF ReleaseRun, Idle, StagesOwned, Types, Work
  <2>3. PlannedCall'
    BY <1>8 DEF ReleaseRun, PlannedCall, Types, Work
  <2>4. RecordingOwnsRuns'
    BY <1>8 DEF ReleaseRun, AllFinished, RecordingOwnsRuns, CallRecord, Types, Work
  <2>5. QED  BY <2>1, <2>2, <2>3, <2>4
<1>9. ASSUME NEW r \in Runs, FinishRun(r) PROVE Ownership'
  <2>1. ClaimsExact'
    BY <1>9 DEF FinishRun, ClaimsExact, Holding, Types, Work
  <2>2. StagesOwned'
    BY <1>9 DEF FinishRun, StagesOwned, Types, Work
  <2>3. PlannedCall'
    BY <1>9 DEF FinishRun, PlannedCall, Types, Work
  <2>4. RecordingOwnsRuns'
    BY <1>9 DEF FinishRun, RecordingOwnsRuns, CallRecord, Types, Work
  <2>5. QED  BY <2>1, <2>2, <2>3, <2>4
<1>10. ASSUME NEW q \in Requests, NEW c \in CallRecord, c.pc # "recording",
              c.pc = "planned" => phase[q] = "idle" /\ c.name \in Names,
              call' = [call EXCEPT ![q] = c], UNCHANGED dispatchVars
       PROVE  Ownership'
  <2>1. UNCHANGED <<claims, phase, owned, stage>>
    BY <1>10 DEF dispatchVars
  <2>2. ClaimsExact' /\ StagesOwned'
    BY <2>1 DEF ClaimsExact, Holding, StagesOwned
  <2>3. call'[q] = c /\ \A p \in Requests \ {q} : call'[p] = call[p]
    BY <1>10 DEF Types
  <2>4. PlannedCall'
    BY <1>10, <2>1, <2>3 DEF PlannedCall
  <2>5. RecordingOwnsRuns'
    BY <1>10, <2>1, <2>3 DEF RecordingOwnsRuns
  <2>6. QED  BY <2>2, <2>4, <2>5
<1>11. ASSUME NEW q \in Requests, Return(q), UNCHANGED dispatchVars PROVE Ownership'
  BY <1>10, <1>11, NoCallType DEF Return, NoCall
<1>12. ASSUME NEW q \in Requests, NEW n \in Names,
              NEW op \in {"answer", "followup", "resume", "fresh"}, Plan(q, n, op)
       PROVE  Ownership'
  <2> DEFINE c == [pc |-> "planned", op |-> op, name |-> n,
                         turn |-> IF op = "answer" THEN asked[n] ELSE 0,
                   runs |-> {}, names |-> {}]
  <2>1. c \in CallRecord
    BY DEF CallRecord, CallPc, Ops, Types
  <2>2. call' = [call EXCEPT ![q] = c] /\ phase[q] = "idle" /\ UNCHANGED dispatchVars
    BY <1>12 DEF Plan, CanCall
  <2>3. c.pc = "planned" /\ c.name \in Names
    OBVIOUS
  <2> HIDE DEF c
  <2>4. QED  BY <1>10, <2>1, <2>2, <2>3
<1>13. ASSUME NEW q \in Requests, NEW r \in Runs, DeleteCheck(q, r) PROVE Ownership'
  <2> DEFINE c == [pc |-> "checked", op |-> "delete", name |-> None, turn |-> 0,
                   runs |-> {r}, names |-> JobsOf(r)]
  <2>1. c \in CallRecord
    BY DEF CallRecord, CallPc, Ops, JobsOf
  <2>2. call' = [call EXCEPT ![q] = c] /\ UNCHANGED dispatchVars
    BY <1>13 DEF DeleteCheck
  <2>3. c.pc = "checked"
    OBVIOUS
  <2> HIDE DEF c
  <2>4. QED  BY <1>10, <2>1, <2>2, <2>3
<1>14. ASSUME NEW q \in Requests, DeleteList(q) PROVE Ownership'
  <2>1. CASE Return(q)
    BY <1>11, <1>14, <2>1 DEF DeleteList
  <2>2. CASE call' = [call EXCEPT ![q].pc = "listed"]
    <3>1. PICK c \in CallRecord : c.pc = "listed" /\ call' = [call EXCEPT ![q] = c]
      <4>1. [call[q] EXCEPT !.pc = "listed"] \in CallRecord
        <5>1. call[q] \in CallRecord
          BY DEF Types
        <5>2. QED  BY <5>1 DEF CallRecord, CallPc
      <4>2. [call[q] EXCEPT !.pc = "listed"].pc = "listed"
        BY DEF CallRecord, Types
      <4>3. call' = [call EXCEPT ![q] = [call[q] EXCEPT !.pc = "listed"]]
        BY <2>2
      <4>4. QED  BY <4>1, <4>2, <4>3
    <3>2. QED  BY <1>10, <1>14, <3>1 DEF DeleteList
  <2>3. QED  BY <1>14, <2>1, <2>2 DEF DeleteList
<1>15. ASSUME Restart PROVE Ownership'
  <2>1. PICK back \in SUBSET Names :
          /\ claims' = [n \in Names |-> IF n \in back THEN n ELSE None]
          /\ phase' = [w \in Work |-> IF w \in back THEN "queued"
                                      ELSE IF w \in Runs /\ phase[w] # "idle" THEN "over"
                                      ELSE "idle"]
          /\ owned' = [w \in Work |-> IF w \in back THEN {w} ELSE {}]
    <3>1. PICK live \in Listings :
            LET back == ({n \in Names : row[n] \in InFlight} \cap live) \ Forgotten
            IN  /\ claims' = [n \in Names |-> IF n \in back THEN n ELSE None]
                /\ phase' = [w \in Work |-> IF w \in back THEN "queued"
                                            ELSE IF w \in Runs /\ phase[w] # "idle" THEN "over"
                                            ELSE "idle"]
                /\ owned' = [w \in Work |-> IF w \in back THEN {w} ELSE {}]
      BY <1>15, Zenon DEF Restart
    <3> DEFINE back == ({n \in Names : row[n] \in InFlight} \cap live) \ Forgotten
    <3>2. back \in SUBSET Names
      OBVIOUS
    <3>3. QED  BY <3>1, <3>2, Zenon
  <2>2. ClaimsExact'
    BY <2>1 DEF ClaimsExact, Holding, Work
  <2>3. StagesOwned'
    BY <1>15 DEF Restart, Idle, StagesOwned
  <2>4. PlannedCall' /\ RecordingOwnsRuns'
    BY <1>15 DEF Restart, NoCall, PlannedCall, RecordingOwnsRuns
  <2>5. QED  BY <2>2, <2>3, <2>4
<1>16. ASSUME UNCHANGED <<dispatchVars, call>> PROVE Ownership'
  BY <1>16 DEF dispatchVars, ClaimsExact, Holding, StagesOwned, PlannedCall, RecordingOwnsRuns
<1>17. ASSUME NEW w \in Work, NEW n \in Names,
              \/ BeginFresh(w, n) \/ BeginRelaunch(w, n) \/ BeginReattach(w, n)
              \/ EndJob(w, n) \/ LosesOutcome(w, n) \/ QueueJob(w, n)
       PROVE  Ownership'
  <2>1. /\ phase[w] = "executing" /\ stage[w][n] \in {"unrecorded", "waiting", "driving"}
        /\ \/ stage' = [stage EXCEPT ![w][n] = "waiting"]
           \/ stage' = [stage EXCEPT ![w][n] = "driving"]
           \/ stage' = [stage EXCEPT ![w][n] = "finished"]
        /\ UNCHANGED <<claims, phase, owned, call>>
    BY <1>17 DEF BeginFresh, BeginRelaunch, BeginReattach, EndJob, LosesOutcome, QueueJob, Leave,
                 JobReady, Drive, Skip
  <2>2. {"waiting", "driving", "finished"} \subseteq Stages \ {"none"}
    BY DEF Stages
  <2>3. QED  BY <1>6, <2>1, <2>2
<1>25. ASSUME NEW r \in Runs, QueueFails(r) PROVE Ownership'
  <2>1. /\ phase[r] = "executing" /\ UNCHANGED <<claims, phase, owned, call>>
        /\ stage' = [stage EXCEPT ![r] = [n \in Names |-> IF n \in owned[r] THEN "finished"
                                                                         ELSE "none"]]
    BY <1>25 DEF QueueFails
  <2>2. StagesOwned'
    BY <2>1 DEF StagesOwned, Types, Work
  <2>3. QED
    BY <2>1, <2>2 DEF ClaimsExact, Holding, PlannedCall, RecordingOwnsRuns
<1> HIDE DEF Ownership
<1>18. ASSUME NEW q \in Requests, Arrive(q) PROVE Ownership'
  <2>1. ASSUME NEW n \in Names, AnswerFindsNoSandbox(q, n) PROVE Ownership'
    BY <1>16, <2>1 DEF AnswerFindsNoSandbox
  <2>2. QED  BY <1>1, <1>12, <1>13, <1>18, <2>1 DEF Arrive
<1>19. ASSUME NEW q \in Requests, Foreground(q) \/ CallFails(q) PROVE Ownership'
  <2>1. CASE CallFails(q)
    BY <1>11, <2>1 DEF CallFails
  <2>2. CASE ClaimRefused(q)
    BY <1>11, <2>2 DEF ClaimRefused
  <2>3. ASSUME NEW r \in Runs, DeleteCommit(q, r) PROVE Ownership'
    BY <1>11, <2>3 DEF DeleteCommit
  <2>4. QED  BY <1>2, <1>3, <1>4, <1>14, <1>19, <2>1, <2>2, <2>3 DEF Foreground
<1>20. ASSUME NEW w \in Work, Works(w) PROVE Ownership'
  <2>1. CASE DispatchWork(w)
    BY <1>5, <2>1 DEF DispatchWork
  <2>2. QED  BY <1>7, <1>17, <1>20, <2>1 DEF Works, Background
<1>21. ASSUME NEW r \in Runs, RunWorks(r) PROVE Ownership'
  <2>1. CASE DispatchRun(r)
    BY <1>5, <2>1 DEF DispatchRun, Work
  <2>2. ASSUME NEW n \in Names, QueueJob(r, n) PROVE Ownership'
    BY <1>17, <2>2 DEF Work
  <2>3. CASE QueueFails(r)
    BY <1>25, <2>3
  <2>4. QED  BY <1>8, <1>9, <1>21, <2>1, <2>2, <2>3 DEF RunWorks, RunStep
<1>22. CASE Person
  BY <1>16, <1>22 DEF Person, KillAll, UserStop, UserRemove
<1>23. CASE UNCHANGED vars
  BY <1>16, <1>23 DEF vars
<1>24. QED
  BY <1>15, <1>18, <1>19, <1>20, <1>21, <1>22, <1>23 DEF Next, Raise, Works, RunWorks

-----------------------------------------------------------------------------
(* The permits that are out form a finite set, and it changes only when a   *)
(* job starts or ends.                                                      *)
LEMMA SlotUsersFinite == IsFiniteSet(SlotUsers)
<1>1. IsFiniteSet(Work)
  BY FS_Union DEF Work
<1>2. IsFiniteSet(Work \X Names)
  BY <1>1, FS_Product
<1>3. SlotUsers \in SUBSET (Work \X Names)
  BY DEF SlotUsers
<1>4. QED  BY <1>2, <1>3, FS_Subset

Driven(p) == stage[p[1]][p[2]] = "driving"

LEMMA SlotsKept ==
  ASSUME SlotsExact, UNCHANGED slots, \A p \in Work \X Names : Driven(p)' <=> Driven(p)
  PROVE  SlotsExact'
<1>1. SlotUsers' = SlotUsers
  BY DEF SlotUsers, UsesSlot, Driven
<1>2. QED  BY <1>1 DEF SlotsExact

LEMMA SlotTaken ==
  ASSUME Types, SlotsExact, NEW w \in Work, NEW n \in Names, stage[w][n] # "driving", Drive(w, n)
  PROVE  SlotsExact'
<1>1. \A p \in Work \X Names : Driven(p)' <=> Driven(p) \/ p = <<w, n>>
  BY DEF Drive, Driven, Types
<1>2. CASE ~UsesSlot(w)
  <2>1. SlotUsers' = SlotUsers
    BY <1>1, <1>2 DEF SlotUsers, UsesSlot, Driven
  <2>2. QED  BY <1>2, <2>1 DEF Drive, SlotsExact
<1>3. CASE UsesSlot(w)
  <2>1. SlotUsers' = SlotUsers \cup {<<w, n>>}
    BY <1>1, <1>3 DEF SlotUsers, UsesSlot, Driven
  <2>2. <<w, n>> \notin SlotUsers
    BY DEF SlotUsers
  <2>3. Cardinality(SlotUsers') = Cardinality(SlotUsers) + 1 /\ Cardinality(SlotUsers) \in Nat
    BY <2>1, <2>2, SlotUsersFinite, FS_AddElement, FS_CardinalityType
  <2>4. slots' = slots - 1
    BY <1>3 DEF Drive
  <2>5. QED  BY <2>3, <2>4 DEF SlotsExact, Types
<1>4. QED  BY <1>2, <1>3

LEMMA SlotReturned ==
  ASSUME Types, SlotsExact, NEW w \in Work, NEW n \in Names, Leave(w, n)
  PROVE  SlotsExact'
<1>1. \A p \in Work \X Names : Driven(p)' <=> Driven(p) /\ p # <<w, n>>
  BY DEF Leave, Driven, Types
<1>2. CASE ~UsesSlot(w)
  <2>1. SlotUsers' = SlotUsers
    BY <1>1, <1>2 DEF SlotUsers, UsesSlot, Driven
  <2>2. QED  BY <1>2, <2>1 DEF Leave, SlotsExact
<1>3. CASE UsesSlot(w)
  <2>1. SlotUsers' = SlotUsers \ {<<w, n>>}
    BY <1>1 DEF SlotUsers, UsesSlot, Driven
  <2>2. <<w, n>> \in SlotUsers
    BY <1>3 DEF SlotUsers, Leave
  <2>3. Cardinality(SlotUsers') = Cardinality(SlotUsers) - 1 /\ Cardinality(SlotUsers) \in Nat
    BY <2>1, <2>2, SlotUsersFinite, FS_RemoveElement, FS_CardinalityType
  <2>4. slots' = slots + 1
    BY <1>3 DEF Leave
  <2>5. QED  BY <2>3, <2>4 DEF SlotsExact, Types
<1>4. QED  BY <1>2, <1>3

LEMMA SlotsStep ==
  ASSUME Types, Ownership, RecordedFirst, SlotsExact, [Next]_vars
  PROVE  SlotsExact'
<1> USE DEF Ownership
<1>1. ASSUME NEW w \in Work, NEW first \in {"unrecorded", "waiting"}, Dispatch(w, first),
             UNCHANGED slots
      PROVE  SlotsExact'
  <2>1. \A n \in Names : stage[w][n] # "driving" /\ stage'[w][n] # "driving"
    BY <1>1 DEF Dispatch, Dispatchable, StagesOwned, Types
  <2>2. \A v \in Work \ {w} : stage'[v] = stage[v]
    BY <1>1 DEF Dispatch, Types
  <2>3. QED  BY <1>1, <2>1, <2>2, SlotsKept DEF Driven
<1>2. ASSUME NEW w \in Work, AllFinished(w), stage' = [stage EXCEPT ![w] = Idle], UNCHANGED slots
      PROVE  SlotsExact'
  <2>1. \A n \in Names : stage[w][n] # "driving" /\ stage'[w][n] # "driving"
    <3>1. \A n \in Names : stage[w][n] # "driving"
      BY <1>2 DEF AllFinished, StagesOwned
    <3>2. stage'[w] = Idle
      BY <1>2 DEF Types
    <3>3. QED BY <3>1, <3>2 DEF Idle
  <2>2. \A v \in Work \ {w} : stage'[v] = stage[v]
    BY <1>2 DEF Types
  <2>3. QED  BY <1>2, <2>1, <2>2, SlotsKept DEF Driven
<1>3. ASSUME NEW w \in Work, NEW n \in Names, stage[w][n] = "waiting", Drive(w, n) \/ Skip(w, n)
      PROVE  SlotsExact'
  <2>1. CASE Drive(w, n)
    BY <1>3, <2>1, SlotTaken
  <2>2. CASE Skip(w, n)
    <3>1. \A p \in Work \X Names : Driven(p)' <=> Driven(p)
      BY <1>3, <2>2 DEF Skip, Driven, Types
    <3>2. QED  BY <2>2, <3>1, SlotsKept DEF Skip
  <2>3. QED  BY <1>3, <2>1, <2>2
<1>4. ASSUME UNCHANGED <<stage, slots>> PROVE SlotsExact'
  BY <1>4, SlotsKept DEF Driven
<1>12. ASSUME NEW w \in Work, NEW n \in Names, stage[w][n] # "driving", UNCHANGED slots,
              NEW st \in {"waiting", "finished"}, stage' = [stage EXCEPT ![w][n] = st]
       PROVE  SlotsExact'
  <2>1. \A p \in Work \X Names : Driven(p)' <=> Driven(p)
    BY <1>12 DEF Driven, Types
  <2>2. QED  BY <1>12, <2>1, SlotsKept
<1>13. ASSUME NEW r \in Runs, QueueFails(r) PROVE SlotsExact'
  <2>1. r \in Work /\ UNCHANGED slots /\ \E n \in Names : stage[r][n] = "unrecorded"
    BY <1>13 DEF QueueFails, Work
  <2>2. \A n \in Names : stage[r][n] # "driving"
    BY <2>1 DEF RecordedFirst
  <2>3. \A v \in Work, n \in Names : stage'[v][n] = IF v # r THEN stage[v][n] ELSE
                                                    IF n \in owned[r] THEN "finished" ELSE "none"
    BY <1>13, <2>1 DEF QueueFails, Types
  <2>4. QED  BY <2>1, <2>2, <2>3, SlotsKept DEF Driven
<1>5. CASE Restart
  <2>1. \A p \in Work \X Names : stage'[p[1]][p[2]] # "driving"
    BY <1>5 DEF Restart, Idle
  <2>2. SlotUsers' = {}
    BY <2>1 DEF SlotUsers
  <2>3. slots' = MaxConcurrency
    BY <1>5 DEF Restart
  <2>4. QED  BY <2>2, <2>3, FS_EmptySet DEF SlotsExact
<1> HIDE DEF Ownership
<1>6. ASSUME NEW q \in Requests, Arrive(q) \/ Foreground(q) \/ CallFails(q) PROVE SlotsExact'
  <2>1. UNCHANGED <<stage, slots>>
    BY <1>6 DEF Arrive, Foreground, StartRun, Plan, AnswerFindsNoSandbox, DeleteCheck, RecordRun,
                SubmitRun, DeleteCommit, ClaimOne, ClaimRefused, DeleteList, CallFails,
                dispatchVars
  <2>2. QED  BY <1>4, <2>1
<1>7. ASSUME NEW w \in Work, Works(w) PROVE SlotsExact'
  <2>1. CASE DispatchWork(w)
    BY <1>1, <2>1 DEF DispatchWork
  <2>2. ASSUME NEW n \in Names, BeginFresh(w, n) \/ BeginRelaunch(w, n) \/ BeginReattach(w, n)
        PROVE  SlotsExact'
    BY <1>3, <2>2 DEF BeginFresh, BeginRelaunch, BeginReattach, JobReady
  <2>3. CASE ReleaseWork(w)
    BY <1>2, <2>3 DEF ReleaseWork
  <2>4. ASSUME NEW n \in Names, EndJob(w, n) \/ LosesOutcome(w, n) PROVE SlotsExact'
    <3>1. CASE Leave(w, n)
      BY <3>1, SlotReturned
    <3>2. CASE JobReady(w, n) /\ stage' = [stage EXCEPT ![w][n] = "finished"] /\ UNCHANGED slots
      BY <1>12, <3>2 DEF JobReady
    <3>3. QED  BY <2>4, <3>1, <3>2 DEF EndJob, LosesOutcome
  <2>5. QED  BY <1>7, <2>1, <2>2, <2>3, <2>4 DEF Works, Background
<1>8. ASSUME NEW r \in Runs, RunWorks(r) PROVE SlotsExact'
  <2>1. CASE DispatchRun(r)
    BY <1>1, <2>1 DEF DispatchRun, Work
  <2>2. CASE ReleaseRun(r)
    BY <1>2, <2>2 DEF ReleaseRun, Work
  <2>3. CASE FinishRun(r)
    BY <1>4, <2>3 DEF FinishRun
  <2>4. ASSUME NEW n \in Names, QueueJob(r, n) PROVE SlotsExact'
    BY <1>12, <2>4 DEF QueueJob, Work
  <2>5. QED  BY <1>8, <1>13, <2>1, <2>2, <2>3, <2>4 DEF RunWorks, RunStep
<1>9. CASE Person
  BY <1>4, <1>9 DEF Person, KillAll, UserStop, UserRemove, dispatchVars
<1>10. CASE UNCHANGED vars
  BY <1>4, <1>10 DEF vars, dispatchVars
<1>11. QED
  BY <1>5, <1>6, <1>7, <1>8, <1>9, <1>10 DEF Next, Raise, Works, RunWorks

-----------------------------------------------------------------------------
(* The pool of a run is there only when record_queued is through.           *)
LEMMA RecordedStep == ASSUME Types, StagesOwned, RecordedFirst, [Next]_vars PROVE RecordedFirst'
<1>1. CASE UNCHANGED stage
  BY <1>1 DEF RecordedFirst
<1>2. ASSUME NEW w \in Work, NEW f \in [Names -> Stages], stage' = [stage EXCEPT ![w] = f],
             \A m, n \in Names : f[m] = "unrecorded" => f[n] \in {"none", "unrecorded", "waiting"}
      PROVE  RecordedFirst'
  BY <1>2 DEF RecordedFirst, Types
<1>3. ASSUME NEW w \in Work, NEW n \in Names, NEW st \in {"waiting", "driving", "finished"},
             stage' = [stage EXCEPT ![w][n] = st],
             st = "waiting" \/ \A m \in Names : stage[w][m] # "unrecorded"
      PROVE  RecordedFirst'
  BY <1>3 DEF RecordedFirst, Types
<1>4. ASSUME NEW w \in Work, NEW first \in {"unrecorded", "waiting"}, Dispatch(w, first)
      PROVE  RecordedFirst'
  <2> DEFINE f == [n \in Names |-> IF n \in owned[w] THEN first ELSE "none"]
  <2>1. f \in [Names -> Stages] /\ \A m, n \in Names : f[n] \in {"none", "unrecorded", "waiting"}
    BY DEF Stages
  <2>2. stage' = [stage EXCEPT ![w] = f]
    BY <1>4 DEF Dispatch
  <2> HIDE DEF f
  <2>3. QED  BY <1>2, <2>1, <2>2
<1>5. ASSUME NEW w \in Work, stage' = [stage EXCEPT ![w] = Idle] PROVE RecordedFirst'
  <2>1. Idle \in [Names -> Stages] /\ \A n \in Names : Idle[n] = "none"
    BY DEF Idle, Stages
  <2>2. QED  BY <1>2, <1>5, <2>1
<1>6. ASSUME NEW w \in Work, NEW n \in Names,
             \/ BeginFresh(w, n) \/ BeginRelaunch(w, n) \/ BeginReattach(w, n)
             \/ EndJob(w, n) \/ LosesOutcome(w, n)
      PROVE  RecordedFirst'
  <2>1. PICK st \in {"driving", "finished"} : stage' = [stage EXCEPT ![w][n] = st]
    BY <1>6 DEF BeginFresh, BeginRelaunch, BeginReattach, EndJob, LosesOutcome, Leave, Drive, Skip
  <2>2. JobReady(w, n) \/ stage[w][n] = "driving"
    BY <1>6 DEF BeginFresh, BeginRelaunch, BeginReattach, EndJob, LosesOutcome, Leave
  <2>3. \A m \in Names : stage[w][m] # "unrecorded"
    BY <2>2 DEF JobReady, RecordedFirst, StagesOwned
  <2>4. QED  BY <1>3, <2>1, <2>3
<1>7. ASSUME NEW w \in Work, Works(w) PROVE RecordedFirst'
  BY <1>4, <1>5, <1>6, <1>7 DEF Works, Background, DispatchWork, ReleaseWork
<1>8. ASSUME NEW r \in Runs, RunWorks(r) PROVE RecordedFirst'
  <2>1. r \in Work
    BY DEF Work
  <2>2. CASE QueueFails(r)
    <3> DEFINE f == [n \in Names |-> IF n \in owned[r] THEN "finished" ELSE "none"]
    <3>1. f \in [Names -> Stages] /\ \A n \in Names : f[n] # "unrecorded"
      BY DEF Stages
    <3>2. stage' = [stage EXCEPT ![r] = f]
      BY <2>2 DEF QueueFails
    <3> HIDE DEF f
    <3>3. QED  BY <1>2, <2>1, <3>1, <3>2
  <2>3. ASSUME NEW n \in Names, QueueJob(r, n) PROVE RecordedFirst'
    BY <1>3, <2>1, <2>3 DEF QueueJob
  <2>4. QED
    BY <1>1, <1>4, <1>5, <1>8, <2>1, <2>2, <2>3 DEF RunWorks, RunStep, DispatchRun, ReleaseRun, FinishRun
<1>9. ASSUME NEW q \in Requests, Arrive(q) \/ Foreground(q) \/ CallFails(q) PROVE RecordedFirst'
  BY <1>1, <1>9 DEF Arrive, Foreground, StartRun, Plan, AnswerFindsNoSandbox, DeleteCheck, RecordRun,
                SubmitRun, DeleteCommit, ClaimOne, ClaimRefused, DeleteList, CallFails, dispatchVars
<1>10. CASE Restart
  BY <1>10 DEF Restart, Idle, RecordedFirst
<1>11. CASE Person \/ UNCHANGED vars
  BY <1>1, <1>11 DEF Person, KillAll, UserStop, UserRemove, vars, dispatchVars
<1>12. QED
  BY <1>7, <1>8, <1>9, <1>10, <1>11 DEF Next, Raise, Works, RunWorks

-----------------------------------------------------------------------------
(* A row is in flight only while its name is claimed: whoever puts it in    *)
(* flight holds the name, and takes it out of flight before giving it back, *)
(* unless the store refuses the write.                                      *)
Watched == FinishedIsSettled /\ (Forgotten = {} => InFlightIsOwned)

LEMMA WatchedStep ==
  ASSUME Types, Ownership, Watched, [Next]_vars
  PROVE  Watched'
<1> USE DEF Ownership, Watched
<1>1. ASSUME NEW w \in Work, NEW n \in Names, stage[w][n] # "none"
      PROVE  claims[n] = w /\ \A v \in Work \ {w} : stage[v][n] = "none"
  <2>1. claims[n] = w /\ phase[w] = "executing" /\ n \in owned[w]
    BY <1>1 DEF StagesOwned, ClaimsExact, Holding
  <2>2. QED  BY <2>1 DEF StagesOwned, ClaimsExact, Holding
<1>2. ASSUME UNCHANGED <<stage, unwritten>>, \A n \in Names : claims[n] # None => claims'[n] # None,
             \A n \in Names : row'[n] \in InFlight => row[n] \in InFlight
      PROVE  Watched'
  BY <1>2 DEF FinishedIsSettled, InFlightIsOwned
<1>3. ASSUME NEW w \in Work, NEW n \in Names, stage[w][n] \in {"unrecorded", "waiting", "driving"},
             UNCHANGED claims, unwritten \ {n} \subseteq unwritten',
             \A m \in Names \ {n} : row'[m] = row[m],
             NEW st \in {"waiting", "driving", "finished"}, stage' = [stage EXCEPT ![w][n] = st],
             st = "finished" => row'[n] \notin InFlight \/ n \in unwritten'
      PROVE  Watched'
  <2>1. claims[n] = w /\ \A v \in Work \ {w} : stage[v][n] = "none"
    BY <1>1, <1>3
  <2>2. claims[n] # None
    BY <2>1
  <2>3. Forgotten = {} => InFlightIsOwned'
    BY <1>3, <2>2 DEF InFlightIsOwned
  <2>4. \A v \in Work, m \in Names : <<v, m>> # <<w, n>> => stage'[v][m] = stage[v][m]
    BY <1>3 DEF Types
  <2>5. stage'[w][n] = "finished" => row'[n] \notin InFlight \/ n \in unwritten'
    BY <1>3 DEF Types
  <2>6. FinishedIsSettled'
    BY <1>3, <2>1, <2>4, <2>5 DEF FinishedIsSettled
  <2>7. QED  BY <2>3, <2>6
<1>4. ASSUME NEW w \in Work, NEW first \in {"unrecorded", "waiting"}, Dispatch(w, first),
             UNCHANGED <<claims, row, unwritten>>
      PROVE  Watched'
  <2>1. Forgotten = {} => InFlightIsOwned'
    BY <1>4 DEF InFlightIsOwned
  <2>2. \A v \in Work, n \in Names :
          stage'[v][n] = "finished" => v # w /\ stage[v][n] = "finished"
    BY <1>4 DEF Dispatch, Types
  <2>3. FinishedIsSettled'
    BY <1>4, <2>2 DEF FinishedIsSettled
  <2>4. QED  BY <2>1, <2>3
<1>5. ASSUME NEW w \in Work, AllFinished(w), Release(owned[w]),
             stage' = [stage EXCEPT ![w] = Idle], UNCHANGED <<row, unwritten>>
      PROVE  Watched'
  <2>1. \A n \in owned[w] : row[n] \notin InFlight \/ n \in unwritten
    BY <1>5 DEF AllFinished, FinishedIsSettled, Types
  <2>2. \A n \in Names \ owned[w] : claims'[n] = claims[n]
    BY <1>5 DEF Release
  <2>3. Forgotten = {} => InFlightIsOwned'
    BY <1>5, <2>1, <2>2 DEF InFlightIsOwned
  <2>4. \A v \in Work, n \in Names : stage'[v][n] = "finished" => stage[v][n] = "finished"
    BY <1>5 DEF Idle, Types
  <2>5. FinishedIsSettled'
    BY <1>5, <2>4 DEF FinishedIsSettled
  <2>6. QED  BY <2>3, <2>5
<1>6. CASE Restart
  <2>1. FinishedIsSettled'
    BY <1>6 DEF Restart, Idle, FinishedIsSettled
  <2>2. PICK live \in Listings :
          /\ row' = [n \in Names |-> IF n \in {m \in Names : row[m] \in InFlight} \ live
                                    THEN "failed" ELSE row[n]]
          /\ claims' = [n \in Names |->
                          IF n \in ({m \in Names : row[m] \in InFlight} \cap live) \ Forgotten
                          THEN n ELSE None]
    BY <1>6, Zenon DEF Restart
  <2>3. ASSUME Forgotten = {}, NEW n \in Names, row'[n] \in InFlight PROVE claims'[n] # None
    <3>1. row'[n] = row[n] /\ n \in live
      BY <2>2, <2>3 DEF InFlight
    <3>2. claims'[n] = n
      BY <2>2, <2>3, <3>1
    <3>3. QED  BY <3>2 DEF Work
  <2>4. QED  BY <2>1, <2>3 DEF InFlightIsOwned
<1>13. ASSUME NEW r \in Runs, QueueFails(r) PROVE Watched'
  <2>1. /\ UNCHANGED <<claims, row>> /\ r \in Work
        /\ unwritten' = unwritten \cup {n \in owned[r] : row[n] \in InFlight}
    BY <1>13 DEF QueueFails, Work
  <2>2. \A v \in Work, n \in Names :
          stage'[v][n] = "finished" => stage[v][n] = "finished" \/ n \in owned[r]
    BY <1>13, <2>1 DEF QueueFails, Types
  <2>3. FinishedIsSettled'
    BY <2>1, <2>2 DEF FinishedIsSettled
  <2>4. QED  BY <2>1, <2>3 DEF InFlightIsOwned
<1> HIDE DEF Ownership, Watched
<1>7. ASSUME NEW q \in Requests, Arrive(q) \/ Foreground(q) \/ CallFails(q) PROVE Watched'
  <2>1. UNCHANGED <<stage, unwritten>>
    BY <1>7 DEF Arrive, Foreground, StartRun, Plan, AnswerFindsNoSandbox, DeleteCheck, RecordRun,
                SubmitRun, DeleteCommit, ClaimOne, ClaimRefused, DeleteList, CallFails,
                dispatchVars, storeVars
  <2>2. claims' = claims \/ \E names \in SUBSET Names, batch \in SUBSET Work :
                               \E owner \in [names -> batch] : Claim(owner, names)
    <3>1. CASE StartRun(q)
      BY <3>1 DEF StartRun, Work
    <3>2. CASE ClaimOne(q)
      <4>1. call[q].name \in Names
        BY <3>2 DEF ClaimOne, Ownership, PlannedCall
      <4>2. [m \in {call[q].name} |-> q] \in [{call[q].name} -> {q}]
        OBVIOUS
      <4>3. {call[q].name} \in SUBSET Names /\ {q} \in SUBSET Work
        BY <4>1 DEF Work
      <4>4. Claim([m \in {call[q].name} |-> q], {call[q].name})
        BY <3>2 DEF ClaimOne
      <4>5. QED  BY <4>2, <4>3, <4>4
    <3>3. QED
      BY <1>7, <3>1, <3>2
         DEF Arrive, Foreground, Plan, AnswerFindsNoSandbox, DeleteCheck, RecordRun, SubmitRun,
             DeleteCommit, ClaimRefused, DeleteList, CallFails, dispatchVars
  <2>3. \A n \in Names : claims[n] # None => claims'[n] # None
    BY <2>2 DEF Claim
  <2>4. \A n \in Names : row'[n] \in InFlight => row[n] \in InFlight
    BY <1>7 DEF Arrive, Foreground, StartRun, Plan, AnswerFindsNoSandbox, DeleteCheck, RecordRun,
                SubmitRun, DeleteCommit, ClaimOne, ClaimRefused, DeleteList, CallFails,
                storeVars, InFlight, Types
  <2>5. QED  BY <1>2, <2>1, <2>3, <2>4
<1>8. ASSUME NEW w \in Work, Works(w) PROVE Watched'
  <2>1. CASE DispatchWork(w)
    BY <1>4, <2>1 DEF DispatchWork, storeVars
  <2>2. ASSUME NEW n \in Names, BeginFresh(w, n) PROVE Watched'
    <3>1. UNCHANGED claims /\ stage[w][n] = "waiting"
      BY <2>2 DEF BeginFresh, JobReady
    <3>2. CASE row[n] \in {"awaiting_input", "succeeded"}
      <4>1. Skip(w, n) /\ UNCHANGED row /\ row[n] \notin InFlight
        BY <2>2, <3>2 DEF BeginFresh, InFlight
      <4>2. QED  BY <1>3, <3>1, <4>1 DEF Skip
    <3>3. CASE row[n] \notin {"awaiting_input", "succeeded"}
      <4>1. Drive(w, n) /\ row' = [row EXCEPT ![n] = "running"]
        BY <2>2, <3>3 DEF BeginFresh
      <4>2. QED  BY <1>3, <3>1, <4>1 DEF Drive, Types
    <3>4. QED  BY <3>2, <3>3
  <2>3. ASSUME NEW n \in Names, BeginRelaunch(w, n) \/ BeginReattach(w, n) PROVE Watched'
    <3>1. UNCHANGED claims /\ stage[w][n] = "waiting"
      BY <2>3 DEF BeginRelaunch, BeginReattach, JobReady
    <3>2. CASE Drive(w, n) /\ row' = [row EXCEPT ![n] = "running"]
      BY <1>3, <3>1, <3>2 DEF Drive, Types
    <3>3. CASE /\ Skip(w, n)
               /\ row' = [row EXCEPT ![n] = IF @ = "absent" THEN @ ELSE "failed"]
      <4>1. row'[n] \notin InFlight
        BY <3>3 DEF InFlight, Types
      <4>2. QED  BY <1>3, <3>1, <3>3, <4>1 DEF Skip, Types
    <3>4. CASE Skip(w, n) /\ UNCHANGED row /\ row[n] = "absent"
      BY <1>3, <3>1, <3>4 DEF Skip, InFlight
    <3>5. QED  BY <2>3, <3>2, <3>3, <3>4 DEF BeginRelaunch, BeginReattach, Types
  <2>4. ASSUME NEW n \in Names, EndJob(w, n) PROVE Watched'
    <3>1. PICK outcome \in {"awaiting_input", "stopped", "succeeded", "failed"} :
            row' = [row EXCEPT ![n] = IF @ = "absent" THEN @ ELSE outcome]
      BY <2>4 DEF EndJob
    <3>2. row'[n] \notin InFlight /\ \A m \in Names \ {n} : row'[m] = row[m]
      BY <3>1 DEF InFlight, Types
    <3>3. /\ UNCHANGED <<claims, unwritten>> /\ stage[w][n] = "driving"
          /\ stage' = [stage EXCEPT ![w][n] = "finished"]
      BY <2>4 DEF EndJob, Leave
    <3>4. QED BY <1>3, <3>2, <3>3
  <2>5. CASE ReleaseWork(w)
    BY <1>5, <2>5 DEF ReleaseWork, storeVars
  <2>6. ASSUME NEW n \in Names, LosesOutcome(w, n) PROVE Watched'
    <3>1. /\ UNCHANGED <<claims, row>> /\ stage[w][n] \in {"waiting", "driving"}
          /\ stage' = [stage EXCEPT ![w][n] = "finished"]
      BY <2>6 DEF LosesOutcome, Leave, JobReady
    <3>2. unwritten \subseteq unwritten' /\ (row[n] \in InFlight => n \in unwritten')
      BY <2>6 DEF LosesOutcome
    <3>3. QED  BY <1>3, <3>1, <3>2
  <2>7. QED  BY <1>8, <2>1, <2>2, <2>3, <2>4, <2>5, <2>6 DEF Works, Background
<1>9. ASSUME NEW r \in Runs, RunWorks(r) PROVE Watched'
  <2>1. CASE DispatchRun(r)
    BY <1>4, <2>1 DEF DispatchRun, storeVars, Work
  <2>2. CASE ReleaseRun(r)
    BY <1>5, <2>2 DEF ReleaseRun, storeVars, Work
  <2>3. CASE FinishRun(r)
    BY <1>2, <2>3 DEF FinishRun
  <2>4. ASSUME NEW n \in Names, QueueJob(r, n) PROVE Watched'
    <3>1. /\ UNCHANGED <<claims, unwritten>> /\ stage[r][n] = "unrecorded" /\ r \in Work
          /\ stage' = [stage EXCEPT ![r][n] = "waiting"]
          /\ \A m \in Names \ {n} : row'[m] = row[m]
      BY <2>4 DEF QueueJob, Work, Types
    <3>2. QED  BY <1>3, <3>1
  <2>5. QED  BY <1>9, <1>13, <2>1, <2>2, <2>3, <2>4 DEF RunWorks, RunStep
<1>10. CASE Person
  <2>1. UNCHANGED <<claims, stage, unwritten>>
    BY <1>10 DEF Person, KillAll, UserStop, UserRemove, dispatchVars
  <2>2. \A n \in Names : row'[n] \in InFlight => row[n] \in InFlight
    BY <1>10 DEF Person, KillAll, UserStop, UserRemove, InFlight, Types
  <2>3. QED  BY <1>2, <2>1, <2>2
<1>11. CASE UNCHANGED vars
  BY <1>2, <1>11 DEF vars, dispatchVars, storeVars
<1>12. QED
  BY <1>6, <1>7, <1>8, <1>9, <1>10, <1>11 DEF Next, Raise, Works, RunWorks

-----------------------------------------------------------------------------
(* The inductive invariant, and what follows from it.                       *)
IInv == Types /\ Ownership /\ RecordedFirst /\ SlotsExact /\ Watched

LEMMA Initially == Init => IInv
<1> SUFFICES ASSUME Init PROVE IInv
  OBVIOUS
<1>1. Types
  BY NoCallType DEF Init, Types, Idle, Phases, Stages, Status, Work
<1>2. Ownership
  BY DEF Init, Ownership, ClaimsExact, Holding, StagesOwned, PlannedCall, RecordingOwnsRuns, Idle,
         NoCall
<1>3. SlotsExact
  <2>1. SlotUsers = {}
    BY DEF Init, SlotUsers, Idle
  <2>2. QED  BY <2>1, FS_EmptySet DEF Init, SlotsExact
<1>4. Watched
  BY DEF Init, Watched, FinishedIsSettled, InFlightIsOwned, InFlight, Idle
<1>5. RecordedFirst
  BY DEF Init, RecordedFirst, Idle
<1>6. QED  BY <1>1, <1>2, <1>3, <1>4, <1>5 DEF IInv

(* Every reachable state of every instance satisfies the invariant.         *)
THEOREM Inductive == Spec => []IInv
<1>1. IInv /\ [Next]_vars => IInv'
  BY TypesStep, OwnershipStep, RecordedStep, SlotsStep, WatchedStep DEF IInv, Ownership
<1>2. QED  BY Initially, <1>1, PTL DEF Spec

(* Type correctness: in particular the number of free permits never leaves  *)
(* 0..max_concurrency, which is what BoundedSemaphore would raise on.       *)
THEOREM TypeCorrect == Spec => []TypeOK
<1>1. IInv => TypeOK
  <2> SUFFICES ASSUME Types, SlotsExact PROVE TypeOK
    BY DEF IInv
  <2>1. Cardinality(SlotUsers) \in Nat
    BY SlotUsersFinite, FS_CardinalityType
  <2>2. slots \in 0..MaxConcurrency
    BY <2>1 DEF Types, SlotsExact
  <2>3. QED  BY <2>2 DEF Types, TypeOK
<1>2. QED  BY Inductive, <1>1, PTL

(* _release pops names without looking at who holds them (runner.py:140-144) *)
(* and still never frees a name that somebody else claimed.                 *)
THEOREM ClaimsAreExact == Spec => []ClaimsExact
<1>1. IInv => ClaimsExact
  BY DEF IInv, Ownership
<1>2. QED  BY Inductive, <1>1, PTL

(* No sandbox is ever driven by two work items at once: the double polling  *)
(* and finalizing that RunConflictError warns of (runner.py:62-68).         *)
THEOREM NeverTwoDrivers == Spec => []OneDriver
<1>1. IInv => OneDriver
  BY DEF IInv, Ownership, ClaimsExact, StagesOwned, Holding, OneDriver
<1>2. QED  BY Inductive, <1>1, PTL

(* No permit of the slot semaphore leaks or is returned twice.              *)
THEOREM PermitsAreExact == Spec => []SlotsExact
<1>1. IInv => SlotsExact
  BY DEF IInv
<1>2. QED  BY Inductive, <1>1, PTL

(* As long as every in-flight row's feature is still in the features file,  *)
(* no row is left in flight with nobody to finish it, restarts included     *)
(* (main.py:33-40), but where a write to the store raised that would have   *)
(* said so.  A job of a feature that was removed is skipped instead.        *)
THEOREM NothingLeftBehind ==
  ASSUME Forgotten = {}
  PROVE  Spec => []InFlightIsOwned
<1>1. IInv => InFlightIsOwned
  BY DEF IInv, Watched
<1>2. QED  BY Inductive, <1>1, PTL

-----------------------------------------------------------------------------
(* The sampler: its users are executing runs, and it is on if there are any. *)
Sampling ==
  /\ \A r \in sampled : phase[r] = "executing"
  /\ sampler.users = Cardinality(sampled)
  /\ sampler.on <=> sampled # {}

LEMMA SampledFinite ==
  ASSUME Types
  PROVE  /\ IsFiniteSet(sampled) /\ Cardinality(sampled) \in Nat
         /\ Cardinality(sampled) = 0 <=> sampled = {}
<1>1. IsFiniteSet(sampled)
  BY FS_Subset DEF Types
<1>2. QED BY <1>1, FS_CardinalityType, FS_EmptySet

LEMMA SamplerLeft ==
  ASSUME Sampling, UNCHANGED <<sampled, sampler>>, \A r \in sampled : phase'[r] = phase[r]
  PROVE  Sampling'
BY DEF Sampling

(* _execute_run starts to use the sampler ...                               *)
LEMMA SamplerEntered ==
  ASSUME Types, Sampling, NEW r \in Runs, DispatchRun(r)
  PROVE  Sampling'
<1>1. r \notin sampled /\ \A v \in Work : phase'[v] = IF v = r THEN "executing" ELSE phase[v]
  BY DEF Sampling, DispatchRun, Dispatch, Dispatchable, Types, Work
<1>2. CASE UNCHANGED <<sampled, sampler>>
  BY <1>1, <1>2, SamplerLeft DEF Types, Work
<1>3. CASE sampled' = sampled \cup {r} /\ sampler' = [users |-> sampler.users + 1, on |-> TRUE]
  <2>1. Cardinality(sampled') = Cardinality(sampled) + 1
    BY <1>1, <1>3, SampledFinite, FS_AddElement
  <2>2. \A v \in sampled' : phase'[v] = "executing"
    BY <1>1, <1>3 DEF Sampling, Types, Work
  <2>3. sampler'.users = Cardinality(sampled')
    BY <1>3, <2>1 DEF Sampling
  <2>4. sampler'.on <=> sampled' # {}
    BY <1>3
  <2>5. QED BY <2>2, <2>3, <2>4 DEF Sampling
<1>4. QED BY <1>2, <1>3 DEF DispatchRun

(* ... and ends to, when it leaves or stops the thread.                     *)
LEMMA SamplerExited ==
  ASSUME Types, Sampling, NEW r \in Runs, ReleaseRun(r)
  PROVE  Sampling'
<1>1. \A v \in Work : v # r => phase'[v] = phase[v]
  BY DEF ReleaseRun, Types
<1>2. CASE r \notin sampled
  BY <1>1, <1>2, SamplerLeft DEF ReleaseRun, StopSampler, Types, Work
<1>3. CASE r \in sampled
  <2> DEFINE users == IF sampler.users > 0 THEN sampler.users - 1 ELSE 0
  <2>1. sampled' = sampled \ {r} /\ sampler' = [users |-> users, on |-> sampler.on /\ users # 0]
    BY <1>3 DEF ReleaseRun, StopSampler
  <2>2. /\ Cardinality(sampled') = Cardinality(sampled) - 1 /\ Cardinality(sampled) \in Nat
        /\ Cardinality(sampled) # 0
    BY <1>3, <2>1, SampledFinite, FS_RemoveElement
  <2>3. users = Cardinality(sampled')
    BY <2>2 DEF Sampling
  <2>4. IsFiniteSet(sampled')
    BY <2>1, SampledFinite, FS_Subset
  <2>5. users # 0 <=> sampled' # {}
    BY <2>3, <2>4, FS_EmptySet
  <2>6. sampler.on
    BY <1>3 DEF Sampling
  <2>7. \A v \in sampled' : phase'[v] = "executing"
    BY <1>1, <2>1 DEF Sampling, Types, Work
  <2> HIDE DEF users
  <2>8. sampler'.users = users /\ (sampler'.on <=> sampler.on /\ users # 0)
    BY <2>1
  <2>9. QED BY <2>3, <2>5, <2>6, <2>7, <2>8 DEF Sampling
<1>4. QED BY <1>2, <1>3

LEMMA SamplingStep == ASSUME Types, Ownership, Sampling, [Next]_vars PROVE Sampling'
<1>1. ASSUME NEW w \in Work, Works(w) PROVE Sampling'
  <2>1. UNCHANGED <<sampled, sampler>>
    BY <1>1 DEF Works, Background, DispatchWork, BeginFresh, BeginRelaunch, BeginReattach, EndJob,
                LosesOutcome, ReleaseWork
  <2>2. \A r \in sampled : phase'[r] = phase[r]
    <3>1. phase' = phase \/ \E v \in Requests \cup Names, s \in Phases : phase' = [phase EXCEPT ![v] = s]
      BY <1>1 DEF Works, Background, DispatchWork, Dispatch, BeginFresh, BeginRelaunch, BeginReattach,
                  EndJob, LosesOutcome, ReleaseWork, Phases
    <3>2. QED BY <3>1 DEF Types, Work
  <2>3. QED BY <2>1, <2>2, SamplerLeft
<1>2. ASSUME NEW r \in Runs, RunWorks(r) PROVE Sampling'
  <2>1. CASE FinishRun(r)
    BY <2>1, SamplerLeft DEF FinishRun, Sampling, Types, Work
  <2>2. CASE QueueFails(r) \/ \E n \in Names : QueueJob(r, n)
    BY <2>2, SamplerLeft DEF QueueFails, QueueJob
  <2>3. QED BY <1>2, <2>1, <2>2, SamplerEntered, SamplerExited DEF RunWorks, RunStep
<1>3. ASSUME NEW q \in Requests, Arrive(q) PROVE Sampling'
  <2>1. UNCHANGED <<sampled, sampler>>
    BY <1>3 DEF Arrive, StartRun, Plan, AnswerFindsNoSandbox, DeleteCheck, dispatchVars
  <2>2. CASE StartRun(q)
    <3>1. \A r \in Runs : phase[r] # "idle" => phase'[r] = phase[r]
      BY <2>2 DEF StartRun, Work
    <3>2. QED BY <2>1, <3>1, SamplerLeft DEF Sampling, Types
  <2>3. CASE UNCHANGED phase
    BY <2>1, <2>3, SamplerLeft
  <2>4. QED BY <1>3, <2>2, <2>3 DEF Arrive, Plan, AnswerFindsNoSandbox, DeleteCheck, dispatchVars
<1>4. ASSUME NEW q \in Requests, Foreground(q) \/ CallFails(q) PROVE Sampling'
  <2>1. UNCHANGED <<sampled, sampler>>
    BY <1>4 DEF Foreground, CallFails, RecordRun, SubmitRun, DeleteCommit, ClaimOne, ClaimRefused,
                DeleteList, dispatchVars
  <2>2. CASE \E r \in Runs : RecordRun(q, r) \/ SubmitRun(q, r)
    <3>1. PICK r \in Runs : RecordRun(q, r) \/ SubmitRun(q, r)
      BY <2>2
    <3>2. phase[r] # "executing"
      BY <3>1 DEF RecordRun, SubmitRun, Ownership, RecordingOwnsRuns
    <3>3. \A v \in Work : v # r => phase'[v] = phase[v]
      BY <3>1 DEF RecordRun, SubmitRun, Types
    <3>4. QED BY <2>1, <3>2, <3>3, SamplerLeft DEF Sampling, Types, Work
  <2>3. CASE ClaimOne(q)
    BY <2>1, <2>3, SamplerLeft DEF ClaimOne, Types, Work
  <2>4. CASE UNCHANGED phase
    BY <2>1, <2>4, SamplerLeft
  <2>5. QED BY <1>4, <2>2, <2>3, <2>4 DEF Foreground, CallFails, DeleteCommit, ClaimRefused,
                                          DeleteList, dispatchVars
<1>5. CASE Person \/ UNCHANGED vars
  BY <1>5, SamplerLeft DEF Person, KillAll, UserStop, UserRemove, vars, dispatchVars
<1>6. CASE Restart
  BY <1>6, FS_EmptySet DEF Restart, Sampling
<1>7. QED BY <1>1, <1>2, <1>3, <1>4, <1>5, <1>6 DEF Next, Raise, Works, RunWorks

(* The sampler thread lives exactly as long as some run wants it, however   *)
(* runs overlap, fail to begin or are cut off by a restart (start_sampler   *)
(* and stop_sampler, runner.py:483-527).                                    *)
THEOREM SamplerIsExact == Spec => []SamplerExact
<1>1. Init => Sampling
  BY FS_EmptySet DEF Init, Sampling
<1>2. Types /\ Ownership /\ Sampling /\ [Next]_vars => Sampling'
  BY SamplingStep
<1>3. IInv => Types /\ Ownership
  BY DEF IInv
<1>4. Types /\ Sampling => SamplerExact
  BY DEF Types, Sampling, SamplerExact
<1>5. QED BY Inductive, <1>1, <1>2, <1>3, <1>4, PTL DEF Spec

-----------------------------------------------------------------------------
(* Deleting a run.  What can go wrong is one step: between its check and    *)
(* its commit, a call that had planned claims a job of the run.             *)
Deletes(q) == call[q].pc \in {"checked", "listed"}
ClaimsAvoidDeletes ==
  \A p, q \in Requests : ClaimOne(p) /\ Deletes(q) => rowRun[call[p].name] \notin call[q].runs

(* Nobody has the job, or a new run that has not written its row yet and    *)
(* takes the row over when it does.                                         *)
Deletable(n) ==
  /\ claims[n] \in Runs \cup {None}
  /\ \A w \in Work : stage[w][n] \notin {"waiting", "driving"}
DeletesIdle(q) ==
  Deletes(q) =>
    /\ \A r \in call[q].runs : phase[r] = "over" /\ JobsOf(r) \subseteq call[q].names
    /\ \A n \in Names : rowRun[n] \in call[q].runs =>
         Deletable(n) /\ (call[q].pc = "listed" => ListCanFail \/ ~alive[n])
RunsOver == \A r \in Runs : runRow[r] = "finished" => phase[r] = "over"
Rows == DrivenHasRow /\ (ListCanFail \/ SandboxHasRow)

Deletion == RunsOver /\ Rows /\ \A q \in Requests : DeletesIdle(q)

LEMMA StagedIsHeld ==
  ASSUME Types, Ownership, NEW w \in Work, NEW n \in Names, stage[w][n] # "none"
  PROVE  claims[n] = w /\ phase[w] = "executing"
BY DEF Ownership, StagesOwned, ClaimsExact, Holding

(* Dispatching and releasing drive nothing.                                 *)
LEMMA StagesWithout ==
  ASSUME Types, NEW w \in Work, NEW f \in [Names -> {"none", "unrecorded", "waiting", "finished"}],
         stage' = [stage EXCEPT ![w] = f]
  PROVE  \A v \in Work, n \in Names :
           /\ stage'[v][n] = "driving" => stage[v][n] = "driving"
           /\ stage'[v][n] = "waiting" => stage[v][n] = "waiting" \/ (v = w /\ f[n] = "waiting")
BY DEF Types

(* A step that leaves a deletion's own record alone.                        *)
LEMMA StillIdle ==
  ASSUME Types, NEW q \in Requests, DeletesIdle(q), call'[q] = call[q],
         \A r \in Runs : phase[r] = "over" => phase'[r] = "over",
         \A n \in Names : rowRun'[n] \in Runs => rowRun'[n] = rowRun[n] \/ phase[rowRun'[n]] # "over",
         Deletes(q) =>
           \A n \in Names : rowRun[n] \in call[q].runs /\ rowRun'[n] = rowRun[n] /\ Deletable(n)
             => Deletable(n)' /\ (alive'[n] => alive[n])
  PROVE  DeletesIdle(q)'
<1> SUFFICES ASSUME Deletes(q)'
             PROVE  /\ \A r \in call'[q].runs : phase'[r] = "over" /\ JobsOf(r)' \subseteq call'[q].names
                    /\ \A n \in Names : rowRun'[n] \in call'[q].runs =>
                         Deletable(n)' /\ (call'[q].pc = "listed" => ListCanFail \/ ~alive'[n])
  BY DEF DeletesIdle
<1>1. Deletes(q) /\ call[q].runs \subseteq Runs
  BY DEF Deletes, Types, CallRecord
<1>2. /\ \A r \in call[q].runs : phase[r] = "over" /\ JobsOf(r) \subseteq call[q].names
      /\ \A n \in Names : rowRun[n] \in call[q].runs =>
           Deletable(n) /\ (call[q].pc = "listed" => ListCanFail \/ ~alive[n])
  BY <1>1 DEF DeletesIdle
<1>3. \A n \in Names : rowRun'[n] \in call[q].runs => rowRun'[n] = rowRun[n]
  BY <1>1, <1>2
<1>4. \A r \in call[q].runs : JobsOf(r)' \subseteq JobsOf(r)
  BY <1>3 DEF JobsOf
<1>5. QED BY <1>1, <1>2, <1>3, <1>4

(* A call arrives.                                                          *)
LEMMA ArriveDeletes ==
  ASSUME Types, Ownership, Deletion, NEW q \in Requests, Arrive(q)
  PROVE  Deletion'
<1>1. /\ UNCHANGED <<stage, rowRun, runRow, alive>>
      /\ \A p \in Requests \ {q} : call'[p] = call[p]
      /\ \A n \in Names : row[n] # "absent" => row'[n] # "absent"
      /\ \A r \in Runs : phase[r] = "over" => phase'[r] = "over"
  <2>1. CASE StartRun(q)
    BY <2>1 DEF StartRun, storeVars, hostVars, Types, Work
  <2>2. ASSUME NEW n \in Names, NEW op \in {"answer", "followup", "resume", "fresh"}, Plan(q, n, op)
        PROVE  /\ UNCHANGED <<stage, row, rowRun, runRow, alive, phase>>
               /\ \A p \in Requests \ {q} : call'[p] = call[p]
    BY <2>2 DEF Plan, dispatchVars, storeVars, hostVars, Types
  <2>3. ASSUME NEW n \in Names, AnswerFindsNoSandbox(q, n)
        PROVE  /\ UNCHANGED <<stage, rowRun, runRow, alive, phase, call>>
               /\ \A m \in Names : row[m] # "absent" => row'[m] # "absent"
    BY <2>3 DEF AnswerFindsNoSandbox, dispatchVars, hostVars, Types
  <2>4. ASSUME NEW r \in Runs, DeleteCheck(q, r)
        PROVE  /\ UNCHANGED <<stage, row, rowRun, runRow, alive, phase>>
               /\ \A p \in Requests \ {q} : call'[p] = call[p]
    BY <2>4 DEF DeleteCheck, dispatchVars, storeVars, hostVars, Types
  <2>5. QED BY <2>1, <2>2, <2>3, <2>4 DEF Arrive
<1>2. RunsOver' /\ Rows'
  BY <1>1 DEF Deletion, RunsOver, Rows, DrivenHasRow, SandboxHasRow
<1>3. \A n \in Names : Deletable(n) => Deletable(n)'
  <2>1. CASE StartRun(q)
    <3>1. PICK batch \in SUBSET {r \in Runs : phase[r] = "idle"}, names \in SUBSET Names :
            \E owner \in [names -> batch] :
              /\ Claim(owner, names)
              /\ phase' = [w \in Work |-> IF w \in batch THEN "claimed" ELSE phase[w]]
              /\ owned' = [w \in Work |-> IF w \in batch THEN {n \in names : owner[n] = w}
                                                         ELSE owned[w]]
              /\ call' = [call EXCEPT ![q] = [pc |-> "recording", op |-> "start", name |-> None,
                                              turn |-> 0, runs |-> batch, names |-> {}]]
      BY <2>1 DEF StartRun
    <3>2. PICK owner \in [names -> batch] :
              /\ Claim(owner, names)
              /\ phase' = [w \in Work |-> IF w \in batch THEN "claimed" ELSE phase[w]]
      BY <3>1
    <3>3. \A n \in Names : claims'[n] = claims[n] \/ claims'[n] \in Runs
      BY <3>2 DEF Claim
    <3>4. QED BY <1>1, <3>3 DEF Deletable
  <2>2. CASE UNCHANGED <<claims, phase>>
    BY <1>1, <2>2 DEF Deletable
  <2>3. StartRun(q) \/ UNCHANGED <<claims, phase>>
    BY DEF Arrive, Plan, AnswerFindsNoSandbox, DeleteCheck, dispatchVars
  <2>4. QED BY <2>1, <2>2, <2>3
<1>4. ASSUME NEW p \in Requests \ {q} PROVE DeletesIdle(p)'
  BY <1>1, <1>3, StillIdle DEF Deletion
<1>5. DeletesIdle(q)'
  <2>1. CASE \E r \in Runs : DeleteCheck(q, r)
    <3>1. PICK r \in Runs : DeleteCheck(q, r)
      BY <2>1
    <3>2. /\ call'[q].pc = "checked" /\ call'[q].runs = {r} /\ call'[q].names = JobsOf(r)
          /\ UNCHANGED <<phase, claims, rowRun>>
      BY <3>1 DEF DeleteCheck, Types, dispatchVars, storeVars
    <3>3. phase[r] = "over" /\ \A n \in JobsOf(r) : claims[n] = None
      BY <3>1 DEF DeleteCheck, Deletion, RunsOver
    <3>4. JobsOf(r)' = JobsOf(r) /\ \A n \in Names : rowRun[n] = r => n \in JobsOf(r)
      BY <3>2 DEF JobsOf
    <3>5. \A n \in Names : claims[n] = None => Deletable(n)
      BY StagedIsHeld DEF Deletable
    <3>6. \A n \in JobsOf(r) : Deletable(n)'
      BY <1>1, <3>2, <3>3, <3>5 DEF Deletable, JobsOf
    <3>7. QED BY <3>2, <3>3, <3>4, <3>6 DEF DeletesIdle
  <2>2. CASE ~\E r \in Runs : DeleteCheck(q, r)
    <3>1. ~Deletes(q)'
      <4>1. CASE StartRun(q)
        <5>1. call'[q].pc = "recording"
          BY <4>1 DEF StartRun, Types
        <5>2. QED BY <5>1 DEF Deletes
      <4>2. ASSUME NEW n \in Names, NEW op \in {"answer", "followup", "resume", "fresh"}, Plan(q, n, op)
            PROVE  ~Deletes(q)'
        <5>1. call'[q].pc = "planned"
          BY <4>2 DEF Plan, Types
        <5>2. QED BY <5>1 DEF Deletes
      <4>3. ASSUME NEW n \in Names, AnswerFindsNoSandbox(q, n) PROVE ~Deletes(q)'
        BY <4>3 DEF AnswerFindsNoSandbox, CanCall, Deletes
      <4>4. QED BY <2>2, <4>1, <4>2, <4>3 DEF Arrive
    <3>2. QED BY <3>1 DEF DeletesIdle
  <2>3. QED BY <2>1, <2>2
<1>6. QED BY <1>2, <1>4, <1>5 DEF Deletion

(* A call goes on.                                                          *)
LEMMA ForegroundDeletes ==
  ASSUME Types, Ownership, Deletion, NEW q \in Requests, ClaimOne(q) => ClaimsAvoidDeletes,
         Foreground(q) \/ CallFails(q)
  PROVE  Deletion'
<1>1. \A p \in Requests \ {q} : call'[p] = call[p]
  BY DEF Foreground, CallFails, RecordRun, SubmitRun, DeleteCommit, ClaimOne, ClaimRefused, DeleteList,
         Return, Types
<1>2. CASE \E r \in Runs : RecordRun(q, r) \/ SubmitRun(q, r)
  <2>1. PICK r \in Runs : RecordRun(q, r) \/ SubmitRun(q, r)
    BY <1>2
  <2>2. phase[r] # "over" /\ phase'[r] # "over"
    BY <2>1 DEF RecordRun, SubmitRun, Ownership, RecordingOwnsRuns, Types, Work
  <2>3. /\ UNCHANGED <<claims, stage, row, rowRun, alive>>
        /\ \A v \in Runs \ {r} : phase'[v] = phase[v] /\ runRow'[v] = runRow[v]
        /\ runRow'[r] = "running" \/ runRow'[r] = runRow[r]
    BY <2>1 DEF RecordRun, SubmitRun, storeVars, hostVars, Types, Work
  <2>4. RunsOver' /\ Rows'
    BY <2>2, <2>3 DEF Deletion, RunsOver, Rows, DrivenHasRow, SandboxHasRow
  <2>5. ~Deletes(q)'
    <3>1. call[q].pc = "recording" /\ (UNCHANGED call \/ Return(q) \/ call' = [call EXCEPT ![q].runs = @ \ {r}])
      BY <2>1 DEF RecordRun, SubmitRun
    <3>2. call'[q].pc \in {"recording", "idle"}
      BY <3>1 DEF Return, NoCall, Types, CallRecord
    <3>3. QED BY <3>2 DEF Deletes
  <2>6. \A n \in Names : Deletable(n) => Deletable(n)'
    BY <2>3 DEF Deletable
  <2>7. ASSUME NEW p \in Requests \ {q} PROVE DeletesIdle(p)'
    BY <1>1, <2>2, <2>3, <2>6, <2>7, StillIdle DEF Deletion
  <2>8. QED BY <2>4, <2>5, <2>7 DEF Deletion, DeletesIdle
<1>3. CASE ClaimOne(q) \/ ClaimRefused(q) \/ CallFails(q)
  <2>1. UNCHANGED <<stage, row, rowRun, runRow, alive>> /\ call'[q].pc = "idle"
    BY <1>3 DEF ClaimOne, ClaimRefused, CallFails, Return, NoCall, Types, CallRecord, dispatchVars,
                storeVars, hostVars
  <2>2. \A v \in Runs : phase'[v] = phase[v]
    BY <1>3 DEF ClaimOne, ClaimRefused, CallFails, Types, dispatchVars, Work
  <2>3. RunsOver' /\ Rows'
    BY <2>1, <2>2 DEF Deletion, RunsOver, Rows, DrivenHasRow, SandboxHasRow
  <2>4. \A n \in Names : claims'[n] = claims[n] \/ (ClaimOne(q) /\ n = call[q].name)
    BY <1>3 DEF ClaimOne, Claim, ClaimRefused, CallFails, dispatchVars, Types
  <2>5. ASSUME NEW p \in Requests \ {q} PROVE DeletesIdle(p)'
    <3>1. Deletes(p) => \A n \in Names : rowRun[n] \in call[p].runs => claims'[n] = claims[n]
      BY <2>4 DEF ClaimsAvoidDeletes
    <3>2. Deletes(p) => \A n \in Names : rowRun[n] \in call[p].runs /\ Deletable(n) => Deletable(n)'
      BY <2>1, <3>1 DEF Deletable
    <3>3. QED BY <1>1, <2>1, <2>2, <2>5, <3>2, StillIdle DEF Deletion
  <2>6. QED BY <2>1, <2>3, <2>5 DEF Deletion, DeletesIdle, Deletes
<1>4. CASE DeleteList(q)
  <2>1. UNCHANGED <<claims, phase, stage, row, rowRun, runRow, alive>> /\ call[q].pc = "checked"
    BY <1>4 DEF DeleteList, dispatchVars, storeVars, hostVars
  <2>2. RunsOver' /\ Rows'
    BY <2>1 DEF Deletion, RunsOver, Rows, DrivenHasRow, SandboxHasRow
  <2>3. ASSUME NEW p \in Requests \ {q} PROVE DeletesIdle(p)'
    <3>1. \A n \in Names : Deletable(n) => Deletable(n)'
      BY <2>1 DEF Deletable
    <3>2. QED BY <1>1, <2>1, <2>3, <3>1, StillIdle DEF Deletion
  <2>4. DeletesIdle(q)'
    <3>1. CASE Return(q)
      BY <3>1 DEF Return, NoCall, Types, DeletesIdle, Deletes
    <3>2. CASE ~Return(q)
      <4>1. PICK live \in Listings : call[q].names \cap live = {} /\ call' = [call EXCEPT ![q].pc = "listed"]
        BY <1>4, <3>2 DEF DeleteList
      <4>2. call'[q].runs = call[q].runs /\ call'[q].names = call[q].names /\ call[q].names \subseteq Names
        BY <4>1 DEF Types, CallRecord
      <4>3. ListCanFail \/ \A n \in call[q].names : ~alive[n]
        BY <4>1, <4>2 DEF Listings, Live
      <4>4. /\ \A r \in call[q].runs : phase[r] = "over" /\ JobsOf(r) \subseteq call[q].names
            /\ \A n \in Names : rowRun[n] \in call[q].runs => Deletable(n)
        BY <2>1 DEF Deletion, DeletesIdle, Deletes
      <4>5. \A n \in Names : rowRun[n] \in call[q].runs => ListCanFail \/ ~alive[n]
        BY <4>3, <4>4 DEF JobsOf
      <4>6. /\ \A n \in Names : Deletable(n)' <=> Deletable(n)
            /\ \A r \in call[q].runs : JobsOf(r)' = JobsOf(r)
        BY <2>1 DEF Deletable, JobsOf
      <4>7. QED BY <2>1, <4>2, <4>4, <4>5, <4>6 DEF DeletesIdle
    <3>3. QED BY <3>1, <3>2
  <2>5. QED BY <2>2, <2>3, <2>4 DEF Deletion
<1>5. CASE \E r \in Runs : DeleteCommit(q, r)
  <2>1. PICK r \in Runs : DeleteCommit(q, r)
    BY <1>5
  <2>2. /\ UNCHANGED <<claims, phase, stage, alive>> /\ call'[q].pc = "idle"
        /\ call[q].pc = "listed" /\ call[q].runs = {r}
        /\ row' = [n \in Names |-> IF rowRun[n] = r THEN "absent" ELSE row[n]]
        /\ rowRun' = [n \in Names |-> IF rowRun[n] = r THEN None ELSE rowRun[n]]
        /\ runRow' = [runRow EXCEPT ![r] = "deleted"]
    BY <2>1 DEF DeleteCommit, Return, NoCall, Types, dispatchVars, hostVars
  <2>3. \A n \in Names : rowRun[n] = r => Deletable(n) /\ (ListCanFail \/ ~alive[n])
    BY <2>2 DEF Deletion, DeletesIdle, Deletes
  <2>4. \A n \in Names, w \in Work : rowRun[n] = r => stage[w][n] # "driving"
    BY <2>3 DEF Deletable
  <2>5. Rows'
    BY <2>2, <2>3, <2>4 DEF Deletion, Rows, DrivenHasRow, SandboxHasRow
  <2>6. RunsOver'
    BY <2>2 DEF Deletion, RunsOver, Types
  <2>7. ASSUME NEW p \in Requests \ {q} PROVE DeletesIdle(p)'
    <3>1. \A n \in Names : Deletable(n) => Deletable(n)'
      BY <2>2 DEF Deletable
    <3>2. \A n \in Names : rowRun'[n] \in Runs => rowRun'[n] = rowRun[n]
      BY <2>2 DEF Work
    <3>3. QED BY <1>1, <2>2, <2>7, <3>1, <3>2, StillIdle DEF Deletion
  <2>8. QED BY <2>2, <2>5, <2>6, <2>7 DEF Deletion, DeletesIdle, Deletes
<1>6. QED BY <1>2, <1>3, <1>4, <1>5 DEF Foreground

(* Work in the background.                                                  *)
LEMMA BackgroundDeletes ==
  ASSUME Types, Ownership, Deletion, NEW w \in Work, Works(w)
  PROVE  Deletion'
<1>1. /\ UNCHANGED <<rowRun, runRow>>
      /\ \A q \in Requests : call'[q] = call[q] \/ call'[q] = NoCall
  BY DEF Works, Background, DispatchWork, BeginFresh, BeginRelaunch, BeginReattach, EndJob, LosesOutcome,
         ReleaseWork, storeVars
<1>2. \A r \in Runs : phase'[r] = phase[r]
  <2>1. phase' = phase \/ \E v \in Requests \cup Names, s \in Phases : phase' = [phase EXCEPT ![v] = s]
    BY DEF Works, Background, DispatchWork, Dispatch, BeginFresh, BeginRelaunch, BeginReattach, EndJob,
           LosesOutcome, ReleaseWork, Phases
  <2>2. QED BY <2>1 DEF Types, Work
<1>3. \A n \in Names : Deletable(n) => Deletable(n)'
  <2>1. \A n \in Names : claims'[n] = claims[n] \/ claims'[n] = None
    BY DEF Works, Background, DispatchWork, BeginFresh, BeginRelaunch, BeginReattach, EndJob, LosesOutcome,
           ReleaseWork, Release
  <2>2. CASE DispatchWork(w)
    <3>1. /\ stage' = [stage EXCEPT ![w] = [n \in Names |-> IF n \in owned[w] THEN "waiting" ELSE "none"]]
          /\ phase[w] = "queued"
      BY <2>2 DEF DispatchWork, Dispatch, Dispatchable
    <3>2. \A n \in owned[w] : claims[n] = w /\ w \notin Runs \cup {None}
      BY <2>2, <3>1 DEF DispatchWork, Ownership, ClaimsExact, Holding, Types, Work
    <3>3. \A v \in Work, n \in Names : stage'[v][n] \in {"waiting", "driving"} =>
            stage[v][n] \in {"waiting", "driving"} \/ n \in owned[w]
      BY <3>1 DEF Types
    <3>4. QED BY <2>1, <3>2, <3>3 DEF Deletable
  <2>3. CASE ReleaseWork(w)
    BY <2>1, <2>3 DEF ReleaseWork, Idle, Deletable, Types
  <2>4. ASSUME NEW m \in Names, \/ BeginFresh(w, m) \/ BeginRelaunch(w, m) \/ BeginReattach(w, m)
                                \/ EndJob(w, m) \/ LosesOutcome(w, m)
        PROVE  \A n \in Names : Deletable(n) => Deletable(n)'
    <3>1. PICK st \in {"driving", "finished"} : stage' = [stage EXCEPT ![w][m] = st]
      BY <2>4 DEF BeginFresh, BeginRelaunch, BeginReattach, EndJob, LosesOutcome, Leave, Drive, Skip
    <3>2. stage[w][m] \in {"waiting", "driving"}
      BY <2>4 DEF BeginFresh, BeginRelaunch, BeginReattach, JobReady, EndJob, LosesOutcome, Leave
    <3>3. QED BY <2>1, <3>1, <3>2 DEF Deletable, Types
  <2>5. QED BY <2>2, <2>3, <2>4 DEF Works, Background
<1>4. RunsOver'
  BY <1>1, <1>2 DEF Deletion, RunsOver
<1>5. ASSUME \A n \in Names : Deletable(n) => (alive'[n] => alive[n])
      PROVE  \A q \in Requests : DeletesIdle(q)'
  <2> SUFFICES ASSUME NEW q \in Requests PROVE DeletesIdle(q)'
    OBVIOUS
  <2>1. CASE call'[q] = call[q]
    BY <1>1, <1>2, <1>3, <1>5, <2>1, StillIdle DEF Deletion
  <2>2. CASE call'[q] = NoCall
    BY <2>2 DEF NoCall, DeletesIdle, Deletes
  <2>3. QED BY <1>1, <2>1, <2>2
<1>6. CASE DispatchWork(w) \/ ReleaseWork(w)
  <2>1. UNCHANGED <<row, alive>>
    BY <1>6 DEF DispatchWork, ReleaseWork, storeVars, hostVars
  <2>2. \A v \in Work, n \in Names : stage'[v][n] = "driving" => stage[v][n] = "driving"
    <3>1. CASE DispatchWork(w)
      <4> DEFINE f == [n \in Names |-> IF n \in owned[w] THEN "waiting" ELSE "none"]
      <4>1. stage' = [stage EXCEPT ![w] = f]
        BY <3>1 DEF DispatchWork, Dispatch
      <4>2. f \in [Names -> {"none", "unrecorded", "waiting", "finished"}]
        OBVIOUS
      <4> HIDE DEF f
      <4>3. QED BY <4>1, <4>2, StagesWithout
    <3>2. CASE ReleaseWork(w)
      BY <3>2 DEF ReleaseWork, Idle, Types
    <3>3. QED BY <1>6, <3>1, <3>2
  <2>3. Rows'
    BY <2>1, <2>2 DEF Deletion, Rows, DrivenHasRow, SandboxHasRow
  <2>4. QED BY <1>4, <1>5, <2>1, <2>3 DEF Deletion
<1>7. ASSUME NEW n \in Names, \/ BeginFresh(w, n) \/ BeginRelaunch(w, n) \/ BeginReattach(w, n)
                              \/ EndJob(w, n) \/ LosesOutcome(w, n)
      PROVE  Deletion'
  <2>1. stage[w][n] \in {"waiting", "driving"}
    BY <1>7 DEF BeginFresh, BeginRelaunch, BeginReattach, JobReady, EndJob, LosesOutcome, Leave
  <2>2. ~Deletable(n)
    BY <2>1 DEF Deletable
  <2>3. /\ \A m \in Names \ {n} : row'[m] = row[m] /\ alive'[m] = alive[m]
        /\ \A v \in Work, m \in Names : <<v, m>> # <<w, n>> => stage'[v][m] = stage[v][m]
    BY <1>7 DEF BeginFresh, BeginRelaunch, BeginReattach, EndJob, LosesOutcome, Leave, Drive, Skip,
                hostVars, Types
  <2>4. /\ row[n] # "absent" => row'[n] # "absent"
        /\ stage'[w][n] = "driving" => row'[n] # "absent"
        /\ alive'[n] => alive[n] \/ row'[n] # "absent"
    BY <1>7 DEF BeginFresh, BeginRelaunch, BeginReattach, EndJob, LosesOutcome, Leave, Drive, Skip,
                hostVars, Types, Status
  <2>5. Rows'
    BY <2>3, <2>4 DEF Deletion, Rows, DrivenHasRow, SandboxHasRow
  <2>6. \A m \in Names : Deletable(m) => (alive'[m] => alive[m])
    BY <2>2, <2>3
  <2>7. QED BY <1>4, <1>5, <2>5, <2>6 DEF Deletion
<1>8. QED BY <1>6, <1>7 DEF Works, Background

(* A step of a run in the background: a row it takes over is no longer the  *)
(* deletion's.                                                              *)
LEMMA RunDeletes ==
  ASSUME Types, Ownership, Deletion, NEW r \in Runs, RunWorks(r)
  PROVE  Deletion'
<1> USE DEF RunWorks
<1>1. UNCHANGED <<call, alive>>
  BY DEF RunStep, DispatchRun, QueueJob, QueueFails, ReleaseRun, FinishRun, hostVars
<1>2. /\ phase[r] # "over" /\ \A v \in Runs \ {r} : phase'[v] = phase[v] /\ runRow'[v] = runRow[v]
      /\ runRow'[r] = runRow[r] \/ phase'[r] = "over"
  BY DEF RunStep, DispatchRun, Dispatch, Dispatchable, QueueJob, QueueFails, ReleaseRun, AllFinished,
         FinishRun, storeVars, Types, Work
<1>3. RunsOver'
  BY <1>2 DEF Deletion, RunsOver
<1>4. \A n \in Names : rowRun'[n] = rowRun[n] \/ rowRun'[n] = r
  BY DEF RunStep, DispatchRun, QueueJob, QueueFails, ReleaseRun, FinishRun, storeVars, Types
<1>5. \A n \in Names : row[n] # "absent" => row'[n] # "absent"
  BY DEF RunStep, DispatchRun, QueueJob, QueueFails, ReleaseRun, FinishRun, storeVars, Types
<1>6. \A v \in Work, n \in Names :
        /\ stage'[v][n] = "driving" => stage[v][n] = "driving"
        /\ stage'[v][n] = "waiting" => stage[v][n] = "waiting" \/ rowRun'[n] = r
  <2>1. r \in Work
    BY DEF Work
  <2>2. CASE DispatchRun(r)
    <3> DEFINE f == [n \in Names |-> IF n \in owned[r] THEN "unrecorded" ELSE "none"]
    <3>1. stage' = [stage EXCEPT ![r] = f]
      BY <2>2 DEF DispatchRun, Dispatch
    <3>2. f \in [Names -> {"none", "unrecorded", "waiting", "finished"}] /\ \A n \in Names : f[n] # "waiting"
      OBVIOUS
    <3> HIDE DEF f
    <3>3. QED BY <2>1, <3>1, <3>2, StagesWithout
  <2>3. CASE QueueFails(r)
    <3> DEFINE f == [n \in Names |-> IF n \in owned[r] THEN "finished" ELSE "none"]
    <3>1. stage' = [stage EXCEPT ![r] = f]
      BY <2>3 DEF QueueFails
    <3>2. f \in [Names -> {"none", "unrecorded", "waiting", "finished"}] /\ \A n \in Names : f[n] # "waiting"
      OBVIOUS
    <3> HIDE DEF f
    <3>3. QED BY <2>1, <3>1, <3>2, StagesWithout
  <2>4. CASE ReleaseRun(r)
    BY <2>1, <2>4 DEF ReleaseRun, Idle, Types
  <2>5. ASSUME NEW m \in Names, QueueJob(r, m)
        PROVE  \A v \in Work, n \in Names :
                 /\ stage'[v][n] = "driving" => stage[v][n] = "driving"
                 /\ stage'[v][n] = "waiting" => stage[v][n] = "waiting" \/ rowRun'[n] = r
    BY <2>1, <2>5 DEF QueueJob, Types
  <2>6. CASE FinishRun(r)
    BY <2>6 DEF FinishRun
  <2>7. QED BY <2>2, <2>3, <2>4, <2>5, <2>6 DEF RunStep
<1>7. Rows'
  BY <1>1, <1>5, <1>6 DEF Deletion, Rows, DrivenHasRow, SandboxHasRow
<1>8. ASSUME NEW n \in Names, rowRun[n] # r, rowRun'[n] = rowRun[n], Deletable(n) PROVE Deletable(n)'
  <2>1. claims'[n] = claims[n] \/ claims'[n] = None
    BY DEF RunStep, DispatchRun, QueueJob, QueueFails, ReleaseRun, FinishRun, Release
  <2>2. QED BY <1>6, <1>8, <2>1 DEF Deletable
<1>9. ASSUME NEW q \in Requests PROVE DeletesIdle(q)'
  <2>1. Deletes(q) => r \notin call[q].runs
    BY <1>2 DEF Deletion, DeletesIdle
  <2>2. \A n \in Names : rowRun'[n] \in Runs => rowRun'[n] = rowRun[n] \/ phase[rowRun'[n]] # "over"
    BY <1>2, <1>4
  <2>3. Deletes(q) =>
          \A n \in Names : rowRun[n] \in call[q].runs /\ rowRun'[n] = rowRun[n] /\ Deletable(n)
            => Deletable(n)' /\ (alive'[n] => alive[n])
    BY <1>1, <1>8, <2>1
  <2>4. \A v \in Runs : phase[v] = "over" => phase'[v] = "over"
    BY <1>2
  <2>5. QED BY <1>1, <2>2, <2>3, <2>4, StillIdle DEF Deletion
<1>10. QED BY <1>3, <1>7, <1>9 DEF Deletion

LEMMA DeletionStep ==
  ASSUME Types, Ownership, Deletion, [Next]_vars, [ClaimsAvoidDeletes]_vars
  PROVE  Deletion'
<1>1. ASSUME NEW q \in Requests, Foreground(q) PROVE Deletion'
  <2>1. CASE ClaimsAvoidDeletes
    BY <1>1, <2>1, ForegroundDeletes
  <2>2. CASE UNCHANGED vars
    BY <2>2 DEF Deletion, RunsOver, Rows, DrivenHasRow, SandboxHasRow, DeletesIdle, Deletes, Deletable, JobsOf,
                vars, dispatchVars, storeVars, hostVars
  <2>3. QED BY <2>1, <2>2
<1>2. ASSUME NEW q \in Requests, CallFails(q) PROVE Deletion'
  <2>1. ~ClaimOne(q)
    BY <1>2 DEF CallFails, ClaimOne
  <2>2. QED BY <1>2, <2>1, ForegroundDeletes
<1>3. CASE Person \/ UNCHANGED vars
  <2>1. /\ UNCHANGED <<claims, phase, stage, call, rowRun, runRow>>
        /\ \A n \in Names : (alive'[n] => alive[n]) /\ (row[n] # "absent" => row'[n] # "absent")
    <3>1. CASE KillAll
      BY <3>1 DEF KillAll, dispatchVars, Types
    <3>2. ASSUME NEW n \in Names, UserStop(n) \/ UserRemove(n)
          PROVE  /\ UNCHANGED <<claims, phase, stage, call, rowRun, runRow>>
                 /\ \A m \in Names : (alive'[m] => alive[m]) /\ (row[m] # "absent" => row'[m] # "absent")
      BY <3>2 DEF UserStop, UserRemove, dispatchVars, hostVars, Types
    <3>3. CASE UNCHANGED vars
      BY <3>3 DEF vars, dispatchVars, storeVars, hostVars
    <3>4. QED BY <1>3, <3>1, <3>2, <3>3 DEF Person
  <2>2. RunsOver' /\ Rows'
    BY <2>1 DEF Deletion, RunsOver, Rows, DrivenHasRow, SandboxHasRow
  <2>3. ASSUME NEW q \in Requests PROVE DeletesIdle(q)'
    <3>1. \A n \in Names : Deletable(n) => Deletable(n)'
      BY <2>1 DEF Deletable
    <3>2. QED BY <2>1, <2>3, <3>1, StillIdle DEF Deletion
  <2>4. QED BY <2>2, <2>3 DEF Deletion
<1>4. CASE Restart
  <2>1. /\ call' = [q \in Requests |-> NoCall] /\ stage' = [w \in Work |-> Idle]
        /\ UNCHANGED <<rowRun, runRow, alive>>
        /\ \A n \in Names : row[n] # "absent" => row'[n] # "absent"
    BY <1>4 DEF Restart, hostVars
  <2>2. \A r \in Runs : phase[r] = "over" => phase'[r] = "over"
    BY <1>4 DEF Restart, Work
  <2>3. RunsOver'
    BY <2>1, <2>2 DEF Deletion, RunsOver
  <2>4. \A q \in Requests : DeletesIdle(q)'
    BY <2>1 DEF DeletesIdle, Deletes, NoCall
  <2>5. Rows'
    BY <2>1 DEF Deletion, Rows, DrivenHasRow, SandboxHasRow, Idle
  <2>6. QED BY <2>3, <2>4, <2>5 DEF Deletion
<1>5. QED BY <1>1, <1>2, <1>3, <1>4, ArriveDeletes, BackgroundDeletes, RunDeletes
       DEF Next, Raise, Works, RunWorks

LEMMA DeletionHolds == Spec /\ [][ClaimsAvoidDeletes]_vars => []Deletion
<1>1. Init => Deletion
  BY DEF Init, Deletion, RunsOver, DeletesIdle, Deletes, Rows, DrivenHasRow, SandboxHasRow, NoCall, Idle
<1>2. Types /\ Ownership /\ Deletion /\ [Next]_vars /\ [ClaimsAvoidDeletes]_vars => Deletion'
  BY DeletionStep
<1>3. IInv => Types /\ Ownership
  BY DEF IInv
<1>4. QED BY Inductive, <1>1, <1>2, <1>3, PTL DEF Spec

(* As long as no call claims a job of a run between the check and the       *)
(* commit of its deletion, delete_run takes the row of no job that is       *)
(* driven (runner.py:419-421): any number of calls, of runs started and of  *)
(* deletions may otherwise overlap, restarts and removals included.         *)
THEOREM DeletesAreSafe == Spec /\ [][ClaimsAvoidDeletes]_vars => []DrivenHasRow
<1>1. Deletion => DrivenHasRow
  BY DEF Deletion, Rows
<1>2. QED BY <1>1, DeletionHolds, PTL

(* Nor does it take the row of a sandbox that exists, as long as sbx ls     *)
(* tells the truth: a listing that fails reads as "no sandboxes".           *)
THEOREM DeletesSpareSandboxes ==
  ASSUME ~ListCanFail
  PROVE  Spec /\ [][ClaimsAvoidDeletes]_vars => []SandboxHasRow
<1>1. Deletion => SandboxHasRow
  BY DEF Deletion, Rows
<1>2. QED BY <1>1, DeletionHolds, PTL

-----------------------------------------------------------------------------
(* Answers.  start_answer plans, and only then claims: what it would take   *)
(* is a claim that looks at the question again.                             *)
AnswerClaimsCurrent ==
  \A q \in Requests : ClaimOne(q) /\ call[q].op = "answer" => asked[call[q].name] = call[q].turn

(* An answer under way that was not given yet is for the open question.     *)
Current ==
  \A q \in Requests : Holding(q) /\ call[q].op = "answer" =>
    \A n \in owned[q] : stage[q][n] \in {"none", "waiting"} => asked[n] = call[q].turn

(* What a request thread was given is given by its own claim.               *)
LEMMA CurrentArrives ==
  ASSUME Types, Current, NEW p \in Requests, Arrive(p)
  PROVE  Current'
<1>1. UNCHANGED <<stage, asked>> /\ \A q \in Requests : phase'[q] = phase[q] /\ owned'[q] = owned[q]
  <2>1. CASE StartRun(p)
    <3>1. PICK batch \in SUBSET {r \in Runs : phase[r] = "idle"}, names \in SUBSET Names :
            \E owner \in [names -> batch] :
              /\ Claim(owner, names)
              /\ phase' = [w \in Work |-> IF w \in batch THEN "claimed" ELSE phase[w]]
              /\ owned' = [w \in Work |-> IF w \in batch THEN {n \in names : owner[n] = w}
                                                         ELSE owned[w]]
              /\ call' = [call EXCEPT ![p] = [pc |-> "recording", op |-> "start", name |-> None,
                                              turn |-> 0, runs |-> batch, names |-> {}]]
      BY <2>1 DEF StartRun
    <3>2. \A q \in Requests : q \in Work /\ q \notin batch
      BY DEF Work
    <3>3. QED BY <2>1, <3>1, <3>2 DEF StartRun, hostVars
  <2>2. CASE UNCHANGED <<stage, asked, phase, owned>>
    BY <2>2
  <2>3. QED BY <2>1, <2>2 DEF Arrive, Plan, AnswerFindsNoSandbox, DeleteCheck, dispatchVars, hostVars
<1>2. \A q \in Requests \ {p} : call'[q] = call[q]
  BY DEF Arrive, StartRun, Plan, AnswerFindsNoSandbox, DeleteCheck, Types
<1>3. ~Holding(p)'
  BY <1>1 DEF Arrive, StartRun, Plan, AnswerFindsNoSandbox, DeleteCheck, CanCall, Holding
<1>4. \A q \in Requests \ {p} : Holding(q)' <=> Holding(q)
  BY <1>1 DEF Holding
<1>5. QED BY <1>1, <1>2, <1>3, <1>4 DEF Current

LEMMA CurrentGoesOn ==
  ASSUME Types, Ownership, Current, NEW p \in Requests, Foreground(p) \/ CallFails(p),
         ClaimOne(p) => AnswerClaimsCurrent
  PROVE  Current'
<1>1. CASE ClaimOne(p)
  <2>1. /\ owned' = [owned EXCEPT ![p] = {call[p].name}] /\ UNCHANGED <<stage, asked>>
        /\ call' = [call EXCEPT ![p].pc = "idle"] /\ phase' = [phase EXCEPT ![p] = "queued"]
    BY <1>1 DEF ClaimOne, hostVars
  <2>2. call'[p].op = call[p].op /\ call'[p].turn = call[p].turn /\ owned'[p] = {call[p].name}
    BY <2>1 DEF Types, CallRecord, Work
  <2>3. call[p].op = "answer" => asked[call[p].name] = call[p].turn
    BY <1>1 DEF AnswerClaimsCurrent
  <2>4. \A q \in Requests \ {p} : /\ call'[q] = call[q] /\ owned'[q] = owned[q]
                                  /\ Holding(q)' <=> Holding(q)
    BY <2>1 DEF Types, Holding, Work
  <2>5. QED BY <2>1, <2>2, <2>3, <2>4 DEF Current
<1>2. CASE ~ClaimOne(p)
  <2>1. UNCHANGED <<owned, stage, asked>> /\ \A q \in Requests : phase'[q] = phase[q]
    <3>1. UNCHANGED <<owned, stage, asked>> /\ (UNCHANGED phase \/ \E r \in Runs, s \in Phases : phase' = [phase EXCEPT ![r] = s])
      BY <1>2 DEF Foreground, CallFails, RecordRun, SubmitRun, DeleteCommit, ClaimRefused, DeleteList,
                  dispatchVars, hostVars, Phases
    <3>2. QED BY <3>1 DEF Types, Work
  <2>2. \A q \in Requests : call'[q].op = "answer" => call[q].op = "answer" /\ call'[q].turn = call[q].turn
    <3>1. \/ UNCHANGED call
          \/ Return(p)
          \/ \E R \in SUBSET Runs : call' = [call EXCEPT ![p].runs = R]
          \/ \E pc \in CallPc : call' = [call EXCEPT ![p].pc = pc]
      <4>1. \A r \in Runs : call[p].runs \ {r} \in SUBSET Runs
        BY DEF Types, CallRecord
      <4>2. "listed" \in CallPc
        BY DEF CallPc
      <4>3. QED BY <1>2, <4>1, <4>2 DEF Foreground, CallFails, RecordRun, SubmitRun, DeleteCommit, ClaimRefused,
                  DeleteList
    <3>2. \A q \in Requests \ {p} : call'[q] = call[q]
      BY <3>1 DEF Return, Types
    <3>3. CASE Return(p)
      <4>1. call'[p].op = "none"
        BY <3>3 DEF Return, NoCall, Types
      <4>2. QED BY <3>2, <4>1
    <3>4. CASE ~Return(p)
      <4>1. call'[p].op = call[p].op /\ call'[p].turn = call[p].turn
        BY <3>1, <3>4 DEF Types, CallRecord
      <4>2. QED BY <3>2, <4>1
    <3>5. QED BY <3>3, <3>4
  <2>3. \A q \in Requests : Holding(q)' <=> Holding(q)
    BY <2>1 DEF Holding
  <2>4. QED BY <2>1, <2>2, <2>3 DEF Current
<1>3. QED BY <1>1, <1>2

LEMMA CurrentAtWork ==
  ASSUME Types, Ownership, Current, NEW w \in Work, Works(w)
  PROVE  Current'
<1> SUFFICES ASSUME NEW q \in Requests
             PROVE  Holding(q)' /\ call'[q].op = "answer" =>
                      \A n \in owned'[q] : stage'[q][n] \in {"none", "waiting"} => asked'[n] = call'[q].turn
  BY DEF Current
<1> q \in Work
  BY DEF Work
<1>1. call'[q].op = "answer" => call[q].op = "answer" /\ call'[q].turn = call[q].turn
  BY DEF Works, Background, DispatchWork, BeginFresh, BeginRelaunch, BeginReattach, EndJob, LosesOutcome,
         ReleaseWork, NoCall
<1>2. Holding(q)' => Holding(q) /\ owned'[q] = owned[q]
  <2>1. CASE DispatchWork(w)
    BY <2>1 DEF DispatchWork, Dispatch, Dispatchable, Holding, Types
  <2>2. CASE ReleaseWork(w)
    BY <2>2 DEF ReleaseWork, Holding, Types
  <2>3. CASE UNCHANGED <<phase, owned>>
    BY <2>3 DEF Holding
  <2>4. QED BY <2>1, <2>2, <2>3 DEF Works, Background, BeginFresh, BeginRelaunch, BeginReattach, EndJob,
                                    LosesOutcome
<1>3. ASSUME NEW n \in owned[q], Holding(q), stage'[q][n] \in {"none", "waiting"}, Holding(q)'
      PROVE  stage[q][n] \in {"none", "waiting"} /\ asked'[n] = asked[n]
  <2>1. n \in Names /\ claims[n] = q
    BY <1>3 DEF Types, Ownership, ClaimsExact
  <2>2. CASE DispatchWork(w)
    <3>1. w = q => stage[q][n] = "none"
      BY <2>1, <2>2 DEF DispatchWork, Dispatch, Dispatchable, Ownership, StagesOwned, Types
    <3>2. w # q => stage'[q] = stage[q]
      BY <2>2 DEF DispatchWork, Dispatch, Types
    <3>3. QED BY <1>3, <2>2, <3>1, <3>2 DEF DispatchWork, hostVars
  <2>3. CASE ReleaseWork(w)
    <3>1. w # q
      BY <1>3, <2>3 DEF ReleaseWork, Holding, Types
    <3>2. QED BY <1>3, <2>3, <3>1 DEF ReleaseWork, hostVars, Types
  <2>4. ASSUME NEW m \in Names, \/ BeginFresh(w, m) \/ BeginRelaunch(w, m) \/ BeginReattach(w, m)
                                \/ EndJob(w, m) \/ LosesOutcome(w, m)
        PROVE  stage[q][n] \in {"none", "waiting"} /\ asked'[n] = asked[n]
    <3>1. PICK st \in {"driving", "finished"} : stage' = [stage EXCEPT ![w][m] = st]
      BY <2>4 DEF BeginFresh, BeginRelaunch, BeginReattach, EndJob, LosesOutcome, Leave, Drive, Skip
    <3>2. stage[w][m] # "none" /\ \A k \in Names \ {m} : asked'[k] = asked[k]
      BY <2>4 DEF BeginFresh, BeginRelaunch, BeginReattach, EndJob, LosesOutcome, Leave, JobReady,
                  hostVars, Types
    <3>3. n = m => w = q
      BY <2>1, <3>2, StagedIsHeld
    <3>4. \A v \in Work, k \in Names : stage'[v][k] = IF v = w /\ k = m THEN st ELSE stage[v][k]
      BY <3>1 DEF Types
    <3>5. n # m
      BY <1>3, <2>1, <3>3, <3>4
    <3>6. QED BY <1>3, <2>1, <3>2, <3>4, <3>5
  <2>5. QED BY <2>2, <2>3, <2>4 DEF Works, Background
<1>4. CASE Holding(q)'
  BY <1>1, <1>2, <1>3, <1>4 DEF Current
<1>5. CASE ~Holding(q)'
  BY <1>5
<1>6. QED BY <1>4, <1>5

LEMMA CurrentStep ==
  ASSUME Types, Ownership, Current, [Next]_vars, [AnswerClaimsCurrent]_vars
  PROVE  Current'
<1>1. ASSUME NEW q \in Requests, Foreground(q) PROVE Current'
  <2>1. CASE AnswerClaimsCurrent
    BY <1>1, <2>1, CurrentGoesOn
  <2>2. CASE UNCHANGED vars
    BY <2>2 DEF Current, Holding, vars, dispatchVars, hostVars
  <2>3. QED BY <2>1, <2>2
<1>2. ASSUME NEW q \in Requests, CallFails(q) PROVE Current'
  <2>1. ~ClaimOne(q)
    BY <1>2 DEF CallFails, ClaimOne
  <2>2. QED BY <1>2, <2>1, CurrentGoesOn
<1>3. ASSUME NEW r \in Runs, RunWorks(r) PROVE Current'
  <2>1. UNCHANGED <<owned, call, asked>> /\ \A q \in Requests : phase'[q] = phase[q] /\ stage'[q] = stage[q]
    BY <1>3 DEF RunWorks, RunStep, DispatchRun, Dispatch, QueueJob, QueueFails, ReleaseRun, FinishRun,
                hostVars, Types, Work
  <2>2. QED BY <2>1 DEF Current, Holding
<1>4. CASE Person \/ UNCHANGED vars
  <2>1. UNCHANGED <<owned, call, asked, phase, stage>>
    BY <1>4 DEF Person, KillAll, UserStop, UserRemove, vars, dispatchVars, hostVars
  <2>2. QED BY <2>1 DEF Current, Holding
<1>5. CASE Restart
  <2>1. \A q \in Requests : call'[q].op = "none"
    BY <1>5 DEF Restart, NoCall
  <2>2. QED BY <2>1 DEF Current
<1>6. QED BY <1>1, <1>2, <1>3, <1>4, <1>5, CurrentArrives, CurrentAtWork
       DEF Next, Raise, Works, RunWorks

(* An answer reaches the question it was written for as long as every claim *)
(* of one finds that question still open: the claim made on an old plan is  *)
(* the whole of what goes wrong in start_answer (runner.py:355-367).        *)
THEOREM AnswersMeetTheirQuestion ==
  Spec /\ [][AnswerClaimsCurrent]_vars => AnswerMeetsItsQuestion
<1>1. Init => Current
  BY DEF Init, Current, Holding, Work
<1>2. Types /\ Ownership /\ Current /\ [Next]_vars /\ [AnswerClaimsCurrent]_vars => Current'
  BY CurrentStep
<1>3. Types /\ Ownership /\ Current =>
        \A q \in Requests, n \in Names :
          stage[q][n] = "waiting" /\ stage'[q][n] = "driving" /\ call[q].op = "answer"
            => asked[n] = call[q].turn
  BY DEF Ownership, StagesOwned, Holding, Current, Work
<1>4. IInv => Types /\ Ownership
  BY DEF IInv
<1>5. QED BY Inductive, <1>1, <1>2, <1>3, <1>4, PTL DEF Spec, AnswerMeetsItsQuestion

=============================================================================
