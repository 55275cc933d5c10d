-------------------------------- MODULE Job --------------------------------
(***************************************************************************)
(* One sandbox from creation to the published branch: job/lifecycle.py and *)
(* job/finish.py with the commands of sbx.py and vcs.py they call, the     *)
(* wrapper script that runs inside the sandbox, and the calls of           *)
(* api/sandboxes.py by which a person takes the sandbox away.              *)
(*                                                                         *)
(* At most one thread drives a sandbox: that is OneDriver of Runner, here  *)
(* the single driver.  Everything else runs beside it: the agent's         *)
(* process and its wrapper, one process per launch, a person's call, and   *)
(* the death of the server.                                                *)
(***************************************************************************)
EXTENDS Integers

CONSTANTS
  MaxTurns,     \* bound: launches of the agent
  MaxCommits,   \* bound: commits the agents make
  MaxRestarts,  \* bound: deaths of the server
  Misses,       \* _MISSING_OBSERVATIONS_BEFORE_LOST
  People,       \* which of "stop", "remove", "force" and "kill" people use
  RemoveOnSuccess, RemoveOnFailure, OpenPr, \* the config flags of those names
  VerifyOn,     \* config.verify_on: "host" or "sandbox"
  Commands,     \* which of "tests" and "lint" have a command; by default none has
  ListCanFail,  \* whether `sbx ls` may fail, which reads as "no sandboxes"
  RmCanFail     \* whether `sbx rm` and `sbx stop` may fail, which nobody looks at

ASSUME JobAssumption ==
  /\ MaxTurns \in Nat /\ MaxCommits \in Nat /\ MaxRestarts \in Nat /\ Misses \in Nat \ {0}
  /\ People \subseteq {"stop", "remove", "force", "kill"}
  /\ {RemoveOnSuccess, RemoveOnFailure, OpenPr, ListCanFail, RmCanFail} \subseteq BOOLEAN
  /\ VerifyOn \in {"host", "sandbox"} /\ Commands \subseteq {"tests", "lint"}

VARIABLES
  box,      \* the container, as `sbx ls` would report it ("gone": not listed)
  file,     \* the status file in the sandbox, and which launch wrote it
  head,     \* the commit the sandbox's branch is at
  made,     \* the newest commit any agent made
  proc,     \* launch -> its agent process and wrapper
  turn,     \* the latest launch
  rival,    \* whether an older process was still going at that launch
  row,      \* jobs.status ("absent": no row)
  driver,   \* the thread that drives the job
  ref,      \* the host's copy of the branch, refs/remotes/sandbox-<name>/<branch>
  passed,   \* command -> the commits it has passed on
  origin,   \* the commit published under the branch's name
  person,   \* a call of sandboxes.py half done
  restarts  \* how often the server has died

boxVars  == <<box, file, head, made, proc>>
gitVars  == <<ref, passed, origin>>
vars     == <<boxVars, turn, rival, row, driver, gitVars, person, restarts>>

Turns    == 1..MaxTurns
Unset    == -1                      \* no such commit; 0 is the base branch
Commits  == 0..MaxCommits
Checks   == {"tests", "lint"}

InFlight == {"queued", "running"}
Terminal == {"done", "stuck", "awaiting_input", "crashed"}     \* TERMINAL_STATES
Status   == {"absent", "stopped", "lost", "timed_out", "tests_failed", "lint_failed", "error",
             "succeeded"} \cup InFlight \cup Terminal
NoFile   == [state |-> "none", turn |-> 0]
Files    == [state : Terminal \cup {"none", "unknown"}, turn : 0..MaxTurns]

DriverPc == {"idle", "begin", "rm", "record", "create", "restart", "launch", "enter", "poll",
             "failure", "read", "act", "settle", "exit", "teardown", "fetch", "tests", "lint",
             "push", "pr", "succeed"}
Ops      == {"none", "run", "answer", "followup", "respawn", "reattach"}
Resting  == [pc |-> "idle", op |-> "none", seen |-> FALSE, misses |-> 0, got |-> NoFile,
             outcome |-> "absent"]

TypeOK ==
  /\ box \in {"gone", "running", "stopped", "failed"}
  /\ file \in Files
  /\ head \in Commits /\ made \in Commits
  /\ proc \in [Turns -> {"none", "working", "reported", "quit", "writing", "over"}]
  /\ turn \in 0..MaxTurns /\ rival \in BOOLEAN
  /\ row \in Status
  /\ driver \in [pc : DriverPc, op : Ops, seen : BOOLEAN, misses : 0..Misses, got : Files,
                outcome : Status]
  /\ ref \in Commits \cup {Unset} /\ origin \in Commits \cup {Unset}
  /\ passed \in [Checks -> SUBSET Commits]
  /\ person \in {"idle", "stopping", "counting", "removing", "killing"}
  /\ restarts \in 0..MaxRestarts

Init ==
  /\ box = "gone" /\ file = NoFile /\ head = 0 /\ made = 0
  /\ proc = [t \in Turns |-> "none"] /\ turn = 0 /\ rival = FALSE
  /\ row = "absent" /\ driver = Resting
  /\ ref = Unset /\ passed = [c \in Checks |-> {}] /\ origin = Unset
  /\ person = "idle" /\ restarts = 0

-----------------------------------------------------------------------------
(* What the commands see and do.                                            *)
Active(t)  == proc[t] \notin {"none", "over"}
AllOver    == [t \in Turns |-> IF proc[t] = "none" THEN "none" ELSE "over"]
Listings   == {box # "gone"} \cup (IF ListCanFail THEN {FALSE} ELSE {})

(* `sbx rm`, after which the sandbox may still be there.                    *)
RemoveBox  ==
  \/ box' = "gone" /\ proc' = AllOver /\ file' = NoFile /\ head' = 0 /\ UNCHANGED made
  \/ RmCanFail /\ UNCHANGED boxVars

(* Mutant of LaunchAgent: the previous turn's status file is left in place. *)
LaunchKeepsFile ==
  /\ turn' = turn + 1
  /\ rival' = \E t \in Turns : Active(t)
  /\ proc' = [proc EXCEPT ![turn + 1] = "working"]
  /\ UNCHANGED file

(* `rm -f` of the status file in the foreground, then the wrapper in the    *)
(* background, by one `sbx exec`.                                           *)
LaunchAgent ==
  /\ turn' = turn + 1
  /\ rival' = \E t \in Turns : Active(t)
  /\ file' = NoFile
  /\ proc' = [proc EXCEPT ![turn + 1] = "working"]

Goto(pc)     == driver' = [driver EXCEPT !.pc = pc]
Enough(pc)   == driver' = [Resting EXCEPT !.pc = pc]    \* what was read before is not used again
Finish       == driver' = Resting
Write(state) == row' = state
(* What poll_until_signal found: written to the row, and returned.          *)
Conclude(state) ==
  Write(state) /\ driver' = [Resting EXCEPT !.pc = "settle", !.outcome = state]
(* Mutant of Raise: the exception vanishes into a future nobody reads.      *)
RaiseUnrecorded == UNCHANGED row /\ Finish

(* run_job_safe, _execute_claimed, _reattach_one: an exception ends the     *)
(* drive and is recorded.                                                   *)
Raise        == Write("error") /\ Finish

-----------------------------------------------------------------------------
(* A validated and claimed request; run_job validates nothing.  A respawn   *)
(* without a sandbox is run_job again.                                      *)
Request(op) ==
  /\ driver.pc = "idle" /\ turn < MaxTurns
  /\ \E listed \in Listings :
       \/ op = "run"
       \/ op = "answer"   /\ row = "awaiting_input" /\ listed
       \/ op = "followup" /\ row \notin InFlight \cup {"absent", "stopped"} /\ listed
       \/ op = "respawn"  /\ row = "stopped" /\ listed
  /\ driver' = [Resting EXCEPT !.pc = "begin", !.op = op]
  /\ UNCHANGED <<boxVars, turn, rival, row, gitVars, person, restarts>>

(* run_job reads the row and the listing, and decides.                      *)
BeginRun ==
  /\ driver.pc = "begin" /\ driver.op = "run"
  /\ \E listed \in Listings :
       IF row \in {"awaiting_input", "succeeded"}
       THEN Finish
       ELSE driver' = [Resting EXCEPT
              !.seen = listed /\ row \in InFlight \cup {"absent"},
              !.pc = IF listed /\ row \notin InFlight \cup {"absent"} THEN "rm" ELSE "record"]
  /\ UNCHANGED <<boxVars, turn, rival, row, gitVars, person, restarts>>

(* respawn_job in place restarts the container first; an answer or a        *)
(* follow-up goes straight to the launch, a re-attachment launches nothing. *)
BeginOther ==
  /\ driver.pc = "begin"
  /\ \/ driver.op \in {"answer", "followup"} /\ Enough("launch")
     \/ driver.op = "respawn" /\ Enough("restart")
     \/ driver.op = "reattach" /\ Enough("enter")
  /\ UNCHANGED <<boxVars, turn, rival, row, gitVars, person, restarts>>

RemoveOld ==
  /\ driver.pc = "rm"
  /\ RemoveBox /\ Goto("record")
  /\ UNCHANGED <<turn, rival, row, gitVars, person, restarts>>

RecordAttempt ==
  /\ driver.pc = "record"
  /\ IF driver.seen THEN Write("running") /\ Enough("enter")
     ELSE Write("queued") /\ Enough("create")
  /\ UNCHANGED <<boxVars, turn, rival, gitVars, person, restarts>>

(* sbx_create_detached.  A name that exists after all is "raced" and taken  *)
(* as running; an error without a sandbox is raised.                        *)
CreateSandbox ==
  /\ driver.pc = "create"
  /\ IF box = "gone"
     THEN \/ /\ box' = "running" /\ Goto("launch")
             /\ UNCHANGED <<file, head, made, proc, row>>
          \/ Raise /\ UNCHANGED boxVars
     ELSE /\ \E listed \in Listings : IF listed THEN Goto("enter") /\ UNCHANGED row ELSE Raise
          /\ UNCHANGED boxVars
  /\ UNCHANGED <<turn, rival, gitVars, person, restarts>>

(* From here on any command may fail, and fails where there is nothing      *)
(* running to run it in: the exception is the end of the drive.             *)
RestartContainer ==
  /\ driver.pc = "restart"
  /\ \/ /\ box # "gone" /\ box' = "running" /\ Goto("launch")
        /\ UNCHANGED <<file, head, made, proc, row>>
     \/ Raise /\ UNCHANGED boxVars
  /\ UNCHANGED <<turn, rival, gitVars, person, restarts>>

Launch ==
  /\ driver.pc = "launch"
  /\ \/ box = "running" /\ LaunchAgent /\ Goto("enter") /\ UNCHANGED <<box, head, made, row>>
     \/ Raise /\ UNCHANGED <<boxVars, turn, rival>>
  /\ UNCHANGED <<gitVars, person, restarts>>

(* The attempt is on: the row says so whatever it said, and polling starts. *)
Enter ==
  /\ driver.pc = "enter"
  /\ Write("running")
  /\ driver' = [Resting EXCEPT !.pc = "poll"]
  /\ UNCHANGED <<boxVars, turn, rival, gitVars, person, restarts>>

-----------------------------------------------------------------------------
(* poll_until_signal: the listing, and on a running or not yet lost sandbox *)
(* the status file; between a reading and what is written, anything moves.  *)
(* Mutant of Deadline: it moves on with every look.                         *)
DeadlineMoves ==
  /\ driver.pc = "poll"
  /\ UNCHANGED vars

Deadline ==
  /\ driver.pc = "poll"
  /\ Conclude("timed_out")
  /\ UNCHANGED <<boxVars, turn, rival, gitVars, person, restarts>>

(* Mutant of PollList: misses are counted and never acted on.               *)
PollListNeverLost ==
  /\ driver.pc = "poll"
  /\ \E listed \in Listings :
       \/ listed /\ driver' = [driver EXCEPT !.pc = "read", !.misses = 0]
       \/ ~listed /\ driver' = [driver EXCEPT !.pc = "read", !.misses = @ + 1]
  /\ UNCHANGED <<boxVars, turn, rival, row, gitVars, person, restarts>>

PollList ==
  /\ driver.pc = "poll"
  /\ \E listed \in Listings :
       \/ /\ listed /\ box = "stopped" /\ Conclude("stopped")
       \/ /\ listed /\ box = "failed" /\ Goto("failure") /\ UNCHANGED row
       \/ /\ listed /\ box = "running"
          /\ driver' = [driver EXCEPT !.pc = "read", !.misses = 0] /\ UNCHANGED row
       \/ /\ ~listed /\ driver.misses + 1 < Misses
          /\ driver' = [driver EXCEPT !.pc = "read", !.misses = @ + 1] /\ UNCHANGED row
       \/ /\ ~listed /\ driver.misses + 1 = Misses
          /\ Conclude("lost")
  /\ UNCHANGED <<boxVars, turn, rival, gitVars, person, restarts>>

(* The container failed: its status file may still be readable.             *)
PollFailed ==
  /\ driver.pc = "failure"
  /\ \/ file.state \in Terminal /\ Conclude(file.state)
     \/ Conclude("crashed")
  /\ UNCHANGED <<boxVars, turn, rival, gitVars, person, restarts>>

PollRead ==
  /\ driver.pc = "read"
  /\ IF box = "running" /\ file.state # "none"
     THEN driver' = [driver EXCEPT !.pc = "act", !.got = file]
     ELSE Goto("poll")
  /\ UNCHANGED <<boxVars, turn, rival, row, gitVars, person, restarts>>

PollAct ==
  /\ driver.pc = "act"
  /\ IF driver.got.state \in Terminal
     THEN Conclude(driver.got.state)
     ELSE Write("running") /\ driver' = [driver EXCEPT !.pc = "poll", !.got = NoFile]
  /\ UNCHANGED <<boxVars, turn, rival, gitVars, person, restarts>>

-----------------------------------------------------------------------------
(* await_and_finalize: a parked sandbox is left alone, an exiting agent is  *)
(* waited for (30 seconds at most, so the wait may end either way), and     *)
(* only "done" is finalized.                                                *)
(* Mutant of Settle: a question is no reason to keep the sandbox.           *)
SettleParksStopped ==
  /\ driver.pc = "settle"
  /\ IF driver.outcome = "stopped" THEN Finish ELSE Goto("exit")
  /\ UNCHANGED <<boxVars, turn, rival, row, gitVars, person, restarts>>

Settle ==
  /\ driver.pc = "settle"
  /\ IF driver.outcome \in {"awaiting_input", "stopped"} THEN Finish ELSE Goto("exit")
  /\ UNCHANGED <<boxVars, turn, rival, row, gitVars, person, restarts>>

(* Mutant of AwaitExit: the wait for the process has no limit.              *)
AwaitExitForever ==
  /\ driver.pc = "exit" /\ \A t \in Turns : ~Active(t)
  /\ IF driver.outcome = "done" THEN Enough("fetch")
     ELSE IF RemoveOnFailure THEN Enough("teardown") ELSE Finish
  /\ UNCHANGED <<boxVars, turn, rival, row, gitVars, person, restarts>>

(* Mutant of AwaitExit: a crashed agent's work is finalized too.            *)
AwaitExitFinalizesCrashed ==
  /\ driver.pc = "exit"
  /\ IF driver.outcome \in {"done", "crashed"} THEN Enough("fetch")
     ELSE IF RemoveOnFailure THEN Enough("teardown") ELSE Finish
  /\ UNCHANGED <<boxVars, turn, rival, row, gitVars, person, restarts>>

AwaitExit ==
  /\ driver.pc = "exit"
  /\ IF driver.outcome = "done" THEN Enough("fetch")
     ELSE IF RemoveOnFailure THEN Enough("teardown") ELSE Finish
  /\ UNCHANGED <<boxVars, turn, rival, row, gitVars, person, restarts>>

Teardown ==
  /\ driver.pc = "teardown"
  /\ RemoveBox /\ Finish
  /\ UNCHANGED <<turn, rival, row, gitVars, person, restarts>>

(* _finalize_success: fetch the branch, run the commands on it one after    *)
(* the other, push whatever the ref names by then, perhaps open a PR.       *)
Fetch ==
  /\ driver.pc = "fetch"
  /\ \/ box = "running" /\ ref' = head /\ Goto("tests") /\ UNCHANGED row
     \/ Raise /\ UNCHANGED ref
  /\ UNCHANGED <<boxVars, turn, rival, passed, origin, person, restarts>>

(* Mutant of Verify: a failed command is noted and the job goes on.         *)
VerifyGoesOn(check, next) ==
  /\ driver.pc = check
  /\ passed' = [passed EXCEPT ![check] = @ \cup {ref}] \/ UNCHANGED passed
  /\ Goto(next)
  /\ UNCHANGED <<boxVars, turn, rival, row, ref, origin, person, restarts>>

(* Where the command runs decides what it is run on: the fetched commit in  *)
(* a worktree, which may not be had, or whatever the sandbox has checked    *)
(* out.  A check without a command is left out.                             *)
Verify(check, next) ==
  /\ driver.pc = check
  /\ \/ check \notin Commands /\ Goto(next) /\ UNCHANGED <<row, passed>>
     \/ /\ check \in Commands /\ (VerifyOn = "sandbox" => box = "running")
        /\ passed' = [passed EXCEPT ![check] = @ \cup {IF VerifyOn = "host" THEN ref ELSE head}]
        /\ Goto(next) /\ UNCHANGED row
     \/ /\ check \in Commands
        /\ Write(IF check = "tests" THEN "tests_failed" ELSE "lint_failed")
        /\ IF RemoveOnFailure THEN Goto("teardown") ELSE Finish
        /\ UNCHANGED passed
     \/ check \in Commands /\ VerifyOn = "host" /\ Raise /\ UNCHANGED passed
  /\ UNCHANGED <<boxVars, turn, rival, ref, origin, person, restarts>>

(* Mutant of Push: the exit code of git push is not looked at.              *)
PushUnchecked ==
  /\ driver.pc = "push"
  /\ origin' \in {origin, ref} /\ Goto(IF OpenPr THEN "pr" ELSE "succeed")
  /\ UNCHANGED <<boxVars, turn, rival, row, ref, passed, person, restarts>>

Push ==
  /\ driver.pc = "push"
  /\ \/ origin' = ref /\ Goto(IF OpenPr THEN "pr" ELSE "succeed") /\ UNCHANGED row
     \/ Raise /\ UNCHANGED origin
  /\ UNCHANGED <<boxVars, turn, rival, ref, passed, person, restarts>>

OpenPullRequest ==
  /\ driver.pc = "pr"
  /\ (Goto("succeed") /\ UNCHANGED row) \/ Raise
  /\ UNCHANGED <<boxVars, turn, rival, gitVars, person, restarts>>

Succeed ==
  /\ driver.pc = "succeed"
  /\ Write("succeeded")
  /\ IF RemoveOnSuccess THEN Goto("teardown") ELSE Finish
  /\ UNCHANGED <<boxVars, turn, rival, gitVars, person, restarts>>

-----------------------------------------------------------------------------
(* The sandbox: the agent of launch t commits, reports (or leaves a half-   *)
(* written file), may go on for a while and exits; its wrapper then writes  *)
(* "crashed" if it finds no status file.                                    *)
AgentUnchanged == UNCHANGED <<turn, rival, row, driver, gitVars, person, restarts>>

AgentCommits(t) ==
  /\ proc[t] \in {"working", "reported"} /\ made < MaxCommits
  /\ head' = made + 1 /\ made' = made + 1
  /\ UNCHANGED <<box, file, proc>> /\ AgentUnchanged

AgentReports(t) ==
  /\ proc[t] = "working"
  /\ \E state \in {"done", "stuck", "awaiting_input", "unknown"} :
       /\ file' = [state |-> state, turn |-> t]
       /\ proc' = [proc EXCEPT ![t] = IF state = "unknown" THEN @ ELSE "reported"]
  /\ UNCHANGED <<box, head, made>> /\ AgentUnchanged

AgentExits(t) ==
  /\ proc[t] \in {"working", "reported"}
  /\ proc' = [proc EXCEPT ![t] = "quit"]
  /\ UNCHANGED <<box, file, head, made>> /\ AgentUnchanged

WrapperLooks(t) ==
  /\ proc[t] = "quit"
  /\ proc' = [proc EXCEPT ![t] = IF file.state = "none" THEN "writing" ELSE "over"]
  /\ UNCHANGED <<box, file, head, made>> /\ AgentUnchanged

WrapperWrites(t) ==
  /\ proc[t] = "writing"
  /\ file' = [state |-> "crashed", turn |-> t]
  /\ proc' = [proc EXCEPT ![t] = "over"]
  /\ UNCHANGED <<box, head, made>> /\ AgentUnchanged

ContainerFails ==
  /\ box = "running"
  /\ box' = "failed" /\ proc' = AllOver
  /\ UNCHANGED <<file, head, made>> /\ AgentUnchanged

-----------------------------------------------------------------------------
(* sandboxes.py: the command first, the row after it.                       *)
StopSandbox ==
  /\ "stop" \in People /\ person = "idle" /\ box # "gone"
  /\ (box' = "stopped" /\ proc' = AllOver) \/ (RmCanFail /\ UNCHANGED <<box, proc>>)
  /\ person' = "stopping"
  /\ UNCHANGED <<file, head, made, turn, rival, row, driver, gitVars, restarts>>

RecordStop ==
  /\ person = "stopping"
  /\ row' = IF row = "absent" THEN row ELSE "stopped"
  /\ person' = "idle"
  /\ UNCHANGED <<boxVars, turn, rival, driver, gitVars, restarts>>

(* remove without force fetches to count the commits nobody else has, and   *)
(* refuses if there are any.  A sandbox it cannot fetch from counts none.   *)
CountUnpushed ==
  /\ "remove" \in People /\ person = "idle" /\ row \notin {"absent", "succeeded"}
  /\ IF box = "running"
     THEN ref' = head /\ person' = IF head = 0 THEN "counting" ELSE "idle"
     ELSE person' = "counting" /\ UNCHANGED ref
  /\ UNCHANGED <<boxVars, turn, rival, row, driver, passed, origin, restarts>>

RemoveSandbox ==
  /\ \/ person = "counting"
     \/ person = "idle" /\ ("force" \in People \/ ("remove" \in People /\ row = "succeeded"))
  /\ RemoveBox /\ person' = "removing"
  /\ UNCHANGED <<turn, rival, row, driver, gitVars, restarts>>

RecordRemoval ==
  /\ person = "removing"
  /\ row' = IF row = "absent" THEN row ELSE "lost"
  /\ person' = "idle"
  /\ UNCHANGED <<boxVars, turn, rival, driver, gitVars, restarts>>

KillAll ==
  /\ "kill" \in People /\ person = "idle"
  /\ RemoveBox /\ person' = "killing"
  /\ UNCHANGED <<turn, rival, row, driver, gitVars, restarts>>

RecordKill ==
  /\ person = "killing"
  /\ row' = IF row \in InFlight THEN "lost" ELSE row
  /\ person' = "idle"
  /\ UNCHANGED <<boxVars, turn, rival, driver, gitVars, restarts>>

(* The server dies and starts again; reattach_in_flight_jobs looks at rows  *)
(* in flight only.                                                          *)
Restart ==
  /\ restarts < MaxRestarts
  /\ restarts' = restarts + 1 /\ person' = "idle"
  /\ \E listed \in Listings :
       IF row \in InFlight /\ listed
       THEN driver' = [Resting EXCEPT !.pc = "begin", !.op = "reattach"] /\ UNCHANGED row
       ELSE Finish /\ row' = IF row \in InFlight THEN "lost" ELSE row
  /\ UNCHANGED <<boxVars, turn, rival, gitVars>>

-----------------------------------------------------------------------------
Requests == \E op \in {"run", "answer", "followup", "respawn"} : Request(op)

Starting   == BeginRun \/ BeginOther \/ RemoveOld \/ RecordAttempt \/ CreateSandbox
              \/ RestartContainer \/ Launch \/ Enter
Polling    == Deadline \/ PollList \/ PollFailed \/ PollRead \/ PollAct
Finalizing == Settle \/ AwaitExit \/ Teardown \/ Fetch \/ Verify("tests", "lint")
              \/ Verify("lint", "push") \/ Push \/ OpenPullRequest \/ Succeed
Drive      == Starting \/ Polling \/ Finalizing

Agent(t)   == AgentCommits(t) \/ AgentReports(t) \/ AgentExits(t) \/ WrapperLooks(t)
              \/ WrapperWrites(t)
Person     == StopSandbox \/ RecordStop \/ CountUnpushed \/ RemoveSandbox \/ RecordRemoval
              \/ KillAll \/ RecordKill

Next == Requests \/ Drive \/ (\E t \in Turns : Agent(t)) \/ ContainerFails \/ Person \/ Restart

Spec == Init /\ [][Next]_vars

(* The driving thread runs on, every command it starts returns, and the     *)
(* clock reaches the deadline however long the polling goes on.             *)
FairSpec == Spec /\ WF_vars(Drive) /\ SF_vars(Deadline)

-----------------------------------------------------------------------------
(* "so the work can be verified on the host before any of it reaches        *)
(* origin" (finish.py:418-419): the published commit is one on which every  *)
(* configured command passed, not merely a later state of the same branch.  *)
PushedWasVerified == origin # Unset => \A check \in Commands : origin \in passed[check]

(* A job recorded as succeeded has its branch on origin, whatever killed,   *)
(* stopped or restarted the rest meanwhile.                                 *)
SucceededIsPublished == row = "succeeded" => origin # Unset

(* "The previous turn's status file is removed first ... Otherwise a        *)
(* resumed job's first poll reads the old awaiting_input and ends the turn" *)
(* (sbx.py:584-588): what the driver acts on was written by the launch it   *)
(* is driving, provided no older process was still going at that launch.    *)
ActsOnOwnTurn == driver.pc = "act" /\ ~rival => driver.got.turn = turn

(* "a second launch would race the first" (plan_followup,                   *)
(* lifecycle.py:321): one agent process at a time in a sandbox.             *)
OneAgent == \A t, u \in Turns : Active(t) /\ Active(u) => t = u

(* "Sandbox must survive" (finish.py:540-544): the driver never removes the *)
(* sandbox of a question that waits for its answer.                         *)
QuestionSurvives ==
  [][row = "awaiting_input" /\ box # "gone" /\ box' = "gone" => person' # person]_vars

(* The board never shows a job in flight that nobody drives.                *)
InFlightIsDriven == row \in InFlight => driver.pc # "idle"

(* A drive ends (the deadline is what bounds it), so its claim and its slot *)
(* come back: the assumption under which Runner lets every job end.         *)
DriveEnds == (driver.pc # "idle") ~> (driver.pc = "idle")

(* Work that was reported done is judged: the row moves on from "done",     *)
(* unless the server dies in between.                                       *)
DoneIsJudged == (row = "done" /\ driver.pc # "idle") ~> (row # "done" \/ restarts > 0)

(* The job as the rest of the server sees it.                               *)
Stage ==
  CASE driver.pc = "idle" -> "idle"
    [] driver.pc \in {"begin", "rm", "record"} -> "asked"
    [] driver.pc \in {"fetch", "tests", "lint", "push", "pr", "succeed"} -> "judging"
    [] driver.pc \in {"settle", "exit"} -> IF driver.outcome = "done" THEN "judging" ELSE "ended"
    [] driver.pc = "teardown" -> "ended"
    [] OTHER -> "going"

Contract == INSTANCE JobContract WITH stage <- Stage

(* Whatever the agent, the person and the crashes do, jobs.status moves as  *)
(* JobContract says: one outcome per attempt, a verdict only after "done",  *)
(* and never a row in flight that the driver has let go of.                 *)
KeepsContract == Contract!Spec

=============================================================================
