----------------------------- MODULE JobProofs -----------------------------
(* Theorems about Job, for every bound, every setting and whatever people   *)
(* do: its types, that it implements JobContract, what is published and     *)
(* what a driver acts on.                                                   *)
EXTENDS Job, TLAPS

USE JobAssumption DEF JobAssumption

Drivers   == [pc : DriverPc, op : Ops, seen : BOOLEAN, misses : 0..Misses, got : Files,
              outcome : Status]
Processes == [Turns -> {"none", "working", "reported", "quit", "writing", "over"}]

(* A drive that may still launch the agent has a launch left.               *)
MayLaunch == {"rm", "record", "create", "restart", "launch"}
Room      == (driver.pc = "begin" /\ driver.op # "reattach") \/ driver.pc \in MayLaunch
             => turn < MaxTurns

Types == TypeOK /\ Room

(* A commit has been fetched before it is verified, and pushed before the   *)
(* job is called succeeded.                                                 *)
Published ==
  /\ driver.pc \in {"tests", "lint", "push"} => ref # Unset
  /\ driver.pc \in {"pr", "succeed"} => origin # Unset
  /\ SucceededIsPublished

-----------------------------------------------------------------------------
(* How the operators that move the driver move it.                          *)
LEMMA NoFileType == NoFile \in Files
  BY DEF NoFile, Files

LEMMA RestingType == Resting \in Drivers
  BY NoFileType DEF Resting, Drivers, DriverPc, Ops, Status

LEMMA GotoMoves ==
  ASSUME driver \in Drivers, NEW pc \in DriverPc, Goto(pc)
  PROVE  driver' \in Drivers /\ driver'.pc = pc /\ driver'.outcome = driver.outcome
         /\ driver'.op = driver.op /\ driver'.got = driver.got
  BY DEF Goto, Drivers

LEMMA EnoughMoves ==
  ASSUME NEW pc \in DriverPc, Enough(pc)
  PROVE  driver' \in Drivers /\ driver'.pc = pc
  BY RestingType DEF Enough, Drivers

LEMMA FinishMoves ==
  ASSUME Finish
  PROVE  driver' \in Drivers /\ driver'.pc = "idle"
  <1>1. Resting.pc = "idle"
    BY DEF Resting
  <1> QED  BY <1>1, RestingType DEF Finish

LEMMA RaiseMoves ==
  ASSUME Raise
  PROVE  driver' \in Drivers /\ driver'.pc = "idle" /\ row' = "error" /\ row' \in Status
  BY FinishMoves DEF Raise, Write, Status

LEMMA ConcludeMoves ==
  ASSUME NEW state \in Status, Conclude(state)
  PROVE  driver' \in Drivers /\ driver'.pc = "settle" /\ driver'.outcome = state
         /\ row' = state
  <1>1. "settle" \in DriverPc
    BY DEF DriverPc
  <1> QED  BY <1>1, RestingType DEF Conclude, Write, Drivers

LEMMA BeginRunMoves ==
  ASSUME BeginRun
  PROVE  /\ driver'.pc \in {"idle", "rm", "record"}
         /\ driver'.pc # "idle" => row # "awaiting_input"
  <1>1. ASSUME NEW seen, NEW pc \in {"rm", "record"}
        PROVE  [Resting EXCEPT !.seen = seen, !.pc = pc].pc = pc
    BY DEF Resting
  <1> QED  BY <1>1, FinishMoves DEF BeginRun

LEMMA RequestMoves ==
  ASSUME NEW op \in Ops, driver' = [Resting EXCEPT !.pc = "begin", !.op = op]
  PROVE  driver' \in Drivers /\ driver'.pc = "begin" /\ driver'.op = op
  <1>1. "begin" \in DriverPc
    BY DEF DriverPc
  <1> QED  BY <1>1, RestingType DEF Drivers

-----------------------------------------------------------------------------
(* Types.                                                                   *)
Moved  == driver' \in Drivers /\ Room'
Rowed  == row' \in Status
Boxed  == /\ box' \in {"gone", "running", "stopped", "failed"} /\ file' \in Files
          /\ head' \in Commits /\ made' \in Commits /\ proc' \in Processes
Turned == turn' \in 0..MaxTurns /\ rival' \in BOOLEAN
Gitted == /\ ref' \in Commits \cup {Unset} /\ origin' \in Commits \cup {Unset}
          /\ passed' \in [Checks -> SUBSET Commits]
Others == /\ person' \in {"idle", "stopping", "counting", "removing", "killing"}
          /\ restarts' \in 0..MaxRestarts

LEMMA TypesByPart ==
  ASSUME Moved, Rowed, Boxed, Turned, Gitted, Others
  PROVE  Types'
  BY DEF Moved, Rowed, Boxed, Turned, Gitted, Others, Types, TypeOK, Drivers, Processes

LEMMA DriverType == ASSUME Types PROVE driver \in Drivers /\ Room
  BY DEF Types, TypeOK, Drivers

LEMMA Keep ==
  ASSUME Types
  PROVE  /\ UNCHANGED boxVars => Boxed
         /\ UNCHANGED <<turn, rival>> => Turned
         /\ UNCHANGED gitVars => Gitted
         /\ UNCHANGED <<person, restarts>> => Others
         /\ UNCHANGED row => Rowed
         /\ UNCHANGED <<driver, turn>> => Moved
  BY DEF Types, TypeOK, Drivers, Processes, boxVars, gitVars, Boxed, Turned, Gitted, Others, Rowed,
         Moved, Room

LEMMA RemoveBoxTypes == ASSUME Types, RemoveBox PROVE Boxed
  <1>1. CASE UNCHANGED boxVars
    BY <1>1, Keep
  <1>2. CASE ~UNCHANGED boxVars
    <2>1. box' = "gone" /\ file' \in Files /\ head' \in Commits /\ made' \in Commits
      BY <1>2, NoFileType DEF Types, TypeOK, RemoveBox, Commits
    <2>2. proc' \in Processes
      BY <1>2 DEF RemoveBox, AllOver, Processes
    <2> QED  BY <2>1, <2>2 DEF Boxed
  <1> QED  BY <1>1, <1>2

LEMMA TypesInit == Init => Types
  <1> SUFFICES ASSUME Init PROVE Types
    OBVIOUS
  <1>1. driver \in Drivers /\ file \in Files
    BY RestingType, NoFileType DEF Init
  <1>2. proc \in Processes
    BY DEF Init, Processes
  <1>3. row \in Status /\ head \in Commits /\ made \in Commits /\ passed \in [Checks -> SUBSET Commits]
    BY DEF Init, Status, Commits
  <1>4. ref \in Commits \cup {Unset} /\ origin \in Commits \cup {Unset}
    BY DEF Init
  <1>5. Room
    BY DEF Init, Room, Resting, MayLaunch
  <1>6. turn \in 0..MaxTurns /\ restarts \in 0..MaxRestarts
    BY DEF Init
  <1>7. rival \in BOOLEAN /\ box = "gone" /\ person = "idle"
    BY DEF Init
  <1>8. TypeOK
    BY <1>1, <1>2, <1>3, <1>4, <1>6, <1>7 DEF TypeOK, Drivers, Processes
  <1> QED
    BY <1>5, <1>8 DEF Types

LEMMA StartingTypes == ASSUME Types, Requests \/ Starting PROVE Types'
<1> USE DriverType, Keep, TypesByPart DEF Moved
<1>1. ASSUME NEW op \in {"run", "answer", "followup", "respawn"}, Request(op) PROVE Types'
  <2>1. op \in Ops
    BY DEF Ops
  <2>2. Moved
    BY <1>1, <2>1, RequestMoves DEF Request, Room, MayLaunch
  <2> QED  BY <1>1, <2>2 DEF Request
<1>2. CASE BeginRun
  <2>1. Room /\ driver.pc = "begin" /\ driver.op = "run" /\ UNCHANGED turn
    BY <1>2 DEF BeginRun
  <2>2. Room'
    BY <2>1 DEF Room
  <2>3. driver' \in Drivers
    <3>1. ASSUME NEW seen \in BOOLEAN, NEW pc \in DriverPc
          PROVE  [Resting EXCEPT !.seen = seen, !.pc = pc] \in Drivers
      BY RestingType DEF Drivers
    <3>2. ASSUME NEW listed \in Listings
          PROVE  (listed /\ row \in InFlight \cup {"absent"}) \in BOOLEAN
      BY DEF Listings
    <3> QED  BY <1>2, <3>1, <3>2, FinishMoves DEF BeginRun, DriverPc
  <2> QED  BY <1>2, <2>2, <2>3 DEF BeginRun
<1>3. CASE BeginOther
  <2>1. driver' \in Drivers /\ driver'.pc \in {"launch", "restart", "enter"}
    BY <1>3, EnoughMoves DEF BeginOther, DriverPc
  <2>2. driver.op = "reattach" => driver'.pc = "enter"
    BY <1>3, EnoughMoves DEF BeginOther, DriverPc
  <2>3. Room'
    BY <1>3, <2>1, <2>2 DEF BeginOther, Room, MayLaunch
  <2> QED  BY <1>3, <2>1, <2>3 DEF BeginOther
<1>4. CASE RemoveOld
  <2>1. Moved
    BY <1>4, GotoMoves DEF RemoveOld, Room, MayLaunch, DriverPc
  <2> QED  BY <1>4, <2>1, RemoveBoxTypes DEF RemoveOld
<1>5. CASE RecordAttempt
  <2>1. Moved
    BY <1>5, EnoughMoves DEF RecordAttempt, Room, MayLaunch, DriverPc
  <2>2. Rowed
    BY <1>5 DEF RecordAttempt, Rowed, Write, Status, InFlight
  <2> QED  BY <1>5, <2>1, <2>2 DEF RecordAttempt
<1>6. CASE CreateSandbox
  <2>1. Moved
    BY <1>6, GotoMoves, RaiseMoves DEF CreateSandbox, Room, MayLaunch, DriverPc
  <2>2. Rowed
    BY <1>6, RaiseMoves DEF CreateSandbox, Rowed
  <2>3. Boxed
    BY <1>6 DEF CreateSandbox, Boxed, boxVars, Types, TypeOK, Processes
  <2> QED  BY <1>6, <2>1, <2>2, <2>3 DEF CreateSandbox
<1>7. CASE RestartContainer
  <2>1. Moved
    BY <1>7, GotoMoves, RaiseMoves DEF RestartContainer, Room, MayLaunch, DriverPc
  <2>2. Rowed
    BY <1>7, RaiseMoves DEF RestartContainer, Rowed
  <2>3. Boxed
    BY <1>7 DEF RestartContainer, Boxed, boxVars, Types, TypeOK, Processes
  <2> QED  BY <1>7, <2>1, <2>2, <2>3 DEF RestartContainer
<1>8. CASE Launch
  <2>1. Moved
    BY <1>8, GotoMoves, RaiseMoves DEF Launch, Room, MayLaunch, DriverPc
  <2>2. Rowed
    BY <1>8, RaiseMoves DEF Launch, Rowed
  <2>3. CASE LaunchAgent /\ UNCHANGED <<box, head, made>>
    <3>1. turn < MaxTurns
      BY <1>8 DEF Launch, Room, MayLaunch
    <3>2. Turned
      BY <2>3, <3>1 DEF LaunchAgent, Turned, Types, TypeOK
    <3>3. proc' \in Processes
      BY <2>3 DEF LaunchAgent, Processes, Types, TypeOK
    <3>4. Boxed
      BY <2>3, <3>3, NoFileType DEF LaunchAgent, Boxed, Types, TypeOK
    <3> QED  BY <1>8, <2>1, <2>2, <3>2, <3>4 DEF Launch
  <2>4. CASE UNCHANGED <<boxVars, turn, rival>>
    BY <1>8, <2>1, <2>2, <2>4 DEF Launch
  <2> QED  BY <1>8, <2>3, <2>4 DEF Launch
<1>9. CASE Enter
  <2>1. driver' \in Drivers /\ driver'.pc = "poll"
    BY <1>9, EnoughMoves DEF Enter, Enough, DriverPc
  <2>2. Rowed /\ Moved
    BY <1>9, <2>1 DEF Enter, Rowed, Write, Status, InFlight, Room, MayLaunch
  <2> QED  BY <1>9, <2>2 DEF Enter
<1> QED
  BY <1>1, <1>2, <1>3, <1>4, <1>5, <1>6, <1>7, <1>8, <1>9 DEF Requests, Starting

LEMMA PollingTypes == ASSUME Types, Polling PROVE Types'
<1> USE DriverType, Keep, TypesByPart DEF Moved
<1>1. CASE Deadline
  <2>1. Rowed /\ Moved
    BY <1>1, ConcludeMoves DEF Deadline, Rowed, Room, MayLaunch, Status
  <2> QED  BY <1>1, <2>1 DEF Deadline
<1>2. CASE PollList
  <2>1. PICK listed \in Listings :
          \/ listed /\ box = "stopped" /\ Conclude("stopped")
          \/ listed /\ box = "failed" /\ Goto("failure") /\ UNCHANGED row
          \/ /\ listed /\ box = "running"
             /\ driver' = [driver EXCEPT !.pc = "read", !.misses = 0] /\ UNCHANGED row
          \/ /\ ~listed /\ driver.misses + 1 < Misses
             /\ driver' = [driver EXCEPT !.pc = "read", !.misses = @ + 1] /\ UNCHANGED row
          \/ ~listed /\ driver.misses + 1 = Misses /\ Conclude("lost")
    BY <1>2 DEF PollList
  <2>2. CASE Conclude("stopped") \/ Conclude("lost")
    <3>1. Rowed /\ Moved
      BY <2>2, ConcludeMoves DEF Rowed, Room, MayLaunch, Status, Terminal, InFlight
    <3> QED  BY <1>2, <3>1 DEF PollList
  <2>3. CASE Goto("failure") /\ UNCHANGED row
    <3>1. Rowed /\ Moved
      BY <2>3, GotoMoves DEF Room, MayLaunch, DriverPc
    <3> QED  BY <1>2, <3>1 DEF PollList
  <2>4. CASE driver' = [driver EXCEPT !.pc = "read", !.misses = 0] /\ UNCHANGED row
    <3>1. "read" \in DriverPc /\ 0 \in 0..Misses
      BY DEF DriverPc
    <3>2. driver' \in Drivers /\ driver'.pc = "read"
      BY <2>4, <3>1 DEF Drivers
    <3> QED  BY <1>2, <2>4, <3>2 DEF PollList, Room, MayLaunch
  <2>5. CASE /\ ~listed /\ driver.misses + 1 < Misses
             /\ driver' = [driver EXCEPT !.pc = "read", !.misses = @ + 1] /\ UNCHANGED row
    <3>1. "read" \in DriverPc
      BY DEF DriverPc
    <3>2. driver.misses + 1 \in 0..Misses
      BY <2>5 DEF Drivers
    <3>3. driver' \in Drivers /\ driver'.pc = "read"
      BY <2>5, <3>1, <3>2 DEF Drivers
    <3> QED  BY <1>2, <2>5, <3>3 DEF PollList, Room, MayLaunch
  <2> QED  BY <2>1, <2>2, <2>3, <2>4, <2>5
<1>3. CASE PollFailed
  <2>1. Rowed /\ Moved
    BY <1>3, ConcludeMoves DEF PollFailed, Rowed, Room, MayLaunch, Status, Terminal
  <2> QED  BY <1>3, <2>1 DEF PollFailed
<1>4. CASE PollRead
  <2>1. file \in Files
    BY DEF Types, TypeOK
  <2>2. driver' \in Drivers /\ driver'.pc \in {"act", "poll"}
    BY <1>4, <2>1, GotoMoves DEF PollRead, Drivers, DriverPc
  <2> QED  BY <1>4, <2>2 DEF PollRead, Room, MayLaunch
<1>5. CASE PollAct
  <2>1. CASE driver.got.state \in Terminal
    <3>1. Rowed /\ Moved
      BY <1>5, <2>1, ConcludeMoves DEF PollAct, Rowed, Room, MayLaunch, Status
    <3> QED  BY <1>5, <3>1 DEF PollAct
  <2>2. CASE driver.got.state \notin Terminal
    <3>1. driver' \in Drivers /\ driver'.pc = "poll"
      BY <1>5, <2>2, NoFileType DEF PollAct, Drivers, DriverPc
    <3>2. Rowed
      BY <1>5, <2>2 DEF PollAct, Rowed, Write, Status, InFlight
    <3> QED  BY <1>5, <3>1, <3>2 DEF PollAct, Room, MayLaunch
  <2> QED  BY <2>1, <2>2
<1> QED
  BY <1>1, <1>2, <1>3, <1>4, <1>5 DEF Polling

LEMMA FinalizingTypes == ASSUME Types, Published, Finalizing PROVE Types'
<1> USE DriverType, Keep, TypesByPart DEF Moved
<1>1. CASE Settle
  <2>1. Moved
    BY <1>1, GotoMoves, FinishMoves DEF Settle, Room, MayLaunch, DriverPc
  <2> QED  BY <1>1, <2>1 DEF Settle
<1>2. CASE AwaitExit
  <2>1. Moved
    BY <1>2, EnoughMoves, FinishMoves DEF AwaitExit, Room, MayLaunch, DriverPc
  <2> QED  BY <1>2, <2>1 DEF AwaitExit
<1>3. CASE Teardown
  <2>1. Moved
    BY <1>3, FinishMoves DEF Teardown, Room, MayLaunch
  <2> QED  BY <1>3, <2>1, RemoveBoxTypes DEF Teardown
<1>4. CASE Fetch
  <2>1. Moved /\ Rowed
    BY <1>4, GotoMoves, RaiseMoves DEF Fetch, Room, MayLaunch, DriverPc, Rowed
  <2>2. Gitted
    BY <1>4 DEF Fetch, Gitted, Types, TypeOK
  <2> QED  BY <1>4, <2>1, <2>2 DEF Fetch
<1>5. ASSUME NEW check \in Checks, NEW next \in {"lint", "push"}, Verify(check, next)
      PROVE  Types'
  <2>1. Moved
    BY <1>5, GotoMoves, FinishMoves, RaiseMoves DEF Verify, Room, MayLaunch, DriverPc
  <2>2. Rowed
    BY <1>5, RaiseMoves DEF Verify, Rowed, Write, Status
  <2>3. Gitted
    <3>1. ref \in Commits /\ head \in Commits
      BY <1>5 DEF Published, Verify, Types, TypeOK, Checks
    <3> QED  BY <1>5, <3>1 DEF Verify, Gitted, Types, TypeOK
  <2> QED  BY <1>5, <2>1, <2>2, <2>3 DEF Verify
<1>6. CASE Push
  <2>1. Moved /\ Rowed
    BY <1>6, GotoMoves, RaiseMoves DEF Push, Room, MayLaunch, DriverPc, Rowed
  <2>2. Gitted
    BY <1>6 DEF Push, Gitted, Types, TypeOK
  <2> QED  BY <1>6, <2>1, <2>2 DEF Push
<1>7. CASE OpenPullRequest
  <2>1. Moved /\ Rowed
    BY <1>7, GotoMoves, RaiseMoves DEF OpenPullRequest, Room, MayLaunch, DriverPc, Rowed
  <2> QED  BY <1>7, <2>1 DEF OpenPullRequest
<1>8. CASE Succeed
  <2>1. Moved
    BY <1>8, GotoMoves, FinishMoves DEF Succeed, Room, MayLaunch, DriverPc
  <2>2. Rowed
    BY <1>8 DEF Succeed, Rowed, Write, Status
  <2> QED  BY <1>8, <2>1, <2>2 DEF Succeed
<1> QED
  BY <1>1, <1>2, <1>3, <1>4, <1>5, <1>6, <1>7, <1>8 DEF Finalizing, Checks

LEMMA BesidesTypes ==
  ASSUME Types, ContainerFails \/ Person \/ Restart \/ \E t \in Turns : Agent(t)
  PROVE  Types'
<1> USE DriverType, Keep, TypesByPart
<1>1. ASSUME NEW t \in Turns, Agent(t) PROVE Types'
  <2>1. Boxed
    <3>1. CASE AgentCommits(t)
      BY <3>1 DEF AgentCommits, Boxed, Types, TypeOK, Processes, Commits
    <3>2. CASE AgentReports(t)
      <4>1. PICK state \in {"done", "stuck", "awaiting_input", "unknown"} :
              /\ file' = [state |-> state, turn |-> t]
              /\ proc' = [proc EXCEPT ![t] = IF state = "unknown" THEN @ ELSE "reported"]
        BY <3>2 DEF AgentReports
      <4>2. file' \in Files
        BY <4>1 DEF Files, Terminal, Turns
      <4>3. proc' \in Processes
        BY <4>1 DEF Types, TypeOK, Processes
      <4> QED  BY <3>2, <4>2, <4>3 DEF AgentReports, Boxed, Types, TypeOK
    <3>3. CASE AgentExits(t)
      BY <3>3 DEF AgentExits, Boxed, Types, TypeOK, Processes
    <3>4. CASE WrapperLooks(t)
      BY <3>4 DEF WrapperLooks, Boxed, Types, TypeOK, Processes
    <3>5. CASE WrapperWrites(t)
      <4>1. file' \in Files
        BY <3>5 DEF WrapperWrites, Files, Terminal, Turns
      <4> QED  BY <3>5, <4>1 DEF WrapperWrites, Boxed, Types, TypeOK, Processes
    <3> QED  BY <1>1, <3>1, <3>2, <3>3, <3>4, <3>5 DEF Agent
  <2>2. AgentUnchanged
    BY <1>1 DEF Agent, AgentCommits, AgentReports, AgentExits, WrapperLooks, WrapperWrites
  <2> QED  BY <2>1, <2>2 DEF AgentUnchanged
<1>2. CASE ContainerFails
  <2>1. Boxed
    BY <1>2 DEF ContainerFails, AllOver, Boxed, Types, TypeOK, Processes
  <2> QED  BY <1>2, <2>1 DEF ContainerFails, AgentUnchanged
<1>3. CASE Person
  <2>1. CASE StopSandbox
    <3>1. Boxed /\ Others
      BY <2>1 DEF StopSandbox, AllOver, Boxed, Others, Types, TypeOK, Processes
    <3> QED  BY <2>1, <3>1 DEF StopSandbox
  <2>2. CASE CountUnpushed
    <3>1. Gitted /\ Others
      BY <2>2 DEF CountUnpushed, Gitted, Others, Types, TypeOK
    <3> QED  BY <2>2, <3>1 DEF CountUnpushed
  <2>3. CASE RemoveSandbox \/ KillAll
    <3>1. Boxed /\ Others
      BY <2>3, RemoveBoxTypes DEF RemoveSandbox, KillAll, Others, Types, TypeOK
    <3> QED  BY <2>3, <3>1 DEF RemoveSandbox, KillAll
  <2>4. CASE RecordStop \/ RecordRemoval \/ RecordKill
    <3>1. Rowed /\ Others
      BY <2>4 DEF RecordStop, RecordRemoval, RecordKill, Rowed, Others, Status, Types, TypeOK
    <3> QED  BY <2>4, <3>1 DEF RecordStop, RecordRemoval, RecordKill
  <2> QED  BY <1>3, <2>1, <2>2, <2>3, <2>4 DEF Person
<1>4. CASE Restart
  <2>1. Others
    BY <1>4 DEF Restart, Others, Types, TypeOK
  <2>2. Rowed
    BY <1>4 DEF Restart, Rowed, Status, Types, TypeOK
  <2>3. Moved
    <3>1. CASE driver' = [Resting EXCEPT !.pc = "begin", !.op = "reattach"]
      <4>1. driver' \in Drivers /\ driver'.pc = "begin" /\ driver'.op = "reattach"
        BY <3>1, RequestMoves DEF Ops
      <4> QED  BY <4>1 DEF Moved, Room, MayLaunch
    <3>2. CASE Finish
      BY <3>2, FinishMoves DEF Moved, Room, MayLaunch
    <3> QED  BY <1>4, <3>1, <3>2 DEF Restart
  <2> QED  BY <1>4, <2>1, <2>2, <2>3 DEF Restart
<1> QED
  BY <1>1, <1>2, <1>3, <1>4

LEMMA TypesStep == ASSUME Types, Published, [Next]_vars PROVE Types'
<1>1. CASE UNCHANGED vars
  BY <1>1, Keep, TypesByPart DEF vars
<1> QED
  BY <1>1, StartingTypes, PollingTypes, FinalizingTypes, BesidesTypes DEF Next, Drive

-----------------------------------------------------------------------------
(* What is fetched before it is verified and pushed before it is announced. *)
Late    == {"exit", "teardown", "fetch", "tests", "lint", "push", "pr", "succeed"}
Early   == /\ UNCHANGED gitVars
           /\ driver'.pc \in DriverPc \ Late
           /\ row' # "succeeded" \/ UNCHANGED row

(* Until an outcome has been found nothing is finalized.                    *)
LEMMA StartingMoves == ASSUME Types, Requests \/ Starting PROVE Early
<1> USE DriverType DEF Early, Late
<1>1. CASE Requests
  <2>1. driver'.pc = "begin"
    BY <1>1, RequestMoves DEF Requests, Request, Ops
  <2> QED  BY <1>1, <2>1 DEF Requests, Request, DriverPc
<1>2. CASE BeginRun
  BY <1>2, BeginRunMoves DEF BeginRun, DriverPc
<1>3. CASE BeginOther \/ RemoveOld
  BY <1>3, EnoughMoves, GotoMoves DEF BeginOther, RemoveOld, DriverPc
<1>4. CASE RecordAttempt
  BY <1>4, EnoughMoves DEF RecordAttempt, Write, DriverPc
<1>5. CASE CreateSandbox
  BY <1>5, GotoMoves, RaiseMoves DEF CreateSandbox, DriverPc
<1>6. CASE RestartContainer \/ Launch
  BY <1>6, GotoMoves, RaiseMoves DEF RestartContainer, Launch, DriverPc
<1>7. CASE Enter
  BY <1>7, EnoughMoves DEF Enter, Enough, Write, DriverPc
<1> QED
  BY <1>1, <1>2, <1>3, <1>4, <1>5, <1>6, <1>7 DEF Starting

LEMMA PollingMoves == ASSUME Types, Polling PROVE Early
<1> USE DriverType DEF Early, Late
<1>1. ASSUME NEW state \in Status, state # "succeeded", Conclude(state), UNCHANGED gitVars
      PROVE  Early
  BY <1>1, ConcludeMoves DEF DriverPc
<1>2. CASE Deadline \/ PollFailed
  BY <1>1, <1>2 DEF Deadline, PollFailed, Status, Terminal
<1>3. CASE PollList
  <2>1. CASE Conclude("stopped") \/ Conclude("lost")
    BY <1>1, <1>3, <2>1 DEF PollList, Status
  <2>2. CASE UNCHANGED row /\ Goto("failure")
    BY <1>3, <2>2, GotoMoves DEF PollList, DriverPc
  <2>3. CASE UNCHANGED row /\ \E m : driver' = [driver EXCEPT !.pc = "read", !.misses = m]
    <3>1. driver'.pc = "read"
      BY <2>3 DEF Drivers
    <3> QED  BY <1>3, <2>3, <3>1 DEF PollList, DriverPc
  <2> QED  BY <1>3, <2>1, <2>2, <2>3 DEF PollList
<1>4. CASE PollRead
  <2>1. driver'.pc \in {"act", "poll"}
    BY <1>4, GotoMoves DEF PollRead, Drivers, DriverPc
  <2> QED  BY <1>4, <2>1 DEF PollRead, DriverPc
<1>5. CASE PollAct
  <2>1. CASE driver.got.state \in Terminal
    BY <1>1, <1>5, <2>1 DEF PollAct, Status, Terminal
  <2>2. CASE driver.got.state \notin Terminal
    <3>1. driver'.pc = "poll" /\ row' = "running"
      BY <1>5, <2>2 DEF PollAct, Write, Drivers
    <3> QED  BY <1>5, <3>1 DEF PollAct, DriverPc
  <2> QED  BY <2>1, <2>2
<1> QED
  BY <1>2, <1>3, <1>4, <1>5 DEF Polling

LEMMA RestartMoves == ASSUME Types, Restart PROVE Early
<1>1. driver'.pc \in {"begin", "idle"}
  BY RequestMoves, FinishMoves DEF Restart, Ops
<1> QED
  BY <1>1 DEF Restart, Early, Late, DriverPc

(* What the others do leaves the driver alone.                              *)
LEMMA BesidesMove ==
  ASSUME Types, ContainerFails \/ Person \/ \E t \in Turns : Agent(t)
  PROVE  /\ UNCHANGED <<turn, rival, driver, passed, origin>>
         /\ row' \in {row, "stopped", "lost"}
         /\ UNCHANGED ref \/ ("remove" \in People /\ ref' \in Commits)
<1>1. ASSUME NEW t \in Turns, Agent(t) PROVE AgentUnchanged
  BY <1>1 DEF Agent, AgentCommits, AgentReports, AgentExits, WrapperLooks, WrapperWrites
<1>2. CASE Person
  BY <1>2 DEF Person, StopSandbox, RecordStop, CountUnpushed, RemoveSandbox, RecordRemoval,
     KillAll, RecordKill, Types, TypeOK, gitVars
<1> QED
  BY <1>1, <1>2 DEF ContainerFails, AgentUnchanged, gitVars

LEMMA PublishedStep == ASSUME Types, Published, [Next]_vars PROVE Published'
<1> USE DriverType
<1>1. CASE Early
  BY <1>1 DEF Early, Late, Published, SucceededIsPublished, gitVars
<1>2. CASE Settle \/ AwaitExit
  <2>1. driver'.pc \in {"idle", "exit", "fetch", "teardown"}
    BY <1>2, EnoughMoves, GotoMoves, FinishMoves DEF Settle, AwaitExit, DriverPc
  <2> QED  BY <1>2, <2>1 DEF Settle, AwaitExit, Published, SucceededIsPublished, gitVars
<1>3. CASE Teardown
  BY <1>3, FinishMoves DEF Teardown, Published, SucceededIsPublished, gitVars
<1>4. CASE Fetch
  <2>1. head # Unset
    BY DEF Types, TypeOK, Commits, Unset
  <2>2. CASE ref' = head /\ Goto("tests") /\ UNCHANGED row
    BY <1>4, <2>1, <2>2, GotoMoves DEF Fetch, Published, SucceededIsPublished, DriverPc
  <2>3. CASE Raise /\ UNCHANGED ref
    BY <1>4, <2>3, RaiseMoves DEF Fetch, Published, SucceededIsPublished
  <2> QED  BY <1>4, <2>2, <2>3 DEF Fetch
<1>5. ASSUME NEW check \in Checks, NEW next \in {"lint", "push"}, Verify(check, next)
      PROVE  Published'
  <2>1. ref # Unset
    BY <1>5 DEF Verify, Published, Checks
  <2>2. driver'.pc \in {"idle", "teardown", "lint", "push"}
    BY <1>5, GotoMoves, FinishMoves, RaiseMoves DEF Verify, DriverPc
  <2>3. row' # "succeeded" \/ row' = row
    BY <1>5, RaiseMoves DEF Verify, Write
  <2> QED  BY <1>5, <2>1, <2>2, <2>3 DEF Verify, Published, SucceededIsPublished
<1>6. CASE Push
  BY <1>6, GotoMoves, RaiseMoves DEF Push, Published, SucceededIsPublished, DriverPc
<1>7. CASE OpenPullRequest
  BY <1>7, GotoMoves, RaiseMoves
  DEF OpenPullRequest, Published, SucceededIsPublished, gitVars, DriverPc
<1>8. CASE Succeed
  BY <1>8, GotoMoves, FinishMoves DEF Succeed, Published, SucceededIsPublished, gitVars, DriverPc
<1>9. CASE ContainerFails \/ Person \/ \E t \in Turns : Agent(t)
  BY <1>9, BesidesMove DEF Published, SucceededIsPublished, Commits, Unset
<1>10. CASE UNCHANGED vars
  BY <1>10 DEF vars, Published, SucceededIsPublished, gitVars
<1> QED
  BY <1>1, <1>2, <1>3, <1>4, <1>5, <1>6, <1>7, <1>8, <1>9, <1>10, StartingMoves, PollingMoves,
     RestartMoves DEF Next, Drive, Finalizing, Checks

LEMMA PublishedInit == Init => Published
  BY DEF Init, Published, SucceededIsPublished, Resting

(* Every variable of Job keeps its type, whatever the bounds.               *)
THEOREM TypeCorrect == Spec => []TypeOK
<1>1. Types /\ Published /\ [Next]_vars => Types' /\ Published'
  BY TypesStep, PublishedStep
<1>2. Types => TypeOK
  BY DEF Types
<1> QED
  BY <1>1, <1>2, TypesInit, PublishedInit, PTL DEF Spec

(* A job recorded as succeeded has its branch on origin, whatever killed,   *)
(* stopped or restarted the rest meanwhile.                                 *)
THEOREM SuccessMeansPublished == Spec => []SucceededIsPublished
<1>1. Types /\ Published /\ [Next]_vars => Types' /\ Published'
  BY TypesStep, PublishedStep
<1>2. Published => SucceededIsPublished
  BY DEF Published
<1> QED
  BY <1>1, <1>2, TypesInit, PublishedInit, PTL DEF Spec

-----------------------------------------------------------------------------
(* Job implements JobContract.                                              *)
Kept == [Contract!Next]_<<row, Stage>>

LEMMA ContractInit == Init => Contract!Init
  BY DEF Init, Contract!Init, Stage, Resting

LEMMA RaiseKept ==
  ASSUME driver \in Drivers, Raise, Stage \in {"going", "judging"}
  PROVE  Kept
  <1>1. Stage' = "idle"
    BY RaiseMoves DEF Stage
  <1> QED
    BY <1>1, RaiseMoves DEF Kept, Contract!Next, Contract!Fail, Contract!Judge, Contract!Verdicts

LEMMA ConcludeKept ==
  ASSUME NEW state \in Terminal \cup {"timed_out", "stopped", "lost"}, Conclude(state),
         Stage = "going"
  PROVE  Kept
  <1>1. state \in Status
    BY DEF Status, Terminal
  <1>2. Stage' = IF state = "done" THEN "judging" ELSE "ended"
    BY <1>1, ConcludeMoves DEF Stage
  <1>3. Contract!Conclude
    BY <1>1, <1>2, ConcludeMoves DEF Contract!Conclude, Contract!Outcomes, Terminal
  <1> QED  BY <1>3 DEF Kept, Contract!Next

LEMMA StartingKept == ASSUME Types, Requests \/ Starting PROVE Kept
<1> USE DriverType DEF Kept
<1>1. CASE Requests
  <2>1. Stage = "idle" /\ Stage' = "asked" /\ UNCHANGED row
    BY <1>1, RequestMoves DEF Requests, Request, Ops, Stage
  <2> QED  BY <2>1 DEF Contract!Next, Contract!Ask
<1>2. CASE BeginRun
  <2>1. Stage = "asked" /\ UNCHANGED row
    BY <1>2 DEF BeginRun, Stage
  <2>2. CASE row \in {"awaiting_input", "succeeded"}
    <3>1. Stage' = "idle"
      BY <1>2, <2>2, FinishMoves DEF BeginRun, Stage
    <3> QED  BY <2>1, <2>2, <3>1 DEF Contract!Next, Contract!Decline
  <2>3. CASE row \notin {"awaiting_input", "succeeded"}
    <3>1. driver'.pc \in {"rm", "record", "idle"}
      BY <1>2, BeginRunMoves
    <3>2. driver'.pc # "idle"
      BY <1>2, <2>3 DEF BeginRun, Resting
    <3> QED  BY <2>1, <3>1, <3>2 DEF Stage
  <2> QED  BY <2>2, <2>3
<1>3. CASE BeginOther
  <2>1. Stage = "asked" /\ UNCHANGED row
    BY <1>3 DEF BeginOther, Stage
  <2>2. driver'.pc \in {"launch", "restart", "enter"}
    BY <1>3, EnoughMoves DEF BeginOther, DriverPc
  <2> QED  BY <2>1, <2>2 DEF Stage, Contract!Next, Contract!Start
<1>4. CASE RemoveOld
  BY <1>4, GotoMoves DEF RemoveOld, Stage, DriverPc
<1>5. CASE RecordAttempt
  <2>1. Stage = "asked" /\ row' \in InFlight
    BY <1>5 DEF RecordAttempt, Stage, Write, InFlight
  <2>2. driver'.pc \in {"enter", "create"}
    BY <1>5, EnoughMoves DEF RecordAttempt, DriverPc
  <2> QED  BY <2>1, <2>2 DEF Stage, Contract!Next, Contract!Start, Contract!InFlight, InFlight
<1>6. CASE CreateSandbox \/ RestartContainer \/ Launch
  <2>1. Stage = "going"
    BY <1>6 DEF CreateSandbox, RestartContainer, Launch, Stage
  <2>2. CASE Raise
    BY <2>1, <2>2, RaiseKept
  <2>3. CASE ~Raise
    <3>1. driver'.pc \in {"launch", "enter"} /\ UNCHANGED row
      BY <1>6, <2>3, GotoMoves DEF CreateSandbox, RestartContainer, Launch, DriverPc
    <3> QED  BY <2>1, <3>1 DEF Stage
  <2> QED  BY <2>2, <2>3
<1>7. CASE Enter
  <2>1. Stage = "going" /\ row' = "running"
    BY <1>7 DEF Enter, Stage, Write
  <2>2. Stage' = "going"
    BY <1>7, EnoughMoves DEF Enter, Enough, Stage, DriverPc
  <2> QED  BY <2>1, <2>2 DEF Contract!Next, Contract!Run
<1> QED
  BY <1>1, <1>2, <1>3, <1>4, <1>5, <1>6, <1>7 DEF Starting

LEMMA PollingKept == ASSUME Types, Polling PROVE Kept
<1> USE DriverType DEF Kept
<1>1. Stage = "going"
  BY DEF Polling, Deadline, PollList, PollFailed, PollRead, PollAct, Stage
<1>2. CASE Deadline \/ PollFailed
  BY <1>1, <1>2, ConcludeKept DEF Deadline, PollFailed, Terminal
<1>3. CASE PollList
  <2>1. CASE Conclude("stopped") \/ Conclude("lost")
    BY <1>1, <2>1, ConcludeKept
  <2>2. CASE UNCHANGED row /\ Goto("failure")
    BY <1>1, <2>2, GotoMoves DEF Stage, DriverPc
  <2>3. CASE UNCHANGED row /\ \E m : driver' = [driver EXCEPT !.pc = "read", !.misses = m]
    <3>1. driver'.pc = "read"
      BY <2>3 DEF Drivers
    <3> QED  BY <1>1, <2>3, <3>1 DEF Stage
  <2> QED  BY <1>3, <2>1, <2>2, <2>3 DEF PollList
<1>4. CASE PollRead
  <2>1. driver'.pc \in {"act", "poll"} /\ UNCHANGED row
    BY <1>4, GotoMoves DEF PollRead, Drivers, DriverPc
  <2> QED  BY <1>1, <2>1 DEF Stage
<1>5. CASE PollAct
  <2>1. CASE driver.got.state \in Terminal
    BY <1>1, <1>5, <2>1, ConcludeKept DEF PollAct
  <2>2. CASE driver.got.state \notin Terminal
    <3>1. driver'.pc = "poll" /\ row' = "running"
      BY <1>5, <2>2 DEF PollAct, Write, Drivers
    <3> QED  BY <1>1, <3>1 DEF Stage, Contract!Next, Contract!Run
  <2> QED  BY <2>1, <2>2
<1> QED
  BY <1>2, <1>3, <1>4, <1>5 DEF Polling

LEMMA FinalizingKept == ASSUME Types, Finalizing PROVE Kept
<1> USE DriverType DEF Kept
<1>1. CASE Settle \/ AwaitExit
  <2>1. Stage = IF driver.outcome = "done" THEN "judging" ELSE "ended"
    BY <1>1 DEF Settle, AwaitExit, Stage
  <2>2. UNCHANGED row
    BY <1>1 DEF Settle, AwaitExit
  <2>3. CASE driver.outcome = "done"
    <3>1. \/ driver'.pc = "exit" /\ driver'.outcome = "done"
          \/ driver'.pc = "fetch"
      BY <1>1, <2>3, GotoMoves, EnoughMoves DEF Settle, AwaitExit, DriverPc
    <3> QED  BY <2>1, <2>2, <2>3, <3>1 DEF Stage
  <2>4. CASE driver.outcome # "done"
    <3>1. \/ driver'.pc = "exit" /\ driver'.outcome # "done"
          \/ driver'.pc \in {"teardown", "idle"}
      BY <1>1, <2>4, GotoMoves, EnoughMoves, FinishMoves DEF Settle, AwaitExit, DriverPc
    <3>2. Stage' \in {"ended", "idle"}
      BY <3>1 DEF Stage
    <3> QED  BY <2>1, <2>2, <2>4, <3>2 DEF Contract!Next, Contract!End
  <2> QED  BY <2>3, <2>4
<1>2. CASE Teardown
  <2>1. Stage = "ended" /\ Stage' = "idle" /\ UNCHANGED row
    BY <1>2, FinishMoves DEF Teardown, Stage
  <2> QED  BY <2>1 DEF Contract!Next, Contract!End
<1>3. CASE Fetch \/ Push \/ OpenPullRequest
  <2>1. Stage = "judging"
    BY <1>3 DEF Fetch, Push, OpenPullRequest, Stage
  <2>2. CASE Raise
    BY <2>1, <2>2, RaiseKept
  <2>3. CASE ~Raise
    <3>1. driver'.pc \in {"tests", "pr", "succeed"} /\ UNCHANGED row
      BY <1>3, <2>3, GotoMoves DEF Fetch, Push, OpenPullRequest, DriverPc
    <3> QED  BY <2>1, <3>1 DEF Stage
  <2> QED  BY <2>2, <2>3
<1>4. ASSUME NEW check \in Checks, NEW next \in {"lint", "push"}, Verify(check, next)
      PROVE  Kept
  <2>1. Stage = "judging"
    BY <1>4 DEF Verify, Stage, Checks
  <2>2. CASE Goto(next) /\ UNCHANGED row
    <3>1. driver'.pc = next
      BY <2>2, GotoMoves DEF DriverPc
    <3> QED  BY <2>1, <2>2, <3>1 DEF Stage
  <2>3. CASE row' \in {"tests_failed", "lint_failed"} /\ (Goto("teardown") \/ Finish)
    <3>1. Stage' \in {"ended", "idle"}
      BY <2>3, GotoMoves, FinishMoves DEF Stage, DriverPc
    <3> QED  BY <2>1, <2>3, <3>1 DEF Contract!Next, Contract!Judge, Contract!Verdicts
  <2>4. CASE Raise
    BY <2>1, <2>4, RaiseKept
  <2> QED  BY <1>4, <2>2, <2>3, <2>4 DEF Verify, Write
<1>5. CASE Succeed
  <2>1. Stage = "judging" /\ row' = "succeeded"
    BY <1>5 DEF Succeed, Write, Stage
  <2>2. Stage' \in {"ended", "idle"}
    BY <1>5, GotoMoves, FinishMoves DEF Succeed, Stage, DriverPc
  <2> QED  BY <2>1, <2>2 DEF Contract!Next, Contract!Judge, Contract!Verdicts
<1> QED
  BY <1>1, <1>2, <1>3, <1>4, <1>5 DEF Finalizing, Checks

LEMMA BesidesKept ==
  ASSUME Types, ContainerFails \/ Person \/ Restart \/ \E t \in Turns : Agent(t)
  PROVE  Kept
<1> USE DriverType DEF Kept
<1>1. CASE UNCHANGED <<row, driver>>
  BY <1>1 DEF Stage
<1>2. CASE RecordStop \/ RecordRemoval \/ RecordKill
  <2>1. UNCHANGED Stage
    BY <1>2 DEF RecordStop, RecordRemoval, RecordKill, Stage
  <2>2. UNCHANGED row \/ (row # "absent" /\ row' \in {"stopped", "lost"})
    BY <1>2 DEF RecordStop, RecordRemoval, RecordKill, InFlight
  <2> QED  BY <2>1, <2>2 DEF Contract!Next, Contract!Overrule
<1>3. CASE Restart
  <2>1. CASE row \in InFlight /\ UNCHANGED row
             /\ driver' = [Resting EXCEPT !.pc = "begin", !.op = "reattach"]
    <3>1. Stage' = "asked"
      BY <2>1, RequestMoves DEF Ops, Stage
    <3> QED  BY <2>1, <3>1 DEF Contract!Next, Contract!Die, Contract!InFlight, InFlight
  <2>2. CASE Finish /\ row' = IF row \in InFlight THEN "lost" ELSE row
    <3>1. Stage' = "idle"
      BY <2>2, FinishMoves DEF Stage
    <3> QED  BY <2>2, <3>1 DEF Contract!Next, Contract!Die, Contract!InFlight, InFlight
  <2> QED  BY <1>3, <2>1, <2>2 DEF Restart
<1> QED
  BY <1>1, <1>2, <1>3 DEF Person, StopSandbox, CountUnpushed, RemoveSandbox, KillAll,
     ContainerFails, Agent, AgentCommits, AgentReports, AgentExits, WrapperLooks, WrapperWrites,
     AgentUnchanged

LEMMA StepKept == ASSUME Types, [Next]_vars PROVE Kept
<1>1. CASE UNCHANGED vars
  BY <1>1 DEF vars, Kept, Stage
<1> QED
  BY <1>1, StartingKept, PollingKept, FinalizingKept, BesidesKept DEF Next, Drive

(* jobs.status moves as JobContract says, whatever the agent, the person    *)
(* and the crashes do.                                                      *)
THEOREM ImplementsContract == Spec => KeepsContract
<1>1. Types /\ Published /\ [Next]_vars => Types' /\ Published'
  BY TypesStep, PublishedStep
<1>2. Types /\ [Next]_vars => [Contract!Next]_<<row, Stage>>
  BY StepKept DEF Kept
<1> QED
  BY <1>1, <1>2, TypesInit, PublishedInit, ContractInit, PTL
  DEF Spec, KeepsContract, Contract!Spec

-----------------------------------------------------------------------------
(* A row in flight is driven: the contract alone says so.                   *)
Driven == row \in InFlight => Stage \in {"asked", "going"}

LEMMA DrivenStep == ASSUME Driven, Kept PROVE Driven'
<1> USE DEF Driven, InFlight, Contract!InFlight, Contract!Outcomes, Contract!Verdicts
<1>1. CASE Contract!Ask \/ Contract!Decline \/ Contract!Start \/ Contract!Run
  BY <1>1 DEF Contract!Ask, Contract!Decline, Contract!Start, Contract!Run
<1>2. CASE Contract!Conclude \/ Contract!Judge \/ Contract!Fail \/ Contract!End
  BY <1>2 DEF Contract!Conclude, Contract!Judge, Contract!Fail, Contract!End
<1>3. CASE Contract!Overrule \/ Contract!Die
  BY <1>3 DEF Contract!Overrule, Contract!Die
<1>4. CASE UNCHANGED <<row, Stage>>
  BY <1>4
<1> QED
  BY <1>1, <1>2, <1>3, <1>4 DEF Kept, Contract!Next

(* The board never shows a job in flight that nobody drives: not even after *)
(* the server has died and come back.                                       *)
THEOREM NoOrphan == Spec => []InFlightIsDriven
<1>1. Types /\ Published /\ [Next]_vars => Types' /\ Published'
  BY TypesStep, PublishedStep
<1>2. Types /\ Driven /\ [Next]_vars => Driven'
  BY StepKept, DrivenStep
<1>3. Init => Driven
  BY DEF Init, Driven, InFlight
<1>4. Driven => InFlightIsDriven
  BY DEF Driven, InFlightIsDriven, Stage
<1> QED
  BY <1>1, <1>2, <1>3, <1>4, TypesInit, PublishedInit, PTL DEF Spec

-----------------------------------------------------------------------------
(* What reaches origin, as long as nobody counts unpushed commits meanwhile *)
(* and the commands run on the fetched commit.                              *)
Verified ==
  /\ PushedWasVerified
  /\ driver.pc \in {"lint", "push"} /\ "tests" \in Commands => ref \in passed["tests"]
  /\ driver.pc = "push" /\ "lint" \in Commands => ref \in passed["lint"]

LEMMA VerifiedStep ==
  ASSUME Types, Published, Verified, [Next]_vars, VerifyOn = "host", "remove" \notin People
  PROVE  Verified'
<1> USE DriverType
<1>1. ASSUME UNCHANGED gitVars, driver'.pc \notin {"lint", "push"} \/ UNCHANGED driver
      PROVE  Verified'
  BY <1>1 DEF Verified, PushedWasVerified, gitVars
<1>2. CASE Early
  BY <1>1, <1>2 DEF Early, Late
<1>3. CASE Settle \/ AwaitExit \/ Teardown \/ OpenPullRequest \/ Succeed
  <2>1. driver'.pc \in DriverPc \ {"lint", "push"}
    BY <1>3, EnoughMoves, GotoMoves, FinishMoves, RaiseMoves
    DEF Settle, AwaitExit, Teardown, OpenPullRequest, Succeed, DriverPc
  <2> QED
    BY <1>1, <1>3, <2>1 DEF Settle, AwaitExit, Teardown, OpenPullRequest, Succeed
<1>4. CASE Fetch
  <2>1. driver'.pc \in {"tests", "idle"}
    BY <1>4, GotoMoves, RaiseMoves DEF Fetch, DriverPc
  <2> QED  BY <1>4, <2>1 DEF Fetch, Verified, PushedWasVerified
<1>5. ASSUME NEW check \in Checks, NEW next, Verify(check, next),
             <<check, next>> \in {<<"tests", "lint">>, <<"lint", "push">>}
      PROVE  Verified'
  <2>1. CASE Goto(next) /\ passed' = [passed EXCEPT ![check] = @ \cup {ref}]
    <3>1. driver'.pc = next
      BY <1>5, <2>1, GotoMoves DEF DriverPc
    <3>2. ref \in passed'[check] /\ \A c \in Checks : passed[c] \subseteq passed'[c]
      BY <2>1 DEF Types, TypeOK
    <3> QED  BY <1>5, <3>1, <3>2 DEF Verify, Verified, PushedWasVerified, Checks
  <2>2. CASE UNCHANGED passed /\ (Goto("teardown") \/ Finish \/ Raise)
    <3>1. driver'.pc \in {"teardown", "idle"}
      BY <2>2, GotoMoves, FinishMoves, RaiseMoves DEF DriverPc
    <3> QED  BY <1>1, <1>5, <2>2, <3>1 DEF Verify, gitVars
  <2>3. CASE check \notin Commands /\ Goto(next) /\ UNCHANGED passed
    <3>1. driver'.pc = next
      BY <1>5, <2>3, GotoMoves DEF DriverPc
    <3> QED  BY <1>5, <2>3, <3>1 DEF Verify, Verified, PushedWasVerified
  <2> QED  BY <1>5, <2>1, <2>2, <2>3 DEF Verify
<1>6. CASE Push
  <2>1. driver'.pc \in {"pr", "succeed", "idle"}
    BY <1>6, GotoMoves, RaiseMoves DEF Push, DriverPc
  <2> QED  BY <1>6, <2>1 DEF Push, Verified, PushedWasVerified, Checks
<1>7. CASE ContainerFails \/ Person \/ \E t \in Turns : Agent(t)
  BY <1>1, <1>7, BesidesMove DEF gitVars
<1>8. CASE UNCHANGED vars
  BY <1>1, <1>8 DEF vars
<1> QED
  BY <1>2, <1>3, <1>4, <1>5, <1>6, <1>7, <1>8, StartingMoves, PollingMoves, RestartMoves
  DEF Next, Drive, Finalizing, Checks

(* Only a commit on which every configured command passed is published, if  *)
(* the commands run on the host and no one calls remove without force.      *)
THEOREM OnlyVerifiedIsPushed ==
  ASSUME VerifyOn = "host", "remove" \notin People
  PROVE  Spec => []PushedWasVerified
<1>1. Types /\ Published /\ [Next]_vars => Types' /\ Published'
  BY TypesStep, PublishedStep
<1>2. Types /\ Published /\ Verified /\ [Next]_vars => Verified'
  BY VerifiedStep
<1>3. Init => Verified
  BY DEF Init, Verified, PushedWasVerified, Resting
<1>4. Verified => PushedWasVerified
  BY DEF Verified
<1> QED
  BY <1>1, <1>2, <1>3, <1>4, TypesInit, PublishedInit, PTL DEF Spec

-----------------------------------------------------------------------------
(* A question keeps its sandbox: past the point where a drive parks there   *)
(* is no question left, and run_job removes nothing that waits.             *)
Parked ==
  /\ driver.pc \in {"rm", "teardown", "exit", "fetch", "tests", "lint", "push", "pr", "succeed"}
     => row # "awaiting_input"
  /\ driver.pc = "settle" /\ row = "awaiting_input" => driver.outcome = "awaiting_input"

LEMMA ParkedStep == ASSUME Types, Parked, [Next]_vars PROVE Parked'
<1> USE DriverType DEF Parked
<1>1. CASE Requests
  BY <1>1, RequestMoves DEF Requests, Request, Ops
<1>2. CASE Starting
  <2>1. CASE BeginRun
    BY <2>1, BeginRunMoves DEF BeginRun
  <2>2. CASE ~BeginRun
    <3>1. driver'.pc \notin {"rm", "settle"}
      BY <1>2, <2>2, EnoughMoves, GotoMoves, RaiseMoves
      DEF Starting, BeginOther, RemoveOld, RecordAttempt, CreateSandbox, RestartContainer, Launch,
          Enter, Enough, DriverPc
    <3> QED  BY <1>2, <3>1, StartingMoves DEF Early, Late
  <2> QED  BY <2>1, <2>2
<1>3. CASE Polling
  <2>1. ASSUME NEW state \in Status, Conclude(state) PROVE Parked'
    BY <2>1, ConcludeMoves
  <2>2. CASE Deadline \/ PollFailed
    BY <2>1, <2>2 DEF Deadline, PollFailed, Status, Terminal
  <2>3. CASE PollList
    <3>1. CASE Conclude("stopped") \/ Conclude("lost")
      BY <2>1, <3>1 DEF Status
    <3>2. CASE UNCHANGED row /\ Goto("failure")
      BY <3>2, GotoMoves DEF DriverPc
    <3>3. CASE \E m : driver' = [driver EXCEPT !.pc = "read", !.misses = m]
      BY <3>3 DEF Drivers
    <3> QED  BY <2>3, <3>1, <3>2, <3>3 DEF PollList
  <2>4. CASE PollRead
    <3>1. driver'.pc \in {"act", "poll"}
      BY <2>4, GotoMoves DEF PollRead, Drivers, DriverPc
    <3> QED  BY <3>1
  <2>5. CASE PollAct
    <3>1. CASE driver.got.state \in Terminal
      BY <2>1, <2>5, <3>1 DEF PollAct, Status
    <3>2. CASE driver.got.state \notin Terminal
      BY <2>5, <3>2 DEF PollAct, Drivers
    <3> QED  BY <3>1, <3>2
  <2> QED  BY <1>3, <2>2, <2>3, <2>4, <2>5 DEF Polling
<1>4. CASE Settle
  BY <1>4, GotoMoves, FinishMoves DEF Settle, DriverPc
<1>5. CASE AwaitExit \/ Teardown
  BY <1>5, EnoughMoves, FinishMoves DEF AwaitExit, Teardown, DriverPc
<1>6. CASE Fetch \/ Push \/ OpenPullRequest
  BY <1>6, GotoMoves, RaiseMoves DEF Fetch, Push, OpenPullRequest, DriverPc
<1>7. ASSUME NEW check \in Checks, NEW next \in {"lint", "push"}, Verify(check, next)
      PROVE  Parked'
  BY <1>7, GotoMoves, FinishMoves, RaiseMoves DEF Verify, Write, Checks, DriverPc
<1>8. CASE Succeed
  BY <1>8, GotoMoves, FinishMoves DEF Succeed, Write, DriverPc
<1>9. CASE ContainerFails \/ Person \/ \E t \in Turns : Agent(t)
  BY <1>9, BesidesMove
<1>10. CASE Restart
  <2>1. driver'.pc \in {"begin", "idle"}
    BY <1>10, RequestMoves, FinishMoves DEF Restart, Ops
  <2> QED  BY <2>1
<1>11. CASE UNCHANGED vars
  BY <1>11 DEF vars
<1> QED
  BY <1>1, <1>2, <1>3, <1>4, <1>5, <1>6, <1>7, <1>8, <1>9, <1>10, <1>11
  DEF Next, Drive, Finalizing, Checks

(* The step that removes the sandbox of a waiting question is a person's.   *)
LEMMA OnlyPeopleRemove ==
  ASSUME Types, Parked, [Next]_vars, row = "awaiting_input", box # "gone", box' = "gone"
  PROVE  person' # person
<1>1. ~(RemoveOld \/ Teardown)
  BY DEF Parked, RemoveOld, Teardown
<1>2. ~(Requests \/ Polling)
  BY DEF Requests, Request, Polling, Deadline, PollList, PollFailed, PollRead, PollAct, boxVars
<1>3. ~Starting
  BY <1>1 DEF Starting, BeginRun, BeginOther, RecordAttempt, CreateSandbox, RestartContainer,
     Launch, Enter, boxVars
<1>4. ~Finalizing
  BY <1>1 DEF Finalizing, Settle, AwaitExit, Fetch, Verify, Push, OpenPullRequest, Succeed, boxVars
<1>5. ~(ContainerFails \/ Restart \/ UNCHANGED vars)
  BY DEF ContainerFails, Restart, vars, boxVars
<1>6. ~\E t \in Turns : Agent(t)
  BY DEF Agent, AgentCommits, AgentReports, AgentExits, WrapperLooks, WrapperWrites
<1>7. Person
  BY <1>2, <1>3, <1>4, <1>5, <1>6 DEF Next, Drive
<1> QED
  BY <1>7 DEF Person, StopSandbox, RecordStop, CountUnpushed, RemoveSandbox, RecordRemoval,
     KillAll, RecordKill, boxVars

(* The driver never removes the sandbox of a question that waits.           *)
THEOREM QuestionsSurvive == Spec => QuestionSurvives
<1>1. Types /\ Published /\ [Next]_vars => Types' /\ Published'
  BY TypesStep, PublishedStep
<1>2. Types /\ Parked /\ [Next]_vars => Parked'
  BY ParkedStep
<1>3. Init => Parked
  BY DEF Init, Parked, Resting
<1>4. Types /\ Parked /\ [Next]_vars
      => [row = "awaiting_input" /\ box # "gone" /\ box' = "gone" => person' # person]_vars
  BY OnlyPeopleRemove
<1> QED
  BY <1>1, <1>2, <1>3, <1>4, TypesInit, PublishedInit, PTL DEF Spec, QuestionSurvives

-----------------------------------------------------------------------------
(* Whose status file the driver acts on.                                    *)
OwnTurn ==
  /\ \A t \in Turns : t > turn => proc[t] = "none"
  /\ ~rival => /\ \A t \in Turns : t < turn => ~Active(t)
               /\ file.state # "none" => file.turn = turn
  /\ ActsOnOwnTurn

Still == UNCHANGED <<turn, rival>> /\ (driver'.pc # "act" \/ UNCHANGED driver)

(* Processes that only end, and a status file that is at most removed,      *)
(* leave it as it is.                                                       *)
LEMMA EndingKeeps ==
  ASSUME Types, OwnTurn, Still, file' \in {file, NoFile}, proc' \in {proc, AllOver}
  PROVE  OwnTurn'
<1>1. NoFile.state = "none"
  BY DEF NoFile
<1>2. \A t \in Turns : proc'[t] \in {proc[t], "over"} /\ (proc[t] = "none" => proc'[t] = "none")
  BY DEF AllOver, Types, TypeOK
<1> QED
  BY <1>1, <1>2 DEF OwnTurn, ActsOnOwnTurn, Still, Active

LEMMA OwnTurnStep == ASSUME Types, OwnTurn, [Next]_vars PROVE OwnTurn'
<1> USE DriverType, EndingKeeps DEF Still
<1>1. CASE Requests
  BY <1>1, RequestMoves DEF Requests, Request, Ops, boxVars
<1>2. CASE Starting
  <2>1. CASE Launch /\ LaunchAgent
    <3>1. driver'.pc = "enter" \/ UNCHANGED turn
      BY <2>1, GotoMoves DEF Launch, DriverPc
    <3>2. driver'.pc # "act"
      BY <2>1, GotoMoves, RaiseMoves DEF Launch, DriverPc
    <3>3. turn \in Nat /\ turn' = turn + 1 /\ file'.state = "none"
      BY <2>1 DEF LaunchAgent, NoFile, Types, TypeOK
    <3>4. ASSUME NEW t \in Turns, t > turn' PROVE proc'[t] = "none"
      BY <2>1, <3>3, <3>4 DEF LaunchAgent, OwnTurn, Types, TypeOK, Turns
    <3>5. ASSUME NEW t \in Turns, t < turn', ~rival' PROVE ~Active(t)'
      BY <2>1, <3>3, <3>5 DEF LaunchAgent, Active, Types, TypeOK, Turns
    <3> QED  BY <3>2, <3>3, <3>4, <3>5 DEF OwnTurn, ActsOnOwnTurn
  <2>2. CASE Launch /\ ~LaunchAgent
    BY <2>2, RaiseMoves DEF Launch, boxVars
  <2>3. CASE ~Launch
    <3>1. driver'.pc # "act"
      <4>1. CASE BeginRun
        BY <4>1, BeginRunMoves
      <4>2. CASE ~BeginRun
        BY <1>2, <2>3, <4>2, EnoughMoves, GotoMoves, RaiseMoves
        DEF Starting, BeginOther, RemoveOld, RecordAttempt, CreateSandbox, RestartContainer, Enter,
            Enough, DriverPc
      <4> QED  BY <4>1, <4>2
    <3>2. UNCHANGED <<turn, rival>> /\ file' \in {file, NoFile} /\ proc' \in {proc, AllOver}
      BY <1>2, <2>3 DEF Starting, BeginRun, BeginOther, RemoveOld, RecordAttempt, CreateSandbox,
         RestartContainer, Enter, RemoveBox, boxVars
    <3> QED  BY <3>1, <3>2
  <2> QED  BY <2>1, <2>2, <2>3
<1>3. CASE Polling
  <2>1. UNCHANGED <<boxVars, turn, rival>>
    BY <1>3 DEF Polling, Deadline, PollList, PollFailed, PollRead, PollAct
  <2>2. CASE driver'.pc # "act"
    BY <2>1, <2>2 DEF boxVars
  <2>3. CASE driver'.pc = "act"
    <3>1. \A state \in Status : ~Conclude(state)
      BY <2>3, ConcludeMoves
    <3>2. PollRead
      BY <1>3, <2>3, <3>1, GotoMoves
      DEF Polling, Deadline, PollList, PollFailed, PollAct, Drivers, Status, Terminal, DriverPc
    <3>3. file.state # "none" /\ driver' = [driver EXCEPT !.pc = "act", !.got = file]
      BY <2>3, <3>2, GotoMoves DEF PollRead, DriverPc
    <3>4. driver'.got = file
      BY <3>3 DEF Drivers
    <3> QED  BY <2>1, <3>3, <3>4 DEF OwnTurn, ActsOnOwnTurn, Active, boxVars
  <2> QED  BY <2>2, <2>3
<1>4. CASE Finalizing
  <2>1. driver'.pc # "act"
    BY <1>4, EnoughMoves, GotoMoves, FinishMoves, RaiseMoves
    DEF Finalizing, Settle, AwaitExit, Teardown, Fetch, Verify, Push, OpenPullRequest, Succeed,
        DriverPc
  <2>2. UNCHANGED <<turn, rival>> /\ file' \in {file, NoFile} /\ proc' \in {proc, AllOver}
    BY <1>4 DEF Finalizing, Settle, AwaitExit, Teardown, Fetch, Verify, Push, OpenPullRequest,
       Succeed, RemoveBox, boxVars
  <2> QED  BY <2>1, <2>2
<1>5. ASSUME NEW t \in Turns, Agent(t) PROVE OwnTurn'
  <2>1. UNCHANGED <<turn, rival, driver>>
    BY <1>5, BesidesMove
  <2>2. Active(t)
    BY <1>5 DEF Agent, AgentCommits, AgentReports, AgentExits, WrapperLooks, WrapperWrites, Active
  <2>3. \A u \in Turns : u # t => proc'[u] = proc[u]
    BY <1>5 DEF Agent, AgentCommits, AgentReports, AgentExits, WrapperLooks, WrapperWrites,
       Types, TypeOK
  <2>4. UNCHANGED file \/ file'.turn = t
    BY <1>5 DEF Agent, AgentCommits, AgentReports, AgentExits, WrapperLooks, WrapperWrites
  <2>5. t <= turn /\ (~rival => t = turn)
    BY <2>2 DEF OwnTurn, Active, Turns, Types, TypeOK
  <2> QED
    BY <2>1, <2>3, <2>4, <2>5 DEF OwnTurn, ActsOnOwnTurn, Active, Turns, Types, TypeOK
<1>6. CASE ContainerFails
  BY <1>6 DEF ContainerFails, AgentUnchanged
<1>7. CASE Person
  <2>1. UNCHANGED <<turn, rival, driver>>
    BY <1>7, BesidesMove
  <2>2. file' \in {file, NoFile} /\ proc' \in {proc, AllOver}
    BY <1>7 DEF Person, StopSandbox, RecordStop, CountUnpushed, RemoveSandbox, RecordRemoval,
       KillAll, RecordKill, RemoveBox, boxVars
  <2> QED  BY <2>1, <2>2
<1>8. CASE Restart
  <2>1. driver'.pc \in {"begin", "idle"}
    BY <1>8, RequestMoves, FinishMoves DEF Restart, Ops
  <2> QED  BY <1>8, <2>1 DEF Restart, boxVars
<1>9. CASE UNCHANGED vars
  BY <1>9 DEF vars, boxVars
<1> QED
  BY <1>1, <1>2, <1>3, <1>4, <1>5, <1>6, <1>7, <1>8, <1>9 DEF Next, Drive

LEMMA OwnTurnInit == Init => OwnTurn
  BY DEF Init, OwnTurn, ActsOnOwnTurn, Active, Turns, NoFile, Resting

(* Unless an older process was still going at its launch, a drive acts only *)
(* on a status file that its own launch wrote.                              *)
THEOREM OwnTurnOnly == Spec => []ActsOnOwnTurn
<1>1. Types /\ Published /\ [Next]_vars => Types' /\ Published'
  BY TypesStep, PublishedStep
<1>2. Types /\ OwnTurn /\ [Next]_vars => OwnTurn'
  BY OwnTurnStep
<1>3. OwnTurn => ActsOnOwnTurn
  BY DEF OwnTurn
<1> QED
  BY <1>1, <1>2, <1>3, TypesInit, PublishedInit, OwnTurnInit, PTL DEF Spec

=============================================================================
