------------------------------- MODULE Usage -------------------------------
(***************************************************************************)
(* How a job's token usage is counted: the agent CLI exports its telemetry *)
(* in batches (external), routes_otlp.py files them under the job, and     *)
(* finish.py reads them back once the agent has exited, for the turn that  *)
(* agent_launches says is the last one.                                    *)
(*                                                                         *)
(* Times are compared only with the times of launches, so received_at is   *)
(* the number of launches recorded when the receiver took it.              *)
(***************************************************************************)
EXTENDS Integers, FiniteSets, FiniteSetsExt, Sequences

CONSTANTS
  MaxTurns,    \* bound: launches of one job
  MaxMade,     \* bound: events a job's agents make
  MaxFaults,   \* bound: batches posted again, given up or refused, and agents killed
  Kinds,       \* kinds of events: "tokens" for a request to the model, "noise" for what
               \* _AGENT_EVENTS_QUERY skips, and others
  Limit        \* events get_agent_events returns at most

ASSUME UsageAssumption ==
  MaxTurns \in Nat /\ MaxMade \in Nat /\ MaxFaults \in Nat /\ Limit \in Nat

Turns == 1..MaxTurns

VARIABLES
  exporting,   \* exports_otel: an endpoint is set, the CLI is wired, no own command
  turn,        \* the turn of the last launch recorded in agent_launches
  driver,      \* what the job's driver is doing
  exitFile,    \* AGENT_EXIT_PATH exists in the sandbox
  agent,       \* turn -> "none", "running" or "exited"
  made,        \* turn -> kinds of the events the agent has made
  sent,        \* turn -> events its exporter is done with
  batch,       \* turn -> the batch its exporter waits for an answer to
  posts,       \* requests under way to the receiver
  events,      \* agent_events
  filed,       \* batches inserted so far
  usage,       \* turn -> what its usage was counted from
  whole,       \* turns whose usage was read after the exit of an agent alone in its sandbox
  alone,       \* turns whose launch was recorded when no earlier agent was running
  faults       \* how often a batch was posted again, given up or refused, or an agent killed

usageVars == <<exporting, turn, driver, exitFile, agent, made, sent, batch, posts,
               events, filed, usage, whole, alone, faults>>

Fault == faults < MaxFaults /\ faults' = faults + 1

NoBatch == [to |-> 0, try |-> 0]

(* A usage, each field with the requests it was counted from.                *)
UsageFields  == {"input_tokens", "output_tokens", "num_turns"}
NoUsage == [f \in UsageFields |-> {}]

-----------------------------------------------------------------------------
(* The agent and its exporter, one batch at a time.                         *)
MadeSoFar == MapThenSumSet(LAMBDA t : Len(made[t]), Turns)

MakeEvent(t, kind) ==
  /\ agent[t] = "running" /\ MadeSoFar < MaxMade
  /\ made' = [made EXCEPT ![t] = Append(@, kind)]
  /\ UNCHANGED <<exporting, turn, driver, exitFile, agent, sent, batch, posts, events, filed,
                 usage, whole, alone, faults>>

Post(t, to, try) ==
  /\ batch' = [batch EXCEPT ![t] = [to |-> to, try |-> try]]
  /\ posts' = posts \cup {[turn |-> t, from |-> sent[t], to |-> to, try |-> try, filed |-> FALSE]}
  /\ UNCHANGED <<exporting, turn, driver, exitFile, agent, made, sent, events, filed, usage,
                 whole, alone>>

Export(t) ==
  /\ exporting /\ agent[t] = "running" /\ batch[t] = NoBatch /\ sent[t] < Len(made[t])
  /\ Post(t, Len(made[t]), 1)
  /\ UNCHANGED faults

(* No answer in time: the exporter posts the same events again, or drops     *)
(* them.                                                                     *)
Resend(t) ==
  /\ agent[t] = "running" /\ batch[t] # NoBatch
  /\ Post(t, batch[t].to, batch[t].try + 1)
  /\ Fault
LoseBatch(t) ==
  /\ agent[t] = "running" /\ batch[t] # NoBatch
  /\ sent' = [sent EXCEPT ![t] = batch[t].to]
  /\ batch' = [batch EXCEPT ![t] = NoBatch]
  /\ Fault
  /\ UNCHANGED <<exporting, turn, driver, exitFile, agent, made, posts, events, filed, usage,
                 whole, alone>>

(* The CLI flushes before it exits, or is killed; the wrapper writes the     *)
(* exit file after it either way.                                            *)
Exit(t) ==
  /\ agent[t] = "running"
  /\ agent' = [agent EXCEPT ![t] = "exited"]
  /\ batch' = [batch EXCEPT ![t] = NoBatch]
  /\ IF exporting => batch[t] = NoBatch /\ sent[t] = Len(made[t]) THEN UNCHANGED faults ELSE Fault
  /\ exitFile' = TRUE
  /\ UNCHANGED <<exporting, turn, driver, made, sent, posts, events, filed, usage, whole, alone>>

-----------------------------------------------------------------------------
(* The receiver: a batch that is not JSON, too large or about an unknown job *)
(* is refused, and a refusal is not retried; otherwise the rows are          *)
(* committed, then the exporter is answered.                                 *)
to_event_rows(p, id, received_at) ==
  {[turn |-> p.turn, seq |-> i, kind |-> made[p.turn][i], copy |-> p.try,
    received_at |-> received_at, id |-> id + i] : i \in (p.from + 1)..p.to}

receive_logs(p) ==
  /\ ~p.filed
  /\ events' = events \cup to_event_rows(p, filed * (MaxMade + 1), turn)
  /\ filed' = filed + 1
  /\ posts' = (posts \ {p}) \cup {[p EXCEPT !.filed = TRUE]}
  /\ UNCHANGED <<exporting, turn, driver, exitFile, agent, made, sent, batch, usage, whole,
                 alone, faults>>

AnswerPost(p) ==
  /\ IF p.filed THEN UNCHANGED faults ELSE Fault
  /\ posts' = posts \ {p}
  /\ IF batch[p.turn] = [to |-> p.to, try |-> p.try] /\ sent[p.turn] = p.from
     THEN /\ sent' = [sent EXCEPT ![p.turn] = p.to]
          /\ batch' = [batch EXCEPT ![p.turn] = NoBatch]
     ELSE UNCHANGED <<sent, batch>>
  /\ UNCHANGED <<exporting, turn, driver, exitFile, agent, made, events, filed, usage, whole, alone>>

-----------------------------------------------------------------------------
(* The driver.  A launch records its time first, then removes the exit file  *)
(* and starts the agent.                                                     *)
set_agent_launched_at ==
  /\ driver = "idle" /\ turn < MaxTurns
  /\ turn' = turn + 1 /\ driver' = "launching"
  /\ alone' = IF \E t \in Turns : agent[t] = "running" THEN alone ELSE alone \cup {turn + 1}
  /\ UNCHANGED <<exporting, exitFile, agent, made, sent, batch, posts, events, filed, usage,
                 whole, faults>>
StartAgent ==
  /\ driver = "launching" /\ driver' = "polling"
  /\ exitFile' = FALSE
  /\ agent' = [agent EXCEPT ![turn] = "running"]
  /\ UNCHANGED <<exporting, turn, made, sent, batch, posts, events, filed, usage, whole, alone,
                 faults>>

(* The turn ends in a question, a timeout or a stop, after which nothing     *)
(* waits for the agent, or in "done".                                        *)
PollEnds ==
  /\ driver = "polling"
  /\ driver' \in {"idle", IF exporting THEN "awaiting" ELSE "unwatched"}
  /\ UNCHANGED <<exporting, turn, exitFile, agent, made, sent, batch, posts, events, filed,
                 usage, whole, alone, faults>>

(* Mutant of _await_agent_exit: the agent is taken to have exited.           *)
_await_nothing ==
  /\ driver = "awaiting" /\ driver' = "exited"
  /\ UNCHANGED <<exporting, turn, exitFile, agent, made, sent, batch, posts, events, filed,
                 usage, whole, alone, faults>>

_await_agent_exit ==
  /\ driver = "awaiting"
  /\ \/ exitFile /\ driver' = "exited"
     \/ driver' = "unwatched"
  /\ UNCHANGED <<exporting, turn, exitFile, agent, made, sent, batch, posts, events, filed,
                 usage, whole, alone, faults>>

(* get_agent_events returns the last Limit events of the turn that are not   *)
(* noise; those of a request to the model carry tokens.                      *)
Newest(rows) == {e \in rows : Cardinality({f \in rows : f.id > e.id}) < Limit}
get_agent_events(since) ==
  Newest({e \in events : e.received_at >= since /\ e.kind # "noise"})
Places(rows) ==
  {[turn |-> e.turn, seq |-> e.seq, copy |-> e.copy] : e \in {r \in rows : r.kind = "tokens"}}
usage_from_events(rows) == [f \in UsageFields |-> IF f = "num_turns" THEN {} ELSE Places(rows)]

(* What the CLI prints at its end, totals of its own; each field is taken    *)
(* from the events if they have it, and from the log otherwise.              *)
Tokens(t) == {[turn |-> t, seq |-> i, copy |-> 1] :
                i \in {j \in DOMAIN made[t] : made[t][j] = "tokens"}}
Totals(t)   == [f \in UsageFields |-> Tokens(t)]
parse_usage == IF agent[turn] = "exited" THEN Totals(turn) ELSE NoUsage
prefer_otel_usage(otel, log) == [f \in UsageFields |-> IF otel[f] # {} THEN otel[f] ELSE log[f]]

ReadUsage ==
  /\ driver \in {"exited", "unwatched"} /\ driver' = "idle"
  /\ usage' = [usage EXCEPT ![turn] =
                 prefer_otel_usage(usage_from_events(get_agent_events(turn)), parse_usage)]
  /\ whole' = IF turn \in alone /\ (driver = "exited" \/ (~exporting /\ agent[turn] = "exited"))
              THEN whole \cup {turn} ELSE whole
  /\ UNCHANGED <<exporting, turn, exitFile, agent, made, sent, batch, posts, events, filed,
                 alone, faults>>

-----------------------------------------------------------------------------
UsageInit ==
  /\ exporting \in BOOLEAN
  /\ turn = 0 /\ driver = "idle" /\ exitFile = FALSE
  /\ agent = [t \in Turns |-> "none"] /\ made = [t \in Turns |-> <<>>]
  /\ sent = [t \in Turns |-> 0] /\ batch = [t \in Turns |-> NoBatch]
  /\ posts = {} /\ events = {} /\ filed = 0
  /\ usage = [t \in Turns |-> NoUsage]
  /\ whole = {} /\ alone = {} /\ faults = 0

UsageNext ==
  \/ set_agent_launched_at \/ StartAgent \/ PollEnds \/ _await_agent_exit \/ ReadUsage
  \/ \E t \in Turns :
       \/ Export(t) \/ Resend(t) \/ LoseBatch(t) \/ Exit(t)
       \/ \E kind \in Kinds : MakeEvent(t, kind)
  \/ \E p \in posts : receive_logs(p) \/ AnswerPost(p)

UsageSpec == UsageInit /\ [][UsageNext]_usageVars

-----------------------------------------------------------------------------
(* If no batch was lost or posted twice and the agent had the sandbox to     *)
(* itself, a turn whose exit was observed has counted each of its requests,  *)
(* once, in every field, and nothing of another turn -- unless there are     *)
(* more events than a read returns ("every OTel batch it flushed has been    *)
(* received").                                                               *)
UsageIsWhole ==
  \A t \in whole :
    faults = 0 /\ Cardinality({i \in DOMAIN made[t] : made[t][i] # "noise"}) <= Limit
      => usage[t] = Totals(t)
=============================================================================
