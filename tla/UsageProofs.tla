----------------------------- MODULE UsageProofs -----------------------------
(***************************************************************************)
(* What the usage of a turn was counted from, for any number of turns,     *)
(* events and batches, and whatever the exporters of its agents do.        *)
(*                                                                         *)
(* The invariant follows an event from the agent to the row.  Driving and  *)
(* Watched say what the driver may conclude from an exit file: it is of    *)
(* the last agent, if that agent had the sandbox to itself.  Exact says    *)
(* that without a fault each event up to the last answered batch is one    *)
(* row, and that rows of other turns are older than the launch.            *)
(***************************************************************************)
EXTENDS Usage, FiniteSetTheorems, TLAPS

Row   == [turn : Turns, seq : Nat, kind : Kinds, copy : Nat, received_at : Nat, id : Nat]
Batch == [turn : Turns, from : Nat, to : Nat, try : Nat, filed : BOOLEAN]

UsageTypeOK ==
  /\ exporting \in BOOLEAN /\ turn \in 0..MaxTurns
  /\ driver \in {"idle", "launching", "polling", "awaiting", "exited", "unwatched"}
  /\ exitFile \in BOOLEAN
  /\ agent \in [Turns -> {"none", "running", "exited"}]
  /\ made \in [Turns -> Seq(Kinds)] /\ sent \in [Turns -> Nat]
  /\ batch \in [Turns -> [to : Nat, try : Nat]]
  /\ posts \subseteq Batch
  /\ events \subseteq Row /\ IsFiniteSet(events) /\ filed \in Nat
  /\ usage \in [Turns -> [UsageFields -> SUBSET [turn : Turns, seq : Nat, copy : Nat]]]
  /\ whole \subseteq Turns /\ alone \subseteq Turns /\ faults \in Nat

(* A batch is of events that its agent has made.                            *)
Carried == /\ \A p \in posts : p.to <= Len(made[p.turn])
           /\ \A t \in Turns : batch[t].to <= Len(made[t])

(* A turn is launched once, and its usage read once.                        *)
Driving ==
  /\ driver # "idle" => turn \in Turns /\ turn \notin whole
  /\ \A t \in whole \cup alone : t <= turn
  /\ \A t \in Turns : t > turn \/ (t = turn /\ driver = "launching") => agent[t] = "none"
  /\ \A t \in Turns : agent[t] = "none" => made[t] = <<>> /\ sent[t] = 0
  /\ \A t \in Turns : agent[t] # "running" => batch[t] = NoBatch
  /\ \A t \in whole : agent[t] = "exited"

(* Whose exit file it is.                                                   *)
Watched ==
  /\ driver = "exited" => exitFile
  /\ turn \in alone => /\ \A t \in Turns : agent[t] = "running" => t = turn
                       /\ exitFile /\ driver # "launching" => agent[turn] = "exited"

Silent == ~exporting => posts = {} /\ events = {} /\ \A t \in Turns : batch[t] = NoBatch

(* A request under way is the one its exporter waits for.                   *)
UnderWay ==
  \A p \in posts :
    /\ batch[p.turn] = [to |-> p.to, try |-> 1] /\ p.try = 1
    /\ p.from = sent[p.turn] /\ p.from < p.to
    /\ \A q \in posts : q.turn = p.turn => q = p

(* A row is one event of its agent, and the only one about it; rows of other *)
(* turns came before the launch of a turn that was alone.                    *)
Rows ==
  \A e \in events :
    /\ e.seq \in DOMAIN made[e.turn] /\ e.kind = made[e.turn][e.seq] /\ e.copy = 1
    /\ e.turn <= e.received_at /\ e.received_at <= turn
    /\ turn \in alone /\ e.turn # turn => e.received_at < turn
    /\ \/ e.seq <= sent[e.turn]
       \/ \E p \in posts : p.turn = e.turn /\ p.filed /\ e.seq <= p.to
    /\ \A f \in events : f.turn = e.turn /\ f.seq = e.seq => f = e

HasRow(t, i) == \E e \in events : e.turn = t /\ e.seq = i

(* No event is without its row once its batch has been filed; and an agent   *)
(* that exits has sent all.                                                  *)
Complete ==
  /\ \A t \in Turns : \A i \in 1..sent[t] : HasRow(t, i)
  /\ \A p \in posts : p.filed => \A i \in (p.from + 1)..p.to : HasRow(p.turn, i)
  /\ \A t \in Turns : exporting /\ agent[t] # "running" => sent[t] = Len(made[t])

Exact == faults = 0 => UnderWay /\ Rows /\ Complete

IInv == UsageTypeOK /\ Carried /\ Driving /\ Watched /\ Silent /\ Exact /\ UsageIsWhole

-----------------------------------------------------------------------------
(* The steps, without their guards on what TLC counts.                      *)
LEMMA MakeMoves ==
  ASSUME NEW t \in Turns, NEW kind \in Kinds, MakeEvent(t, kind)
  PROVE  /\ agent[t] = "running" /\ made' = [made EXCEPT ![t] = Append(@, kind)]
         /\ UNCHANGED <<exporting, turn, driver, exitFile, agent, sent, batch, posts, events, filed,
                        usage, whole, alone, faults>>
BY DEF MakeEvent

LEMMA Made ==
  ASSUME UsageTypeOK, NEW t \in Turns
  PROVE  /\ made[t] \in Seq(Kinds) /\ Len(made[t]) \in Nat /\ DOMAIN made[t] = 1..Len(made[t])
         /\ \A i \in DOMAIN made[t] : made[t][i] \in Kinds
         /\ sent[t] \in Nat /\ batch[t] \in [to : Nat, try : Nat] /\ batch[t].to \in Nat /\ batch[t].try \in Nat
BY DEF UsageTypeOK

LEMMA MoreMade ==
  ASSUME UsageTypeOK, NEW t \in Turns, NEW kind \in Kinds, made' = [made EXCEPT ![t] = Append(@, kind)]
  PROVE  /\ made' \in [Turns -> Seq(Kinds)]
         /\ \A u \in Turns : /\ u # t => made'[u] = made[u]
                             /\ DOMAIN made[u] \subseteq DOMAIN made'[u] /\ Len(made[u]) <= Len(made'[u])
                             /\ \A i \in DOMAIN made[u] : made'[u][i] = made[u][i]
<1>1. made \in [Turns -> Seq(Kinds)] /\ made[t] \in Seq(Kinds)
  BY DEF UsageTypeOK
<1>2. /\ Append(made[t], kind) \in Seq(Kinds) /\ Len(Append(made[t], kind)) = Len(made[t]) + 1
      /\ \A i \in 1..Len(made[t]) : Append(made[t], kind)[i] = made[t][i]
  BY <1>1
<1>3. made' \in [Turns -> Seq(Kinds)] /\ made'[t] = Append(made[t], kind)
  BY <1>1, <1>2
<1>4. ASSUME NEW u \in Turns
      PROVE  /\ u # t => made'[u] = made[u]
             /\ DOMAIN made[u] \subseteq DOMAIN made'[u] /\ Len(made[u]) <= Len(made'[u])
             /\ \A i \in DOMAIN made[u] : made'[u][i] = made[u][i]
  <2>1. CASE u # t
    <3>1. made'[u] = made[u]
      BY <1>1, <2>1
    <3>2. Len(made[u]) \in Nat
      BY Made
    <3>3. QED BY <2>1, <3>1, <3>2
  <2>2. CASE u = t
    <3>1. DOMAIN made[t] = 1..Len(made[t]) /\ Len(made[t]) \in Nat
      BY Made
    <3>2. DOMAIN Append(made[t], kind) = 1..(Len(made[t]) + 1)
      BY <1>2, <3>1
    <3>3. QED BY <1>2, <1>3, <2>2, <3>1, <3>2
  <2>3. QED BY <2>1, <2>2
<1>5. QED BY <1>3, <1>4

LEMMA PostType ==
  ASSUME UsageTypeOK, NEW p \in posts
  PROVE  /\ p.turn \in Turns /\ p.from \in Nat /\ p.to \in Nat /\ p.try \in Nat /\ p.filed \in BOOLEAN
         /\ [p EXCEPT !.filed = TRUE] \in Batch
BY DEF UsageTypeOK, Batch

LEMMA EventTypes ==
  ASSUME UsageTypeOK, NEW e \in events
  PROVE  /\ e.turn \in Turns /\ e.turn \in Nat /\ e.seq \in Nat /\ e.kind \in Kinds /\ e.copy \in Nat
         /\ e.received_at \in Nat /\ e.id \in Nat
BY DEF UsageTypeOK, Row, Turns

LEMMA NewRows ==
  ASSUME UsageTypeOK, NEW p \in posts, p.to <= Len(made[p.turn]), NEW at \in Nat, NEW id \in Nat
  PROVE  /\ to_event_rows(p, id, at) \subseteq Row /\ IsFiniteSet(to_event_rows(p, id, at))
         /\ \A e \in to_event_rows(p, id, at) :
              /\ e.turn = p.turn /\ e.seq \in (p.from + 1)..p.to /\ e.kind = made[p.turn][e.seq]
              /\ e.copy = p.try /\ e.received_at = at
              /\ \A f \in to_event_rows(p, id, at) : f.seq = e.seq => f = e
         /\ \A i \in (p.from + 1)..p.to : \E e \in to_event_rows(p, id, at) : e.turn = p.turn /\ e.seq = i
<1> DEFINE R(i) == [turn |-> p.turn, seq |-> i, kind |-> made[p.turn][i], copy |-> p.try,
                    received_at |-> at, id |-> id + i]
           I == (p.from + 1)..p.to
           f == [i \in I |-> R(i)]
           S == to_event_rows(p, id, at)
<1>1. /\ p.turn \in Turns /\ p.from \in Nat /\ p.to \in Nat /\ p.try \in Nat
      /\ DOMAIN made[p.turn] = 1..Len(made[p.turn]) /\ Len(made[p.turn]) \in Nat
      /\ \A i \in DOMAIN made[p.turn] : made[p.turn][i] \in Kinds
  BY PostType, Made
<1>2. S = {R(i) : i \in I}
  BY DEF to_event_rows
<1>3. \A i \in I : i \in Nat /\ made[p.turn][i] \in Kinds /\ id + i \in Nat
  BY <1>1
<1>4. \A i \in I : R(i) \in Row
  BY <1>1, <1>3 DEF Row
<1>5. IsFiniteSet(S)
  <2>1. IsFiniteSet(I)
    <3>1. p.from + 1 \in Int /\ p.to \in Int
      BY <1>1
    <3>2. QED BY <3>1, FS_Interval
  <2>2. f \in [I -> S] /\ \A e \in S : \E i \in I : f[i] = e
    BY <1>2
  <2>3. f \in Surjection(I, S)
    BY <2>2 DEF Surjection
  <2>4. QED BY <2>1, <2>3, FS_Surjection
<1>6. S \subseteq Row
  BY <1>2, <1>4
<1>7. ASSUME NEW e \in S
      PROVE  /\ e.turn = p.turn /\ e.seq \in I /\ e.kind = made[p.turn][e.seq]
             /\ e.copy = p.try /\ e.received_at = at
             /\ \A g \in S : g.seq = e.seq => g = e
  <2>1. PICK i \in I : e = R(i)
    BY <1>2
  <2>2. \A g \in S : \E j \in I : g = R(j) /\ g.seq = j
    BY <1>2
  <2>3. e.seq = i
    BY <2>1
  <2>4. QED BY <2>1, <2>2, <2>3
<1>8. ASSUME NEW i \in I PROVE \E e \in S : e.turn = p.turn /\ e.seq = i
  <2>1. R(i) \in S /\ R(i).turn = p.turn /\ R(i).seq = i
    BY <1>2
  <2>2. QED BY <2>1
<1>9. QED BY <1>5, <1>6, <1>7, <1>8

-----------------------------------------------------------------------------
LEMMA ExporterTypes ==
  ASSUME UsageTypeOK, Carried, NEW t \in Turns,
         Export(t) \/ Resend(t) \/ LoseBatch(t) \/ Exit(t) \/ \E kind \in Kinds : MakeEvent(t, kind)
  PROVE  UsageTypeOK' /\ Carried'
<1>1. NoBatch \in [to : Nat, try : Nat]
  BY DEF NoBatch
<1>2. faults \in Nat
  BY DEF UsageTypeOK
<1>3. CASE Export(t) \/ Resend(t)
  <2>1. \E to, try \in Nat : Post(t, to, try) /\ to <= Len(made[t])
    <3>1. CASE Export(t)
      BY <3>1, Made DEF Export
    <3>2. CASE Resend(t)
      <4>1. batch[t].to \in Nat /\ batch[t].try + 1 \in Nat /\ batch[t].to <= Len(made[t])
        BY Made DEF Carried
      <4>2. QED BY <3>2, <4>1 DEF Resend
    <3>3. QED BY <1>3, <3>1, <3>2
  <2>2. PICK to \in Nat, try \in Nat : Post(t, to, try) /\ to <= Len(made[t])
    BY <2>1
  <2> DEFINE p == [turn |-> t, from |-> sent[t], to |-> to, try |-> try, filed |-> FALSE]
  <2>3. p \in Batch /\ p.turn = t /\ p.to = to
    BY Made DEF Batch
  <2>4. batch' = [batch EXCEPT ![t] = [to |-> to, try |-> try]] /\ posts' = posts \cup {p}
    BY <2>2 DEF Post
  <2>5. faults' \in Nat
    BY <1>2, <1>3 DEF Export, Resend, Fault
  <2>6. UNCHANGED <<exporting, turn, driver, exitFile, agent, made, sent, events, filed, usage, whole, alone>>
    BY <2>2 DEF Post
  <2> HIDE DEF p
  <2>7. batch' \in [Turns -> [to : Nat, try : Nat]] /\ posts' \subseteq Batch
    BY <2>3, <2>4 DEF UsageTypeOK
  <2>8. UsageTypeOK'
    BY <2>5, <2>6, <2>7 DEF UsageTypeOK, Batch, Row, Turns
  <2>9. \A u \in Turns : batch'[u].to <= Len(made[u])
    <3>1. batch \in [Turns -> [to : Nat, try : Nat]]
      BY DEF UsageTypeOK
    <3>2. \A u \in Turns : batch'[u] = IF u = t THEN [to |-> to, try |-> try] ELSE batch[u]
      BY <2>4, <3>1
    <3>3. QED BY <2>2, <3>2 DEF Carried
  <2>10. QED BY <2>2, <2>3, <2>4, <2>6, <2>8, <2>9 DEF Carried
<1>4. CASE LoseBatch(t)
  <2>1. /\ sent' = [sent EXCEPT ![t] = batch[t].to] /\ batch' = [batch EXCEPT ![t] = NoBatch]
        /\ faults' = faults + 1
        /\ UNCHANGED <<exporting, turn, driver, exitFile, agent, made, posts, events, filed, usage, whole, alone>>
    BY <1>4 DEF LoseBatch, Fault
  <2>2. /\ batch' \in [Turns -> [to : Nat, try : Nat]] /\ sent' \in [Turns -> Nat]
        /\ faults' \in Nat
    BY <1>1, <1>2, <2>1, Made DEF UsageTypeOK
  <2>3. UsageTypeOK'
    BY <2>1, <2>2 DEF UsageTypeOK, Batch, Row, Turns
  <2>4. \A u \in Turns : batch'[u].to <= Len(made[u])
    BY <1>1, <2>1, Made DEF UsageTypeOK, Carried, NoBatch
  <2>5. QED BY <2>1, <2>3, <2>4 DEF Carried
<1>5. CASE Exit(t)
  <2>1. /\ agent' = [agent EXCEPT ![t] = "exited"] /\ batch' = [batch EXCEPT ![t] = NoBatch]
        /\ exitFile' = TRUE
        /\ UNCHANGED <<exporting, turn, driver, made, sent, posts, events, filed, usage, whole, alone>>
    BY <1>5 DEF Exit
  <2>2. /\ batch' \in [Turns -> [to : Nat, try : Nat]]
        /\ agent' \in [Turns -> {"none", "running", "exited"}]
    BY <1>1, <2>1 DEF UsageTypeOK
  <2>3. faults' \in Nat
    BY <1>2, <1>5 DEF Exit, Fault
  <2>4. UsageTypeOK'
    BY <2>1, <2>2, <2>3 DEF UsageTypeOK, Batch, Row, Turns
  <2>5. \A u \in Turns : batch'[u].to <= Len(made[u])
    BY <1>1, <2>1, Made DEF UsageTypeOK, Carried, NoBatch
  <2>6. QED BY <2>1, <2>4, <2>5 DEF Carried
<1>6. ASSUME NEW kind \in Kinds, MakeEvent(t, kind) PROVE UsageTypeOK' /\ Carried'
  <2>1. /\ made' = [made EXCEPT ![t] = Append(@, kind)]
        /\ UNCHANGED <<exporting, turn, driver, exitFile, agent, sent, batch, posts, events, filed,
                        usage, whole, alone, faults>>
    BY <1>6, MakeMoves
  <2>2. made' \in [Turns -> Seq(Kinds)] /\ \A u \in Turns : Len(made[u]) <= Len(made'[u])
    BY <2>1, MoreMade
  <2>0. \A u \in Turns : Len(made'[u]) \in Nat /\ Len(made[u]) \in Nat
    BY <2>2, Made
  <2>3. UsageTypeOK'
    BY <2>1, <2>2 DEF UsageTypeOK, Batch, Row, Turns
  <2>4. \A u \in Turns : batch'[u].to <= Len(made'[u])
    BY <2>0, <2>1, <2>2, Made DEF Carried
  <2>5. ASSUME NEW p \in posts PROVE p.to <= Len(made'[p.turn])
    <3>1. p.turn \in Turns /\ p.to \in Nat /\ p.to <= Len(made[p.turn])
      BY PostType DEF Carried
    <3>2. QED BY <2>0, <2>2, <3>1
  <2>6. QED BY <2>1, <2>3, <2>4, <2>5 DEF Carried
<1>7. QED BY <1>3, <1>4, <1>5, <1>6

LEMMA ReceiverTypes ==
  ASSUME UsageTypeOK, Carried, NEW p \in posts, receive_logs(p) \/ AnswerPost(p)
  PROVE  UsageTypeOK' /\ Carried'
<1>1. faults \in Nat /\ filed \in Nat /\ turn \in Nat /\ MaxMade \in Nat
  BY UsageAssumption DEF UsageTypeOK
<1>2. p.turn \in Turns /\ p.to \in Nat /\ p.to <= Len(made[p.turn])
  BY PostType DEF Carried
<1>3. CASE receive_logs(p)
  <2> DEFINE id == filed * (MaxMade + 1)
             new == to_event_rows(p, id, turn)
             q == [p EXCEPT !.filed = TRUE]
  <2>1. /\ events' = events \cup new /\ filed' = filed + 1 /\ posts' = (posts \ {p}) \cup {q}
        /\ UNCHANGED <<exporting, turn, driver, exitFile, agent, made, sent, batch, usage, whole, alone, faults>>
    BY <1>3 DEF receive_logs
  <2>2. id \in Nat
    BY <1>1
  <2>3. new \subseteq Row /\ IsFiniteSet(new)
    <3> HIDE DEF id
    <3> QED BY <1>1, <1>2, <2>2, NewRows
  <2>4. events' \subseteq Row /\ IsFiniteSet(events')
    <3> HIDE DEF new
    <3> QED BY <2>1, <2>3, FS_Union DEF UsageTypeOK
  <2>5. q \in Batch /\ q.turn = p.turn /\ q.to = p.to
    BY PostType DEF UsageTypeOK, Batch
  <2> HIDE DEF q, new, id
  <2>6. posts' \subseteq Batch
    BY <2>1, <2>5 DEF UsageTypeOK
  <2>7. UsageTypeOK'
    BY <1>1, <2>1, <2>4, <2>6 DEF UsageTypeOK, Batch, Row, Turns
  <2>8. QED BY <1>2, <2>1, <2>5, <2>7 DEF Carried
<1>4. CASE AnswerPost(p)
  <2>1. /\ posts' = posts \ {p}
        /\ \/ sent' = [sent EXCEPT ![p.turn] = p.to] /\ batch' = [batch EXCEPT ![p.turn] = NoBatch]
           \/ UNCHANGED <<sent, batch>>
        /\ UNCHANGED <<exporting, turn, driver, exitFile, agent, made, events, filed, usage, whole, alone>>
    BY <1>4 DEF AnswerPost
  <2>2. faults' \in Nat
    BY <1>1, <1>4 DEF AnswerPost, Fault
  <2>3. /\ batch' \in [Turns -> [to : Nat, try : Nat]] /\ sent' \in [Turns -> Nat]
        /\ \A u \in Turns : batch'[u] = batch[u] \/ batch'[u] = NoBatch
    <3>1. NoBatch \in [to : Nat, try : Nat]
      BY DEF NoBatch
    <3>2. batch \in [Turns -> [to : Nat, try : Nat]] /\ sent \in [Turns -> Nat]
      BY DEF UsageTypeOK
    <3>3. CASE UNCHANGED <<sent, batch>>
      BY <3>2, <3>3
    <3>4. CASE sent' = [sent EXCEPT ![p.turn] = p.to] /\ batch' = [batch EXCEPT ![p.turn] = NoBatch]
      BY <1>2, <3>1, <3>2, <3>4
    <3>5. QED BY <2>1, <3>3, <3>4
  <2>4. UsageTypeOK'
    BY <2>1, <2>2, <2>3 DEF UsageTypeOK, Batch, Row, Turns
  <2>5. ASSUME NEW u \in Turns PROVE batch'[u].to <= Len(made[u])
    <3>1. NoBatch.to = 0 /\ Len(made[u]) \in Nat
      BY Made DEF NoBatch
    <3>2. batch[u].to <= Len(made[u])
      BY DEF Carried
    <3>3. QED BY <2>3, <3>1, <3>2
  <2>6. QED BY <2>1, <2>4, <2>5 DEF Carried
<1>5. QED BY <1>3, <1>4

(* What a turn's usage is counted from are sets of its events' places.      *)
Counting == [UsageFields -> SUBSET [turn : Turns, seq : Nat, copy : Nat]]

LEMMA Counts ==
  ASSUME UsageTypeOK, turn \in Turns
  PROVE  prefer_otel_usage(usage_from_events(get_agent_events(turn)), parse_usage) \in Counting
<1> DEFINE All == [turn : Turns, seq : Nat, copy : Nat]
<1>1. Places(get_agent_events(turn)) \subseteq All
  <2> DEFINE rows == get_agent_events(turn)
             Place(e) == [turn |-> e.turn, seq |-> e.seq, copy |-> e.copy]
  <2>1. rows \subseteq events
    BY DEF get_agent_events, Newest
  <2>2. \A e \in rows : Place(e) \in All
    BY <2>1, EventTypes
  <2>3. Places(rows) = {Place(e) : e \in {r \in rows : r.kind = "tokens"}}
    BY DEF Places
  <2> HIDE DEF rows, All, Place
  <2>4. Places(rows) \subseteq All
    BY <2>2, <2>3
  <2>5. QED BY <2>4 DEF rows
<1>2. Tokens(turn) \subseteq All
  BY Made DEF Tokens
<1> HIDE DEF All
<1>3. usage_from_events(get_agent_events(turn)) \in [UsageFields -> SUBSET All]
  BY <1>1 DEF usage_from_events
<1>4. parse_usage \in [UsageFields -> SUBSET All]
  BY <1>2 DEF parse_usage, Totals, NoUsage
<1>5. prefer_otel_usage(usage_from_events(get_agent_events(turn)), parse_usage) \in [UsageFields -> SUBSET All]
  BY <1>3, <1>4 DEF prefer_otel_usage
<1>6. QED BY <1>5 DEF Counting, All

LEMMA DriverTypes ==
  ASSUME UsageTypeOK, Carried, Driving,
         set_agent_launched_at \/ StartAgent \/ PollEnds \/ _await_agent_exit \/ ReadUsage
  PROVE  UsageTypeOK' /\ Carried'
<1>1. UNCHANGED <<exporting, made, sent, batch, posts, events, filed, faults>>
  BY DEF set_agent_launched_at, StartAgent, PollEnds, _await_agent_exit, ReadUsage
<1>2. Carried'
  BY <1>1 DEF Carried
<1>3. CASE set_agent_launched_at
  <2>1. turn + 1 \in Turns /\ turn' = turn + 1
    BY <1>3, UsageAssumption DEF set_agent_launched_at, UsageTypeOK, Turns
  <2>2. turn' \in 0..MaxTurns /\ alone' \subseteq Turns /\ driver' = "launching" /\ UNCHANGED <<exitFile, agent, usage, whole>>
    BY <1>3, <2>1, UsageAssumption DEF set_agent_launched_at, UsageTypeOK, Turns
  <2>3. QED BY <1>1, <1>2, <2>2 DEF UsageTypeOK, Batch, Row, Turns
<1>4. CASE StartAgent
  <2>1. agent' \in [Turns -> {"none", "running", "exited"}] /\ exitFile' = FALSE /\ driver' = "polling"
    BY <1>4 DEF StartAgent, UsageTypeOK
  <2>2. QED BY <1>1, <1>2, <1>4, <2>1 DEF StartAgent, UsageTypeOK, Batch, Row, Turns
<1>5. CASE PollEnds \/ _await_agent_exit
  BY <1>1, <1>2, <1>5 DEF PollEnds, _await_agent_exit, UsageTypeOK, Batch, Row, Turns
<1>6. CASE ReadUsage
  <2>1. turn \in Turns
    BY <1>6 DEF ReadUsage, Driving
  <2>2. usage' = [usage EXCEPT ![turn] = prefer_otel_usage(usage_from_events(get_agent_events(turn)), parse_usage)]
    BY <1>6 DEF ReadUsage
  <2>3. usage' \in [Turns -> Counting]
    BY <2>1, <2>2, Counts DEF UsageTypeOK, Counting
  <2>4. whole' \subseteq Turns /\ driver' = "idle" /\ UNCHANGED <<turn, exitFile, agent, alone>>
    BY <1>6, <2>1 DEF ReadUsage, UsageTypeOK
  <2>5. QED BY <1>1, <1>2, <2>3, <2>4 DEF UsageTypeOK, Batch, Row, Turns, Counting
<1>7. QED BY <1>3, <1>4, <1>5, <1>6

LEMMA TypeStep == UsageTypeOK /\ Carried /\ Driving /\ [UsageNext]_usageVars => UsageTypeOK' /\ Carried'
<1> SUFFICES ASSUME UsageTypeOK, Carried, Driving, [UsageNext]_usageVars PROVE UsageTypeOK' /\ Carried'
  OBVIOUS
<1>1. CASE UNCHANGED usageVars
  BY <1>1 DEF usageVars, UsageTypeOK, Carried, Batch, Row, Turns
<1>2. QED BY <1>1, ExporterTypes, ReceiverTypes, DriverTypes DEF UsageNext

-----------------------------------------------------------------------------
(* The driver, the agents and the exit file.                                *)
LEMMA DrivingStep == UsageTypeOK /\ Driving /\ Watched /\ [UsageNext]_usageVars => Driving'
<1> SUFFICES ASSUME UsageTypeOK, Driving, Watched, [UsageNext]_usageVars PROVE Driving'
  OBVIOUS
<1>1. /\ agent \in [Turns -> {"none", "running", "exited"}] /\ turn \in 0..MaxTurns /\ MaxTurns \in Nat
      /\ sent \in [Turns -> Nat] /\ batch \in [Turns -> [to : Nat, try : Nat]] /\ made \in [Turns -> Seq(Kinds)]
      /\ whole \subseteq Turns /\ alone \subseteq Turns /\ Turns = 1..MaxTurns
  BY UsageAssumption DEF UsageTypeOK, Turns
<1>2. CASE set_agent_launched_at
  <2>1. /\ turn' = turn + 1 /\ turn < MaxTurns /\ alone' \subseteq alone \cup {turn + 1} /\ driver = "idle"
        /\ driver' = "launching" /\ UNCHANGED <<agent, made, sent, batch, whole>>
    BY <1>2 DEF set_agent_launched_at
  <2>2. \A t \in whole \cup alone : t <= turn
    BY DEF Driving
  <2>3. turn' \in Turns /\ turn' \notin whole /\ \A t \in whole \cup alone' : t <= turn'
    BY <1>1, <2>1, <2>2
  <2>4. \A t \in Turns : t > turn' \/ (t = turn' /\ driver' = "launching") => agent[t] = "none"
    BY <1>1, <2>1 DEF Driving
  <2>5. QED BY <2>1, <2>3, <2>4 DEF Driving
<1>3. CASE StartAgent
  <2>1. /\ driver = "launching" /\ driver' = "polling" /\ agent' = [agent EXCEPT ![turn] = "running"]
        /\ UNCHANGED <<turn, made, sent, batch, whole, alone>>
    BY <1>3 DEF StartAgent
  <2>2. turn \in Turns /\ turn \notin whole /\ agent[turn] = "none"
    BY <2>1 DEF Driving
  <2>3. \A t \in Turns : agent'[t] = IF t = turn THEN "running" ELSE agent[t]
    BY <1>1, <2>1
  <2>4. \A t \in Turns : t > turn => agent'[t] = "none"
    <3>1. \A t \in Turns : t > turn => agent[t] = "none"
      BY DEF Driving
    <3>2. turn \in Nat /\ \A t \in Turns : t \in Nat
      BY <1>1
    <3>3. \A t \in Turns : t > turn => t # turn
      BY <3>2
    <3>4. QED BY <2>3, <3>1, <3>3
  <2>5. \A t \in whole : agent'[t] = "exited"
    BY <1>1, <2>2, <2>3 DEF Driving
  <2>6. \A t \in Turns : /\ agent'[t] = "none" => made[t] = <<>> /\ sent[t] = 0
                         /\ agent'[t] # "running" => batch[t] = NoBatch
    BY <2>3 DEF Driving
  <2>7. QED BY <2>1, <2>2, <2>4, <2>5, <2>6 DEF Driving
<1>4. CASE PollEnds \/ _await_agent_exit
  <2>1. /\ driver \notin {"idle", "launching"} /\ driver' # "launching"
        /\ UNCHANGED <<turn, agent, made, sent, batch, whole, alone>>
    BY <1>4 DEF PollEnds, _await_agent_exit
  <2>2. QED BY <2>1 DEF Driving
<1>5. CASE ReadUsage
  <2>1. /\ driver \in {"exited", "unwatched"} /\ driver' = "idle" /\ whole' \subseteq whole \cup {turn}
        /\ UNCHANGED <<turn, agent, made, sent, batch, alone>>
    BY <1>5 DEF ReadUsage
  <2>2. turn \in Turns /\ turn <= turn
    BY <1>1, <2>1 DEF Driving
  <2>3. whole' # whole => agent[turn] = "exited"
    <3>1. whole' # whole => turn \in alone /\ (driver = "exited" \/ agent[turn] = "exited")
      BY <1>5 DEF ReadUsage
    <3>2. driver = "exited" /\ turn \in alone => agent[turn] = "exited"
      BY DEF Watched
    <3>3. QED BY <3>1, <3>2
  <2>4. \A t \in whole' : t <= turn /\ agent[t] = "exited"
    BY <2>1, <2>2, <2>3 DEF Driving
  <2>5. QED BY <2>1, <2>4 DEF Driving
<1>6. ASSUME NEW t \in Turns, Export(t) \/ Resend(t) \/ LoseBatch(t) PROVE Driving'
  <2>1. /\ agent[t] = "running" /\ UNCHANGED <<driver, turn, agent, made, whole, alone>>
        /\ \A u \in Turns \ {t} : batch'[u] = batch[u] /\ sent'[u] = sent[u]
    BY <1>1, <1>6 DEF Export, Resend, LoseBatch, Post
  <2>2. QED BY <2>1 DEF Driving
<1>7. ASSUME NEW t \in Turns, Exit(t) PROVE Driving'
  <2>1. /\ agent[t] = "running" /\ agent' = [agent EXCEPT ![t] = "exited"] /\ batch' = [batch EXCEPT ![t] = NoBatch]
        /\ UNCHANGED <<driver, turn, made, sent, whole, alone>>
    BY <1>7 DEF Exit
  <2>2. \A u \in Turns : /\ agent'[u] = IF u = t THEN "exited" ELSE agent[u]
                         /\ batch'[u] = IF u = t THEN NoBatch ELSE batch[u]
    BY <1>1, <2>1
  <2>3. \A u \in Turns : u # t => agent'[u] = agent[u] /\ batch'[u] = batch[u]
    BY <2>2
  <2>4. agent'[t] = "exited" /\ batch'[t] = NoBatch
    BY <2>2
  <2>5. \A u \in Turns : agent[u] = "none" <=> agent'[u] = "none"
    BY <2>1, <2>3, <2>4
  <2>6. \A u \in Turns : agent'[u] # "running" => batch'[u] = NoBatch
    BY <2>3, <2>4 DEF Driving
  <2>7. \A u \in whole : agent'[u] = "exited"
    BY <1>1, <2>3, <2>4 DEF Driving
  <2>8. /\ driver # "idle" => turn \in Turns /\ turn \notin whole
        /\ \A u \in whole \cup alone : u <= turn
    BY DEF Driving
  <2>9. \A u \in Turns : /\ u > turn \/ (u = turn /\ driver = "launching") => agent'[u] = "none"
                         /\ agent'[u] = "none" => made[u] = <<>> /\ sent[u] = 0
    BY <2>5 DEF Driving
  <2>10. QED BY <2>1, <2>6, <2>7, <2>8, <2>9 DEF Driving
<1>8. ASSUME NEW t \in Turns, NEW kind \in Kinds, MakeEvent(t, kind) PROVE Driving'
  <2>1. /\ agent[t] = "running" /\ UNCHANGED <<driver, turn, agent, sent, batch, whole, alone>>
        /\ \A u \in Turns \ {t} : made'[u] = made[u]
    BY <1>8, MakeMoves, MoreMade
  <2>2. QED BY <2>1 DEF Driving
<1>9. ASSUME NEW p \in posts, receive_logs(p) PROVE Driving'
  BY <1>9 DEF receive_logs, Driving
<1>10. ASSUME NEW p \in posts, AnswerPost(p) PROVE Driving'
  <2>1. CASE UNCHANGED <<sent, batch>>
    BY <1>10, <2>1 DEF AnswerPost, Driving
  <2>2. CASE /\ batch[p.turn] = [to |-> p.to, try |-> p.try]
             /\ sent' = [sent EXCEPT ![p.turn] = p.to] /\ batch' = [batch EXCEPT ![p.turn] = NoBatch]
    <3>1. p.turn \in Turns
      BY PostType
    <3>2. agent[p.turn] = "none" => p.to = 0
      BY <2>2, <3>1 DEF Driving, NoBatch
    <3>3. \A u \in Turns : /\ sent'[u] = IF u = p.turn THEN p.to ELSE sent[u]
                           /\ batch'[u] = IF u = p.turn THEN NoBatch ELSE batch[u]
      BY <1>1, <2>2
    <3>4. UNCHANGED <<driver, turn, agent, made, whole, alone>>
      BY <1>10 DEF AnswerPost
    <3>5. \A u \in Turns : agent[u] = "none" => made[u] = <<>> /\ sent'[u] = 0
      BY <3>2, <3>3 DEF Driving
    <3>6. \A u \in Turns : agent[u] # "running" => batch'[u] = NoBatch
      BY <3>3 DEF Driving
    <3>7. QED BY <3>4, <3>5, <3>6 DEF Driving
  <2>3. QED BY <1>10, <2>1, <2>2 DEF AnswerPost
<1>11. CASE UNCHANGED usageVars
  BY <1>11 DEF usageVars, Driving
<1>12. QED
  BY <1>2, <1>3, <1>4, <1>5, <1>6, <1>7, <1>8, <1>9, <1>10, <1>11 DEF UsageNext

LEMMA WatchedStep == UsageTypeOK /\ Driving /\ Watched /\ [UsageNext]_usageVars => Watched'
<1> SUFFICES ASSUME UsageTypeOK, Driving, Watched, [UsageNext]_usageVars PROVE Watched'
  OBVIOUS
<1>1. agent \in [Turns -> {"none", "running", "exited"}] /\ turn \in Nat /\ \A t \in alone : t <= turn
  BY DEF UsageTypeOK, Driving
<1>2. CASE set_agent_launched_at
  <2>1. /\ turn' = turn + 1 /\ driver' = "launching" /\ UNCHANGED agent
        /\ alone' = IF \E t \in Turns : agent[t] = "running" THEN alone ELSE alone \cup {turn + 1}
    BY <1>2 DEF set_agent_launched_at
  <2>2. turn + 1 \notin alone
    BY <1>1
  <2>3. turn' \in alone' => \A t \in Turns : agent[t] # "running"
    BY <2>1, <2>2
  <2>4. QED BY <2>1, <2>3 DEF Watched
<1>3. CASE StartAgent
  <2>1. /\ driver' = "polling" /\ exitFile' = FALSE /\ agent' = [agent EXCEPT ![turn] = "running"]
        /\ UNCHANGED <<turn, alone>> /\ turn \in Turns
    BY <1>3 DEF StartAgent, Driving
  <2>2. \A t \in Turns : agent'[t] = IF t = turn THEN "running" ELSE agent[t]
    BY <1>1, <2>1
  <2>3. QED BY <2>1, <2>2 DEF Watched
<1>4. CASE PollEnds \/ _await_agent_exit \/ ReadUsage
  <2>1. /\ UNCHANGED <<turn, agent, exitFile, alone>> /\ driver # "launching" /\ driver' # "launching"
        /\ driver' = "exited" => exitFile
    BY <1>4 DEF PollEnds, _await_agent_exit, ReadUsage
  <2>2. QED BY <2>1 DEF Watched
<1>5. ASSUME NEW t \in Turns, Exit(t) PROVE Watched'
  <2>1. /\ agent[t] = "running" /\ exitFile' = TRUE /\ agent' = [agent EXCEPT ![t] = "exited"]
        /\ UNCHANGED <<turn, driver, alone>>
    BY <1>5 DEF Exit
  <2>2. \A u \in Turns : agent'[u] = IF u = t THEN "exited" ELSE agent[u]
    BY <1>1, <2>1
  <2>3. QED BY <1>1, <2>1, <2>2 DEF Watched
<1>6. CASE UNCHANGED <<turn, driver, agent, exitFile, alone>>
  BY <1>6 DEF Watched
<1>7. ASSUME NEW t \in Turns, Export(t) \/ Resend(t) \/ LoseBatch(t) \/ \E kind \in Kinds : MakeEvent(t, kind)
      PROVE  Watched'
  BY <1>6, <1>7, MakeMoves DEF Export, Resend, LoseBatch, Post
<1>8. ASSUME NEW p \in posts, receive_logs(p) \/ AnswerPost(p) PROVE Watched'
  BY <1>6, <1>8 DEF receive_logs, AnswerPost
<1>9. QED
  BY <1>2, <1>3, <1>4, <1>5, <1>6, <1>7, <1>8 DEF UsageNext, usageVars

LEMMA SilentStep == UsageTypeOK /\ Silent /\ [UsageNext]_usageVars => Silent'
<1> SUFFICES ASSUME UsageTypeOK, Silent, [UsageNext]_usageVars, ~exporting'
             PROVE  posts' = {} /\ events' = {} /\ \A t \in Turns : batch'[t] = NoBatch
  BY DEF Silent
<1>1. batch \in [Turns -> [to : Nat, try : Nat]]
  BY DEF UsageTypeOK
<1>2. UNCHANGED exporting
  BY MakeMoves DEF UsageNext, set_agent_launched_at, StartAgent, PollEnds, _await_agent_exit, ReadUsage, Export,
     Resend, LoseBatch, Post, Exit, receive_logs, AnswerPost, usageVars
<1>3. ~exporting /\ posts = {} /\ events = {} /\ \A t \in Turns : batch[t] = NoBatch
  BY <1>2 DEF Silent
<1>4. ASSUME NEW t \in Turns, Exit(t) \/ \E kind \in Kinds : MakeEvent(t, kind)
      PROVE  posts' = {} /\ events' = {} /\ \A u \in Turns : batch'[u] = NoBatch
  BY <1>1, <1>3, <1>4, MakeMoves DEF Exit
<1>5. ASSUME NEW t \in Turns PROVE ~Export(t) /\ ~Resend(t) /\ ~LoseBatch(t)
  BY <1>3 DEF Export, Resend, LoseBatch
<1>6. CASE UNCHANGED <<posts, events, batch>>
  BY <1>3, <1>6
<1>7. QED
  BY <1>3, <1>4, <1>5, <1>6
  DEF UsageNext, set_agent_launched_at, StartAgent, PollEnds, _await_agent_exit, ReadUsage, usageVars

-----------------------------------------------------------------------------
(* Without a fault: an event, its batch, its row.                           *)
LEMMA NoFault ==
  ASSUME UsageTypeOK, [UsageNext]_usageVars, faults' = 0
  PROVE  faults = 0 /\ ~Fault
<1>1. faults \in Nat
  BY DEF UsageTypeOK
<1>2. faults' = faults \/ Fault
  BY MakeMoves DEF UsageNext, set_agent_launched_at, StartAgent, PollEnds, _await_agent_exit, ReadUsage, Export,
     Resend, LoseBatch, Exit, receive_logs, AnswerPost, usageVars
<1>3. Fault => faults' = faults + 1
  BY DEF Fault
<1>4. QED BY <1>1, <1>2, <1>3

LEMMA Awaited ==
  ASSUME UsageTypeOK, UnderWay, NEW q \in posts
  PROVE  /\ batch[q.turn] = [to |-> q.to, try |-> 1] /\ batch[q.turn].to = q.to /\ batch[q.turn] # NoBatch
         /\ q.try = 1 /\ q.from = sent[q.turn] /\ q.from < q.to /\ q.from \in Nat /\ q.to \in Nat
         /\ \A r \in posts : r.turn = q.turn => r = q
<1>1. /\ batch[q.turn] = [to |-> q.to, try |-> 1] /\ q.try = 1 /\ q.from = sent[q.turn] /\ q.from < q.to
      /\ \A r \in posts : r.turn = q.turn => r = q
  BY DEF UnderWay
<1>2. q.from \in Nat /\ q.to \in Nat
  BY PostType
<1>3. batch[q.turn].to = q.to
  BY <1>1
<1>4. batch[q.turn] # NoBatch
  <2>1. NoBatch.to = 0
    BY DEF NoBatch
  <2>2. q.to # 0
    BY <1>1, <1>2
  <2>3. QED BY <1>3, <2>1, <2>2
<1>5. QED BY <1>1, <1>2, <1>3, <1>4

(* What is on its way does not move, and more may be made.                  *)
LEMMA ExactKept ==
  ASSUME UsageTypeOK, UnderWay, Rows, Complete,
         UNCHANGED <<turn, exporting, sent, posts, events, alone>>,
         \A t \in Turns : /\ DOMAIN made[t] \subseteq DOMAIN made'[t]
                          /\ \A i \in DOMAIN made[t] : made'[t][i] = made[t][i]
                          /\ agent'[t] # "running" /\ exporting => sent[t] = Len(made'[t]),
         \A p \in posts : batch'[p.turn] = batch[p.turn]
  PROVE  UnderWay' /\ Rows' /\ Complete'
<1>1. UnderWay'
  BY DEF UnderWay
<1>2. Rows'
  <2>1. \A e \in events : e.seq \in DOMAIN made'[e.turn] /\ e.kind = made'[e.turn][e.seq]
    BY EventTypes DEF Rows
  <2>2. QED BY <2>1 DEF Rows
<1>3. Complete'
  BY DEF Complete, HasRow
<1>4. QED BY <1>1, <1>2, <1>3

LEMMA ExactLaunch ==
  ASSUME UsageTypeOK, Driving, UnderWay, Rows, Complete, set_agent_launched_at
  PROVE  UnderWay' /\ Rows' /\ Complete'
<1>1. UNCHANGED <<exporting, made, sent, batch, posts, events, agent>> /\ turn' = turn + 1 /\ turn \in Nat
  BY DEF set_agent_launched_at, UsageTypeOK
<1>2. UnderWay' /\ Complete'
  BY <1>1 DEF UnderWay, Complete, HasRow
<1>3. \A e \in events : e.received_at <= turn' /\ e.received_at < turn'
  BY <1>1, EventTypes DEF Rows
<1>4. Rows'
  BY <1>1, <1>3 DEF Rows
<1>5. QED BY <1>2, <1>4

LEMMA ExactExport ==
  ASSUME UsageTypeOK, Driving, UnderWay, Rows, Complete, NEW t \in Turns, Export(t)
  PROVE  UnderWay' /\ Rows' /\ Complete'
<1> DEFINE n == Len(made[t])
           p == [turn |-> t, from |-> sent[t], to |-> n, try |-> 1, filed |-> FALSE]
<1>1. /\ batch' = [batch EXCEPT ![t] = [to |-> n, try |-> 1]] /\ posts' = posts \cup {p}
      /\ batch[t] = NoBatch /\ sent[t] < n
      /\ UNCHANGED <<exporting, turn, agent, made, sent, events, alone>>
  BY DEF Export, Post
<1>2. /\ p.turn = t /\ p.from = sent[t] /\ p.to = n /\ p.try = 1 /\ p.filed = FALSE
  OBVIOUS
<1>3. \A q \in posts : q.turn # t
  <2>1. \A q \in posts : batch[q.turn].to = q.to /\ q.from < q.to /\ q.from \in Nat /\ q.to \in Nat
    BY Awaited
  <2>2. batch[t].to = 0
    BY <1>1 DEF NoBatch
  <2>3. QED BY <2>1, <2>2
<1>4. \A u \in Turns : batch'[u] = IF u = t THEN [to |-> n, try |-> 1] ELSE batch[u]
  BY <1>1 DEF UsageTypeOK
<1> HIDE DEF p
<1>5. UnderWay'
  <2> SUFFICES ASSUME NEW q \in posts'
               PROVE  /\ batch'[q.turn] = [to |-> q.to, try |-> 1] /\ q.try = 1
                      /\ q.from = sent[q.turn] /\ q.from < q.to
                      /\ \A r \in posts' : r.turn = q.turn => r = q
    BY <1>1 DEF UnderWay
  <2>1. CASE q = p
    BY <1>1, <1>2, <1>3, <1>4, <2>1
  <2>2. CASE q \in posts
    <3>1. q.turn \in Turns /\ q.turn # t
      BY <1>3, <2>2, PostType
    <3>2. batch'[q.turn] = batch[q.turn]
      BY <1>4, <3>1
    <3>3. QED BY <1>1, <1>2, <2>2, <3>1, <3>2 DEF UnderWay
  <2>3. QED BY <1>1, <2>1, <2>2
<1>6. Rows'
  <2>1. \A e \in events : (\E q \in posts : q.turn = e.turn /\ q.filed /\ e.seq <= q.to)
                            => \E q \in posts' : q.turn = e.turn /\ q.filed /\ e.seq <= q.to
    BY <1>1
  <2>2. QED BY <1>1, <2>1 DEF Rows
<1>7. Complete'
  <2>1. \A q \in posts' : q.filed => \A i \in (q.from + 1)..q.to : HasRow(q.turn, i)
    BY <1>1, <1>2 DEF Complete
  <2>2. QED BY <1>1, <2>1 DEF Complete, HasRow
<1>8. QED BY <1>5, <1>6, <1>7

LEMMA ExactFile ==
  ASSUME UsageTypeOK, Carried, Driving, Watched, UnderWay, Rows, Complete, NEW p \in posts, receive_logs(p)
  PROVE  UnderWay' /\ Rows' /\ Complete'
<1> DEFINE new == to_event_rows(p, filed * (MaxMade + 1), turn)
           q == [p EXCEPT !.filed = TRUE]
           I == (p.from + 1)..p.to
<1>1. /\ ~p.filed /\ events' = events \cup new /\ posts' = (posts \ {p}) \cup {q}
      /\ UNCHANGED <<exporting, turn, agent, made, sent, batch, alone>>
  BY DEF receive_logs
<1>2. /\ p.turn \in Turns /\ p.from \in Nat /\ p.to \in Nat /\ p.to <= Len(made[p.turn])
      /\ p.try = 1 /\ p.from = sent[p.turn] /\ p.from < p.to /\ batch[p.turn] # NoBatch
  BY PostType, Awaited DEF Carried
<1>3. q.turn = p.turn /\ q.from = p.from /\ q.to = p.to /\ q.try = p.try /\ q.filed
  BY PostType DEF UsageTypeOK, Batch
<1>4. /\ \A e \in new : /\ e.turn = p.turn /\ e.seq \in I /\ e.kind = made[p.turn][e.seq]
                        /\ e.copy = 1 /\ e.received_at = turn
                        /\ \A f \in new : f.seq = e.seq => f = e
      /\ \A i \in I : \E e \in new : e.turn = p.turn /\ e.seq = i
  <2> DEFINE id == filed * (MaxMade + 1)
  <2>1. id \in Nat /\ turn \in Nat
    BY UsageAssumption DEF UsageTypeOK
  <2> HIDE DEF id
  <2>2. \A e \in to_event_rows(p, id, turn) :
              /\ e.turn = p.turn /\ e.seq \in (p.from + 1)..p.to /\ e.kind = made[p.turn][e.seq]
              /\ e.copy = p.try /\ e.received_at = turn
              /\ \A f \in to_event_rows(p, id, turn) : f.seq = e.seq => f = e
    BY <1>2, <2>1, NewRows
  <2>3. \A i \in (p.from + 1)..p.to : \E e \in to_event_rows(p, id, turn) : e.turn = p.turn /\ e.seq = i
    BY <1>2, <2>1, NewRows
  <2>4. QED BY <1>2, <2>2, <2>3 DEF id
<1> HIDE DEF new, q
(* Its agent is running, so no row of the batch is there yet.               *)
<1>5. agent[p.turn] = "running" /\ p.turn <= turn /\ turn \in Nat
  <2>1. agent[p.turn] = "running"
    BY <1>2 DEF Driving
  <2>2. turn \in Nat /\ p.turn \in Nat
    BY <1>2 DEF UsageTypeOK, Turns
  <2>3. QED BY <1>2, <2>1, <2>2 DEF Driving
<1>6. \A e \in events : e.turn = p.turn => e.seq <= p.from
  <2> SUFFICES ASSUME NEW e \in events, e.turn = p.turn PROVE e.seq <= p.from
    OBVIOUS
  <2>1. CASE e.seq <= sent[e.turn]
    BY <1>2, <2>1
  <2>2. ASSUME NEW r \in posts, r.turn = e.turn, r.filed PROVE FALSE
    <3>1. p \in posts /\ \A s \in posts : s.turn = p.turn => s = p
      BY <1>1, <1>2 DEF UnderWay
    <3>2. QED BY <1>1, <2>2, <3>1
  <2>3. QED BY <2>1, <2>2 DEF Rows
<1>7. UnderWay'
  <2>1. \A r \in posts : r.turn = p.turn => r = p
    BY Awaited
  <2> SUFFICES ASSUME NEW r \in posts'
               PROVE  /\ batch[r.turn] = [to |-> r.to, try |-> 1] /\ r.try = 1
                      /\ r.from = sent[r.turn] /\ r.from < r.to
                      /\ \A s \in posts' : s.turn = r.turn => s = r
    BY <1>1 DEF UnderWay
  <2>2. batch[p.turn] = [to |-> p.to, try |-> 1]
    BY Awaited
  <2>3. CASE r = q
    <3>1. \A s \in posts' : s.turn = r.turn => s = r
      BY <1>1, <1>3, <2>1, <2>3
    <3>2. QED BY <1>2, <1>3, <2>2, <2>3, <3>1
  <2>4. CASE r \in posts \ {p}
    <3>1. r.turn # p.turn
      BY <2>1, <2>4
    <3>2. \A s \in posts' : s.turn = r.turn => s = r
      <4>1. \A s \in posts : s.turn = r.turn => s = r
        BY <2>4, Awaited
      <4>2. QED BY <1>1, <1>3, <3>1, <4>1
    <3>3. QED BY <2>4, <3>2, Awaited
  <2>5. QED BY <1>1, <2>3, <2>4
<1>8. Rows'
  <2> SUFFICES ASSUME NEW e \in events'
               PROVE  /\ e.seq \in DOMAIN made[e.turn] /\ e.kind = made[e.turn][e.seq] /\ e.copy = 1
                      /\ e.turn <= e.received_at /\ e.received_at <= turn
                      /\ turn \in alone /\ e.turn # turn => e.received_at < turn
                      /\ \/ e.seq <= sent[e.turn]
                         \/ \E r \in posts' : r.turn = e.turn /\ r.filed /\ e.seq <= r.to
                      /\ \A f \in events' : f.turn = e.turn /\ f.seq = e.seq => f = e
    BY <1>1 DEF Rows
  <2>1. CASE e \in events
    <3>1. /\ e.seq \in DOMAIN made[e.turn] /\ e.kind = made[e.turn][e.seq] /\ e.copy = 1
          /\ e.turn <= e.received_at /\ e.received_at <= turn
          /\ turn \in alone /\ e.turn # turn => e.received_at < turn
      BY <2>1 DEF Rows
    <3>2. \/ e.seq <= sent[e.turn]
          \/ \E r \in posts' : r.turn = e.turn /\ r.filed /\ e.seq <= r.to
      <4>1. ASSUME NEW r \in posts, r.filed PROVE r \in posts'
        BY <1>1, <4>1
      <4>2. QED BY <2>1, <4>1 DEF Rows
    <3>3. ASSUME NEW f \in events', f.turn = e.turn, f.seq = e.seq PROVE f = e
      <4>1. CASE f \in events
        BY <2>1, <3>3, <4>1 DEF Rows
      <4>2. CASE f \in new
        <5>1. f.seq \in I /\ f.turn = p.turn
          BY <1>4, <4>2
        <5>2. e.seq <= p.from /\ e.seq \in Nat
          BY <1>6, <2>1, <3>3, <5>1, EventTypes
        <5>3. QED BY <1>2, <3>3, <5>1, <5>2
      <4>3. QED BY <1>1, <3>3, <4>1, <4>2
    <3>4. QED BY <3>1, <3>2, <3>3
  <2>2. CASE e \in new
    <3>1. /\ e.turn = p.turn /\ e.seq \in I /\ e.kind = made[p.turn][e.seq] /\ e.copy = 1 /\ e.received_at = turn
      BY <1>4, <2>2
    <3>2. e.seq \in DOMAIN made[e.turn]
      <4>1. DOMAIN made[p.turn] = 1..Len(made[p.turn]) /\ Len(made[p.turn]) \in Nat
        BY <1>2, Made
      <4>2. QED BY <1>2, <3>1, <4>1
    <3>3. turn \in alone => e.turn = turn
      BY <1>2, <1>5, <3>1 DEF Watched
    <3>4. q \in posts' /\ q.turn = e.turn /\ q.filed /\ e.seq <= q.to
      BY <1>1, <1>2, <1>3, <3>1
    <3>5. ASSUME NEW f \in events', f.turn = e.turn, f.seq = e.seq PROVE f = e
      <4>1. CASE f \in events
        <5>1. f.seq <= p.from /\ f.seq \in Nat
          BY <1>6, <3>1, <3>5, <4>1, EventTypes
        <5>2. QED BY <1>2, <3>1, <3>5, <5>1
      <4>2. CASE f \in new
        BY <1>4, <2>2, <3>5, <4>2
      <4>3. QED BY <1>1, <3>5, <4>1, <4>2
    <3>6. QED BY <1>5, <3>1, <3>2, <3>3, <3>4, <3>5
  <2>3. QED BY <1>1, <2>1, <2>2
<1>9. Complete'
  <2>1. \A u \in Turns : \A i \in 1..sent[u] : HasRow(u, i)'
    BY <1>1 DEF Complete, HasRow
  <2>2. ASSUME NEW r \in posts', r.filed, NEW i \in (r.from + 1)..r.to PROVE HasRow(r.turn, i)'
    <3>1. CASE r = q
      BY <1>1, <1>3, <1>4, <2>2, <3>1 DEF HasRow
    <3>2. CASE r \in posts
      BY <1>1, <2>2, <3>2 DEF Complete, HasRow
    <3>3. QED BY <1>1, <2>2, <3>1, <3>2
  <2>3. QED BY <1>1, <2>1, <2>2 DEF Complete, HasRow
<1>10. QED BY <1>7, <1>8, <1>9

LEMMA ExactAnswer ==
  ASSUME UsageTypeOK, Carried, Driving, UnderWay, Rows, Complete, NEW p \in posts, AnswerPost(p), ~Fault
  PROVE  UnderWay' /\ Rows' /\ Complete'
<1>1. /\ p.filed /\ p.turn \in Turns /\ p.from \in Nat /\ p.to \in Nat /\ p.to <= Len(made[p.turn])
      /\ p.from = sent[p.turn] /\ p.from < p.to /\ batch[p.turn] = [to |-> p.to, try |-> p.try]
      /\ \A q \in posts : q.turn = p.turn => q = p
  BY PostType DEF AnswerPost, UnderWay, Carried
<1>2. /\ posts' = posts \ {p}
      /\ sent' = [sent EXCEPT ![p.turn] = p.to] /\ batch' = [batch EXCEPT ![p.turn] = NoBatch]
      /\ UNCHANGED <<exporting, turn, agent, made, events, alone>>
  BY <1>1 DEF AnswerPost
<1>3. \A u \in Turns : /\ sent'[u] = IF u = p.turn THEN p.to ELSE sent[u]
                       /\ batch'[u] = IF u = p.turn THEN NoBatch ELSE batch[u]
  BY <1>2 DEF UsageTypeOK
<1>4. UnderWay'
  <2>1. \A q \in posts' : q \in posts /\ q.turn \in Turns /\ q.turn # p.turn
    BY <1>1, <1>2, PostType
  <2> SUFFICES ASSUME NEW q \in posts'
               PROVE  /\ batch'[q.turn] = [to |-> q.to, try |-> 1] /\ q.try = 1
                      /\ q.from = sent'[q.turn] /\ q.from < q.to
                      /\ \A r \in posts' : r.turn = q.turn => r = q
    BY DEF UnderWay
  <2>2. batch'[q.turn] = batch[q.turn] /\ sent'[q.turn] = sent[q.turn]
    BY <1>3, <2>1
  <2>3. q \in posts /\ \A r \in posts' : r \in posts
    BY <2>1
  <2>4. QED BY <2>2, <2>3, Awaited
<1>5. Rows'
  <2> SUFFICES ASSUME NEW e \in events
               PROVE  \/ e.seq <= sent'[e.turn]
                      \/ \E q \in posts' : q.turn = e.turn /\ q.filed /\ e.seq <= q.to
    BY <1>2 DEF Rows
  <2>1. e.turn \in Turns /\ e.seq \in Nat /\ sent[p.turn] \in Nat
    BY <1>1, EventTypes, Made
  <2>2. CASE e.turn = p.turn
    <3>1. e.seq <= sent[p.turn] \/ e.seq <= p.to
      BY <1>1, <2>2 DEF Rows
    <3>2. e.seq <= p.to
      BY <1>1, <2>1, <3>1
    <3>3. QED BY <1>3, <2>1, <2>2, <3>2
  <2>3. CASE e.turn # p.turn
    BY <1>2, <1>3, <2>1, <2>3 DEF Rows
  <2>4. QED BY <2>2, <2>3
<1>6. Complete'
  <2>1. ASSUME NEW u \in Turns, NEW i \in 1..sent'[u] PROVE HasRow(u, i)
    <3>1. CASE u = p.turn
      <4>1. i \in 1..p.to
        BY <1>3, <2>1, <3>1
      <4>2. i \in 1..sent[p.turn] \/ i \in (p.from + 1)..p.to
        BY <1>1, <4>1
      <4>3. QED BY <1>1, <3>1, <4>2 DEF Complete
    <3>2. CASE u # p.turn
      BY <1>3, <2>1, <3>2 DEF Complete
    <3>3. QED BY <3>1, <3>2
  <2>2. ASSUME NEW u \in Turns, exporting, agent[u] # "running" PROVE sent'[u] = Len(made[u])
    <3>1. batch[u] = NoBatch
      BY <2>2 DEF Driving
    <3>2. u # p.turn
      BY <1>1, <3>1 DEF NoBatch
    <3>3. QED BY <1>3, <2>2, <3>2 DEF Complete
  <2>3. \A q \in posts' : q.filed => \A i \in (q.from + 1)..q.to : HasRow(q.turn, i)
    BY <1>2 DEF Complete
  <2>4. QED BY <1>2, <2>1, <2>2, <2>3 DEF Complete, HasRow
<1>7. QED BY <1>4, <1>5, <1>6

LEMMA ExactStep ==
  UsageTypeOK /\ Carried /\ Driving /\ Watched /\ Silent /\ Exact /\ [UsageNext]_usageVars => Exact'
<1> SUFFICES ASSUME UsageTypeOK, Carried, Driving, Watched, Silent, Exact, [UsageNext]_usageVars, faults' = 0
             PROVE  UnderWay' /\ Rows' /\ Complete'
  BY DEF Exact
<1>1. ~Fault /\ UnderWay /\ Rows /\ Complete
  BY NoFault DEF Exact
<1>2. CASE set_agent_launched_at
  BY <1>1, <1>2, ExactLaunch
<1>3. CASE UNCHANGED <<exporting, turn, made, sent, batch, posts, events, agent, alone>>
  BY <1>1, <1>3 DEF UnderWay, Rows, Complete, HasRow
<1>4. CASE StartAgent
  <2>1. /\ UNCHANGED <<exporting, turn, made, sent, batch, posts, events, alone>>
        /\ agent' = [agent EXCEPT ![turn] = "running"]
    BY <1>4 DEF StartAgent
  <2>2. \A t \in Turns : agent'[t] = "running" \/ agent'[t] = agent[t]
    BY <2>1 DEF UsageTypeOK
  <2>3. \A t \in Turns : agent'[t] # "running" /\ exporting => sent[t] = Len(made[t])
    BY <1>1, <2>2 DEF Complete
  <2>4. QED BY <1>1, <2>1, <2>3, ExactKept
<1>5. ASSUME NEW t \in Turns, Exit(t) PROVE UnderWay' /\ Rows' /\ Complete'
  <2>1. /\ agent' = [agent EXCEPT ![t] = "exited"] /\ batch' = [batch EXCEPT ![t] = NoBatch]
        /\ exporting => batch[t] = NoBatch /\ sent[t] = Len(made[t])
        /\ UNCHANGED <<exporting, turn, made, sent, posts, events, alone>>
    BY <1>1, <1>5 DEF Exit
  <2>2. batch[t] = NoBatch
    BY <2>1 DEF Silent
  <2>3. UNCHANGED batch
    BY <2>1, <2>2 DEF UsageTypeOK
  <2>4. \A u \in Turns : agent'[u] # "running" /\ exporting => sent[u] = Len(made[u])
    BY <1>1, <2>1 DEF Complete, UsageTypeOK
  <2>5. QED BY <1>1, <2>1, <2>3, <2>4, ExactKept
<1>6. ASSUME NEW t \in Turns, NEW kind \in Kinds, MakeEvent(t, kind) PROVE UnderWay' /\ Rows' /\ Complete'
  <2>1. /\ agent[t] = "running" /\ made' = [made EXCEPT ![t] = Append(@, kind)]
        /\ UNCHANGED <<turn, exporting, sent, batch, posts, events, alone, agent>>
    BY <1>6, MakeMoves
  <2>2. \A u \in Turns : /\ u # t => made'[u] = made[u]
                         /\ DOMAIN made[u] \subseteq DOMAIN made'[u]
                         /\ \A i \in DOMAIN made[u] : made'[u][i] = made[u][i]
    BY <2>1, MoreMade
  <2>3. \A u \in Turns : agent'[u] # "running" /\ exporting => sent[u] = Len(made'[u])
    BY <1>1, <2>1, <2>2 DEF Complete
  <2>4. QED BY <1>1, <2>1, <2>2, <2>3, ExactKept
<1>7. ASSUME NEW t \in Turns, Export(t) PROVE UnderWay' /\ Rows' /\ Complete'
  BY <1>1, <1>7, ExactExport
<1>8. ASSUME NEW p \in posts, receive_logs(p) \/ AnswerPost(p) PROVE UnderWay' /\ Rows' /\ Complete'
  BY <1>1, <1>8, ExactFile, ExactAnswer
<1>9. ASSUME NEW t \in Turns PROVE ~Resend(t) /\ ~LoseBatch(t)
  BY <1>1 DEF Resend, LoseBatch
<1>10. QED
  BY <1>2, <1>3, <1>4, <1>5, <1>6, <1>7, <1>8, <1>9
  DEF UsageNext, PollEnds, _await_agent_exit, ReadUsage, usageVars

-----------------------------------------------------------------------------
(* What a read of a turn without a fault returns.  Loud is what it can be    *)
(* asked for: the places of the events that are not noise.                   *)
Loud(t) == {i \in DOMAIN made[t] : made[t][i] # "noise"}

LEMMA LoudIsFinite == ASSUME UsageTypeOK, NEW t \in Turns PROVE IsFiniteSet(Loud(t))
<1>1. Loud(t) \subseteq 1..Len(made[t]) /\ Len(made[t]) \in Nat
  BY Made DEF Loud
<1>2. IsFiniteSet(1..Len(made[t]))
  <2>1. 1 \in Int /\ Len(made[t]) \in Int
    BY <1>1
  <2>2. QED BY <2>1, FS_Interval
<1>3. QED BY <1>1, <1>2, FS_Subset

(* No read of as few rows as that leaves one out.                           *)
LEMMA AllAreNewest ==
  ASSUME NEW rows, IsFiniteSet(rows), NEW places, IsFiniteSet(places), Cardinality(places) <= Limit,
         \A e \in rows : e.id \in Nat /\ e.seq \in places /\ \A f \in rows : f.seq = e.seq => f = e
  PROVE  Newest(rows) = rows
<1> SUFFICES ASSUME NEW e \in rows PROVE Cardinality({f \in rows : f.id > e.id}) < Limit
  BY DEF Newest
<1> DEFINE later == {f \in rows : f.id > e.id}
           most  == rows \ {e}
           seqs  == [f \in rows |-> f.seq]
<1>1. seqs \in Injection(rows, places)
  BY DEF Injection, IsInjective
<1>2. IsFiniteSet(rows) /\ Cardinality(rows) <= Cardinality(places)
  BY <1>1, FS_Injection
<1>3. IsFiniteSet(most) /\ Cardinality(most) = Cardinality(rows) - 1
  BY <1>2, FS_RemoveElement
<1>4. later \subseteq most
  <2>1. ~(e.id > e.id)
    OBVIOUS
  <2>2. QED BY <2>1
<1>5. IsFiniteSet(later) /\ Cardinality(later) <= Cardinality(most)
  BY <1>3, <1>4, FS_Subset
<1>6. Cardinality(rows) \in Nat /\ Cardinality(later) \in Nat /\ Cardinality(places) \in Nat /\ Limit \in Nat
  BY <1>2, <1>5, FS_CardinalityType, UsageAssumption
<1> HIDE DEF later, most
<1>7. Cardinality(later) < Limit
  BY <1>2, <1>3, <1>5, <1>6
<1>8. QED BY <1>7 DEF later

(* A read of a turn that was alone finds one row for each of its events, and *)
(* none of an earlier turn; without an export the log is all there is.       *)
LEMMA ReadIsWhole ==
  ASSUME UsageTypeOK, Driving, Watched, Silent, Exact, ReadUsage,
         faults = 0, turn \in whole', Cardinality(Loud(turn)) <= Limit
  PROVE  usage'[turn] = Totals(turn)
<1> DEFINE rows == {e \in events : e.received_at >= turn /\ e.kind # "noise"}
           read == Places(get_agent_events(turn))
<1>1. turn \in Turns /\ turn \in Nat /\ turn \notin whole
  <2>1. turn \in Turns /\ turn \notin whole
    BY DEF ReadUsage, Driving
  <2>2. QED BY <2>1 DEF UsageTypeOK
<1>2. turn \in alone /\ (driver = "exited" \/ (~exporting /\ agent[turn] = "exited"))
  BY <1>1 DEF ReadUsage
<1>3. agent[turn] = "exited"
  <2>1. driver = "exited" => exitFile /\ driver # "launching"
    BY DEF Watched
  <2>2. QED BY <1>2, <2>1 DEF Watched
<1>4. parse_usage = Totals(turn)
  BY <1>3 DEF parse_usage
<1>5. read = {} \/ read = Tokens(turn) => usage'[turn] = Totals(turn)
  <2>1. usage'[turn] = prefer_otel_usage(usage_from_events(get_agent_events(turn)), Totals(turn))
    BY <1>1, <1>4 DEF ReadUsage, UsageTypeOK
  <2>2. QED BY <2>1 DEF prefer_otel_usage, usage_from_events, Totals
<1>6. get_agent_events(turn) = Newest(rows)
  BY DEF get_agent_events
<1>7. CASE ~exporting
  <2>1. rows = {}
    BY <1>7 DEF Silent
  <2>2. read = {}
    BY <1>6, <2>1 DEF Places, Newest
  <2>3. QED BY <1>5, <2>2
<1>8. CASE exporting
  <2>1. Rows /\ Complete
    BY DEF Exact
  <2>2. sent[turn] = Len(made[turn]) /\ DOMAIN made[turn] = 1..Len(made[turn])
    BY <1>1, <1>3, <1>8, <2>1, Made DEF Complete
  <2>3. ASSUME NEW e \in rows
        PROVE  /\ e.turn = turn /\ e.seq \in Loud(turn) /\ e.kind = made[turn][e.seq] /\ e.copy = 1
               /\ e.id \in Nat /\ \A f \in rows : f.seq = e.seq => f = e
    <3>1. \A f \in rows : f.turn = turn
      <4>1. \A f \in rows : f \in events /\ f.received_at \in Nat /\ ~(f.received_at < turn)
        BY <1>1, EventTypes
      <4>2. QED BY <1>2, <2>1, <4>1 DEF Rows
    <3>2. e \in events /\ e.turn = turn /\ e.kind # "noise"
      BY <3>1
    <3>3. e.seq \in DOMAIN made[turn] /\ e.kind = made[turn][e.seq] /\ e.copy = 1
      BY <2>1, <3>2 DEF Rows
    <3>4. \A f \in rows : f.seq = e.seq => f = e
      BY <2>1, <3>1, <3>2 DEF Rows
    <3>5. QED BY <3>2, <3>3, <3>4, EventTypes DEF Loud
  <2>4. ASSUME NEW i \in Loud(turn)
        PROVE  \E e \in rows : e.seq = i
    <3>1. PICK e \in events : e.turn = turn /\ e.seq = i
      BY <1>1, <2>1, <2>2 DEF Complete, HasRow, Loud
    <3>2. turn <= e.received_at /\ e.kind = made[turn][i] /\ e.received_at \in Nat
      BY <2>1, <3>1, EventTypes DEF Rows
    <3>3. e.received_at >= turn
      BY <1>1, <3>2
    <3>4. QED BY <3>1, <3>2, <3>3 DEF Loud
  <2>5. Newest(rows) = rows
    <3>1. IsFiniteSet(rows)
      <4>1. rows \subseteq events /\ IsFiniteSet(events)
        BY DEF UsageTypeOK
      <4>2. QED BY <4>1, FS_Subset
    <3>2. IsFiniteSet(Loud(turn))
      BY <1>1, LoudIsFinite
    <3> HIDE DEF rows
    <3>3. QED BY <2>3, <3>1, <3>2, AllAreNewest
  <2> HIDE DEF rows
  <2>6. read = {[turn |-> e.turn, seq |-> e.seq, copy |-> e.copy] : e \in {r \in rows : r.kind = "tokens"}}
    BY <1>6, <2>5 DEF Places
  <2>7. read \subseteq Tokens(turn)
    <3>1. ASSUME NEW e \in rows, e.kind = "tokens"
          PROVE  [turn |-> e.turn, seq |-> e.seq, copy |-> e.copy] \in Tokens(turn)
      BY <2>3, <3>1 DEF Tokens, Loud
    <3>2. QED BY <2>6, <3>1
  <2>8. Tokens(turn) \subseteq read
    <3>1. ASSUME NEW i \in DOMAIN made[turn], made[turn][i] = "tokens"
          PROVE  [turn |-> turn, seq |-> i, copy |-> 1] \in read
      <4>1. PICK e \in rows : e.seq = i
        BY <2>4, <3>1 DEF Loud
      <4>2. e.turn = turn /\ e.copy = 1 /\ e.kind = "tokens"
        BY <2>3, <3>1, <4>1
      <4>3. QED BY <2>6, <4>1, <4>2
    <3>2. QED BY <3>1 DEF Tokens
  <2>9. QED BY <1>5, <2>7, <2>8
<1>9. QED BY <1>7, <1>8

LEMMA WholeStep ==
  UsageTypeOK /\ Driving /\ Watched /\ Silent /\ Exact /\ UsageIsWhole /\ [UsageNext]_usageVars => UsageIsWhole'
<1> SUFFICES ASSUME UsageTypeOK, Driving, Watched, Silent, Exact, UsageIsWhole, [UsageNext]_usageVars,
                    NEW t \in whole', faults' = 0, Cardinality(Loud(t)') <= Limit
             PROVE  usage'[t] = Totals(t)'
  BY DEF UsageIsWhole, Loud
<1>1. faults = 0
  BY NoFault
<1>2. \A u \in whole : u \in Turns /\ agent[u] = "exited"
  BY DEF UsageTypeOK, Driving
<1>3. ASSUME t \in whole, made'[t] = made[t], usage'[t] = usage[t] PROVE usage'[t] = Totals(t)'
  <2>1. Loud(t)' = Loud(t) /\ Totals(t)' = Totals(t)
    BY <1>3 DEF Loud, Tokens, Totals
  <2>2. QED BY <1>1, <1>3, <2>1 DEF UsageIsWhole, Loud
<1>4. CASE ReadUsage
  <2>1. made' = made /\ whole' \subseteq whole \cup {turn} /\ turn \in Turns /\ turn \notin whole
    BY <1>4 DEF ReadUsage, Driving
  <2>2. Loud(t)' = Loud(t) /\ Totals(t)' = Totals(t)
    BY <2>1 DEF Loud, Tokens, Totals
  <2>3. CASE t = turn
    BY <1>1, <1>4, <2>2, <2>3, ReadIsWhole
  <2>4. CASE t \in whole
    <3>1. usage'[t] = usage[t]
      BY <1>2, <1>4, <2>1, <2>4 DEF ReadUsage, UsageTypeOK
    <3>2. QED BY <1>3, <2>1, <2>4, <3>1
  <2>5. QED BY <2>1, <2>3, <2>4
<1>5. ASSUME NEW u \in Turns, NEW kind \in Kinds, MakeEvent(u, kind) PROVE usage'[t] = Totals(t)'
  <2>1. /\ agent[u] = "running" /\ made' = [made EXCEPT ![u] = Append(@, kind)] /\ UNCHANGED <<whole, usage>>
    BY <1>5, MakeMoves
  <2>2. t \in whole /\ t \in Turns /\ t # u
    BY <1>2, <2>1
  <2>3. QED BY <1>3, <2>1, <2>2, MoreMade
<1>6. CASE UNCHANGED <<made, usage, whole>>
  BY <1>3, <1>6
<1>7. QED
  BY <1>4, <1>5, <1>6
  DEF UsageNext, set_agent_launched_at, StartAgent, PollEnds, _await_agent_exit, Export, Resend, LoseBatch, Post,
      Exit, receive_logs, AnswerPost, usageVars

(* A turn that was read when its agent had exited, alone in its sandbox and  *)
(* with no batch lost, refused or posted twice, has counted each request to  *)
(* the model once, and nothing else: the rows that routes_otlp.py committed, *)
(* selected by the launch recorded before the agent started, or the log of   *)
(* an agent that exports nothing -- for any number of turns and events.      *)
THEOREM UsageIsCounted == UsageSpec => []UsageIsWhole
<1>1. UsageInit => IInv
  <2> SUFFICES ASSUME UsageInit PROVE IInv
    OBVIOUS
  <2>1. IsFiniteSet({}) /\ 0 \in 0..MaxTurns /\ NoBatch \in [to : Nat, try : Nat] /\ NoBatch.to = 0
    BY FS_EmptySet, UsageAssumption DEF NoBatch
  <2>2. UsageTypeOK
    <3>1. /\ agent \in [Turns -> {"none", "running", "exited"}] /\ sent \in [Turns -> Nat]
          /\ made \in [Turns -> Seq(Kinds)] /\ batch \in [Turns -> [to : Nat, try : Nat]]
          /\ usage \in [Turns -> [UsageFields -> SUBSET [turn : Turns, seq : Nat, copy : Nat]]]
      BY <2>1 DEF UsageInit, NoUsage
    <3>2. /\ exporting \in BOOLEAN /\ exitFile \in BOOLEAN /\ turn \in 0..MaxTurns /\ filed \in Nat /\ faults \in Nat
      BY <2>1 DEF UsageInit
    <3>3. /\ driver = "idle" /\ posts = {} /\ events = {} /\ whole = {} /\ alone = {}
      BY DEF UsageInit
    <3>4. QED BY <2>1, <3>1, <3>2, <3>3 DEF UsageTypeOK
  <2>3. Carried
    BY <2>1 DEF UsageInit, Carried
  <2>4. Driving
    BY DEF UsageInit, Driving
  <2>5. Watched /\ Silent /\ UsageIsWhole
    BY DEF UsageInit, Watched, Silent, UsageIsWhole
  <2>6. UnderWay /\ Rows
    BY DEF UsageInit, UnderWay, Rows
  <2>7. Complete
    BY DEF UsageInit, Complete
  <2>8. QED BY <2>2, <2>3, <2>4, <2>5, <2>6, <2>7 DEF IInv, Exact
<1>2. IInv /\ [UsageNext]_usageVars => IInv'
  BY TypeStep, DrivingStep, WatchedStep, SilentStep, ExactStep, WholeStep DEF IInv
<1>3. IInv => UsageIsWhole
  BY DEF IInv
<1>4. QED BY <1>1, <1>2, <1>3, PTL DEF UsageSpec
=============================================================================
