---------------------------- MODULE EventStream ----------------------------
(***************************************************************************)
(* From a row in the store to the board in a browser: the event bus of     *)
(* orchestrator/events.py, the stream of api/stream.py and the hook        *)
(* useJobStream.ts that keeps one browser's board.                         *)
(*                                                                         *)
(* Worker threads commit a change and publish an event about it.  Events   *)
(* only tell the browser to fetch the jobs again: the board is the version *)
(* of the rows it fetched last.  Threads, the event loop, the connection,  *)
(* the fetches and the death of the server all take their own time.        *)
(***************************************************************************)
EXTENDS Integers, Sequences, FiniteSets

CONSTANTS
  Threads,     \* worker threads that publish
  Settings,    \* the surroundings a behaviour may be in, one of them for all of it
  MaxFetches   \* bound: fetches of one browser under way at the same time

(* One surroundings: which threads publish which types of events, how many  *)
(* events the ring buffer and a subscriber's queue hold, whether a fetch    *)
(* may be answered before an earlier one; and bounds: changes of the rows   *)
(* (and events of one process), crashes, lost connections, failing fetches. *)
Surroundings == [threads : SUBSET Threads, types : SUBSET {"change", "log"}, buffer : Nat \ {0},
                 queue : Nat \ {0}, overtaking : BOOLEAN, changes : Nat,
                 restarts : Nat, losses : Nat, failures : Nat]

ASSUME StreamAssumption ==
  /\ Settings \subseteq Surroundings
  /\ IsFiniteSet(Threads) /\ MaxFetches \in Nat \ {0}

VARIABLES
  env,      \* the surroundings
  truth,    \* version of the job rows
  pub,      \* thread -> the event it is about to publish or is handing out
  last,     \* id of the newest event of this process
  buffer,   \* the ring buffer: the newest events, oldest first
  loop,     \* callbacks handed to the event loop and not run yet
  stream,   \* event_stream of the browser's connection
  wire,     \* frames sent and not received
  online,   \* whether the browser thinks it is connected
  lastId,   \* the Last-Event-ID it will send
  fetches,  \* its fetches under way: Unread, or the version they will answer
  board,    \* the version it shows (Unread: none yet)
  error,    \* whether it says that it could not load the jobs
  count     \* crashes, losses and failures so far

busVars    == <<truth, pub, last, buffer>>
serverVars == <<loop, stream>>
clientVars == <<online, lastId, fetches, board, error>>
vars       == <<env, busVars, serverVars, wire, clientVars, count>>

Unread  == -1
Idle    == [pc |-> "idle", type |-> "log", id |-> 0, heard |-> FALSE]
Event(type, id) == [type |-> type, id |-> id]
Closed  == [pc |-> "none", queue |-> <<>>, missed |-> <<>>, highest |-> 0]

Ids     == 0..env.changes
Events  == [type : {"change", "log", "resync"}, id : Ids]

(* No queue outgrows its limit: the ring, a subscriber's queue, the fetches. *)
TypeOK ==
  /\ env \in Settings
  /\ truth \in Ids /\ last \in Ids /\ lastId \in Ids
  /\ pub \in [Threads -> [pc : {"idle", "committed", "delivering"}, type : env.types \cup {"log"},
                          id : Ids, heard : BOOLEAN]]
  /\ buffer \in Seq(Events) /\ Len(buffer) <= env.buffer
  /\ loop \in Seq(Events) /\ wire \in Seq(Events)
  /\ stream \in [pc : {"none", "subscribed", "replaying", "gap", "told", "live"},
                 queue : Seq(Events), missed : Seq(Events), highest : Ids]
  /\ Len(stream.queue) <= env.queue
  /\ online \in BOOLEAN
  /\ fetches \in Seq(Ids \cup {Unread}) /\ Len(fetches) <= MaxFetches
  /\ board \in Ids \cup {Unread} /\ error \in BOOLEAN
  /\ count \in [restarts : 0..env.restarts, losses : 0..env.losses, failures : 0..env.failures]

Init ==
  /\ env \in Settings
  /\ truth = 0 /\ pub = [t \in Threads |-> Idle] /\ last = 0 /\ buffer = <<>>
  /\ loop = <<>> /\ stream = Closed /\ wire = <<>>
  /\ online = FALSE /\ lastId = 0
  /\ fetches = <<Unread>>              \* the hook fetches once before it connects
  /\ board = Unread /\ error = FALSE
  /\ count = [restarts |-> 0, losses |-> 0, failures |-> 0]

-----------------------------------------------------------------------------
(* A worker thread: the rows first, then publish, which numbers the event   *)
(* under the lock and calls the subscribers it saw there outside the lock.  *)
Commit(t) ==
  /\ t \in env.threads /\ pub[t].pc = "idle"
  /\ \E type \in env.types :
       /\ IF type = "change" THEN truth < env.changes /\ truth' = truth + 1 ELSE UNCHANGED truth
       /\ pub' = [pub EXCEPT ![t] = [Idle EXCEPT !.pc = "committed", !.type = type]]
  /\ UNCHANGED <<env, count, last, buffer, serverVars, wire, clientVars>>

(* Mutant of Publish: the buffer is a list, not a ring.                     *)
PublishKeepsAll(t) ==
  /\ pub[t].pc = "committed" /\ last < env.changes
  /\ last' = last + 1
  /\ buffer' = Append(buffer, Event(pub[t].type, last + 1))
  /\ pub' = [pub EXCEPT ![t] = [@ EXCEPT !.pc = "delivering", !.id = last + 1,
                                         !.heard = stream.pc # "none"]]
  /\ UNCHANGED <<env, count, truth, serverVars, wire, clientVars>>

(* Mutant of Publish: the stream subscribes after its replay, not before.   *)
PublishToLiveOnly(t) ==
  /\ pub[t].pc = "committed" /\ last < env.changes
  /\ last' = last + 1
  /\ LET all == Append(buffer, Event(pub[t].type, last + 1))
     IN  buffer' = IF Len(all) > env.buffer THEN Tail(all) ELSE all
  /\ pub' = [pub EXCEPT ![t] = [@ EXCEPT !.pc = "delivering", !.id = last + 1,
                                         !.heard = stream.pc = "live"]]
  /\ UNCHANGED <<env, count, truth, serverVars, wire, clientVars>>

Publish(t) ==
  /\ pub[t].pc = "committed" /\ last < env.changes
  /\ last' = last + 1
  /\ LET all == Append(buffer, Event(pub[t].type, last + 1))
     IN  buffer' = IF Len(all) > env.buffer THEN Tail(all) ELSE all
  /\ pub' = [pub EXCEPT ![t] = [@ EXCEPT !.pc = "delivering", !.id = last + 1,
                                         !.heard = stream.pc # "none"]]
  /\ UNCHANGED <<env, count, truth, serverVars, wire, clientVars>>

(* on_event: the callback hops to the event loop ...                        *)
Notify(t) ==
  /\ pub[t].pc = "delivering"
  /\ loop' = IF pub[t].heard THEN Append(loop, Event(pub[t].type, pub[t].id)) ELSE loop
  /\ pub' = [pub EXCEPT ![t] = Idle]
  /\ UNCHANGED <<env, count, truth, last, buffer, stream, wire, clientVars>>

(* ... where put_nowait drops the event if the queue is full.               *)
Put ==
  /\ loop # <<>>
  /\ loop' = Tail(loop)
  /\ stream' = IF Len(stream.queue) < env.queue
               THEN [stream EXCEPT !.queue = Append(@, Head(loop))] ELSE stream
  /\ UNCHANGED <<env, count, busVars, wire, clientVars>>

-----------------------------------------------------------------------------
(* The hook fetches the jobs on every connect, change and resync.           *)
Reconcile == Len(fetches) < MaxFetches /\ fetches' = Append(fetches, Unread)

(* Mutant of Connect: a connection is no reason to fetch.                   *)
ConnectOnly ==
  /\ ~online
  /\ online' = TRUE
  /\ stream' = [Closed EXCEPT !.pc = "subscribed"]
  /\ UNCHANGED <<env, count, busVars, loop, wire, lastId, fetches, board, error>>

(* The browser connects and sends the last id it saw; event_stream starts   *)
(* with subscribe.                                                          *)
Connect ==
  /\ ~online
  /\ online' = TRUE
  /\ stream' = [Closed EXCEPT !.pc = "subscribed"]
  /\ Reconcile
  /\ UNCHANGED <<env, count, busVars, loop, wire, lastId, board, error>>

(* replay_since, with lastId = 0 for "no header".  Ids grow along the ring,  *)
(* so the events after lastId are its end.                                  *)
Gap    == lastId # 0 /\ buffer # <<>> /\ lastId < Head(buffer).id - 1
Missed == IF lastId = 0 THEN <<>>
          ELSE SubSeq(buffer, Cardinality({i \in DOMAIN buffer : buffer[i].id <= lastId}) + 1,
                      Len(buffer))

Replay ==
  /\ stream.pc = "subscribed"
  /\ stream' = IF Gap
               THEN [stream EXCEPT !.pc = "gap"]
               ELSE [stream EXCEPT !.pc = "replaying", !.missed = Missed, !.highest = lastId]
  /\ UNCHANGED <<env, count, busVars, loop, wire, clientVars>>

SendMissed ==
  /\ stream.pc = "replaying"
  /\ IF stream.missed = <<>>
     THEN stream' = [stream EXCEPT !.pc = "live"] /\ UNCHANGED wire
     ELSE /\ wire' = Append(wire, Head(stream.missed))
          /\ stream' = [stream EXCEPT !.missed = Tail(@), !.highest = Head(stream.missed).id]
  /\ UNCHANGED <<env, count, busVars, loop, clientVars>>

(* The bus is asked for its last id twice: for the frame, and after it.     *)
SendResync ==
  /\ stream.pc = "gap"
  /\ wire' = Append(wire, Event("resync", last))
  /\ stream' = [stream EXCEPT !.pc = "told"]
  /\ UNCHANGED <<env, count, busVars, loop, clientVars>>

SkipToLast ==
  /\ stream.pc = "told"
  /\ stream' = [stream EXCEPT !.pc = "live", !.highest = last]
  /\ UNCHANGED <<env, count, busVars, loop, wire, clientVars>>

(* Mutant of Forward: an event that was replayed is sent again.             *)
ForwardAll ==
  /\ stream.pc = "live" /\ stream.queue # <<>>
  /\ LET event == Head(stream.queue) IN
       /\ wire' = Append(wire, event)
       /\ stream' = [stream EXCEPT !.queue = Tail(@), !.highest = event.id]
  /\ UNCHANGED <<env, count, busVars, loop, clientVars>>

Forward ==
  /\ stream.pc = "live" /\ stream.queue # <<>>
  /\ LET event == Head(stream.queue) IN
       IF event.id <= stream.highest
       THEN stream' = [stream EXCEPT !.queue = Tail(@)] /\ UNCHANGED wire
       ELSE /\ stream' = [stream EXCEPT !.queue = Tail(@), !.highest = event.id]
            /\ wire' = Append(wire, event)
  /\ UNCHANGED <<env, count, busVars, loop, clientVars>>

(* The end of a stream takes its subscription with it: what is still on its *)
(* way to it is lost.                                                       *)
Unsubscribe ==
  /\ stream' = Closed /\ loop' = <<>>
  /\ pub' = [t \in Threads |-> [pub[t] EXCEPT !.heard = FALSE]]

(* Mutant of Renew: a stream lasts as long as its connection.               *)
RenewNever == FALSE /\ UNCHANGED vars

(* MAX_STREAM_SECONDS have passed.                                          *)
Renew ==
  /\ stream.pc = "live"
  /\ Unsubscribe
  /\ UNCHANGED <<env, count, truth, last, buffer, wire, clientVars>>

-----------------------------------------------------------------------------
(* The browser notices the end after the frames before it.                  *)
Receive ==
  /\ wire # <<>>
  /\ wire' = Tail(wire)
  /\ lastId' = Head(wire).id
  /\ IF Head(wire).type = "log" THEN UNCHANGED fetches ELSE Reconcile
  /\ UNCHANGED <<env, count, busVars, serverVars, online, board, error>>

NoticeEnd ==
  /\ online /\ stream.pc = "none" /\ wire = <<>>
  /\ online' = FALSE
  /\ UNCHANGED <<env, count, busVars, serverVars, wire, lastId, fetches, board, error>>

(* A fetch reads the rows, in the order asked unless fetches overtake one   *)
(* another, and its answer is what the board shows.                         *)
InTurn(i) == env.overtaking \/ \A j \in 1..(i - 1) : fetches[j] # Unread

Read(i) ==
  /\ i \in DOMAIN fetches /\ fetches[i] = Unread /\ InTurn(i)
  /\ fetches' = [fetches EXCEPT ![i] = truth]
  /\ UNCHANGED <<env, count, busVars, serverVars, wire, online, lastId, board, error>>

Without(i) == [j \in 1..(Len(fetches) - 1) |-> fetches[IF j < i THEN j ELSE j + 1]]

Returns(i) == i \in DOMAIN fetches /\ (i = 1 \/ env.overtaking)

Answer(i) ==
  /\ Returns(i) /\ fetches[i] # Unread
  /\ board' = fetches[i] /\ error' = FALSE
  /\ fetches' = Without(i)
  /\ UNCHANGED <<env, count, busVars, serverVars, wire, online, lastId>>

(* The refresh button.                                                      *)
Refresh == Reconcile /\ UNCHANGED <<env, count, busVars, serverVars, wire, online, lastId, board, error>>

(* The network drops the connection, with what is on it.                    *)
Lose ==
  /\ count.losses < env.losses /\ online
  /\ count' = [count EXCEPT !.losses = @ + 1]
  /\ Unsubscribe
  /\ wire' = <<>> /\ online' = FALSE
  /\ UNCHANGED <<env, truth, last, buffer, lastId, fetches, board, error>>

FetchFails ==
  /\ count.failures < env.failures
  /\ count' = [count EXCEPT !.failures = @ + 1]
  /\ \E i \in 1..MaxFetches : Returns(i) /\ fetches' = Without(i)
  /\ error' = TRUE
  /\ UNCHANGED <<env, busVars, serverVars, wire, online, lastId, board>>

(* The server dies and starts again: the rows stay, the bus is new.         *)
Restart ==
  /\ count.restarts < env.restarts
  /\ count' = [count EXCEPT !.restarts = @ + 1]
  /\ pub' = [t \in Threads |-> Idle] /\ last' = 0 /\ buffer' = <<>>
  /\ loop' = <<>> /\ stream' = Closed
  /\ wire' = <<>> /\ online' = FALSE
  /\ fetches' = <<>> /\ error' = (error \/ fetches # <<>>)
  /\ UNCHANGED <<env, truth, lastId, board>>

-----------------------------------------------------------------------------
Thread(t) == Commit(t) \/ Publish(t) \/ Notify(t)
Stream    == Replay \/ SendMissed \/ SendResync \/ SkipToLast \/ Forward
Fetching  == \E i \in 1..MaxFetches : Read(i) \/ Answer(i)

Next ==
  \/ \E t \in Threads : Thread(t)
  \/ Put \/ Stream \/ Renew
  \/ Connect \/ Receive \/ NoticeEnd \/ Fetching \/ Refresh
  \/ Lose \/ FetchFails \/ Restart

Spec == Init /\ [][Next]_vars

(* The event loop runs, the five minutes of a stream pass, the browser      *)
(* reconnects by itself, and a fetch is answered if it does not fail.       *)
Fairness ==
  /\ WF_vars(Stream) /\ WF_vars(Renew)
  /\ WF_vars(Connect) /\ WF_vars(Receive) /\ WF_vars(NoticeEnd)
  /\ \A i \in 1..MaxFetches : WF_vars(Read(i))
  /\ WF_vars(Answer(1))

FairSpec == Spec /\ Fairness

-----------------------------------------------------------------------------
(* Nothing is on its way to the board: no event, no frame, no fetch.        *)
Quiet ==
  /\ \A t \in Threads : pub[t].pc = "idle"
  /\ loop = <<>> /\ stream.pc = "live" /\ stream.queue = <<>>
  /\ online /\ wire = <<>> /\ fetches = <<>>

(* Every event asks for a fetch, answers come in order, and nothing         *)
(* overflows.                                                               *)
Calm == /\ "log" \notin env.types /\ ~env.overtaking
        /\ env.buffer >= env.changes /\ env.queue >= env.changes

Fresh == board = truth \/ error

(* The contract of stream.py:9-17, "rather than silently miss updates": a   *)
(* connected board with nothing on its way shows the rows as they are, or   *)
(* that it could not load them, while the server has not restarted.         *)
QuietIsFresh == Calm /\ count.restarts = 0 /\ Quiet => Fresh

(* The same across restarts, where ids start again and lastId does not.     *)
QuietIsFreshForGood == Calm /\ Quiet => Fresh

(* An event reaches the browser at most once and never after a newer one,   *)
(* through replay, live delivery and any number of connections              *)
(* (event_stream, stream.py:122-150).                                       *)
EachEventOnce ==
  [][wire # <<>> /\ wire' = Tail(wire) /\ online' /\ Head(wire).type # "resync"
       => lastId' > lastId]_vars

(* "replay_since returns exactly the events that were missed"               *)
(* (stream.py:13): with one thread to publish them and room to keep them,   *)
(* a browser that has seen an event sees each of the next.                  *)
NoGap ==
  [][Calm /\ Cardinality(env.threads) = 1 /\ count.restarts = 0 /\ lastId # 0 /\ lastId' # lastId
       => lastId' = lastId + 1]_vars

(* "even with no replay at all the UI converges on the truth"               *)
(* (useJobStream.ts:9-10): whatever was lost, dropped, overtaken or         *)
(* restarted, once the rows stay as they are the board comes to show them.  *)
Converges == <>[](board = truth)

=============================================================================
