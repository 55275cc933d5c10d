----------------------------- MODULE StreamProofs -----------------------------
(***************************************************************************)
(* What a browser is shown, for every set of threads, every size of the    *)
(* ring and of the queue, and any number of crashes and lost connections.  *)
(*                                                                         *)
(* One inductive invariant carries all of it.  Ring says what the ring     *)
(* holds, and with it what replay_since returns.  Sent orders the frames   *)
(* of a connection by id, from the last id the browser has seen to the     *)
(* newest id the stream has sent.  Below and Counted bound ids and queues  *)
(* by the number of events.  Covered is the reason a quiet board is fresh: *)
(* a stale one has something on its way that will make it fetch.  Line is  *)
(* the reason nothing is skipped: what is sent, replayed and on its way    *)
(* are the numbers from lastId to last, one after the other.               *)
(***************************************************************************)
EXTENDS EventStream, FiniteSetTheorems, TLAPS

Sending == stream.pc \in {"replaying", "live"}
Heard   == {t \in Threads : pub[t].heard}
Base    == last - Len(stream.queue) - Len(loop) - Cardinality(Heard)

(* The ids on their way to the stream.                                      *)
Pending == {pub[t].id : t \in Heard} \cup {loop[i].id : i \in DOMAIN loop}
             \cup {stream.queue[i].id : i \in DOMAIN stream.queue}

(* Events keep the type their thread gave them.                             *)
Labels ==
  /\ \A t \in Threads : /\ pub[t].pc # "idle" => pub[t].type \in env.types
                        /\ pub[t].heard => pub[t].pc = "delivering"
                        /\ t \notin env.threads => pub[t].pc = "idle"
  /\ \A i \in DOMAIN buffer : buffer[i].type \in env.types
  /\ \A i \in DOMAIN loop : loop[i].type \in env.types
  /\ \A i \in DOMAIN stream.queue : stream.queue[i].type \in env.types
  /\ \A i \in DOMAIN stream.missed : stream.missed[i].type \in env.types
  /\ \A i \in DOMAIN wire : wire[i].type \in env.types \cup {"resync"}

(* The ring holds the newest events of the process, and all while it can.   *)
Ring ==
  /\ Len(buffer) <= last
  /\ Len(buffer) < last => Len(buffer) = env.buffer
  /\ \A i \in DOMAIN buffer : buffer[i].id = last - Len(buffer) + i

(* Where a connection is: it begins with an empty wire, and nothing is left  *)
(* on its way to a stream that is over.                                     *)
Opened ==
  /\ ~online => stream.pc = "none" /\ wire = <<>>
  /\ stream.pc \in {"subscribed", "gap"} => wire = <<>>
  /\ stream.pc = "none" => stream = Closed /\ loop = <<>> /\ Heard = {}
  /\ stream.pc # "replaying" => stream.missed = <<>>
  /\ stream.pc = "gap" => lastId < last

(* Its frames go up, from lastId to highest, which the events still to      *)
(* replay follow without a gap.                                             *)
Rising ==
  /\ stream.pc = "told" => lastId <= last /\ \A i \in DOMAIN wire : wire[i].id <= last
  /\ Sending => lastId <= stream.highest /\ \A i \in DOMAIN wire : wire[i].id <= stream.highest
  /\ \A i \in DOMAIN wire : wire[i].id > lastId
  /\ \A i, j \in DOMAIN wire : i < j => wire[i].id < wire[j].id
  /\ \A i \in DOMAIN stream.missed : stream.missed[i].id = stream.highest + i

Sent == Opened /\ Rising

(* Until the server restarts, nobody knows an id it has not given out; and  *)
(* a stream that has not replayed yet hears only of newer ones.             *)
Below ==
  /\ \A n \in Pending : n <= last
  /\ count.restarts = 0 =>
       /\ lastId <= last /\ stream.highest + Len(stream.missed) <= last
       /\ \A i \in DOMAIN wire : wire[i].id <= last
       /\ stream.pc = "subscribed" => \A n \in Pending : n > lastId

(* No more is on its way to the stream than has been published.             *)
Counted == IsFiniteSet(Heard) /\ Base >= 0

(* The board is or will be up to date, whatever is still to happen ...      *)
Known ==
  IF fetches = <<>> THEN Fresh ELSE fetches[Len(fetches)] \in {Unread, truth}

(* ... or something will make it fetch again.                               *)
Coming ==
  \/ stream.pc = "none" \/ wire # <<>> \/ stream.missed # <<>>
  \/ \E t \in Threads : pub[t].pc = "committed"
  \/ \E n \in Pending : n > stream.highest

Covered ==
  Calm => /\ stream.pc \notin {"gap", "told"}
          /\ count.restarts = 0 => Known \/ Coming

(* The frames, replayed and live, are the next numbers from lastId on, and  *)
(* what is on its way to the stream are the numbers from Base to last.      *)
Adjacent(s)    == \A i \in 1..(Len(s) - 1) : s[i + 1].id = s[i].id + 1
Numbered(s, n) == \A i \in DOMAIN s : s[i].id = n + i

Frames ==
  /\ Adjacent(wire)
  /\ wire # <<>> /\ lastId # 0 => wire[1].id = lastId + 1
  /\ Sending => stream.highest = IF wire = <<>> THEN lastId ELSE wire[Len(wire)].id

Backlog ==
  /\ Sending /\ stream.highest + Len(stream.missed) # 0
       => Base <= stream.highest + Len(stream.missed)
  /\ Numbered(stream.queue, Base) /\ Numbered(loop, Base + Len(stream.queue))
  /\ \A t \in Heard : pub[t].id = last

Line == Calm /\ Cardinality(env.threads) = 1 /\ count.restarts = 0 => Frames /\ Backlog

IInv == TypeOK /\ Labels /\ Ring /\ Sent /\ Below /\ Counted /\ Covered /\ Line

-----------------------------------------------------------------------------
LEMMA Longer ==
  ASSUME NEW S, NEW s \in Seq(S), NEW e \in S
  PROVE  /\ Append(s, e) \in Seq(S) /\ Len(Append(s, e)) = Len(s) + 1 /\ Append(s, e) # <<>>
         /\ Append(s, e)[Len(s) + 1] = e
         /\ \A i \in 1..Len(s) : Append(s, e)[i] = s[i]
OBVIOUS

LEMMA Shorter ==
  ASSUME NEW S, NEW s \in Seq(S), s # <<>>
  PROVE  /\ Tail(s) \in Seq(S) /\ Len(s) \in Nat \ {0} /\ Len(Tail(s)) = Len(s) - 1
         /\ Head(s) = s[1] /\ s[1] \in S
         /\ \A i \in 1..(Len(s) - 1) : Tail(s)[i] = s[i + 1]
OBVIOUS

LEMMA Lengths ==
  ASSUME NEW S, NEW s \in Seq(S)
  PROVE  /\ Len(s) \in Nat /\ DOMAIN s = 1..Len(s) /\ (s = <<>> <=> Len(s) = 0)
         /\ \A i \in 1..Len(s) : s[i] \in S
OBVIOUS

LEMMA Rest ==
  ASSUME NEW S, NEW s \in Seq(S), NEW k \in 0..Len(s)
  PROVE  /\ SubSeq(s, k + 1, Len(s)) \in Seq(S) /\ Len(SubSeq(s, k + 1, Len(s))) = Len(s) - k
         /\ \A i \in 1..(Len(s) - k) : SubSeq(s, k + 1, Len(s))[i] = s[i + k]
OBVIOUS

LEMMA Changed ==
  ASSUME NEW S, NEW s \in Seq(S), NEW e \in S, NEW i \in DOMAIN s
  PROVE  /\ [s EXCEPT ![i] = e] \in Seq(S) /\ Len([s EXCEPT ![i] = e]) = Len(s)
         /\ \A j \in 1..Len(s) : [s EXCEPT ![i] = e][j] = IF j = i THEN e ELSE s[j]
<1>1. s \in [1..Len(s) -> S] /\ Len(s) \in Nat /\ i \in 1..Len(s)
  OBVIOUS
<1>2. [s EXCEPT ![i] = e] \in [1..Len(s) -> S]
  BY <1>1
<1>3. \A f : f \in [1..Len(s) -> S] => f \in Seq(S) /\ Len(f) = Len(s)
  BY <1>1
<1>4. QED BY <1>1, <1>2, <1>3

LEMMA EnvType ==
  ASSUME env \in Settings
  PROVE  /\ env.threads \subseteq Threads /\ env.types \subseteq {"change", "log"}
         /\ env.buffer \in Nat \ {0} /\ env.queue \in Nat \ {0} /\ env.changes \in Nat
         /\ env.restarts \in Nat /\ env.losses \in Nat /\ env.failures \in Nat
         /\ env.overtaking \in BOOLEAN
BY StreamAssumption DEF Surroundings

LEMMA SeenFinite ==
  ASSUME TypeOK
  PROVE  Cardinality({i \in DOMAIN buffer : buffer[i].id <= lastId}) \in Nat
<1>1. buffer \in Seq(Events)
  BY DEF TypeOK
<1>2. IsFiniteSet(DOMAIN buffer)
  BY <1>1, Lengths, FS_Interval
<1>3. QED BY <1>2, FS_Subset, FS_CardinalityType

LEMMA MissedType == TypeOK => Missed \in Seq(Events)
<1> SUFFICES ASSUME TypeOK PROVE Missed \in Seq(Events)
  OBVIOUS
<1> DEFINE n == Cardinality({i \in DOMAIN buffer : buffer[i].id <= lastId})
<1>1. n \in Nat /\ buffer \in Seq(Events)
  BY SeenFinite DEF TypeOK
<1>2. SubSeq(buffer, n + 1, Len(buffer)) \in Seq(Events)
  <2> HIDE DEF n
  <2> QED BY <1>1
<1>3. QED BY <1>2 DEF Missed

LEMMA WithoutType ==
  ASSUME TypeOK, NEW i \in DOMAIN fetches
  PROVE  /\ Without(i) \in Seq(Ids \cup {Unread}) /\ Len(Without(i)) = Len(fetches) - 1
         /\ \A j \in 1..(Len(fetches) - 1) : Without(i)[j] = fetches[IF j < i THEN j ELSE j + 1]
<1>1. fetches \in Seq(Ids \cup {Unread}) /\ Len(fetches) \in Nat /\ i \in 1..Len(fetches)
  BY DEF TypeOK
<1>2. \A j \in 1..(Len(fetches) - 1) : (IF j < i THEN j ELSE j + 1) \in 1..Len(fetches)
  BY <1>1
<1>3. \A j \in 1..(Len(fetches) - 1) : fetches[IF j < i THEN j ELSE j + 1] \in Ids \cup {Unread}
  BY <1>1, <1>2
<1>4. QED BY <1>1, <1>3 DEF Without

-----------------------------------------------------------------------------
(* Types, part by part.                                                     *)
Publishing == [pc : {"idle", "committed", "delivering"}, type : env.types \cup {"log"},
               id : Ids, heard : BOOLEAN]
Streams    == [pc : {"none", "subscribed", "replaying", "gap", "told", "live"},
               queue : Seq(Events), missed : Seq(Events), highest : Ids]

BusTypes    == /\ truth \in Ids /\ last \in Ids /\ pub \in [Threads -> Publishing]
               /\ buffer \in Seq(Events) /\ Len(buffer) <= env.buffer
ServerTypes == /\ loop \in Seq(Events) /\ wire \in Seq(Events)
               /\ stream \in Streams /\ Len(stream.queue) <= env.queue
ClientTypes == /\ lastId \in Ids /\ online \in BOOLEAN
               /\ fetches \in Seq(Ids \cup {Unread}) /\ Len(fetches) <= MaxFetches
               /\ board \in Ids \cup {Unread} /\ error \in BOOLEAN
CountTypes  == count \in [restarts : 0..env.restarts, losses : 0..env.losses, failures : 0..env.failures]

LEMMA Parts == TypeOK <=> env \in Settings /\ BusTypes /\ ServerTypes /\ ClientTypes /\ CountTypes
BY DEF TypeOK, BusTypes, ServerTypes, ClientTypes, CountTypes, Publishing, Streams

LEMMA NewParts == env' \in Settings /\ BusTypes' /\ ServerTypes' /\ ClientTypes' /\ CountTypes' => TypeOK'
BY DEF TypeOK, BusTypes, ServerTypes, ClientTypes, CountTypes, Publishing, Streams

LEMMA Frame ==
  ASSUME env' = env
  PROVE  /\ Ids' = Ids /\ Events' = Events /\ Publishing' = Publishing /\ Streams' = Streams
         /\ UNCHANGED count /\ CountTypes => CountTypes'
         /\ UNCHANGED <<loop, wire, stream>> /\ ServerTypes => ServerTypes'
         /\ UNCHANGED clientVars /\ ClientTypes => ClientTypes'
         /\ UNCHANGED busVars /\ BusTypes => BusTypes'
<1>1. Ids' = Ids
  BY DEF Ids
<1>2. Events' = Events
  BY <1>1 DEF Events
<1>3. Publishing' = Publishing /\ Streams' = Streams
  BY <1>1, <1>2 DEF Publishing, Streams
<1>4. QED
  BY <1>1, <1>2, <1>3 DEF BusTypes, ServerTypes, ClientTypes, CountTypes, busVars, clientVars

LEMMA Constants ==
  ASSUME env \in Settings
  PROVE  /\ 0 \in Ids /\ Idle \in Publishing /\ Closed \in Streams
         /\ <<>> \in Seq(Events) /\ Len(<<>>) = 0
<1>1. 0 \in Ids
  BY EnvType DEF Ids
<1>2. QED BY <1>1 DEF Publishing, Streams, Idle, Closed

LEMMA Initial == Init => TypeOK
<1> SUFFICES ASSUME Init PROVE TypeOK
  OBVIOUS
<1>1. env \in Settings
  BY DEF Init
<1>2. BusTypes /\ ServerTypes
  BY <1>1, Constants, EnvType DEF Init, BusTypes, ServerTypes, Closed
<1>3. ClientTypes
  <2>1. MaxFetches \in Nat \ {0}
    BY StreamAssumption
  <2>2. fetches \in Seq(Ids \cup {Unread}) /\ Len(fetches) <= MaxFetches
    BY <2>1 DEF Init
  <2>3. QED BY <1>1, <2>2, Constants DEF Init, ClientTypes
<1>4. CountTypes
  BY <1>1, EnvType DEF Init, CountTypes
<1>5. QED BY <1>1, <1>2, <1>3, <1>4, Parts

LEMMA ThreadTypes ==
  ASSUME TypeOK, NEW t \in Threads, Thread(t)
  PROVE  TypeOK'
<1>1. env \in Settings /\ BusTypes /\ ServerTypes /\ ClientTypes /\ CountTypes
  BY Parts
<1>2. UNCHANGED <<env, count, stream, wire, clientVars>>
  BY DEF Thread, Commit, Publish, Notify, serverVars
<1>3. pub[t] \in Publishing /\ env.types \subseteq env.types \cup {"log"}
  BY <1>1 DEF BusTypes
<1>4. CASE Commit(t)
  <2>1. UNCHANGED <<last, buffer, loop>>
    BY <1>4 DEF Commit, serverVars
  <2>2. truth' \in Ids
    BY <1>1, <1>4, EnvType DEF Commit, BusTypes, Ids
  <2>3. ASSUME NEW type \in env.types
        PROVE  [Idle EXCEPT !.pc = "committed", !.type = type] \in Publishing
    BY <1>1, Constants DEF Publishing
  <2>4. pub' \in [Threads -> Publishing]
    BY <1>1, <1>4, <2>3 DEF Commit, BusTypes
  <2>5. BusTypes'
    BY <1>1, <1>2, <2>1, <2>2, <2>4, Frame DEF BusTypes
  <2>6. QED BY <1>1, <1>2, <2>1, <2>5, NewParts, Frame
<1>5. CASE Publish(t)
  <2>1. last' \in Ids /\ last' = last + 1 /\ UNCHANGED <<truth, loop>>
    BY <1>1, <1>5, EnvType DEF Publish, BusTypes, Ids, serverVars
  <2>2. pub[t].type \in {"change", "log"}
    BY <1>1, <1>3, EnvType DEF Publishing
  <2>3. Event(pub[t].type, last + 1) \in Events
    BY <2>1, <2>2 DEF Event, Events
  <2>4. pub' \in [Threads -> Publishing]
    <3>1. [pub[t] EXCEPT !.pc = "delivering", !.id = last + 1, !.heard = stream.pc # "none"] \in Publishing
      BY <1>3, <2>1 DEF Publishing
    <3>2. QED BY <1>1, <1>5, <3>1 DEF Publish, BusTypes
  <2>5. buffer' \in Seq(Events) /\ Len(buffer') <= env.buffer
    <3> DEFINE all == Append(buffer, Event(pub[t].type, last + 1))
    <3>1. all \in Seq(Events) /\ all # <<>> /\ Len(all) = Len(buffer) + 1
      BY <1>1, <2>3, Longer DEF BusTypes
    <3>2. Tail(all) \in Seq(Events) /\ Len(Tail(all)) = Len(all) - 1 /\ Len(buffer) \in Nat
      BY <1>1, <3>1, Shorter, Lengths DEF BusTypes
    <3>3. buffer' = IF Len(all) > env.buffer THEN Tail(all) ELSE all
      BY <1>5 DEF Publish
    <3> HIDE DEF all
    <3>4. QED BY <1>1, <3>1, <3>2, <3>3, EnvType DEF BusTypes
  <2>6. BusTypes'
    BY <1>1, <1>2, <2>1, <2>4, <2>5, Frame DEF BusTypes
  <2>7. QED BY <1>1, <1>2, <2>1, <2>6, NewParts, Frame
<1>6. CASE Notify(t)
  <2>1. UNCHANGED <<truth, last, buffer>> /\ pub' = [pub EXCEPT ![t] = Idle]
    BY <1>6 DEF Notify
  <2>2. pub[t].type \in {"change", "log"} /\ pub[t].id \in Ids
    BY <1>1, <1>3, EnvType DEF Publishing
  <2>3. Event(pub[t].type, pub[t].id) \in Events
    BY <2>2 DEF Event, Events
  <2>4. loop' \in Seq(Events)
    BY <1>1, <1>6, <2>3 DEF Notify, ServerTypes
  <2>5. pub' \in [Threads -> Publishing]
    BY <1>1, <2>1, Constants DEF BusTypes
  <2>6. BusTypes' /\ ServerTypes'
    BY <1>1, <1>2, <2>1, <2>4, <2>5, Frame DEF BusTypes, ServerTypes
  <2>7. QED BY <1>1, <1>2, <2>6, NewParts, Frame
<1>7. QED BY <1>4, <1>5, <1>6 DEF Thread

LEMMA StreamUpdates ==
  ASSUME stream \in Streams
  PROVE  /\ \A q \in Seq(Events) : /\ [stream EXCEPT !.queue = q] \in Streams
                                  /\ [stream EXCEPT !.queue = q].queue = q
         /\ \A m \in Seq(Events), h \in Ids :
              /\ [stream EXCEPT !.missed = m, !.highest = h] \in Streams
              /\ [stream EXCEPT !.missed = m, !.highest = h].queue = stream.queue
         /\ \A q \in Seq(Events), h \in Ids :
              /\ [stream EXCEPT !.queue = q, !.highest = h] \in Streams
              /\ [stream EXCEPT !.queue = q, !.highest = h].queue = q
         /\ [stream EXCEPT !.pc = "told"] \in Streams
         /\ [stream EXCEPT !.pc = "told"].queue = stream.queue
<1> DEFINE Some == Seq(Events)
<1>1. stream \in [pc : {"none", "subscribed", "replaying", "gap", "told", "live"},
                  queue : Some, missed : Some, highest : Ids]
  BY DEF Streams
<1>2. Streams = [pc : {"none", "subscribed", "replaying", "gap", "told", "live"},
                 queue : Some, missed : Some, highest : Ids]
  BY DEF Streams
<1> HIDE DEF Some
<1>3. /\ \A q \in Some : /\ [stream EXCEPT !.queue = q] \in Streams
                        /\ [stream EXCEPT !.queue = q].queue = q
      /\ [stream EXCEPT !.pc = "told"] \in Streams
      /\ [stream EXCEPT !.pc = "told"].queue = stream.queue
  BY <1>1, <1>2
<1>4. \A m \in Some, h \in Ids :
        /\ [stream EXCEPT !.missed = m, !.highest = h] \in Streams
        /\ [stream EXCEPT !.missed = m, !.highest = h].queue = stream.queue
  BY <1>1, <1>2
<1>5. \A q \in Some, h \in Ids :
        /\ [stream EXCEPT !.queue = q, !.highest = h] \in Streams
        /\ [stream EXCEPT !.queue = q, !.highest = h].queue = q
  BY <1>1, <1>2
<1>6. QED BY <1>3, <1>4, <1>5 DEF Some

LEMMA Unhear ==
  ASSUME pub \in [Threads -> Publishing]
  PROVE  [t \in Threads |-> [pub[t] EXCEPT !.heard = FALSE]] \in [Threads -> Publishing]
<1>1. \A t \in Threads : [pub[t] EXCEPT !.heard = FALSE] \in Publishing
  <2> TAKE t \in Threads
  <2>1. pub[t] \in Publishing
    OBVIOUS
  <2>2. QED BY <2>1 DEF Publishing
<1>2. QED BY <1>1

LEMMA Unheard ==
  ASSUME pub \in [Threads -> Publishing], NEW t \in Threads
  PROVE  LET p == [pub[t] EXCEPT !.heard = FALSE]
         IN  p.pc = pub[t].pc /\ p.type = pub[t].type /\ p.id = pub[t].id /\ p.heard = FALSE
BY DEF Publishing

LEMMA StreamTypes ==
  ASSUME TypeOK, Put \/ Stream \/ Renew
  PROVE  TypeOK'
<1>1. env \in Settings /\ BusTypes /\ ServerTypes /\ ClientTypes /\ CountTypes
  BY Parts
<1>2. UNCHANGED <<env, count, truth, last, buffer, clientVars>>
  BY DEF Put, Stream, Renew, Replay, SendMissed, SendResync, SkipToLast, Forward, busVars
<1>3. /\ loop \in Seq(Events) /\ wire \in Seq(Events) /\ stream \in Streams
      /\ stream.queue \in Seq(Events) /\ stream.missed \in Seq(Events)
      /\ Len(stream.queue) \in Nat /\ Len(stream.queue) <= env.queue
  BY <1>1 DEF ServerTypes, Streams
<1>4. ASSUME loop' \in Seq(Events), wire' \in Seq(Events), stream' \in Streams, UNCHANGED pub,
             Len(stream'.queue) <= env.queue
      PROVE  TypeOK'
  <2>1. ServerTypes'
    BY <1>2, <1>4, Frame DEF ServerTypes
  <2>2. BusTypes'
    BY <1>1, <1>2, <1>4, Frame DEF busVars
  <2>3. QED BY <1>1, <1>2, <2>1, <2>2, NewParts, Frame
<1>5. CASE Put
  <2>1. Tail(loop) \in Seq(Events) /\ Head(loop) \in Events /\ loop' = Tail(loop)
    BY <1>3, <1>5, Shorter DEF Put
  <2>2. /\ Append(stream.queue, Head(loop)) \in Seq(Events)
        /\ Len(Append(stream.queue, Head(loop))) = Len(stream.queue) + 1
    BY <1>3, <2>1, Longer
  <2>3. \/ stream' = stream
        \/ /\ Len(stream.queue) < env.queue
           /\ stream' = [stream EXCEPT !.queue = Append(stream.queue, Head(loop))]
    BY <1>5 DEF Put
  <2>4. stream' \in Streams /\ Len(stream'.queue) <= env.queue
    <3>1. CASE stream' = stream
      BY <1>3, <3>1
    <3>2. CASE /\ Len(stream.queue) < env.queue
               /\ stream' = [stream EXCEPT !.queue = Append(stream.queue, Head(loop))]
      <4>1. stream' \in Streams /\ stream'.queue = Append(stream.queue, Head(loop))
        BY <1>3, <2>2, <3>2, StreamUpdates
      <4>2. QED BY <1>1, <1>3, <2>2, <3>2, <4>1, EnvType
    <3>3. QED BY <2>3, <3>1, <3>2
  <2>5. UNCHANGED wire /\ UNCHANGED pub
    BY <1>5 DEF Put, busVars
  <2>6. QED BY <1>3, <1>4, <2>1, <2>4, <2>5
<1>6. CASE Replay
  <2>1. stream' \in Streams /\ stream'.queue = stream.queue
    BY <1>1, <1>3, <1>6, MissedType DEF Replay, Streams, ClientTypes
  <2>2. QED BY <1>3, <1>4, <1>6, <2>1 DEF Replay, busVars
<1>7. CASE SendMissed
  <2>1. UNCHANGED <<loop, pub>>
    BY <1>7 DEF SendMissed, busVars
  <2>2. CASE stream.missed = <<>>
    <3>1. stream' \in Streams /\ stream'.queue = stream.queue /\ UNCHANGED wire
      BY <1>3, <1>7, <2>2 DEF SendMissed, Streams
    <3>2. QED BY <1>3, <1>4, <2>1, <3>1
  <2>3. CASE stream.missed # <<>>
    <3>1. Head(stream.missed) \in Events /\ Tail(stream.missed) \in Seq(Events)
      BY <1>3, <2>3, Shorter
    <3>2. Head(stream.missed).id \in Ids
      BY <3>1 DEF Events
    <3>3. /\ stream' = [stream EXCEPT !.missed = Tail(stream.missed), !.highest = Head(stream.missed).id]
          /\ wire' = Append(wire, Head(stream.missed))
      BY <1>7, <2>3 DEF SendMissed
    <3>4. stream' \in Streams /\ stream'.queue = stream.queue /\ wire' \in Seq(Events)
      <4>0. \A q \in Seq(Events), h \in Ids :
              /\ [stream EXCEPT !.missed = q, !.highest = h] \in Streams
              /\ [stream EXCEPT !.missed = q, !.highest = h].queue = stream.queue
        BY <1>3, StreamUpdates
      <4>1. stream' \in Streams /\ stream'.queue = stream.queue
        BY <3>1, <3>2, <3>3, <4>0
      <4>2. Append(wire, Head(stream.missed)) \in Seq(Events)
        BY <1>3, <3>1, Longer
      <4>3. QED BY <3>3, <4>1, <4>2
    <3>5. QED BY <1>3, <1>4, <2>1, <3>4
  <2>4. QED BY <2>2, <2>3
<1>8. CASE SendResync
  <2>1. Event("resync", last) \in Events
    BY <1>1 DEF Event, Events, BusTypes
  <2>2. stream' \in Streams /\ stream'.queue = stream.queue /\ wire' \in Seq(Events)
    <3>1. stream' \in Streams /\ stream'.queue = stream.queue
      BY <1>3, <1>8, StreamUpdates DEF SendResync
    <3>2. Append(wire, Event("resync", last)) \in Seq(Events)
      BY <1>3, <2>1, Longer
    <3>3. QED BY <1>8, <3>1, <3>2 DEF SendResync
  <2>3. QED BY <1>3, <1>4, <1>8, <2>2 DEF SendResync, busVars
<1>9. CASE SkipToLast
  <2>1. stream' \in Streams /\ stream'.queue = stream.queue
    BY <1>1, <1>3, <1>9 DEF SkipToLast, Streams, BusTypes
  <2>2. QED BY <1>3, <1>4, <1>9, <2>1 DEF SkipToLast, busVars
<1>10. CASE Forward
  <2> DEFINE event == Head(stream.queue)
  <2>1. /\ event \in Events /\ Tail(stream.queue) \in Seq(Events)
        /\ Len(Tail(stream.queue)) = Len(stream.queue) - 1
    BY <1>3, <1>10, Shorter DEF Forward
  <2>2. event.id \in Ids
    BY <2>1 DEF Events
  <2>3. \/ stream' = [stream EXCEPT !.queue = Tail(stream.queue)] /\ wire' = wire
        \/ /\ stream' = [stream EXCEPT !.queue = Tail(stream.queue), !.highest = event.id]
           /\ wire' = Append(wire, event)
    BY <1>10 DEF Forward
  <2> HIDE DEF event
  <2>4. stream' \in Streams /\ Len(stream'.queue) <= env.queue /\ wire' \in Seq(Events)
    <3>1. stream' \in Streams /\ stream'.queue = Tail(stream.queue)
      <4>1. CASE stream' = [stream EXCEPT !.queue = Tail(stream.queue)]
        BY <1>3, <2>1, <4>1, StreamUpdates
      <4>2. CASE stream' = [stream EXCEPT !.queue = Tail(stream.queue), !.highest = event.id]
        BY <1>3, <2>1, <2>2, <4>2, StreamUpdates
      <4>3. QED BY <2>3, <4>1, <4>2
    <3>2. wire' \in Seq(Events)
      <4>1. Append(wire, event) \in Seq(Events)
        BY <1>3, <2>1, Longer
      <4>2. QED BY <1>3, <2>3, <4>1
    <3>3. QED BY <1>1, <1>3, <2>1, <3>1, <3>2, EnvType
  <2>5. QED BY <1>3, <1>4, <1>10, <2>4 DEF Forward, busVars
<1>11. CASE Renew
  <2>1. pub' = [t \in Threads |-> [pub[t] EXCEPT !.heard = FALSE]] /\ loop' = <<>> /\ stream' = Closed
    BY <1>11 DEF Renew, Unsubscribe
  <2>2. BusTypes'
    BY <1>1, <1>2, <2>1, Unhear, Frame DEF BusTypes
  <2>3. ServerTypes'
    BY <1>1, <1>2, <1>3, <1>11, <2>1, Constants, EnvType, Frame DEF ServerTypes, Renew, Closed
  <2>4. QED BY <1>1, <1>2, <2>2, <2>3, NewParts, Frame
<1>12. QED BY <1>5, <1>6, <1>7, <1>8, <1>9, <1>10, <1>11 DEF Stream

LEMMA BrowserTypes ==
  ASSUME TypeOK, Connect \/ Receive \/ NoticeEnd \/ Fetching \/ Refresh
  PROVE  TypeOK'
<1>1. env \in Settings /\ BusTypes /\ ServerTypes /\ ClientTypes /\ CountTypes
  BY Parts
<1>2. UNCHANGED <<env, count, busVars>>
  BY DEF Connect, Receive, NoticeEnd, Fetching, Read, Answer, Refresh
<1>3. MaxFetches \in Nat \ {0} /\ Len(fetches) \in Nat
  BY <1>1, StreamAssumption DEF ClientTypes
<1>4. Reconcile => fetches' \in Seq(Ids \cup {Unread}) /\ Len(fetches') <= MaxFetches
  BY <1>1, <1>3, Longer DEF Reconcile, ClientTypes
<1>5. CASE Connect
  <2>1. ServerTypes'
    <3>1. stream' = [Closed EXCEPT !.pc = "subscribed"] /\ UNCHANGED <<loop, wire>>
      BY <1>5 DEF Connect
    <3>2. stream' \in Streams /\ stream'.queue = <<>>
      BY <1>1, <3>1, Constants DEF Closed, Streams
    <3>3. QED BY <1>1, <1>2, <3>1, <3>2, Constants, EnvType, Frame DEF ServerTypes
  <2>2. ClientTypes'
    BY <1>1, <1>2, <1>4, <1>5, Frame DEF Connect, ClientTypes
  <2>3. QED BY <1>1, <1>2, <2>1, <2>2, NewParts, Frame
<1>6. CASE Receive
  <2>1. Head(wire) \in Events /\ Tail(wire) \in Seq(Events)
    BY <1>1, <1>6, Shorter DEF Receive, ServerTypes
  <2>2. ServerTypes'
    BY <1>1, <1>2, <1>6, <2>1, Frame DEF Receive, ServerTypes, serverVars
  <2>3. Head(wire).id \in Ids
    BY <2>1 DEF Events
  <2>4. ClientTypes'
    BY <1>1, <1>2, <1>4, <1>6, <2>3, Frame DEF Receive, ClientTypes
  <2>5. QED BY <1>1, <1>2, <2>2, <2>4, NewParts, Frame
<1>7. CASE NoticeEnd \/ Refresh
  <2>1. ServerTypes'
    BY <1>1, <1>2, <1>7, Frame DEF NoticeEnd, Refresh, serverVars
  <2>2. ClientTypes'
    BY <1>1, <1>2, <1>4, <1>7, Frame DEF NoticeEnd, Refresh, ClientTypes
  <2>3. QED BY <1>1, <1>2, <2>1, <2>2, NewParts, Frame
<1>8. CASE Fetching
  <2>1. PICK i \in 1..MaxFetches : Read(i) \/ Answer(i)
    BY <1>8 DEF Fetching
  <2>2. ServerTypes'
    BY <1>1, <1>2, <2>1, Frame DEF Read, Answer, serverVars
  <2>3. CASE Read(i)
    <3>1. fetches' = [fetches EXCEPT ![i] = truth] /\ truth \in Ids \cup {Unread}
      BY <1>1, <2>3 DEF Read, BusTypes
    <3>2. fetches' \in Seq(Ids \cup {Unread}) /\ Len(fetches') = Len(fetches)
      <4>1. fetches \in Seq(Ids \cup {Unread})
        BY <1>1 DEF ClientTypes
      <4>2. i \in DOMAIN fetches
        BY <2>3 DEF Read
      <4>3. QED BY <3>1, <4>1, <4>2, Changed
    <3>3. ClientTypes'
      BY <1>1, <1>2, <2>3, <3>2, Frame DEF Read, ClientTypes
    <3>4. QED BY <1>1, <1>2, <2>2, <3>3, NewParts, Frame
  <2>4. CASE Answer(i)
    <3>1. i \in DOMAIN fetches /\ fetches' = Without(i)
      BY <2>4 DEF Answer, Returns
    <3>2. fetches' \in Seq(Ids \cup {Unread}) /\ Len(fetches') <= MaxFetches
      BY <1>1, <1>3, <3>1, WithoutType DEF ClientTypes
    <3>3. fetches[i] \in Ids \cup {Unread}
      BY <1>1, <3>1, Lengths DEF ClientTypes
    <3>4. ClientTypes'
      BY <1>1, <1>2, <2>4, <3>2, <3>3, Frame DEF Answer, ClientTypes
    <3>5. QED BY <1>1, <1>2, <2>2, <3>4, NewParts, Frame
  <2>5. QED BY <2>1, <2>3, <2>4
<1>9. QED BY <1>5, <1>6, <1>7, <1>8

(* A fault counts within its bound.                                         *)
LEMMA FaultCounts ==
  ASSUME env \in Settings, CountTypes, Lose \/ FetchFails \/ Restart, env' = env
  PROVE  CountTypes'
<1> DEFINE Counts == [restarts : 0..env.restarts, losses : 0..env.losses, failures : 0..env.failures]
<1>1. env.restarts \in Nat /\ env.losses \in Nat /\ env.failures \in Nat /\ count \in Counts
  BY EnvType DEF CountTypes
<1>2. count' \in Counts
  <2>1. CASE Lose
    <3>1. count.losses < env.losses /\ count' = [count EXCEPT !.losses = count.losses + 1]
      BY <2>1 DEF Lose
    <3>2. QED BY <1>1, <3>1
  <2>2. CASE FetchFails
    <3>1. count.failures < env.failures /\ count' = [count EXCEPT !.failures = count.failures + 1]
      BY <2>2 DEF FetchFails
    <3>2. QED BY <1>1, <3>1
  <2>3. CASE Restart
    <3>1. count.restarts < env.restarts /\ count' = [count EXCEPT !.restarts = count.restarts + 1]
      BY <2>3 DEF Restart
    <3>2. QED BY <1>1, <3>1
  <2>4. QED BY <2>1, <2>2, <2>3
<1>3. QED BY <1>2 DEF CountTypes

LEMMA FaultTypes ==
  ASSUME TypeOK, Lose \/ FetchFails \/ Restart
  PROVE  TypeOK'
<1>1. env \in Settings /\ BusTypes /\ ServerTypes /\ ClientTypes /\ CountTypes
  BY Parts
<1>2. env' = env
  BY DEF Lose, FetchFails, Restart
<1>3. CountTypes'
  BY <1>1, <1>2, FaultCounts
<1>4. CASE Lose
  <2>1. /\ pub' = [t \in Threads |-> [pub[t] EXCEPT !.heard = FALSE]] /\ loop' = <<>> /\ stream' = Closed
        /\ wire' = <<>> /\ online' = FALSE /\ UNCHANGED <<truth, last, buffer, lastId, fetches, board, error>>
    BY <1>4 DEF Lose, Unsubscribe
  <2>2. BusTypes'
    BY <1>1, <1>2, <2>1, Unhear, Frame DEF BusTypes
  <2>3. ServerTypes'
    BY <1>1, <1>2, <2>1, Constants, EnvType, Frame DEF ServerTypes, Closed
  <2>4. ClientTypes'
    BY <1>1, <1>2, <2>1, Frame DEF ClientTypes
  <2>5. QED BY <1>1, <1>2, <1>3, <2>2, <2>3, <2>4, NewParts
<1>5. CASE FetchFails
  <2>1. PICK i \in 1..MaxFetches : Returns(i) /\ fetches' = Without(i)
    BY <1>5 DEF FetchFails
  <2>2. fetches' \in Seq(Ids \cup {Unread}) /\ Len(fetches') <= MaxFetches
    BY <1>1, <2>1, WithoutType, StreamAssumption DEF Returns, ClientTypes
  <2>3. ClientTypes'
    BY <1>1, <1>2, <1>5, <2>2, Frame DEF FetchFails, ClientTypes
  <2>4. BusTypes' /\ ServerTypes'
    BY <1>1, <1>2, <1>5, Frame DEF FetchFails, serverVars
  <2>5. QED BY <1>1, <1>2, <1>3, <2>3, <2>4, NewParts
<1>6. CASE Restart
  <2>1. /\ pub' = [t \in Threads |-> Idle] /\ last' = 0 /\ buffer' = <<>> /\ loop' = <<>>
        /\ stream' = Closed /\ wire' = <<>> /\ online' = FALSE /\ fetches' = <<>>
        /\ error' \in BOOLEAN /\ UNCHANGED <<truth, lastId, board>>
    BY <1>1, <1>6 DEF Restart, ClientTypes
  <2>2. BusTypes'
    BY <1>1, <1>2, <2>1, Constants, EnvType, Frame DEF BusTypes
  <2>3. ServerTypes'
    BY <1>1, <1>2, <2>1, Constants, EnvType, Frame DEF ServerTypes, Closed
  <2>4. fetches' \in Seq(Ids \cup {Unread}) /\ Len(fetches') <= MaxFetches
    BY <2>1, StreamAssumption
  <2>5. ClientTypes'
    BY <1>1, <1>2, <2>1, <2>4, Frame DEF ClientTypes
  <2>6. QED BY <1>1, <1>2, <1>3, <2>2, <2>3, <2>5, NewParts
<1>7. QED BY <1>4, <1>5, <1>6

LEMMA TypeStep == TypeOK /\ [Next]_vars => TypeOK'
<1>1. ASSUME TypeOK, UNCHANGED vars PROVE TypeOK'
  BY <1>1 DEF vars, busVars, serverVars, clientVars, TypeOK, Ids, Events
<1>2. QED BY <1>1, ThreadTypes, StreamTypes, BrowserTypes, FaultTypes DEF Next

(* No queue outgrows its limit: the ring holds env.buffer events at most,   *)
(* a subscriber's queue env.queue, however fast threads publish, and every  *)
(* id the browser, a frame or a queue holds is one the bus can have given   *)
(* out (publish, on_event, event_stream, reconcile).                        *)
THEOREM TypeCorrect == Spec => []TypeOK
BY Initial, TypeStep, PTL DEF Spec

-----------------------------------------------------------------------------
(* The ring, and what replay_since returns of it: exactly the events after  *)
(* lastId, which unless there is a gap are numbered from lastId + 1 to last. *)
LEMMA RingStep == TypeOK /\ Ring /\ [Next]_vars => Ring'
<1> SUFFICES ASSUME TypeOK, Ring, [Next]_vars PROVE Ring'
  OBVIOUS
<1>1. CASE UNCHANGED <<env, last, buffer>>
  BY <1>1 DEF Ring
<1>2. CASE Restart
  BY <1>2 DEF Restart, Ring
<1>3. ASSUME NEW t \in Threads, Publish(t) PROVE Ring'
  <2> DEFINE all == Append(buffer, Event(pub[t].type, last + 1))
  <2>1. /\ buffer \in Seq(Events) /\ last \in Nat /\ env.buffer \in Nat \ {0} /\ Len(buffer) \in Nat
        /\ Len(buffer) <= env.buffer /\ pub[t] \in Publishing /\ env \in Settings
    BY Parts, EnvType, Lengths DEF BusTypes, Ids
  <2>2. Event(pub[t].type, last + 1) \in Events /\ Event(pub[t].type, last + 1).id = last + 1
    <3>1. last + 1 \in Ids
      BY <1>3, <2>1, EnvType DEF Publish, Ids
    <3>2. pub[t].type \in {"change", "log"}
      BY <2>1, EnvType DEF Publishing
    <3>3. QED BY <3>1, <3>2 DEF Event, Events
  <2>3. /\ all \in Seq(Events) /\ all # <<>> /\ Len(all) = Len(buffer) + 1
        /\ \A i \in 1..Len(all) : all[i].id = last + 1 - Len(all) + i
    <3>1. /\ all \in Seq(Events) /\ Len(all) = Len(buffer) + 1 /\ all # <<>>
          /\ all[Len(buffer) + 1] = Event(pub[t].type, last + 1)
          /\ \A i \in 1..Len(buffer) : all[i] = buffer[i]
      BY <2>1, <2>2, Longer
    <3>2. \A i \in 1..Len(buffer) : buffer[i].id = last - Len(buffer) + i
      BY <2>1, Lengths DEF Ring
    <3> HIDE DEF all
    <3>3. ASSUME NEW i \in 1..Len(all) PROVE all[i].id = last + 1 - Len(all) + i
      <4>1. CASE i = Len(buffer) + 1
        BY <2>1, <2>2, <3>1, <4>1
      <4>2. CASE i \in 1..Len(buffer)
        BY <2>1, <3>1, <3>2, <4>2
      <4>3. QED BY <2>1, <3>1, <4>1, <4>2
    <3>4. QED BY <3>1, <3>3
  <2>4. /\ Tail(all) \in Seq(Events) /\ Len(Tail(all)) = Len(all) - 1
        /\ \A i \in 1..(Len(all) - 1) : Tail(all)[i] = all[i + 1]
    BY <2>3, Shorter
  <2>5. buffer' = (IF Len(all) > env.buffer THEN Tail(all) ELSE all) /\ last' = last + 1 /\ env' = env
    BY <1>3 DEF Publish
  <2> HIDE DEF all
  <2>6. Len(buffer') <= last' /\ (Len(buffer') < last' => Len(buffer') = env.buffer)
    BY <2>1, <2>3, <2>4, <2>5 DEF Ring
  <2>7. \A i \in 1..Len(buffer') : buffer'[i].id = last' - Len(buffer') + i
    <3>1. CASE Len(all) > env.buffer
      <4>1. \A i \in 1..(Len(all) - 1) : Tail(all)[i].id = last + 1 - Len(all) + (i + 1)
        BY <2>1, <2>3, <2>4
      <4>2. QED BY <2>1, <2>3, <2>4, <2>5, <3>1, <4>1
    <3>2. CASE ~(Len(all) > env.buffer)
      <4>1. buffer' = all /\ last' = last + 1
        BY <2>5, <3>2
      <4>2. ASSUME NEW i \in 1..Len(buffer') PROVE buffer'[i].id = last' - Len(buffer') + i
        <5>1. i \in 1..Len(all)
          BY <4>1
        <5>2. all[i].id = last + 1 - Len(all) + i
          BY <2>3, <5>1
        <5>3. last \in Nat /\ Len(all) \in Nat
          BY <2>1, <2>3
        <5>4. QED BY <4>1, <5>2, <5>3
      <4>3. QED BY <4>2
    <3>3. QED BY <3>1, <3>2
  <2>8. DOMAIN buffer' = 1..Len(buffer')
    BY <2>3, <2>4, <2>5, Lengths
  <2>9. QED BY <2>5, <2>6, <2>7, <2>8 DEF Ring
<1>4. QED
  BY <1>1, <1>2, <1>3 DEF Next, Thread, Commit, Notify, Put, Stream, Replay, SendMissed, SendResync,
     SkipToLast, Forward, Renew, Connect, Receive, NoticeEnd, Fetching, Read, Answer, Refresh, Lose,
     FetchFails, vars, busVars

LEMMA MissedIsTheRest ==
  ASSUME TypeOK, Ring, lastId # 0
  PROVE  \E k \in 0..Len(buffer) :
           /\ \A i \in 1..Len(buffer) : buffer[i].id > lastId <=> i > k
           /\ Len(Missed) = Len(buffer) - k
           /\ \A i \in 1..(Len(buffer) - k) : Missed[i] = buffer[i + k]
<1> DEFINE n    == Len(buffer)
           k    == IF lastId <= last - n THEN 0 ELSE IF lastId >= last THEN n ELSE lastId - last + n
           seen == {i \in DOMAIN buffer : buffer[i].id <= lastId}
<1>1. /\ buffer \in Seq(Events) /\ last \in Nat /\ lastId \in Nat /\ n \in Nat /\ n <= last
      /\ DOMAIN buffer = 1..n /\ \A i \in 1..n : buffer[i].id = last - n + i
  <2>1. /\ buffer \in Seq(Events) /\ last \in Nat /\ lastId \in Nat
    BY Parts, EnvType DEF BusTypes, ClientTypes, Ids
  <2>2. QED BY <2>1, Lengths DEF Ring
<1>2. k \in 0..n
  BY <1>1
<1>3. \A i \in 1..n : buffer[i].id <= lastId <=> i <= k
  BY <1>1
<1>4. seen = 1..k
  <2> HIDE DEF k
  <2> QED BY <1>1, <1>2, <1>3
<1>5. Cardinality(seen) = k
  <2> HIDE DEF k, seen
  <2>1. Cardinality(1..k) = k
    BY <1>1, <1>2, FS_Interval
  <2> QED BY <1>4, <2>1
<1>6. Missed = SubSeq(buffer, k + 1, n)
  <2> HIDE DEF k
  <2> QED BY <1>5 DEF Missed
<1> HIDE DEF n, k, seen
<1>7. /\ Len(SubSeq(buffer, k + 1, n)) = n - k
      /\ \A i \in 1..(n - k) : SubSeq(buffer, k + 1, n)[i] = buffer[i + k]
  <2>1. n = Len(buffer)
    BY DEF n
  <2>2. QED BY <1>1, <1>2, <2>1, Rest
<1>8. \A i \in 1..n : buffer[i].id > lastId <=> i > k
  BY <1>1, <1>2, <1>3
<1>9. QED BY <1>2, <1>6, <1>7, <1>8 DEF n

LEMMA MissedNumbers ==
  ASSUME TypeOK, Ring, ~Gap
  PROVE  /\ Missed \in Seq(Events)
         /\ \A i \in 1..Len(Missed) : /\ Missed[i].id = lastId + i
                                      /\ \E j \in DOMAIN buffer : Missed[i] = buffer[j]
         /\ lastId # 0 /\ lastId <= last => lastId + Len(Missed) = last
         /\ lastId = 0 \/ lastId > last => Missed = <<>>
<1>1. Missed \in Seq(Events)
  BY MissedType
<1>2. CASE lastId = 0
  BY <1>1, <1>2 DEF Missed
<1>3. CASE lastId # 0
  <2>1. PICK k \in 0..Len(buffer) :
           /\ \A i \in 1..Len(buffer) : buffer[i].id > lastId <=> i > k
           /\ Len(Missed) = Len(buffer) - k
           /\ \A i \in 1..(Len(buffer) - k) : Missed[i] = buffer[i + k]
    BY <1>3, MissedIsTheRest
  <2>2. /\ buffer \in Seq(Events) /\ last \in Nat /\ lastId \in Nat /\ env.buffer \in Nat \ {0}
    BY Parts, EnvType DEF BusTypes, ClientTypes, Ids
  <2>3. /\ Len(buffer) \in Nat /\ DOMAIN buffer = 1..Len(buffer) /\ (buffer # <<>> => Head(buffer) = buffer[1])
    BY <2>2, Lengths, Shorter
  <2>4. /\ Len(buffer) <= last /\ (Len(buffer) < last => Len(buffer) = env.buffer)
        /\ \A i \in 1..Len(buffer) : buffer[i].id = last - Len(buffer) + i
    BY <2>3 DEF Ring
  <2>5. Len(buffer) # 0 => lastId >= last - Len(buffer)
    <3>1. ASSUME Len(buffer) # 0 PROVE buffer # <<>>
      BY <3>1
    <3>2. QED BY <1>3, <2>2, <2>3, <2>4, <3>1 DEF Gap
  <2>6. k \in Nat /\ k <= Len(buffer) /\ Len(Missed) = Len(buffer) - k
    BY <2>1, <2>3
  <2>7. k # 0 => last - Len(buffer) + k <= lastId
    <3>1. ASSUME k # 0 PROVE k \in 1..Len(buffer) /\ ~(buffer[k].id > lastId)
      BY <2>1, <2>3, <2>6, <3>1
    <3>2. QED BY <2>2, <2>3, <2>4, <2>6, <3>1
  <2>8. k < Len(buffer) => last - Len(buffer) + k + 1 > lastId
    <3>1. ASSUME k < Len(buffer) PROVE k + 1 \in 1..Len(buffer) /\ buffer[k + 1].id > lastId
      BY <2>1, <2>3, <2>6, <3>1
    <3>2. QED BY <2>2, <2>3, <2>4, <2>6, <3>1
  <2> DEFINE n == Len(buffer)
           m == Len(Missed)
  <2>9. n \in Nat /\ n <= last /\ (n < last => n = env.buffer) /\ m = n - k
    BY <2>3, <2>4, <2>6
  <2> HIDE DEF n, m
  <2>10. lastId <= last => lastId + Len(Missed) = last
    <3>1. lastId <= last => lastId + m = last
      BY <2>2, <2>5, <2>6, <2>7, <2>8, <2>9 DEF n
    <3>2. QED BY <3>1 DEF m
  <2>11. lastId > last => Missed = <<>>
    <3>1. lastId > last => Len(Missed) = 0
      BY <2>2, <2>5, <2>6, <2>7, <2>8, <2>9 DEF n, m
    <3>2. QED BY <1>1, <3>1, Lengths
  <2>12. ASSUME NEW i \in 1..Len(Missed)
        PROVE  Missed[i].id = lastId + i /\ \E j \in DOMAIN buffer : Missed[i] = buffer[j]
    <3>1. i + k \in 1..Len(buffer) /\ Missed[i] = buffer[i + k]
      BY <2>1, <2>3, <2>6
    <3>2. last - Len(buffer) + k = lastId
      BY <2>2, <2>3, <2>5, <2>6, <2>7, <2>8
    <3>3. buffer[i + k].id = last - Len(buffer) + (i + k)
      BY <2>4, <3>1
    <3>4. buffer[i + k].id = lastId + i
      BY <2>2, <2>3, <2>6, <3>2, <3>3
    <3>5. QED BY <2>3, <3>1, <3>4
  <2>13. QED BY <1>1, <1>3, <2>10, <2>11, <2>12
<1>4. QED BY <1>2, <1>3

-----------------------------------------------------------------------------
LEMMA Typed ==
  ASSUME TypeOK
  PROVE  /\ env \in Settings /\ last \in Nat /\ last <= env.changes /\ lastId \in Nat /\ stream.highest \in Nat
         /\ loop \in Seq(Events) /\ wire \in Seq(Events)
         /\ stream.queue \in Seq(Events) /\ stream.missed \in Seq(Events)
         /\ Len(loop) \in Nat /\ Len(wire) \in Nat /\ Len(stream.queue) \in Nat /\ Len(stream.missed) \in Nat
         /\ pub \in [Threads -> Publishing] /\ stream \in Streams /\ online \in BOOLEAN
<1>1. env \in Settings /\ BusTypes /\ ServerTypes /\ ClientTypes
  BY Parts
<1>2. last \in Nat /\ last <= env.changes /\ lastId \in Nat
  BY <1>1, EnvType DEF BusTypes, ClientTypes, Ids
<1>3. stream.highest \in Nat /\ stream.queue \in Seq(Events) /\ stream.missed \in Seq(Events)
  <2>1. stream.highest \in Ids /\ stream.queue \in Seq(Events) /\ stream.missed \in Seq(Events)
    BY <1>1 DEF ServerTypes, Streams
  <2>2. QED BY <1>1, <2>1, EnvType DEF Ids
<1>4. QED BY <1>1, <1>2, <1>3 DEF BusTypes, ServerTypes, ClientTypes

LEMMA EventType ==
  ASSUME TypeOK, NEW e \in Events
  PROVE  e.id \in Nat /\ e.type \in {"change", "log", "resync"}
<1>1. e.id \in Ids /\ e.type \in {"change", "log", "resync"}
  BY DEF Events
<1>2. QED BY <1>1, Typed, EnvType DEF Ids

LEMMA ThreadType ==
  ASSUME TypeOK, NEW t \in Threads
  PROVE  /\ pub[t].pc \in {"idle", "committed", "delivering"} /\ pub[t].heard \in BOOLEAN
         /\ pub[t].type \in {"change", "log"} /\ pub[t].id \in Nat
         /\ Event(pub[t].type, pub[t].id) \in Events
         /\ Event(pub[t].type, pub[t].id).type = pub[t].type
         /\ Event(pub[t].type, pub[t].id).id = pub[t].id
<1>1. pub[t] \in Publishing /\ env \in Settings
  BY Typed
<1>2. /\ pub[t].pc \in {"idle", "committed", "delivering"} /\ pub[t].heard \in BOOLEAN
      /\ pub[t].type \in env.types \cup {"log"} /\ pub[t].id \in Ids
  BY <1>1 DEF Publishing
<1>3. pub[t].type \in {"change", "log"} /\ pub[t].id \in Nat
  BY <1>1, <1>2, EnvType DEF Ids
<1>4. QED BY <1>2, <1>3 DEF Event, Events

(* What a step of a thread does to the threads.                             *)
LEMMA PubMoves ==
  ASSUME TypeOK, NEW t \in Threads
  PROVE  /\ \A u \in Threads \ {t} : Thread(t) => pub'[u] = pub[u]
         /\ Commit(t) => /\ pub[t].pc = "idle" /\ pub'[t].pc = "committed" /\ ~pub'[t].heard
                         /\ pub'[t].type \in env.types /\ t \in env.threads
         /\ Publish(t) => /\ pub[t].pc = "committed" /\ pub'[t].pc = "delivering" /\ pub'[t].id = last + 1
                          /\ pub'[t].type = pub[t].type /\ pub'[t].heard = (stream.pc # "none")
         /\ Notify(t) => pub[t].pc = "delivering" /\ pub'[t] = Idle
<1>1. pub \in [Threads -> Publishing] /\ pub[t] \in Publishing
  BY Typed
<1>2. Thread(t) => \A u \in Threads \ {t} : pub'[u] = pub[u]
  BY <1>1 DEF Thread, Commit, Publish, Notify
<1>3. ASSUME Commit(t)
      PROVE  /\ pub[t].pc = "idle" /\ pub'[t].pc = "committed" /\ ~pub'[t].heard
             /\ pub'[t].type \in env.types /\ t \in env.threads
  BY <1>1, <1>3 DEF Commit, Idle
<1>4. ASSUME Publish(t)
      PROVE  /\ pub[t].pc = "committed" /\ pub'[t].pc = "delivering" /\ pub'[t].id = last + 1
             /\ pub'[t].type = pub[t].type /\ pub'[t].heard = (stream.pc # "none")
  BY <1>1, <1>4 DEF Publish, Publishing
<1>5. ASSUME Notify(t) PROVE pub[t].pc = "delivering" /\ pub'[t] = Idle
  BY <1>1, <1>5 DEF Notify
<1>6. QED BY <1>2, <1>3, <1>4, <1>5

LEMMA LastOfRing ==
  ASSUME TypeOK, NEW t \in Threads, Publish(t)
  PROVE  /\ Event(pub[t].type, last + 1) \in Events
         /\ \A i \in DOMAIN buffer' : buffer'[i] = Event(pub[t].type, last + 1)
                                      \/ \E j \in DOMAIN buffer : buffer'[i] = buffer[j]
<1> DEFINE new == Event(pub[t].type, last + 1)
           all == Append(buffer, new)
<1>1. buffer \in Seq(Events) /\ last \in Nat /\ env \in Settings
  BY Parts, Typed DEF BusTypes
<1>2. new \in Events
  <2>1. last + 1 \in Ids
    BY <1>1, EnvType DEF Publish, Ids
  <2>2. QED BY <2>1, ThreadType DEF Event, Events
<1> HIDE DEF new
<1>3. /\ all \in Seq(Events) /\ all # <<>> /\ Len(all) = Len(buffer) + 1 /\ Len(buffer) \in Nat
      /\ DOMAIN buffer = 1..Len(buffer) /\ all[Len(buffer) + 1] = new
      /\ \A i \in 1..Len(buffer) : all[i] = buffer[i]
  BY <1>1, <1>2, Longer, Lengths
<1> HIDE DEF all
<1>4. \A i \in 1..Len(all) : all[i] = new \/ \E j \in DOMAIN buffer : all[i] = buffer[j]
  BY <1>3
<1>5. /\ Tail(all) \in Seq(Events) /\ DOMAIN Tail(all) = 1..(Len(all) - 1)
      /\ \A i \in 1..(Len(all) - 1) : Tail(all)[i] = all[i + 1]
  BY <1>3, Shorter, Lengths
<1>6. \A i \in DOMAIN Tail(all) : Tail(all)[i] = new \/ \E j \in DOMAIN buffer : Tail(all)[i] = buffer[j]
  BY <1>3, <1>4, <1>5
<1>7. buffer' = Tail(all) \/ buffer' = all
  BY DEF Publish, all, new
<1>8. CASE buffer' = all
  BY <1>2, <1>3, <1>4, <1>8 DEF new
<1>9. CASE buffer' = Tail(all)
  BY <1>2, <1>5, <1>6, <1>9 DEF new
<1>10. QED BY <1>7, <1>8, <1>9

LEMMA OneMore ==
  ASSUME NEW S, NEW s \in Seq(S), NEW e \in S
  PROVE  \A i \in DOMAIN Append(s, e) : \/ i = Len(s) + 1 /\ Append(s, e)[i] = e
                                        \/ i \in DOMAIN s /\ Append(s, e)[i] = s[i]
<1>1. DOMAIN Append(s, e) = 1..(Len(s) + 1) /\ DOMAIN s = 1..Len(s) /\ Len(s) \in Nat
  BY Longer, Lengths
<1>2. QED BY <1>1, Longer

LEMMA OneLess ==
  ASSUME NEW S, NEW s \in Seq(S), s # <<>>
  PROVE  \A i \in DOMAIN Tail(s) : i + 1 \in DOMAIN s /\ Tail(s)[i] = s[i + 1] /\ i \in 1..(Len(s) - 1)
<1>1. DOMAIN Tail(s) = 1..(Len(s) - 1) /\ DOMAIN s = 1..Len(s) /\ Len(s) \in Nat
  BY Shorter, Lengths
<1>2. QED BY <1>1, Shorter

LEMMA FirstIsIn ==
  ASSUME NEW S, NEW s \in Seq(S), s # <<>>
  PROVE  1 \in DOMAIN s /\ Head(s) = s[1] /\ Head(s) \in S
BY Shorter, Lengths

LEMMA AllOfRest ==
  ASSUME NEW S, NEW s \in Seq(S), s # <<>>
  PROVE  DOMAIN s = {1} \cup {i + 1 : i \in DOMAIN Tail(s)}
<1> DEFINE n == Len(s)
<1>1. n \in Nat \ {0} /\ DOMAIN s = 1..n /\ DOMAIN Tail(s) = 1..(n - 1)
  BY Shorter, Lengths
<1> HIDE DEF n
<1>2. ASSUME NEW i \in 1..n, i # 1 PROVE i - 1 \in 1..(n - 1) /\ i = (i - 1) + 1
  BY <1>1, <1>2
<1>3. \A i \in 1..n : i = 1 \/ \E j \in 1..(n - 1) : i = j + 1
  BY <1>2
<1>4. \A j \in 1..(n - 1) : j + 1 \in 1..n
  BY <1>1
<1>5. 1 \in 1..n
  BY <1>1
<1>6. QED BY <1>1, <1>3, <1>4, <1>5

LEMMA LabelsOfThreads ==
  ASSUME TypeOK, Labels, NEW t \in Threads, Thread(t)
  PROVE  Labels'
<1>1. UNCHANGED <<env, stream, wire>>
  BY DEF Thread, Commit, Publish, Notify, serverVars
<1>2. \A u \in Threads : /\ pub'[u].pc # "idle" => pub'[u].type \in env.types
                         /\ pub'[u].heard => pub'[u].pc = "delivering"
                         /\ u \notin env.threads => pub'[u].pc = "idle"
  <2> TAKE u \in Threads
  <2>1. CASE u # t
    BY <2>1, PubMoves DEF Labels
  <2>2. CASE u = t
    BY <2>2, PubMoves DEF Labels, Thread, Idle
  <2>3. QED BY <2>1, <2>2
<1>3. \A i \in DOMAIN buffer' : buffer'[i].type \in env.types
  <2>1. CASE Publish(t)
    <3>1. pub[t].type \in env.types
      BY <2>1 DEF Publish, Labels
    <3>2. Event(pub[t].type, last + 1).type = pub[t].type
      BY DEF Event
    <3>3. QED BY <2>1, <3>1, <3>2, LastOfRing DEF Labels
  <2>2. CASE UNCHANGED buffer
    BY <2>2 DEF Labels
  <2>3. QED BY <2>1, <2>2 DEF Thread, Commit, Notify
<1>4. \A i \in DOMAIN loop' : loop'[i].type \in env.types
  <2>1. CASE Notify(t)
    <3> DEFINE new == Event(pub[t].type, pub[t].id)
    <3>1. loop \in Seq(Events) /\ new \in Events /\ new.type = pub[t].type
      BY Typed, ThreadType
    <3>2. new.type \in env.types
      BY <2>1, <3>1 DEF Notify, Labels
    <3>3. loop' = Append(loop, new) \/ loop' = loop
      BY <2>1 DEF Notify
    <3> HIDE DEF new
    <3>4. QED BY <3>1, <3>2, <3>3, OneMore DEF Labels
  <2>2. CASE UNCHANGED loop
    BY <2>2 DEF Labels
  <2>3. QED BY <2>1, <2>2 DEF Thread, Commit, Publish, serverVars
<1>5. QED BY <1>1, <1>2, <1>3, <1>4 DEF Labels

LEMMA LabelsOfStream ==
  ASSUME TypeOK, Ring, Labels, Put \/ Stream \/ Renew
  PROVE  Labels'
<1>1. UNCHANGED <<env, buffer>>
  BY DEF Put, Stream, Renew, Replay, SendMissed, SendResync, SkipToLast, Forward, busVars
<1>2. /\ loop \in Seq(Events) /\ wire \in Seq(Events) /\ stream \in Streams
      /\ stream.queue \in Seq(Events) /\ stream.missed \in Seq(Events) /\ pub \in [Threads -> Publishing]
  BY Typed
<1>3. CASE Put
  <2>1. /\ Tail(loop) \in Seq(Events) /\ Head(loop) \in Events /\ loop' = Tail(loop) /\ loop # <<>>
        /\ Head(loop).type \in env.types
    BY <1>2, <1>3, Shorter, FirstIsIn DEF Put, Labels
  <2>2. \A i \in DOMAIN loop' : loop'[i].type \in env.types
    BY <1>2, <2>1, OneLess DEF Labels
  <2>3. \A i \in DOMAIN stream'.queue : stream'.queue[i].type \in env.types
    <3>1. stream'.queue = stream.queue \/ stream'.queue = Append(stream.queue, Head(loop))
      BY <1>2, <1>3 DEF Put, Streams
    <3>2. ASSUME NEW i \in DOMAIN Append(stream.queue, Head(loop))
          PROVE  Append(stream.queue, Head(loop))[i].type \in env.types
      BY <1>2, <2>1, OneMore DEF Labels
    <3>3. QED BY <3>1, <3>2 DEF Labels
  <2>4. stream'.missed = stream.missed /\ UNCHANGED <<pub, wire>>
    BY <1>2, <1>3 DEF Put, Streams, busVars
  <2>5. QED BY <1>1, <2>2, <2>3, <2>4 DEF Labels
<1>4. CASE Replay
  <2>1. stream'.queue = stream.queue /\ UNCHANGED <<loop, pub, wire>>
    BY <1>2, <1>4 DEF Replay, Streams, busVars
  <2>2. \A i \in DOMAIN stream'.missed : stream'.missed[i].type \in env.types
    <3>1. CASE Gap
      BY <1>2, <1>4, <3>1 DEF Replay, Streams, Labels
    <3>2. CASE ~Gap
      <4>1. stream'.missed = Missed
        BY <1>2, <1>4, <3>2 DEF Replay, Streams
      <4>2. DOMAIN Missed = 1..Len(Missed)
        BY MissedType, Lengths
      <4>3. QED BY <3>2, <4>1, <4>2, MissedNumbers DEF Labels
    <3>3. QED BY <3>1, <3>2
  <2>3. QED BY <1>1, <2>1, <2>2 DEF Labels
<1>5. CASE SendMissed
  <2>1. stream'.queue = stream.queue /\ UNCHANGED <<loop, pub>>
    BY <1>2, <1>5 DEF SendMissed, Streams, busVars
  <2>2. CASE stream.missed = <<>>
    <3>1. stream'.missed = stream.missed /\ UNCHANGED wire
      BY <1>2, <1>5, <2>2 DEF SendMissed, Streams
    <3>2. QED BY <1>1, <2>1, <3>1 DEF Labels
  <2>3. CASE stream.missed # <<>>
    <3>1. stream'.missed = Tail(stream.missed) /\ wire' = Append(wire, Head(stream.missed))
      BY <1>2, <1>5, <2>3 DEF SendMissed, Streams
    <3>2. Head(stream.missed).type \in env.types /\ Head(stream.missed) \in Events
      BY <1>2, <2>3, FirstIsIn DEF Labels
    <3>3. \A i \in DOMAIN wire' : wire'[i].type \in env.types \cup {"resync"}
      BY <1>2, <3>1, <3>2, OneMore DEF Labels
    <3>4. \A i \in DOMAIN stream'.missed : stream'.missed[i].type \in env.types
      BY <1>2, <2>3, <3>1, OneLess DEF Labels
    <3>5. QED BY <1>1, <2>1, <3>3, <3>4 DEF Labels
  <2>4. QED BY <2>2, <2>3
<1>6. CASE SendResync
  <2>1. Event("resync", last) \in Events /\ Event("resync", last).type = "resync"
    BY Parts DEF Event, Events, BusTypes
  <2>2. wire' = Append(wire, Event("resync", last))
    BY <1>6 DEF SendResync
  <2>3. \A i \in DOMAIN wire' : wire'[i].type \in env.types \cup {"resync"}
    BY <1>2, <2>1, <2>2, OneMore DEF Labels
  <2>4. stream'.queue = stream.queue /\ stream'.missed = stream.missed /\ UNCHANGED <<loop, pub>>
    BY <1>2, <1>6 DEF SendResync, Streams, busVars
  <2>5. QED BY <1>1, <2>3, <2>4 DEF Labels
<1>7. CASE SkipToLast
  <2>1. stream'.queue = stream.queue /\ stream'.missed = stream.missed /\ UNCHANGED <<loop, pub, wire>>
    BY <1>2, <1>7 DEF SkipToLast, Streams, busVars
  <2>2. QED BY <1>1, <2>1 DEF Labels
<1>8. CASE Forward
  <2>1. /\ stream'.queue = Tail(stream.queue) /\ stream'.missed = stream.missed /\ UNCHANGED <<loop, pub>>
        /\ wire' = wire \/ wire' = Append(wire, Head(stream.queue))
    BY <1>2, <1>8 DEF Forward, Streams, busVars
  <2>2. Head(stream.queue).type \in env.types /\ Head(stream.queue) \in Events /\ stream.queue # <<>>
    BY <1>2, <1>8, FirstIsIn DEF Labels, Forward
  <2>3. \A i \in DOMAIN wire' : wire'[i].type \in env.types \cup {"resync"}
    <3>1. ASSUME NEW i \in DOMAIN Append(wire, Head(stream.queue))
          PROVE  Append(wire, Head(stream.queue))[i].type \in env.types \cup {"resync"}
      BY <1>2, <2>2, OneMore DEF Labels
    <3>2. QED BY <2>1, <3>1 DEF Labels
  <2>4. \A i \in DOMAIN stream'.queue : stream'.queue[i].type \in env.types
    BY <1>2, <2>1, <2>2, OneLess DEF Labels
  <2>5. QED BY <1>1, <2>1, <2>3, <2>4 DEF Labels
<1>9. CASE Renew
  <2>1. /\ stream'.queue = <<>> /\ stream'.missed = <<>> /\ loop' = <<>> /\ UNCHANGED wire
        /\ \A t \in Threads : pub'[t] = [pub[t] EXCEPT !.heard = FALSE]
    BY <1>9 DEF Renew, Unsubscribe, Closed
  <2>2. \A t \in Threads : pub'[t].pc = pub[t].pc /\ pub'[t].type = pub[t].type /\ ~pub'[t].heard
    BY <1>2, <2>1, Unheard
  <2>3. QED BY <1>1, <2>1, <2>2 DEF Labels
<1>10. QED BY <1>3, <1>4, <1>5, <1>6, <1>7, <1>8, <1>9 DEF Stream

LEMMA LabelsStep == TypeOK /\ Ring /\ Labels /\ [Next]_vars => Labels'
<1> SUFFICES ASSUME TypeOK, Ring, Labels, [Next]_vars PROVE Labels'
  OBVIOUS
<1>1. wire \in Seq(Events) /\ pub \in [Threads -> Publishing]
  BY Typed
<1>2. CASE Connect
  BY <1>2 DEF Connect, Closed, Labels, busVars
<1>3. CASE Receive
  <2>1. UNCHANGED <<env, pub, buffer, loop, stream>> /\ wire' = Tail(wire) /\ wire # <<>>
    BY <1>3 DEF Receive, busVars, serverVars
  <2>2. \A i \in DOMAIN wire' : wire'[i].type \in env.types \cup {"resync"}
    BY <1>1, <2>1, OneLess DEF Labels
  <2>3. QED BY <2>1, <2>2 DEF Labels
<1>4. CASE NoticeEnd \/ Fetching \/ Refresh \/ FetchFails \/ UNCHANGED vars
  <2>1. UNCHANGED <<env, pub, buffer, loop, stream, wire>>
    BY <1>4 DEF NoticeEnd, Fetching, Read, Answer, Refresh, FetchFails, vars, busVars, serverVars
  <2>2. QED BY <2>1 DEF Labels
<1>5. CASE Lose
  <2>1. /\ UNCHANGED <<env, buffer>> /\ loop' = <<>> /\ stream' = Closed /\ wire' = <<>>
        /\ \A t \in Threads : pub'[t] = [pub[t] EXCEPT !.heard = FALSE]
    BY <1>5 DEF Lose, Unsubscribe
  <2>2. \A t \in Threads : pub'[t].pc = pub[t].pc /\ pub'[t].type = pub[t].type /\ ~pub'[t].heard
    BY <1>1, <2>1, Unheard
  <2>3. QED BY <2>1, <2>2 DEF Labels, Closed
<1>6. CASE Restart
  BY <1>6 DEF Restart, Labels, Idle, Closed
<1>7. QED
  BY <1>2, <1>3, <1>4, <1>5, <1>6, LabelsOfThreads, LabelsOfStream DEF Next

-----------------------------------------------------------------------------
(* What is on its way to the stream, counted: each event that is heard is   *)
(* in one place, and leaves it for the next.                                *)
LEMMA HeardMoves ==
  ASSUME TypeOK, Labels, NEW t \in Threads
  PROVE  /\ Commit(t) => Heard' = Heard
         /\ Publish(t) => t \notin Heard /\ Heard' = IF stream.pc = "none" THEN Heard ELSE Heard \cup {t}
         /\ Notify(t) => Heard' = Heard \ {t}
<1> DEFINE Others == \A u \in Threads \ {t} : pub'[u] = pub[u]
<1>1. ASSUME Commit(t) PROVE Heard' = Heard
  <2>1. Others /\ ~pub'[t].heard /\ pub[t].pc = "idle"
    BY <1>1, PubMoves DEF Thread
  <2>2. ~pub[t].heard
    BY <2>1 DEF Labels
  <2>3. QED BY <2>1, <2>2 DEF Heard
<1>2. ASSUME Publish(t)
      PROVE  t \notin Heard /\ Heard' = IF stream.pc = "none" THEN Heard ELSE Heard \cup {t}
  <2>1. Others /\ pub'[t].heard = (stream.pc # "none") /\ pub[t].pc = "committed"
    BY <1>2, PubMoves DEF Thread
  <2>2. ~pub[t].heard
    BY <2>1 DEF Labels
  <2>3. QED BY <2>1, <2>2 DEF Heard
<1>3. ASSUME Notify(t) PROVE Heard' = Heard \ {t}
  <2>1. Others /\ ~pub'[t].heard
    BY <1>3, PubMoves DEF Thread, Idle
  <2>2. QED BY <2>1 DEF Heard
<1>4. QED BY <1>1, <1>2, <1>3

LEMMA Unsubscribed ==
  ASSUME TypeOK, Unsubscribe
  PROVE  Heard' = {} /\ stream' = Closed /\ loop' = <<>>
<1>1. \A t \in Threads : pub'[t] = [pub[t] EXCEPT !.heard = FALSE]
  BY DEF Unsubscribe
<1>2. \A t \in Threads : ~pub'[t].heard
  BY <1>1, Typed, Unheard
<1>3. QED BY <1>2 DEF Heard, Unsubscribe

LEMMA HeardCount ==
  ASSUME IsFiniteSet(Heard)
  PROVE  /\ Cardinality(Heard) \in Nat
         /\ \A t \in Threads : /\ IsFiniteSet(Heard \ {t}) /\ IsFiniteSet(Heard \cup {t})
                               /\ t \in Heard => Cardinality(Heard \ {t}) = Cardinality(Heard) - 1
                               /\ t \notin Heard => Cardinality(Heard \cup {t}) = Cardinality(Heard) + 1
                               /\ t \notin Heard => Heard \ {t} = Heard
<1>1. Cardinality(Heard) \in Nat
  BY FS_CardinalityType
<1>2. ASSUME NEW t \in Threads
      PROVE  /\ IsFiniteSet(Heard \ {t}) /\ IsFiniteSet(Heard \cup {t})
             /\ t \in Heard => Cardinality(Heard \ {t}) = Cardinality(Heard) - 1
             /\ t \notin Heard => Cardinality(Heard \cup {t}) = Cardinality(Heard) + 1
             /\ t \notin Heard => Heard \ {t} = Heard
  <2>1. IsFiniteSet(Heard \ {t}) /\ (t \in Heard => Cardinality(Heard \ {t}) = Cardinality(Heard) - 1)
    BY FS_RemoveElement
  <2>2. IsFiniteSet(Heard \cup {t}) /\ (t \notin Heard => Cardinality(Heard \cup {t}) = Cardinality(Heard) + 1)
    BY FS_AddElement
  <2>3. t \notin Heard => Heard \ {t} = Heard
    OBVIOUS
  <2>4. QED BY <2>1, <2>2, <2>3
<1>3. QED BY <1>1, <1>2

(* Base moves only when an event leaves the queue or is not for it.         *)
LEMMA BaseMoves ==
  ASSUME TypeOK, Labels, Sent, Counted
  PROVE  /\ \A t \in Threads :
              /\ Commit(t) \/ Notify(t) => IsFiniteSet(Heard') /\ Base' = Base
              /\ Publish(t) => IsFiniteSet(Heard') /\ Base' = IF stream.pc = "none" THEN Base + 1 ELSE Base
         /\ Put => IsFiniteSet(Heard') /\ Base' = IF Len(stream.queue) < env.queue THEN Base ELSE Base + 1
         /\ Forward => IsFiniteSet(Heard') /\ Base' = Base + 1
         /\ Connect => IsFiniteSet(Heard') /\ Base' = Base
         /\ Unsubscribe /\ UNCHANGED last => IsFiniteSet(Heard') /\ Base' = last
<1> DEFINE q == Len(stream.queue)
           l == Len(loop)
           h == Cardinality(Heard)
<1>1. /\ last \in Nat /\ Len(loop) \in Nat /\ Len(stream.queue) \in Nat /\ loop \in Seq(Events)
      /\ stream.queue \in Seq(Events) /\ stream \in Streams
  BY Typed
<1>2. IsFiniteSet(Heard) /\ Cardinality(Heard) \in Nat
  BY HeardCount DEF Counted
<1>3. /\ last \in Nat /\ q \in Nat /\ l \in Nat /\ h \in Nat
      /\ Base = last - q - l - h /\ Base' = last' - q' - l' - h'
  BY <1>1, <1>2 DEF Base
<1>4. ASSUME NEW t \in Threads, Commit(t) PROVE IsFiniteSet(Heard') /\ Base' = Base
  <2>1. UNCHANGED <<last, stream, loop>>
    BY <1>4 DEF Commit, serverVars
  <2>2. QED BY <1>2, <1>4, <2>1, HeardMoves DEF Base
<1>5. ASSUME NEW t \in Threads, Notify(t) PROVE IsFiniteSet(Heard') /\ Base' = Base
  <2>1. UNCHANGED <<last, stream>>
    BY <1>5 DEF Notify
  <2>2. Heard' = Heard \ {t} /\ IsFiniteSet(Heard \ {t})
    BY <1>2, <1>5, HeardMoves, HeardCount
  <2>3. CASE t \in Heard
    <3>1. loop' = Append(loop, Event(pub[t].type, pub[t].id))
      BY <1>5, <2>3 DEF Notify, Heard
    <3>2. Len(loop') = Len(loop) + 1
      BY <1>1, <3>1, ThreadType, Longer
    <3>3. Cardinality(Heard') = Cardinality(Heard) - 1
      BY <1>2, <2>2, <2>3, HeardCount
    <3>4. QED BY <1>1, <1>2, <2>1, <2>2, <3>2, <3>3 DEF Base
  <2>4. CASE t \notin Heard
    <3>1. UNCHANGED loop /\ Heard' = Heard
      BY <1>2, <1>5, <2>2, <2>4, HeardCount DEF Notify, Heard
    <3>2. QED BY <1>2, <2>1, <3>1 DEF Base
  <2>5. QED BY <2>3, <2>4
<1>6. ASSUME NEW t \in Threads, Publish(t)
      PROVE  IsFiniteSet(Heard') /\ Base' = (IF stream.pc = "none" THEN Base + 1 ELSE Base)
  <2>1. UNCHANGED <<stream, loop>> /\ last' = last + 1
    BY <1>6 DEF Publish, serverVars
  <2>2. t \notin Heard /\ Heard' = IF stream.pc = "none" THEN Heard ELSE Heard \cup {t}
    BY <1>6, HeardMoves
  <2>3. IsFiniteSet(Heard') /\ Cardinality(Heard') = IF stream.pc = "none" THEN Cardinality(Heard) ELSE Cardinality(Heard) + 1
    BY <1>2, <2>2, HeardCount
  <2>4. last' = last + 1 /\ q' = q /\ l' = l /\ h' = IF stream.pc = "none" THEN h ELSE h + 1
    BY <2>1, <2>3
  <2> HIDE DEF q, l, h
  <2>5. CASE stream.pc = "none"
    BY <1>3, <2>3, <2>4, <2>5
  <2>6. CASE stream.pc # "none"
    BY <1>3, <2>3, <2>4, <2>6
  <2>7. QED BY <2>5, <2>6
<1>7. ASSUME Put
      PROVE  IsFiniteSet(Heard') /\ Base' = IF Len(stream.queue) < env.queue THEN Base ELSE Base + 1
  <2>1. UNCHANGED <<last, pub>> /\ Heard' = Heard
    BY <1>7 DEF Put, busVars, Heard
  <2>2. Len(loop') = Len(loop) - 1 /\ Head(loop) \in Events
    BY <1>1, <1>7, Shorter, FirstIsIn DEF Put
  <2>3. Len(stream'.queue) = IF Len(stream.queue) < env.queue THEN Len(stream.queue) + 1 ELSE Len(stream.queue)
    <3>1. Len(Append(stream.queue, Head(loop))) = Len(stream.queue) + 1
      BY <1>1, <2>2, Longer
    <3>2. stream'.queue = IF Len(stream.queue) < env.queue THEN Append(stream.queue, Head(loop)) ELSE stream.queue
      BY <1>1, <1>7 DEF Put, Streams
    <3>3. QED BY <3>1, <3>2
  <2>4. /\ IsFiniteSet(Heard') /\ last' = last /\ h' = h /\ l' = l - 1
        /\ q' = IF Len(stream.queue) < env.queue THEN q + 1 ELSE q
    BY <1>2, <2>1, <2>2, <2>3
  <2> HIDE DEF q, l, h
  <2>5. CASE Len(stream.queue) < env.queue
    BY <1>3, <2>4, <2>5
  <2>6. CASE ~(Len(stream.queue) < env.queue)
    BY <1>3, <2>4, <2>6
  <2>7. QED BY <2>5, <2>6
<1>8. ASSUME Forward PROVE IsFiniteSet(Heard') /\ Base' = Base + 1
  <2>1. UNCHANGED <<last, pub, loop>> /\ Heard' = Heard
    BY <1>8 DEF Forward, busVars, Heard
  <2>2. stream'.queue = Tail(stream.queue) /\ stream.queue # <<>>
    BY <1>1, <1>8 DEF Forward, Streams
  <2>3. Len(stream'.queue) = Len(stream.queue) - 1
    BY <1>1, <2>2, Shorter
  <2>4. IsFiniteSet(Heard') /\ last' = last /\ q' = q - 1 /\ l' = l /\ h' = h
    BY <1>2, <2>1, <2>3
  <2> HIDE DEF q, l, h
  <2>5. QED BY <1>3, <2>4
<1>9. ASSUME Connect PROVE IsFiniteSet(Heard') /\ Base' = Base
  <2>1. stream = Closed /\ stream'.queue = <<>> /\ UNCHANGED <<last, pub, loop>> /\ Heard' = Heard
    BY <1>9 DEF Connect, Sent, Opened, Closed, busVars, Heard
  <2>2. stream'.queue = stream.queue
    BY <2>1 DEF Closed
  <2>3. QED BY <1>2, <2>1, <2>2 DEF Base
<1>10. ASSUME Unsubscribe, UNCHANGED last PROVE IsFiniteSet(Heard') /\ Base' = last
  <2>1. Heard' = {} /\ stream'.queue = <<>> /\ loop' = <<>>
    BY <1>10, Unsubscribed DEF Closed
  <2>2. IsFiniteSet({}) /\ Cardinality({}) = 0
    BY FS_EmptySet
  <2>3. QED BY <1>1, <1>10, <2>1, <2>2 DEF Base
<1>11. QED BY <1>4, <1>5, <1>6, <1>7, <1>8, <1>9, <1>10

LEMMA CountedStep == TypeOK /\ Labels /\ Sent /\ Counted /\ [Next]_vars => Counted'
<1> SUFFICES ASSUME TypeOK, Labels, Sent, Counted, [Next]_vars PROVE Counted'
  OBVIOUS
<1>1. last \in Nat /\ Base \in Int
  <2>1. Cardinality(Heard) \in Nat
    BY HeardCount DEF Counted
  <2>2. QED BY <2>1, Typed DEF Base
<1>2. ASSUME NEW t \in Threads, Thread(t) PROVE Counted'
  BY <1>1, <1>2, BaseMoves DEF Counted, Thread
<1>3. CASE Put \/ Forward \/ Connect \/ Renew \/ Lose
  BY <1>1, <1>3, BaseMoves DEF Counted, Renew, Lose
<1>4. CASE Restart
  <2>1. last' = 0 /\ stream'.queue = <<>> /\ loop' = <<>> /\ Heard' = {}
    BY <1>4 DEF Restart, Closed, Heard, Idle
  <2>2. IsFiniteSet({}) /\ Cardinality({}) = 0
    BY FS_EmptySet
  <2>3. QED BY <2>1, <2>2 DEF Counted, Base
<1>5. CASE Replay \/ SendMissed \/ SendResync \/ SkipToLast
  <2>1. UNCHANGED <<last, pub, loop>> /\ stream'.queue = stream.queue
    BY <1>5, Typed DEF Replay, SendMissed, SendResync, SkipToLast, busVars, Streams
  <2>2. QED BY <2>1 DEF Counted, Base, Heard
<1>6. CASE Receive \/ NoticeEnd \/ Fetching \/ Refresh \/ FetchFails \/ UNCHANGED vars
  <2>1. UNCHANGED <<last, pub, loop, stream>>
    BY <1>6 DEF Receive, NoticeEnd, Fetching, Read, Answer, Refresh, FetchFails, vars, busVars, serverVars
  <2>2. QED BY <2>1 DEF Counted, Base, Heard
<1>7. QED BY <1>2, <1>3, <1>4, <1>5, <1>6 DEF Next, Stream

-----------------------------------------------------------------------------
(* The frames of a connection.                                              *)
LEMMA GapIsBehind == TypeOK /\ Ring /\ Gap => lastId < last
<1> SUFFICES ASSUME TypeOK, Ring, Gap PROVE lastId < last
  OBVIOUS
<1>1. buffer \in Seq(Events) /\ buffer # <<>> /\ lastId \in Nat /\ last \in Nat
  BY Parts, Typed DEF BusTypes, Gap
<1>2. 1 \in DOMAIN buffer /\ Head(buffer) = buffer[1] /\ Len(buffer) \in Nat \ {0}
  BY <1>1, FirstIsIn, Shorter
<1>3. Head(buffer).id = last - Len(buffer) + 1
  BY <1>2 DEF Ring
<1>4. lastId < Head(buffer).id - 1
  BY DEF Gap
<1>5. QED BY <1>1, <1>2, <1>3, <1>4

LEMMA StreamMoves ==
  ASSUME TypeOK
  PROVE  /\ Put => /\ stream'.pc = stream.pc /\ stream'.missed = stream.missed /\ stream'.highest = stream.highest
                   /\ stream'.queue = IF Len(stream.queue) < env.queue THEN Append(stream.queue, Head(loop))
                                                                       ELSE stream.queue
         /\ Replay /\ Gap => stream'.pc = "gap" /\ stream'.missed = stream.missed /\ stream'.highest = stream.highest
         /\ Replay /\ ~Gap => stream'.pc = "replaying" /\ stream'.missed = Missed /\ stream'.highest = lastId
         /\ SendMissed /\ stream.missed = <<>> =>
              /\ stream'.pc = "live" /\ stream'.missed = <<>> /\ stream'.highest = stream.highest
              /\ wire' = wire
         /\ SendMissed /\ stream.missed # <<>> =>
              /\ stream'.pc = "replaying" /\ stream'.missed = Tail(stream.missed)
              /\ stream'.highest = Head(stream.missed).id /\ wire' = Append(wire, Head(stream.missed))
         /\ SendResync => stream'.pc = "told" /\ stream'.missed = stream.missed /\ stream'.highest = stream.highest
         /\ SkipToLast => stream'.pc = "live" /\ stream'.missed = stream.missed /\ stream'.highest = last
         /\ Forward => /\ stream'.pc = "live" /\ stream'.missed = stream.missed
                       /\ stream'.queue = Tail(stream.queue) /\ stream.queue # <<>>
         /\ Forward /\ Head(stream.queue).id <= stream.highest => stream'.highest = stream.highest /\ wire' = wire
         /\ Forward /\ ~(Head(stream.queue).id <= stream.highest) =>
              stream'.highest = Head(stream.queue).id /\ wire' = Append(wire, Head(stream.queue))
         /\ Replay \/ SendMissed \/ SendResync \/ SkipToLast => stream'.queue = stream.queue
<1>1. stream \in Streams
  BY Typed
<1>2. QED
  BY <1>1 DEF Streams, Put, Replay, SendMissed, SendResync, SkipToLast, Forward

LEMMA OpenedStep == TypeOK /\ Ring /\ Labels /\ Sent /\ [Next]_vars => Opened'
<1> SUFFICES ASSUME TypeOK, Ring, Labels, Opened, Rising, [Next]_vars PROVE Opened'
  BY DEF Sent
<1>1. /\ loop \in Seq(Events) /\ wire \in Seq(Events) /\ stream.queue \in Seq(Events) /\ stream.missed \in Seq(Events)
      /\ last \in Nat /\ lastId \in Nat /\ online \in BOOLEAN
  BY Typed
<1>2. ASSUME NEW t \in Threads, Thread(t) PROVE Opened'
  <2>1. UNCHANGED <<stream, wire, online, lastId>> /\ (last' = last \/ last' = last + 1)
    BY <1>2 DEF Thread, Commit, Publish, Notify, serverVars, clientVars
  <2>2. ASSUME stream.pc = "none" PROVE loop' = <<>> /\ Heard' = {}
    <3>1. loop = <<>> /\ Heard = {}
      BY <2>2 DEF Opened
    <3>2. Heard' = {}
      BY <1>2, <2>2, <3>1, HeardMoves DEF Thread
    <3>3. loop' = loop
      BY <1>2, <3>1 DEF Thread, Commit, Publish, Notify, Heard, serverVars
    <3>4. QED BY <3>1, <3>2, <3>3
  <2>3. QED BY <1>1, <2>1, <2>2 DEF Opened
<1>3. CASE Put
  <2>1. /\ UNCHANGED <<pub, wire, online, lastId, last>> /\ loop # <<>> /\ stream'.pc = stream.pc
        /\ stream'.missed = stream.missed
    BY <1>3, StreamMoves DEF Put, busVars, clientVars
  <2>2. stream.pc # "none"
    BY <2>1 DEF Opened
  <2>3. QED BY <2>1, <2>2 DEF Opened
<1>4. CASE Replay
  <2>1. UNCHANGED <<wire, online, lastId, last>> /\ stream.pc = "subscribed" /\ stream'.pc \in {"gap", "replaying"}
    BY <1>4, StreamMoves DEF Replay, busVars, clientVars
  <2>2. stream'.pc = "gap" => Gap /\ stream'.missed = stream.missed
    BY <1>4, StreamMoves
  <2>3. QED BY <2>1, <2>2, GapIsBehind DEF Opened
<1>5. CASE SendMissed \/ SendResync \/ SkipToLast \/ Forward
  <2>1. UNCHANGED <<online, lastId, last>> /\ stream.pc \in {"replaying", "gap", "told", "live"}
    BY <1>5 DEF SendMissed, SendResync, SkipToLast, Forward, busVars, clientVars
  <2>2. stream'.pc \in {"replaying", "told", "live"} /\ (stream'.pc # "replaying" => stream'.missed = <<>>)
    BY <1>5, StreamMoves DEF Opened, SendResync, SkipToLast, Forward
  <2>3. QED BY <2>1, <2>2 DEF Opened
<1>6. CASE Renew
  <2>1. Heard' = {} /\ stream' = Closed /\ loop' = <<>> /\ UNCHANGED <<wire, online>> /\ stream.pc = "live"
    BY <1>6, Unsubscribed DEF Renew, clientVars
  <2>2. QED BY <2>1 DEF Opened, Closed
<1>7. CASE Connect
  <2>1. online' /\ stream'.pc = "subscribed" /\ stream'.missed = <<>> /\ ~online /\ UNCHANGED wire
    BY <1>7 DEF Connect, Closed
  <2>2. QED BY <2>1 DEF Opened
<1>8. CASE Receive
  <2>1. UNCHANGED <<pub, last, loop, stream, online>> /\ wire # <<>>
    BY <1>8 DEF Receive, busVars, serverVars
  <2>2. online /\ stream.pc \notin {"subscribed", "gap"}
    BY <1>1, <2>1 DEF Opened
  <2>3. QED BY <2>1, <2>2 DEF Opened, Heard
<1>9. CASE NoticeEnd
  BY <1>9 DEF NoticeEnd, Opened, Heard, busVars, serverVars
<1>10. CASE Fetching \/ Refresh \/ FetchFails \/ UNCHANGED vars
  <2>1. UNCHANGED <<pub, last, loop, stream, online, wire, lastId>>
    BY <1>10 DEF Fetching, Read, Answer, Refresh, FetchFails, vars, busVars, serverVars, clientVars
  <2>2. QED BY <2>1 DEF Opened, Heard
<1>11. CASE Lose
  <2>1. Heard' = {} /\ stream' = Closed /\ loop' = <<>> /\ wire' = <<>>
    BY <1>11, Unsubscribed DEF Lose
  <2>2. QED BY <2>1 DEF Opened, Closed
<1>12. CASE Restart
  <2>1. Heard' = {} /\ stream' = Closed /\ loop' = <<>> /\ wire' = <<>>
    BY <1>12 DEF Restart, Heard, Idle
  <2>2. QED BY <2>1 DEF Opened, Closed
<1>13. QED
  BY <1>2, <1>3, <1>4, <1>5, <1>6, <1>7, <1>8, <1>9, <1>10, <1>11, <1>12 DEF Next, Stream

(* A frame above all that is on the wire keeps the order.                   *)
LEMMA OnTop ==
  ASSUME TypeOK, Rising, NEW e \in Events, e.id > lastId, wire' = Append(wire, e), lastId' = lastId,
         \A i \in DOMAIN wire : wire[i].id < e.id
  PROVE  /\ \A i \in DOMAIN wire' : wire'[i].id > lastId'
         /\ \A i, j \in DOMAIN wire' : i < j => wire'[i].id < wire'[j].id
         /\ \A i \in DOMAIN wire' : wire'[i].id <= e.id
<1>1. wire \in Seq(Events) /\ Len(wire) \in Nat /\ DOMAIN wire = 1..Len(wire) /\ e.id \in Nat
  BY Typed, Lengths, EventType
<1>2. \A i \in DOMAIN wire : wire[i].id \in Nat
  BY <1>1, Lengths, EventType
<1>3. \A i \in DOMAIN wire' : \/ i = Len(wire) + 1 /\ wire'[i] = e
                              \/ i \in DOMAIN wire /\ wire'[i] = wire[i]
  BY <1>1, OneMore
<1>4. \A i \in DOMAIN wire' : wire'[i].id > lastId' /\ wire'[i].id <= e.id
  BY <1>1, <1>2, <1>3 DEF Rising
<1>5. ASSUME NEW i \in DOMAIN wire', NEW j \in DOMAIN wire', i < j PROVE wire'[i].id < wire'[j].id
  <2>1. i \in DOMAIN wire /\ wire'[i] = wire[i]
    <3>1. j \in 1..(Len(wire) + 1) /\ i \in 1..(Len(wire) + 1)
      BY <1>1, <1>3
    <3>2. i # Len(wire) + 1
      BY <1>1, <1>5, <3>1
    <3>3. QED BY <1>3, <3>2
  <2>2. CASE wire'[j] = e
    BY <2>1, <2>2
  <2>3. CASE j \in DOMAIN wire /\ wire'[j] = wire[j]
    BY <1>5, <2>1, <2>3 DEF Rising
  <2>4. QED BY <1>3, <2>2, <2>3
<1>6. QED BY <1>4, <1>5

LEMMA RisingOfStream ==
  ASSUME TypeOK, Ring, Opened, Rising, Stream
  PROVE  Rising'
<1>1. /\ wire \in Seq(Events) /\ stream.queue \in Seq(Events) /\ stream.missed \in Seq(Events)
      /\ last \in Nat /\ lastId \in Nat /\ stream.highest \in Nat /\ UNCHANGED <<last, lastId>>
  BY Typed DEF Stream, Replay, SendMissed, SendResync, SkipToLast, Forward, busVars, clientVars
<1>2. \A i \in DOMAIN wire : wire[i].id \in Nat
  BY <1>1, Lengths, EventType
<1>3. CASE Replay
  <2>1. wire = <<>> /\ UNCHANGED wire /\ DOMAIN wire = {}
    BY <1>1, <1>3, Lengths DEF Replay, Opened
  <2>2. CASE Gap
    <3>1. stream'.pc = "gap" /\ stream'.missed = stream.missed /\ stream'.highest = stream.highest
      BY <1>3, <2>2, StreamMoves
    <3>2. QED BY <1>1, <2>1, <3>1 DEF Rising, Sending
  <2>3. CASE ~Gap
    <3>1. stream'.pc = "replaying" /\ stream'.missed = Missed /\ stream'.highest = lastId
      BY <1>3, <2>3, StreamMoves
    <3>2. \A i \in DOMAIN Missed : Missed[i].id = lastId + i
      BY <2>3, MissedNumbers, Lengths
    <3>3. QED BY <1>1, <2>1, <3>1, <3>2 DEF Rising, Sending
  <2>4. QED BY <2>2, <2>3
<1>4. CASE SendMissed /\ stream.missed = <<>>
  <2>1. stream'.pc = "live" /\ stream'.missed = <<>> /\ stream'.highest = stream.highest /\ wire' = wire
    BY <1>4, StreamMoves
  <2>2. stream.pc = "replaying"
    BY <1>4 DEF SendMissed
  <2>3. QED BY <1>1, <2>1, <2>2 DEF Rising, Sending
<1>5. CASE SendMissed /\ stream.missed # <<>>
  <2> DEFINE e == Head(stream.missed)
  <2>1. /\ stream'.pc = "replaying" /\ stream'.missed = Tail(stream.missed)
        /\ stream'.highest = e.id /\ wire' = Append(wire, e) /\ stream.pc = "replaying"
    BY <1>5, StreamMoves DEF SendMissed
  <2>2. e \in Events /\ e = stream.missed[1] /\ 1 \in DOMAIN stream.missed
    BY <1>1, <1>5, FirstIsIn
  <2>3. e.id = stream.highest + 1
    BY <2>2 DEF Rising
  <2> HIDE DEF e
  <2>4. e.id > lastId /\ \A i \in DOMAIN wire : wire[i].id < e.id
    BY <1>1, <1>2, <2>1, <2>3 DEF Rising, Sending
  <2>5. /\ \A i \in DOMAIN wire' : wire'[i].id > lastId'
        /\ \A i, j \in DOMAIN wire' : i < j => wire'[i].id < wire'[j].id
        /\ \A i \in DOMAIN wire' : wire'[i].id <= e.id
    BY <1>1, <2>1, <2>2, <2>4, OnTop
  <2>6. \A i \in DOMAIN stream'.missed : stream'.missed[i].id = stream'.highest + i
    <3>1. \A i \in DOMAIN Tail(stream.missed) :
            Tail(stream.missed)[i].id = stream.highest + (i + 1) /\ i \in 1..(Len(stream.missed) - 1)
      BY <1>1, <1>5, OneLess DEF Rising
    <3>2. Len(stream.missed) \in Nat /\ stream'.highest = stream.highest + 1
      BY <2>1, <2>3, Typed
    <3>3. ASSUME NEW i \in DOMAIN stream'.missed PROVE stream'.missed[i].id = stream'.highest + i
      <4>1. i \in DOMAIN Tail(stream.missed) /\ stream'.missed[i] = Tail(stream.missed)[i]
        BY <2>1
      <4>2. i \in Nat /\ stream'.missed[i].id = stream.highest + (i + 1)
        BY <3>1, <3>2, <4>1
      <4> DEFINE h == stream.highest
                 k == stream'.highest
                 n == stream'.missed[i].id
      <4>3. h \in Nat /\ k = h + 1 /\ i \in Nat /\ n = h + (i + 1)
        BY <1>1, <3>2, <4>2
      <4> HIDE DEF h, k, n
      <4>4. n = k + i
        BY <4>3
      <4>5. QED BY <4>4 DEF n, k
    <3>4. QED BY <3>3
  <2>7. lastId' <= stream'.highest
    BY <1>1, <2>1, <2>3, <2>4
  <2>8. QED BY <2>1, <2>5, <2>6, <2>7 DEF Rising, Sending
<1>6. CASE SendResync
  <2> DEFINE e == Event("resync", last)
  <2>1. e \in Events /\ e.id = last /\ wire' = Append(wire, e)
    BY <1>6, Parts DEF SendResync, Event, Events, BusTypes
  <2>2. lastId < last /\ DOMAIN wire = {}
    BY <1>1, <1>6, Lengths DEF SendResync, Opened
  <2>3. /\ stream'.pc = "told" /\ stream'.missed = stream.missed /\ stream'.highest = stream.highest
    BY <1>6, StreamMoves
  <2> HIDE DEF e
  <2>4. /\ \A i \in DOMAIN wire' : wire'[i].id > lastId'
        /\ \A i, j \in DOMAIN wire' : i < j => wire'[i].id < wire'[j].id
        /\ \A i \in DOMAIN wire' : wire'[i].id <= e.id
    BY <1>1, <2>1, <2>2, OnTop
  <2>5. QED BY <1>1, <2>1, <2>2, <2>3, <2>4 DEF Rising, Sending
<1>7. CASE SkipToLast
  <2>1. /\ stream.pc = "told" /\ UNCHANGED wire
        /\ stream'.pc = "live" /\ stream'.missed = stream.missed /\ stream'.highest = last
    BY <1>7, StreamMoves DEF SkipToLast
  <2>2. stream'.missed = <<>>
    BY <2>1 DEF Opened
  <2>3. QED BY <1>1, <2>1, <2>2 DEF Rising, Sending
<1>8. CASE Forward
  <2> DEFINE e == Head(stream.queue)
  <2>1. stream.pc = "live" /\ stream'.pc = "live" /\ stream'.missed = stream.missed /\ stream.queue # <<>>
    BY <1>8, StreamMoves DEF Forward
  <2>2. stream.missed = <<>> /\ DOMAIN stream'.missed = {} /\ e \in Events
    BY <1>1, <2>1, Lengths, FirstIsIn DEF Opened
  <2>3. CASE e.id <= stream.highest
    <3>1. stream'.highest = stream.highest /\ wire' = wire
      BY <1>8, <2>3, StreamMoves
    <3>2. QED BY <1>1, <2>1, <2>2, <3>1 DEF Rising, Sending
  <2>4. CASE ~(e.id <= stream.highest)
    <3>1. stream'.highest = e.id /\ wire' = Append(wire, e) /\ e.id \in Nat
      BY <1>8, <2>2, <2>4, StreamMoves, EventType
    <3> HIDE DEF e
    <3>2. e.id > lastId /\ \A i \in DOMAIN wire : wire[i].id < e.id
      BY <1>1, <1>2, <2>1, <2>4, <3>1 DEF Rising, Sending
    <3>3. /\ \A i \in DOMAIN wire' : wire'[i].id > lastId'
          /\ \A i, j \in DOMAIN wire' : i < j => wire'[i].id < wire'[j].id
          /\ \A i \in DOMAIN wire' : wire'[i].id <= e.id
      BY <1>1, <2>2, <3>1, <3>2, OnTop
    <3>4. lastId' <= stream'.highest
      BY <1>1, <3>1, <3>2
    <3>5. QED BY <2>1, <2>2, <3>1, <3>3, <3>4 DEF Rising, Sending
  <2>5. QED BY <2>3, <2>4
<1>9. QED BY <1>3, <1>4, <1>5, <1>6, <1>7, <1>8 DEF Stream

LEMMA RisingStep == TypeOK /\ Ring /\ Sent /\ [Next]_vars => Rising'
<1> SUFFICES ASSUME TypeOK, Ring, Opened, Rising, [Next]_vars PROVE Rising'
  BY DEF Sent
<1>1. wire \in Seq(Events) /\ last \in Nat /\ lastId \in Nat /\ stream.highest \in Nat /\ online \in BOOLEAN
  BY Typed
<1>2. \A i \in DOMAIN wire : wire[i].id \in Nat
  BY <1>1, Lengths, EventType
<1>3. CASE /\ UNCHANGED <<wire, lastId>> /\ (last' = last \/ last' = last + 1)
           /\ stream'.pc = stream.pc /\ stream'.missed = stream.missed /\ stream'.highest = stream.highest
  BY <1>1, <1>2, <1>3 DEF Rising, Sending
<1>4. ASSUME NEW t \in Threads, Thread(t) PROVE Rising'
  BY <1>3, <1>4 DEF Thread, Commit, Publish, Notify, serverVars, clientVars
<1>5. CASE Put
  BY <1>3, <1>5, StreamMoves DEF Put, busVars, clientVars
<1>6. CASE NoticeEnd \/ Fetching \/ Refresh \/ FetchFails \/ UNCHANGED vars
  BY <1>3, <1>6 DEF NoticeEnd, Fetching, Read, Answer, Refresh, FetchFails, vars, busVars, serverVars, clientVars
<1>7. CASE stream'.pc \in {"none", "subscribed"} /\ stream'.missed = <<>> /\ (UNCHANGED <<wire, lastId>> \/ wire' = <<>>)
  BY <1>7 DEF Rising, Sending
<1>8. CASE Renew \/ Connect \/ Lose \/ Restart
  BY <1>7, <1>8 DEF Renew, Connect, Lose, Restart, Unsubscribe, Closed, clientVars
<1>9. CASE Receive
  <2>1. wire # <<>> /\ wire' = Tail(wire) /\ lastId' = Head(wire).id /\ UNCHANGED <<stream, last>>
    BY <1>9 DEF Receive, serverVars, busVars
  <2>2. 1 \in DOMAIN wire /\ Head(wire) = wire[1]
    BY <1>1, <2>1, FirstIsIn
  <2>3. \A i \in DOMAIN wire' : i + 1 \in DOMAIN wire /\ wire'[i] = wire[i + 1] /\ i \in 1..(Len(wire) - 1)
    BY <1>1, <2>1, OneLess
  <2>4. \A i \in DOMAIN wire' : wire'[i].id > lastId'
    <3>1. ASSUME NEW i \in DOMAIN wire' PROVE wire[1].id < wire[i + 1].id
      <4>1. i + 1 \in DOMAIN wire /\ 1 < i + 1
        BY <2>3
      <4>2. QED BY <2>2, <4>1 DEF Rising
    <3>2. QED BY <1>2, <2>1, <2>2, <2>3, <3>1
  <2>5. \A i, j \in DOMAIN wire' : i < j => wire'[i].id < wire'[j].id
    <3>1. ASSUME NEW i \in DOMAIN wire', NEW j \in DOMAIN wire', i < j PROVE wire'[i].id < wire'[j].id
      <4>1. i + 1 \in DOMAIN wire /\ j + 1 \in DOMAIN wire /\ i + 1 < j + 1
        BY <2>3, <3>1
      <4>2. wire[i + 1].id < wire[j + 1].id
        BY <4>1 DEF Rising
      <4>3. QED BY <2>3, <4>2
    <3>2. QED BY <3>1
  <2>6. stream.pc = "told" => lastId' <= last /\ \A i \in DOMAIN wire' : wire'[i].id <= last
    BY <2>1, <2>2, <2>3 DEF Rising
  <2>7. Sending => lastId' <= stream.highest /\ \A i \in DOMAIN wire' : wire'[i].id <= stream.highest
    BY <2>1, <2>2, <2>3 DEF Rising
  <2>8. QED BY <2>1, <2>4, <2>5, <2>6, <2>7 DEF Rising, Sending
<1>10. QED
  BY <1>4, <1>5, <1>6, <1>8, <1>9, RisingOfStream DEF Next

-----------------------------------------------------------------------------
(* What is on its way to the stream: it grows by what is published.         *)
LEMMA OnItsWay ==
  /\ \A t \in Heard : pub[t].id \in Pending
  /\ \A i \in DOMAIN loop : loop[i].id \in Pending
  /\ \A i \in DOMAIN stream.queue : stream.queue[i].id \in Pending
  /\ \A n \in Pending : \/ \E t \in Heard : n = pub[t].id
                        \/ \E i \in DOMAIN loop : n = loop[i].id
                        \/ \E i \in DOMAIN stream.queue : n = stream.queue[i].id
BY DEF Pending

LEMMA PendingType == TypeOK => \A n \in Pending : n \in Nat
<1> SUFFICES ASSUME TypeOK, NEW n \in Pending PROVE n \in Nat
  OBVIOUS
<1>1. loop \in Seq(Events) /\ stream.queue \in Seq(Events)
  BY Typed
<1>2. QED BY <1>1, OnItsWay, ThreadType, EventType, Lengths DEF Heard

LEMMA PendingOfThreads ==
  ASSUME TypeOK, Labels, NEW t \in Threads
  PROVE  /\ Commit(t) \/ Notify(t) => Pending' = Pending
         /\ Publish(t) => Pending' = IF stream.pc = "none" THEN Pending ELSE Pending \cup {last + 1}
<1>1. loop \in Seq(Events)
  BY Typed
<1> DEFINE Held == {pub[u].id : u \in Heard}
           Held2 == {pub'[u].id : u \in Heard'}
           Looped == {loop[i].id : i \in DOMAIN loop}
           Queued == {stream.queue[i].id : i \in DOMAIN stream.queue}
<1>2. Pending = Held \cup Looped \cup Queued /\ Pending' = Held2 \cup Looped' \cup Queued'
  BY DEF Pending
<1>3. ASSUME Commit(t) PROVE Pending' = Pending
  <2>1. Heard' = Heard /\ UNCHANGED <<loop, stream>> /\ t \notin Heard
    BY <1>3, HeardMoves, PubMoves DEF Commit, serverVars, Heard
  <2>2. \A u \in Heard : pub'[u] = pub[u]
    BY <1>3, <2>1, PubMoves DEF Thread, Heard
  <2>3. QED BY <1>2, <2>1, <2>2
<1>4. ASSUME Publish(t)
      PROVE  Pending' = IF stream.pc = "none" THEN Pending ELSE Pending \cup {last + 1}
  <2>1. UNCHANGED <<loop, stream>> /\ t \notin Heard /\ pub'[t].id = last + 1
    BY <1>4, HeardMoves, PubMoves DEF Publish, serverVars
  <2>2. \A u \in Heard : pub'[u] = pub[u]
    BY <1>4, <2>1, PubMoves DEF Thread, Heard
  <2>3. Heard' = IF stream.pc = "none" THEN Heard ELSE Heard \cup {t}
    BY <1>4, HeardMoves
  <2>4. Held2 = IF stream.pc = "none" THEN Held ELSE Held \cup {last + 1}
    BY <2>1, <2>2, <2>3
  <2> HIDE DEF Held, Held2
  <2>5. QED BY <1>2, <2>1, <2>4
<1>5. ASSUME Notify(t) PROVE Pending' = Pending
  <2> DEFINE new == Event(pub[t].type, pub[t].id)
  <2>1. Heard' = Heard \ {t} /\ UNCHANGED stream
    BY <1>5, HeardMoves DEF Notify
  <2>2. \A u \in Heard' : pub'[u] = pub[u]
    BY <1>5, <2>1, PubMoves DEF Thread, Heard
  <2>3. CASE t \in Heard
    <3>1. loop' = Append(loop, new) /\ new \in Events /\ new.id = pub[t].id
      BY <1>5, <2>3, ThreadType DEF Notify, Heard
    <3>2. Looped' = Looped \cup {pub[t].id}
      <4> HIDE DEF new
      <4>1. DOMAIN loop' = DOMAIN loop \cup {Len(loop) + 1} /\ loop'[Len(loop) + 1] = new
        BY <1>1, <3>1, Longer, Lengths
      <4>2. \A i \in DOMAIN loop : loop'[i] = loop[i]
        BY <1>1, <3>1, Longer, Lengths
      <4>3. QED BY <3>1, <4>1, <4>2
    <3>3. Held = Held2 \cup {pub[t].id}
      BY <2>1, <2>2, <2>3
    <3> HIDE DEF Held, Held2, Looped
    <3>4. QED BY <1>2, <2>1, <3>2, <3>3
  <2>4. CASE t \notin Heard
    <3>1. UNCHANGED loop /\ Heard' = Heard
      BY <1>5, <2>1, <2>4 DEF Notify, Heard
    <3>2. Held2 = Held
      BY <2>2, <3>1
    <3>3. QED BY <1>2, <2>1, <3>1, <3>2
  <2>5. QED BY <2>3, <2>4
<1>6. QED BY <1>3, <1>4, <1>5

LEMMA PendingOfStream ==
  ASSUME TypeOK, Labels, Opened
  PROVE  /\ Put => /\ Pending' \subseteq Pending
                   /\ Len(stream.queue) < env.queue => Pending' = Pending
         /\ Forward => Pending' \subseteq Pending /\ Pending \subseteq Pending' \cup {Head(stream.queue).id}
                       /\ Head(stream.queue).id \in Pending
         /\ Replay \/ SendMissed \/ SendResync \/ SkipToLast => Pending' = Pending
         /\ Unsubscribe \/ Connect \/ Restart => Pending' = {}
<1>1. loop \in Seq(Events) /\ stream.queue \in Seq(Events)
  BY Typed
<1> DEFINE Held == {pub[u].id : u \in Heard}
           Looped == {loop[i].id : i \in DOMAIN loop}
           Queued == {stream.queue[i].id : i \in DOMAIN stream.queue}
<1>2. Pending = Held \cup Looped \cup Queued /\ Pending' = Held' \cup Looped' \cup Queued'
  BY DEF Pending
<1>3. ASSUME Put
      PROVE  Pending' \subseteq Pending /\ (Len(stream.queue) < env.queue => Pending' = Pending)
  <2>1. UNCHANGED pub /\ Heard' = Heard /\ loop # <<>> /\ loop' = Tail(loop)
    BY <1>3 DEF Put, busVars, Heard
  <2>2. Head(loop) = loop[1] /\ 1 \in DOMAIN loop /\ Head(loop) \in Events
    BY <1>1, <2>1, FirstIsIn
  <2>3. Looped = Looped' \cup {Head(loop).id}
    <3>1. DOMAIN loop = {1} \cup {i + 1 : i \in DOMAIN loop'}
      BY <1>1, <2>1, AllOfRest
    <3>2. \A i \in DOMAIN loop' : loop'[i] = loop[i + 1]
      BY <1>1, <2>1, OneLess
    <3>3. QED BY <2>2, <3>1, <3>2
  <2>4. CASE Len(stream.queue) < env.queue
    <3>1. stream'.queue = Append(stream.queue, Head(loop))
      BY <1>3, <2>4, StreamMoves
    <3>2. Queued' = Queued \cup {Head(loop).id}
      <4>1. DOMAIN stream'.queue = DOMAIN stream.queue \cup {Len(stream.queue) + 1}
        BY <1>1, <2>2, <3>1, Longer, Lengths
      <4>2. /\ stream'.queue[Len(stream.queue) + 1] = Head(loop)
            /\ \A i \in DOMAIN stream.queue : stream'.queue[i] = stream.queue[i]
        BY <1>1, <2>2, <3>1, Longer, Lengths
      <4>3. QED BY <4>1, <4>2
    <3>3. Held' = Held
      BY <2>1
    <3> HIDE DEF Held, Looped, Queued
    <3>4. QED BY <1>2, <2>3, <3>2, <3>3
  <2>5. CASE ~(Len(stream.queue) < env.queue)
    <3>1. stream'.queue = stream.queue /\ Held' = Held
      BY <1>3, <2>1, <2>5, StreamMoves
    <3>2. Queued' = Queued
      BY <3>1
    <3> HIDE DEF Held, Looped, Queued
    <3>3. QED BY <1>2, <2>3, <2>5, <3>1, <3>2
  <2>6. QED BY <2>4, <2>5
<1>4. ASSUME Forward
      PROVE  Pending' \subseteq Pending /\ Pending \subseteq Pending' \cup {Head(stream.queue).id}
             /\ Head(stream.queue).id \in Pending
  <2>1. /\ UNCHANGED <<pub, loop>> /\ Heard' = Heard
        /\ stream.queue # <<>> /\ stream'.queue = Tail(stream.queue)
    BY <1>4, StreamMoves DEF Forward, busVars, Heard
  <2>2. Head(stream.queue) = stream.queue[1] /\ 1 \in DOMAIN stream.queue
    BY <1>1, <2>1, FirstIsIn
  <2>3. Queued = Queued' \cup {Head(stream.queue).id}
    <3>1. DOMAIN stream.queue = {1} \cup {i + 1 : i \in DOMAIN stream'.queue}
      BY <1>1, <2>1, AllOfRest
    <3>2. \A i \in DOMAIN stream'.queue : stream'.queue[i] = stream.queue[i + 1]
      BY <1>1, <2>1, OneLess
    <3>3. QED BY <2>2, <3>1, <3>2
  <2>4. Held' = Held /\ Looped' = Looped
    BY <2>1
  <2> HIDE DEF Held, Looped, Queued
  <2>5. QED BY <1>2, <2>3, <2>4
<1>5. ASSUME Replay \/ SendMissed \/ SendResync \/ SkipToLast PROVE Pending' = Pending
  <2>1. UNCHANGED <<pub, loop>> /\ Heard' = Heard /\ stream'.queue = stream.queue
    BY <1>5, StreamMoves DEF Replay, SendMissed, SendResync, SkipToLast, busVars, Heard
  <2>2. QED BY <2>1 DEF Pending
<1>6. ASSUME Unsubscribe \/ Connect \/ Restart PROVE Pending' = {}
  <2>1. Heard' = {} /\ loop' = <<>> /\ stream'.queue = <<>>
    <3>1. CASE Unsubscribe
      BY <3>1, Unsubscribed DEF Closed
    <3>2. CASE Connect
      BY <3>2 DEF Connect, Opened, Closed, busVars, Heard
    <3>3. CASE Restart
      BY <3>3 DEF Restart, Closed, Heard, Idle
    <3>4. QED BY <1>6, <3>1, <3>2, <3>3
  <2>2. QED BY <2>1 DEF Pending
<1>7. QED BY <1>3, <1>4, <1>5, <1>6

(* Until the first restart, ids only go up to last; and what a stream hears *)
(* before it replays is newer than all the browser has seen.                *)
LEMMA NotRestarted ==
  ASSUME TypeOK, [Next]_vars, count'.restarts = 0
  PROVE  count.restarts = 0 /\ ~Restart
<1>1. count.restarts \in Nat
  BY Parts, EnvType DEF CountTypes
<1>2. \/ count' = count /\ ~Restart
      \/ count'.restarts = count.restarts /\ ~Restart
      \/ count'.restarts = count.restarts + 1
  BY Parts DEF CountTypes, Next, Thread, Commit, Publish, Notify, Put, Stream, Replay, SendMissed, SendResync,
     SkipToLast, Forward, Renew, Connect, Receive, NoticeEnd, Fetching, Read, Answer, Refresh, Lose,
     FetchFails, Restart, vars
<1>3. QED BY <1>1, <1>2

LEMMA PendingBelow ==
  ASSUME TypeOK, Labels, Opened, Below, [Next]_vars
  PROVE  \A n \in Pending' : n <= last'
<1>1. last \in Nat /\ \A n \in Pending : n \in Nat /\ n <= last
  BY Typed, PendingType DEF Below
<1>2. CASE Pending' \subseteq Pending /\ UNCHANGED last
  BY <1>1, <1>2
<1>3. CASE Pending' = {}
  BY <1>3
<1>4. ASSUME NEW t \in Threads, Thread(t) PROVE \A n \in Pending' : n <= last'
  <2>1. CASE Publish(t)
    <3>1. last' = last + 1 /\ Pending' \subseteq Pending \cup {last + 1}
      BY <2>1, PendingOfThreads DEF Publish
    <3>2. QED BY <1>1, <3>1
  <2>2. CASE Commit(t) \/ Notify(t)
    BY <1>2, <2>2, PendingOfThreads DEF Commit, Notify
  <2>3. QED BY <1>4, <2>1, <2>2 DEF Thread
<1>5. CASE Put \/ Stream
  <2>1. UNCHANGED last
    BY <1>5 DEF Put, Stream, Replay, SendMissed, SendResync, SkipToLast, Forward, busVars
  <2>2. QED BY <1>2, <1>5, <2>1, PendingOfStream DEF Stream
<1>6. CASE Renew \/ Lose \/ Connect \/ Restart
  BY <1>3, <1>6, PendingOfStream DEF Renew, Lose
<1>7. CASE Receive \/ NoticeEnd \/ Fetching \/ Refresh \/ FetchFails \/ UNCHANGED vars
  <2>1. UNCHANGED <<last, pub, loop, stream>>
    BY <1>7 DEF Receive, NoticeEnd, Fetching, Read, Answer, Refresh, FetchFails, vars, busVars, serverVars
  <2>2. Pending' = Pending
    BY <2>1 DEF Pending, Heard
  <2>3. QED BY <1>2, <2>1, <2>2
<1>8. QED BY <1>4, <1>5, <1>6, <1>7 DEF Next

(* The frames, and what a stream knows.                                     *)
Sound == /\ lastId <= last /\ stream.highest + Len(stream.missed) <= last
         /\ \A i \in DOMAIN wire : wire[i].id <= last
Newer == stream.pc = "subscribed" => \A n \in Pending : n > lastId

LEMMA SoundOfStream ==
  ASSUME TypeOK, Ring, Labels, Opened, Rising, Below, Sound, Stream
  PROVE  Sound'
<1>1. /\ wire \in Seq(Events) /\ last \in Nat /\ lastId \in Nat /\ stream.queue \in Seq(Events)
      /\ stream.missed \in Seq(Events) /\ stream.highest \in Nat /\ Len(stream.missed) \in Nat
  BY Typed
<1>2. UNCHANGED <<last, lastId>>
  BY DEF Stream, Replay, SendMissed, SendResync, SkipToLast, Forward, busVars, clientVars
<1>3. ASSUME NEW e \in Events, e.id <= last, wire' = wire \/ wire' = Append(wire, e),
             stream'.highest + Len(stream'.missed) <= last
      PROVE  Sound'
  <2>1. ASSUME NEW i \in DOMAIN Append(wire, e) PROVE Append(wire, e)[i].id <= last
    BY <1>1, <1>3, OneMore DEF Sound
  <2>2. \A i \in DOMAIN wire' : wire'[i].id <= last
    BY <1>3, <2>1 DEF Sound
  <2>3. QED BY <1>2, <1>3, <2>2 DEF Sound
<1>4. CASE wire' = wire /\ stream'.highest + Len(stream'.missed) <= last
  BY <1>2, <1>4 DEF Sound
<1>5. CASE Replay
  <2>1. UNCHANGED wire
    BY <1>5 DEF Replay
  <2>2. CASE Gap
    <3>1. stream'.missed = stream.missed /\ stream'.highest = stream.highest
      BY <1>5, <2>2, StreamMoves
    <3>2. QED BY <1>4, <2>1, <3>1 DEF Sound
  <2>3. CASE ~Gap
    <3>1. stream'.missed = Missed /\ stream'.highest = lastId
      BY <1>5, <2>3, StreamMoves
    <3>2. lastId + Len(Missed) <= last
      <4>1. CASE lastId = 0
        <5>1. Len(Missed) = 0
          BY <2>3, <4>1, MissedNumbers
        <5>2. QED BY <1>1, <4>1, <5>1
      <4>2. CASE lastId # 0
        BY <1>1, <2>3, <4>2, MissedNumbers DEF Sound
      <4>3. QED BY <4>1, <4>2
    <3>3. QED BY <1>4, <2>1, <3>1, <3>2
  <2>4. QED BY <2>2, <2>3
<1>6. CASE SendMissed
  <2>1. CASE stream.missed = <<>>
    <3>1. wire' = wire /\ stream'.highest = stream.highest /\ stream'.missed = stream.missed
      BY <1>6, <2>1, StreamMoves
    <3>2. QED BY <1>4, <3>1 DEF Sound
  <2>2. CASE stream.missed # <<>>
    <3> DEFINE e == Head(stream.missed)
               h == stream.highest
               k == stream'.highest
               m == Len(stream.missed)
               l == Len(stream'.missed)
               n == e.id
    <3>1. /\ stream'.missed = Tail(stream.missed) /\ stream'.highest = e.id
          /\ wire' = Append(wire, e)
      BY <1>6, <2>2, StreamMoves
    <3>2. e \in Events /\ e = stream.missed[1] /\ 1 \in DOMAIN stream.missed
      BY <1>1, <2>2, FirstIsIn
    <3>3. e.id = stream.highest + 1
      BY <3>2 DEF Rising
    <3>4. Len(Tail(stream.missed)) = Len(stream.missed) - 1 /\ Len(stream.missed) \in Nat \ {0}
      BY <1>1, <2>2, Shorter
    <3>5. n = h + 1 /\ k = n /\ l = m - 1 /\ m \in Nat \ {0} /\ h \in Nat /\ h + m <= last
      BY <1>1, <3>1, <3>3, <3>4 DEF Sound
    <3>6. k + l <= last /\ n <= last
      <4> HIDE DEF e, h, k, m, l, n
      <4>1. QED BY <1>1, <3>5
    <3> HIDE DEF e
    <3>7. QED BY <1>3, <3>1, <3>2, <3>6
  <2>3. QED BY <2>1, <2>2
<1>7. CASE SendResync
  <2>1. /\ Event("resync", last) \in Events /\ Event("resync", last).id = last
        /\ wire' = Append(wire, Event("resync", last))
    BY <1>7, Parts DEF SendResync, Event, Events, BusTypes
  <2>2. stream'.highest + Len(stream'.missed) <= last
    BY <1>7, StreamMoves DEF Sound
  <2>3. Event("resync", last).id <= last
    BY <1>1, <2>1
  <2>4. QED BY <1>3, <2>1, <2>2, <2>3
<1>8. CASE SkipToLast
  <2>1. stream'.highest = last /\ stream'.missed = stream.missed /\ stream.pc = "told" /\ UNCHANGED wire
    BY <1>8, StreamMoves DEF SkipToLast
  <2>2. Len(stream.missed) = 0
    BY <1>1, <2>1, Lengths DEF Opened
  <2>3. QED BY <1>1, <1>4, <2>1, <2>2
<1>9. CASE Forward
  <2> DEFINE e == Head(stream.queue)
  <2>1. stream'.missed = stream.missed /\ stream.pc = "live" /\ stream.queue # <<>>
    BY <1>9, StreamMoves DEF Forward
  <2>2. Len(stream.missed) = 0 /\ e \in Events
    BY <1>1, <2>1, Lengths, FirstIsIn DEF Opened
  <2>3. e.id \in Nat /\ e.id <= last
    BY <1>9, <2>2, EventType, PendingOfStream DEF Below
  <2>4. CASE e.id <= stream.highest
    BY <1>4, <1>9, <2>1, <2>4, StreamMoves DEF Sound
  <2>5. CASE ~(e.id <= stream.highest)
    <3>1. stream'.highest = e.id /\ wire' = Append(wire, e)
      BY <1>9, <2>5, StreamMoves
    <3>2. Len(stream'.missed) = 0
      BY <2>1, <2>2
    <3> HIDE DEF e
    <3>3. e.id + 0 <= last
      BY <2>3
    <3>4. stream'.highest + Len(stream'.missed) <= last
      BY <3>1, <3>2, <3>3
    <3>5. QED BY <1>3, <2>2, <2>3, <3>1, <3>4
  <2>6. QED BY <2>4, <2>5
<1>10. QED BY <1>5, <1>6, <1>7, <1>8, <1>9 DEF Stream

LEMMA BelowStep == TypeOK /\ Ring /\ Labels /\ Sent /\ Below /\ [Next]_vars => Below'
<1> SUFFICES ASSUME TypeOK, Ring, Labels, Opened, Rising, Below, [Next]_vars PROVE Below'
  BY DEF Sent
<1>1. \A n \in Pending' : n <= last'
  BY PendingBelow
<1> SUFFICES ASSUME count'.restarts = 0 PROVE Sound' /\ Newer'
  BY <1>1 DEF Below, Sound, Newer
<1>2. /\ wire \in Seq(Events) /\ last \in Nat /\ lastId \in Nat /\ stream.highest \in Nat
      /\ Len(stream.missed) \in Nat /\ \A n \in Pending : n \in Nat
  BY Typed, PendingType
<1>3. \A i \in DOMAIN wire : wire[i].id \in Nat
  BY <1>2, Lengths, EventType
<1>4. ~Restart /\ Sound /\ Newer
  BY NotRestarted DEF Below, Sound, Newer
<1>5. ASSUME Pending' \subseteq Pending, UNCHANGED lastId, stream'.pc = stream.pc PROVE Newer'
  BY <1>4, <1>5 DEF Newer
<1>6. ASSUME UNCHANGED <<wire, lastId, last>>, stream'.highest = stream.highest,
             stream'.missed = stream.missed
      PROVE  Sound'
  BY <1>4, <1>6 DEF Sound
<1>7. ASSUME NEW t \in Threads, Thread(t) PROVE Sound' /\ Newer'
  <2>1. UNCHANGED <<stream, wire, lastId>> /\ (last' = last \/ last' = last + 1)
    BY <1>7 DEF Thread, Commit, Publish, Notify, serverVars, clientVars
  <2>2. Sound'
    BY <1>2, <1>3, <1>4, <2>1 DEF Sound
  <2>3. Pending' \subseteq Pending \cup {last + 1}
    BY <1>7, PendingOfThreads DEF Thread
  <2>4. Newer'
    BY <1>2, <1>4, <2>1, <2>3 DEF Newer, Sound
  <2>5. QED BY <2>2, <2>4
<1>8. CASE Put
  <2>1. UNCHANGED <<wire, lastId, last>>
    BY <1>8 DEF Put, busVars, clientVars
  <2>2. QED BY <1>5, <1>6, <1>8, <2>1, StreamMoves, PendingOfStream
<1>9. CASE Stream
  <2>1. stream'.pc # "subscribed"
    BY <1>9, StreamMoves DEF Stream
  <2>2. QED BY <1>4, <1>9, <2>1, SoundOfStream DEF Newer
<1>10. CASE Renew \/ Lose \/ Connect
  <2>1. Pending' = {}
    BY <1>10, PendingOfStream DEF Renew, Lose
  <2>2. UNCHANGED <<last, lastId>> /\ stream'.highest = 0 /\ stream'.missed = <<>>
    BY <1>10 DEF Renew, Lose, Connect, Unsubscribe, Closed, busVars, clientVars
  <2>3. wire' = wire \/ wire' = <<>>
    BY <1>10 DEF Renew, Lose, Connect
  <2>4. QED BY <1>2, <1>4, <2>1, <2>2, <2>3 DEF Sound, Newer
<1>11. CASE Receive
  <2>1. wire # <<>> /\ wire' = Tail(wire) /\ lastId' = Head(wire).id /\ UNCHANGED <<stream, last>>
    BY <1>11 DEF Receive, serverVars, busVars
  <2>2. stream.pc # "subscribed"
    BY <2>1 DEF Opened
  <2>3. 1 \in DOMAIN wire /\ Head(wire) = wire[1]
    BY <1>2, <2>1, FirstIsIn
  <2>4. \A i \in DOMAIN wire' : i + 1 \in DOMAIN wire /\ wire'[i] = wire[i + 1]
    BY <1>2, <2>1, OneLess
  <2>5. QED BY <1>4, <2>1, <2>2, <2>3, <2>4 DEF Sound, Newer
<1>12. CASE NoticeEnd \/ Fetching \/ Refresh \/ FetchFails \/ UNCHANGED vars
  <2>1. UNCHANGED <<last, lastId, pub, loop, stream, wire>>
    BY <1>12 DEF NoticeEnd, Fetching, Read, Answer, Refresh, FetchFails, vars, busVars, serverVars, clientVars
  <2>2. Pending' = Pending
    BY <2>1 DEF Pending, Heard
  <2>3. QED BY <1>5, <1>6, <2>1, <2>2
<1>13. QED BY <1>4, <1>7, <1>8, <1>9, <1>10, <1>11, <1>12 DEF Next

-----------------------------------------------------------------------------
(* A calm bus: the ring still holds every event, so there is no gap, and a  *)
(* queue has room for all that is on its way to it.                         *)
LEMMA CalmIsRoomy ==
  ASSUME TypeOK, Ring, Counted, Calm
  PROVE  ~Gap /\ (loop # <<>> => Len(stream.queue) < env.queue)
<1>1. /\ buffer \in Seq(Events) /\ last \in Nat /\ lastId \in Nat /\ env.buffer \in Nat /\ env.queue \in Nat
      /\ env.changes \in Nat /\ last <= env.changes /\ loop \in Seq(Events)
      /\ Len(loop) \in Nat /\ Len(stream.queue) \in Nat /\ Cardinality(Heard) \in Nat
  BY Parts, Typed, EnvType, HeardCount DEF BusTypes, Counted
<1>2. env.buffer >= env.changes /\ env.queue >= env.changes
  BY DEF Calm
<1>3. ~Gap
  <2>1. Len(buffer) = last
    BY <1>1, <1>2 DEF Ring
  <2>2. SUFFICES ASSUME buffer # <<>>, lastId < Head(buffer).id - 1 PROVE FALSE
    BY DEF Gap
  <2>3. 1 \in DOMAIN buffer /\ Head(buffer) = buffer[1]
    BY <1>1, <2>2, FirstIsIn
  <2>4. Head(buffer).id = last - Len(buffer) + 1
    BY <2>3 DEF Ring
  <2>5. Head(buffer).id = 1
    BY <1>1, <2>1, <2>4
  <2>6. QED BY <1>1, <2>2, <2>5
<1>4. ASSUME loop # <<>> PROVE Len(stream.queue) < env.queue
  <2> DEFINE q == Len(stream.queue)
             l == Len(loop)
             h == Cardinality(Heard)
             room == env.queue
             most == env.changes
  <2>1. l \in Nat \ {0}
    BY <1>1, <1>4, Shorter
  <2>2. q \in Nat /\ h \in Nat /\ last - q - l - h >= 0 /\ last <= most /\ room >= most
        /\ room \in Nat /\ most \in Nat
    BY <1>1, <1>2 DEF Counted, Base
  <2>3. q < room
    <3> HIDE DEF q, l, h, room, most
    <3> QED BY <1>1, <2>1, <2>2
  <2>4. QED BY <2>3
<1>5. QED BY <1>3, <1>4

LEMMA AskedIsKnown ==
  ASSUME TypeOK, Reconcile
  PROVE  Known'
<1>1. fetches \in Seq(Ids \cup {Unread}) /\ Unread \in Ids \cup {Unread}
  BY Parts DEF ClientTypes
<1>2. fetches' = Append(fetches, Unread)
  BY DEF Reconcile
<1>3. /\ Len(fetches') = Len(fetches) + 1 /\ fetches'[Len(fetches) + 1] = Unread
      /\ fetches' # <<>>
  BY <1>1, <1>2, Longer
<1>4. QED BY <1>3 DEF Known

(* The first fetch ends, well or not: the next ones say the same, and with  *)
(* none the board is what it answered, or says that it failed.              *)
LEMMA FirstFetchEnds ==
  ASSUME TypeOK, Known, 1 \in DOMAIN fetches, fetches' = Without(1), UNCHANGED truth,
         error' = TRUE \/ (fetches[1] # Unread /\ board' = fetches[1])
  PROVE  Known'
<1>1. fetches \in Seq(Ids \cup {Unread}) /\ fetches # <<>> /\ Len(fetches) \in Nat /\ DOMAIN fetches = 1..Len(fetches)
  BY Parts, Lengths DEF ClientTypes
<1>2. /\ Without(1) \in Seq(Ids \cup {Unread}) /\ Len(Without(1)) = Len(fetches) - 1
      /\ \A j \in 1..(Len(fetches) - 1) : Without(1)[j] = fetches[IF j < 1 THEN j ELSE j + 1]
  BY WithoutType
<1>3. fetches[Len(fetches)] \in {Unread, truth}
  BY <1>1 DEF Known
<1>4. CASE Len(fetches) = 1
  <2>1. fetches' = <<>>
    BY <1>1, <1>2, <1>4, Lengths
  <2>2. error' = TRUE \/ board' = truth
    BY <1>3, <1>4
  <2>3. QED BY <2>1, <2>2 DEF Known, Fresh
<1>5. CASE Len(fetches) # 1
  <2>1. Len(fetches) - 1 \in 1..(Len(fetches) - 1) /\ (Len(fetches) - 1) + 1 = Len(fetches)
    BY <1>1, <1>5
  <2>2. Without(1)[Len(fetches) - 1] = fetches[Len(fetches)]
    BY <1>2, <2>1
  <2>3. fetches' # <<>> /\ fetches'[Len(fetches')] = fetches[Len(fetches)]
    BY <1>1, <1>2, <2>1, <2>2, Lengths
  <2>4. QED BY <1>3, <2>3 DEF Known
<1>6. QED BY <1>4, <1>5

LEMMA KnownOfBrowser ==
  ASSUME TypeOK, Known, ~env.overtaking, Fetching \/ FetchFails
  PROVE  Known'
<1>1. fetches \in Seq(Ids \cup {Unread}) /\ truth \in Ids \cup {Unread}
  BY Parts DEF ClientTypes, BusTypes
<1>2. ASSUME NEW i \in 1..MaxFetches, Read(i) PROVE Known'
  <2>1. /\ fetches' = [fetches EXCEPT ![i] = truth] /\ i \in DOMAIN fetches
        /\ UNCHANGED <<truth, board, error>>
    BY <1>2 DEF Read, busVars
  <2>2. /\ fetches' \in Seq(Ids \cup {Unread}) /\ Len(fetches') = Len(fetches)
        /\ \A j \in 1..Len(fetches) : fetches'[j] = IF j = i THEN truth ELSE fetches[j]
    BY <1>1, <2>1, Changed
  <2>3. Len(fetches) \in 1..Len(fetches) /\ fetches # <<>> /\ fetches' # <<>>
    BY <1>1, <2>1, <2>2, Lengths
  <2>4. fetches[Len(fetches)] \in {Unread, truth}
    BY <2>3 DEF Known
  <2>5. fetches'[Len(fetches')] \in {Unread, truth}
    BY <2>2, <2>3, <2>4
  <2>6. QED BY <2>1, <2>3, <2>5 DEF Known
<1>3. ASSUME NEW i \in 1..MaxFetches, Answer(i) PROVE Known'
  <2>1. /\ i = 1 /\ 1 \in DOMAIN fetches /\ fetches[1] # Unread /\ board' = fetches[1]
        /\ fetches' = Without(1) /\ UNCHANGED truth
    BY <1>3 DEF Answer, Returns, busVars
  <2>2. QED BY <2>1, FirstFetchEnds
<1>4. CASE FetchFails
  <2>1. 1 \in DOMAIN fetches /\ fetches' = Without(1) /\ error' = TRUE /\ UNCHANGED truth
    BY <1>4 DEF FetchFails, Returns, busVars
  <2>2. QED BY <2>1, FirstFetchEnds
<1>5. QED BY <1>2, <1>3, <1>4 DEF Fetching

LEMMA ComingOfServer ==
  ASSUME TypeOK, Ring, Labels, Opened, Below, Counted, Calm, count.restarts = 0, Coming,
         stream.pc \notin {"gap", "told"}, Put \/ Stream
  PROVE  Coming'
<1>1. /\ loop \in Seq(Events) /\ wire \in Seq(Events) /\ stream.queue \in Seq(Events)
      /\ stream.missed \in Seq(Events) /\ \A n \in Pending : n \in Nat
  BY Typed, PendingType
<1>2. UNCHANGED pub
  BY DEF Put, Stream, Replay, SendMissed, SendResync, SkipToLast, Forward, busVars
<1>3. CASE /\ wire' = wire /\ stream.missed = <<>> /\ stream.pc # "none"
           /\ \A n \in Pending : n > stream.highest => n \in Pending' /\ n > stream'.highest
  BY <1>2, <1>3 DEF Coming
<1>4. CASE wire' # <<>> \/ stream'.pc = "none"
  BY <1>4 DEF Coming
<1>5. CASE Put
  <2>1. Pending' = Pending
    BY <1>5, CalmIsRoomy, PendingOfStream DEF Put
  <2>2. /\ stream'.pc = stream.pc /\ stream'.missed = stream.missed /\ stream'.highest = stream.highest
        /\ wire' = wire
    BY <1>5, StreamMoves DEF Put
  <2>3. QED BY <1>2, <2>1, <2>2 DEF Coming
<1>6. CASE Replay
  <2>1. stream.pc = "subscribed" /\ wire' = wire /\ stream'.highest = lastId
    BY <1>6, CalmIsRoomy, StreamMoves DEF Replay
  <2>2. Pending' = Pending /\ \A n \in Pending : n > lastId
    BY <1>6, <2>1, PendingOfStream DEF Below
  <2>3. QED BY <1>3, <2>1, <2>2 DEF Opened
<1>7. CASE SendMissed
  <2>1. CASE stream.missed = <<>>
    <3>1. wire' = wire /\ stream'.highest = stream.highest /\ stream.pc = "replaying" /\ Pending' = Pending
      BY <1>7, <2>1, StreamMoves, PendingOfStream DEF SendMissed
    <3>2. QED BY <1>3, <2>1, <3>1
  <2>2. CASE stream.missed # <<>>
    <3>1. wire' = Append(wire, Head(stream.missed)) /\ Head(stream.missed) \in Events
      BY <1>1, <1>7, <2>2, StreamMoves, FirstIsIn
    <3>2. QED BY <1>1, <1>4, <3>1, Longer
  <2>3. QED BY <2>1, <2>2
<1>8. CASE Forward
  <2> DEFINE e == Head(stream.queue)
  <2>1. stream.pc = "live" /\ stream.missed = <<>> /\ e \in Events
    BY <1>1, <1>8, FirstIsIn DEF Forward, Opened
  <2>2. CASE e.id <= stream.highest
    <3>1. wire' = wire /\ stream'.highest = stream.highest
      BY <1>8, <2>2, StreamMoves
    <3>2. Pending \subseteq Pending' \cup {e.id} /\ e.id \in Nat /\ stream.highest \in Nat
      BY <1>8, <2>1, PendingOfStream, Typed, EventType
    <3> HIDE DEF e
    <3>3. ASSUME NEW n \in Pending, n > stream.highest PROVE n \in Pending'
      BY <1>1, <2>2, <3>2, <3>3
    <3>4. QED BY <1>3, <2>1, <3>1, <3>3
  <2>3. CASE ~(e.id <= stream.highest)
    <3>1. wire' = Append(wire, e)
      BY <1>8, <2>3, StreamMoves
    <3>2. QED BY <1>1, <1>4, <2>1, <3>1, Longer
  <2>4. QED BY <2>2, <2>3
<1>9. CASE SendResync \/ SkipToLast
  BY <1>9 DEF SendResync, SkipToLast
<1>10. QED BY <1>5, <1>6, <1>7, <1>8, <1>9 DEF Stream

LEMMA ComingOfThreads ==
  ASSUME TypeOK, Labels, Below, Calm, count.restarts = 0, NEW t \in Threads, Thread(t),
         Known \/ Coming
  PROVE  Known' \/ Coming'
<1>1. UNCHANGED <<stream, wire, fetches, board, error>>
  BY DEF Thread, Commit, Publish, Notify, serverVars, clientVars
<1>2. CASE Commit(t)
  <2>1. pub'[t].pc = "committed"
    BY <1>2, PubMoves
  <2>2. QED BY <2>1 DEF Coming
<1>3. CASE Publish(t)
  <2>1. last \in Nat /\ stream.highest \in Nat /\ Len(stream.missed) \in Nat
    BY Typed
  <2>2. stream.highest + Len(stream.missed) <= last
    BY DEF Below
  <2>3. last + 1 > stream.highest
    <3> DEFINE h == stream.highest
               m == Len(stream.missed)
    <3>1. last \in Nat /\ h \in Nat /\ m \in Nat /\ h + m <= last
      BY <2>1, <2>2
    <3> HIDE DEF h, m
    <3>2. last + 1 > h
      BY <3>1
    <3>3. QED BY <3>2 DEF h
  <2>4. CASE stream.pc = "none"
    BY <1>1, <2>4 DEF Coming
  <2>5. CASE stream.pc # "none"
    <3>1. last + 1 \in Pending'
      BY <1>3, <2>5, PendingOfThreads
    <3>2. QED BY <1>1, <2>3, <3>1 DEF Coming
  <2>6. QED BY <2>4, <2>5
<1>4. CASE Notify(t)
  <2>1. Pending' = Pending /\ UNCHANGED truth /\ pub[t].pc = "delivering"
    BY <1>4, PendingOfThreads DEF Notify
  <2>2. \A u \in Threads : pub[u].pc = "committed" => pub'[u].pc = "committed"
    BY <1>4, <2>1, PubMoves DEF Thread
  <2>3. QED BY <1>1, <2>1, <2>2 DEF Known, Coming, Fresh
<1>5. QED BY <1>2, <1>3, <1>4 DEF Thread

LEMMA CoveredStep ==
  TypeOK /\ Ring /\ Labels /\ Sent /\ Below /\ Counted /\ Covered /\ [Next]_vars => Covered'
<1> SUFFICES ASSUME TypeOK, Ring, Labels, Opened, Rising, Below, Counted, Covered, [Next]_vars, Calm'
             PROVE  stream'.pc \notin {"gap", "told"} /\ (count'.restarts = 0 => Known' \/ Coming')
  BY DEF Sent, Covered
<1>1. Calm
  <2>1. env' = env
    BY DEF Next, Thread, Commit, Publish, Notify, Put, Stream, Replay, SendMissed, SendResync, SkipToLast,
       Forward, Renew, Connect, Receive, NoticeEnd, Fetching, Read, Answer, Refresh, Lose, FetchFails,
       Restart, vars
  <2>2. QED BY <2>1 DEF Calm
<1>2. stream.pc \notin {"gap", "told"} /\ (count.restarts = 0 => Known \/ Coming)
  BY <1>1 DEF Covered
<1>3. stream'.pc \notin {"gap", "told"}
  <2>1. CASE UNCHANGED stream
    BY <1>2, <2>1
  <2>2. CASE stream' = Closed \/ stream' = [Closed EXCEPT !.pc = "subscribed"]
    BY <2>2 DEF Closed
  <2>3. CASE Put
    BY <1>2, <2>3, StreamMoves
  <2>4. CASE Replay \/ SendMissed \/ Forward
    BY <1>1, <2>4, CalmIsRoomy, StreamMoves
  <2>5. CASE SendResync \/ SkipToLast
    BY <1>2, <2>5 DEF SendResync, SkipToLast
  <2>6. QED
    BY <2>1, <2>2, <2>3, <2>4, <2>5
    DEF Next, Thread, Commit, Publish, Notify, Stream, Renew, Unsubscribe, Connect, Receive, NoticeEnd,
        Fetching, Read, Answer, Refresh, Lose, FetchFails, Restart, vars, serverVars
<1> SUFFICES ASSUME count'.restarts = 0 PROVE Known' \/ Coming'
  BY <1>3
<1>4. count.restarts = 0 /\ ~Restart
  BY NotRestarted
<1>5. Known \/ Coming
  BY <1>2, <1>4
<1>6. CASE Put \/ Stream
  <2>1. UNCHANGED <<truth, fetches, board, error>>
    BY <1>6 DEF Put, Stream, Replay, SendMissed, SendResync, SkipToLast, Forward, busVars, clientVars
  <2>2. CASE Known
    BY <2>1, <2>2 DEF Known, Fresh
  <2>3. CASE Coming
    BY <1>1, <1>2, <1>4, <1>6, <2>3, ComingOfServer
  <2>4. QED BY <1>5, <2>2, <2>3
<1>7. CASE Renew \/ NoticeEnd \/ Lose
  BY <1>7 DEF Renew, NoticeEnd, Lose, Unsubscribe, Closed, Coming, serverVars
<1>8. CASE Connect \/ Refresh
  BY <1>8, AskedIsKnown DEF Connect, Refresh
<1>9. CASE Receive
  <2>1. wire \in Seq(Events) /\ wire # <<>>
    BY <1>9, Typed DEF Receive
  <2>2. 1 \in DOMAIN wire /\ Head(wire) = wire[1]
    BY <2>1, FirstIsIn
  <2>3. Head(wire).type # "log"
    BY <1>1, <2>2 DEF Labels, Calm
  <2>4. QED BY <1>9, <2>3, AskedIsKnown DEF Receive
<1>10. CASE Fetching \/ FetchFails
  <2>1. CASE Known
    BY <1>1, <1>10, <2>1, KnownOfBrowser DEF Calm
  <2>2. CASE Coming
    <3>1. UNCHANGED <<pub, loop, stream, wire>>
      BY <1>10 DEF Fetching, Read, Answer, FetchFails, busVars, serverVars
    <3>2. QED BY <2>2, <3>1 DEF Coming, Pending, Heard
  <2>3. QED BY <1>5, <2>1, <2>2
<1>11. CASE UNCHANGED vars
  BY <1>5, <1>11 DEF vars, busVars, serverVars, clientVars, Known, Coming, Pending, Heard, Fresh
<1>12. QED
  BY <1>1, <1>4, <1>5, <1>6, <1>7, <1>8, <1>9, <1>10, <1>11, ComingOfThreads DEF Next

-----------------------------------------------------------------------------
(* Numbers in a row.                                                        *)
LEMMA RowGrows ==
  ASSUME TypeOK, NEW s \in Seq(Events), NEW e \in Events, NEW n \in Int, Numbered(s, n), e.id = n + Len(s) + 1
  PROVE  Numbered(Append(s, e), n)
<1>1. Len(s) \in Nat /\ DOMAIN s = 1..Len(s)
  BY Lengths
<1>2. ASSUME NEW i \in DOMAIN Append(s, e) PROVE Append(s, e)[i].id = n + i
  <2>1. CASE i = Len(s) + 1 /\ Append(s, e)[i] = e
    BY <1>1, <2>1
  <2>2. CASE i \in DOMAIN s /\ Append(s, e)[i] = s[i]
    BY <1>1, <2>2 DEF Numbered
  <2>3. QED BY <2>1, <2>2, OneMore
<1>3. QED BY <1>2 DEF Numbered

LEMMA RowShrinks ==
  ASSUME TypeOK, NEW s \in Seq(Events), NEW n \in Int, s # <<>>, Numbered(s, n)
  PROVE  Numbered(Tail(s), n + 1) /\ Head(s).id = n + 1
<1>1. Len(s) \in Nat /\ DOMAIN s = 1..Len(s) /\ 1 \in DOMAIN s /\ Head(s) = s[1]
  BY Lengths, FirstIsIn
<1>2. ASSUME NEW i \in DOMAIN Tail(s) PROVE Tail(s)[i].id = (n + 1) + i
  <2>1. i + 1 \in DOMAIN s /\ Tail(s)[i] = s[i + 1] /\ i \in Nat
    BY <1>1, OneLess
  <2>2. s[i + 1].id = n + (i + 1)
    BY <2>1 DEF Numbered
  <2>3. QED BY <2>1, <2>2
<1>3. QED BY <1>1, <1>2 DEF Numbered

LEMMA NextInRow ==
  ASSUME TypeOK, NEW s \in Seq(Events), NEW e \in Events, Adjacent(s), s = <<>> \/ e.id = s[Len(s)].id + 1
  PROVE  /\ Adjacent(Append(s, e)) /\ Append(s, e) # <<>> /\ Append(s, e)[Len(Append(s, e))] = e
         /\ Append(s, e)[1] = IF s = <<>> THEN e ELSE s[1]
<1> DEFINE l == Append(s, e)
           n == Len(s)
<1>1. /\ n \in Nat /\ Len(l) = n + 1 /\ l # <<>> /\ l[n + 1] = e /\ \A i \in 1..n : l[i] = s[i]
      /\ s = <<>> <=> n = 0
  BY Longer, Lengths
<1>2. s = <<>> \/ e.id = s[n].id + 1
  OBVIOUS
<1>3. \A i \in 1..(n - 1) : s[i + 1].id = s[i].id + 1
  BY DEF Adjacent
<1> HIDE DEF l, n
<1>4. ASSUME NEW i \in 1..(Len(l) - 1) PROVE l[i + 1].id = l[i].id + 1
  <2>1. CASE i = n
    <3>1. n # 0 /\ i \in 1..n
      BY <1>1, <2>1
    <3>2. l[i] = s[n] /\ l[i + 1] = e /\ s # <<>>
      BY <1>1, <2>1, <3>1
    <3>3. QED BY <1>2, <3>2
  <2>2. CASE i # n
    <3>1. i \in 1..(n - 1) /\ i \in 1..n /\ i + 1 \in 1..n
      BY <1>1, <2>2
    <3>2. QED BY <1>1, <1>3, <3>1
  <2>3. QED BY <2>1, <2>2
<1>5. l[1] = IF s = <<>> THEN e ELSE s[1]
  <2>1. CASE n = 0
    BY <1>1, <2>1
  <2>2. CASE n # 0
    BY <1>1, <2>2
  <2>3. QED BY <2>1, <2>2
<1>6. QED BY <1>1, <1>4, <1>5 DEF Adjacent, l

LEMMA FirstOfRow ==
  ASSUME TypeOK, NEW s \in Seq(Events), Adjacent(s), s # <<>>
  PROVE  /\ Adjacent(Tail(s))
         /\ Tail(s) # <<>> => /\ Tail(s)[1].id = Head(s).id + 1
                              /\ Tail(s)[Len(Tail(s))] = s[Len(s)]
         /\ Tail(s) = <<>> => Head(s) = s[Len(s)]
<1> DEFINE l == Tail(s)
           n == Len(s)
<1>1. /\ l \in Seq(Events) /\ n \in Nat \ {0} /\ Len(l) = n - 1 /\ Head(s) = s[1]
      /\ \A i \in 1..(n - 1) : l[i] = s[i + 1]
  BY Shorter
<1>2. l = <<>> <=> n = 1
  <2>1. l = <<>> <=> Len(l) = 0
    BY <1>1, Lengths
  <2>2. QED BY <1>1, <2>1
<1>3. \A i \in 1..(n - 1) : s[i + 1].id = s[i].id + 1
  BY DEF Adjacent
<1> HIDE DEF l
<1>4. ASSUME NEW i \in 1..(Len(l) - 1) PROVE l[i + 1].id = l[i].id + 1
  <2>1. i \in 1..(n - 1) /\ i + 1 \in 1..(n - 1)
    BY <1>1
  <2>2. l[i] = s[i + 1] /\ l[i + 1] = s[(i + 1) + 1] /\ s[(i + 1) + 1].id = s[i + 1].id + 1
    BY <1>1, <1>3, <2>1
  <2>3. QED BY <2>2
<1>5. ASSUME l # <<>> PROVE l[1].id = Head(s).id + 1 /\ l[Len(l)] = s[n]
  <2>1. 1 \in 1..(n - 1) /\ n - 1 \in 1..(n - 1) /\ (n - 1) + 1 = n
    BY <1>1, <1>2, <1>5
  <2>2. l[1] = s[1 + 1] /\ s[1 + 1].id = s[1].id + 1 /\ l[n - 1] = s[(n - 1) + 1]
    BY <1>1, <1>3, <2>1
  <2>3. QED BY <1>1, <2>1, <2>2
<1>6. QED BY <1>1, <1>2, <1>4, <1>5 DEF Adjacent, l

(* With one thread there is one event on its way to the loop at most.       *)
LEMMA OneThread ==
  ASSUME TypeOK, Labels, Cardinality(env.threads) = 1, NEW t \in Threads, NEW u \in Threads,
         t \in env.threads, u \in Heard \/ u \in env.threads
  PROVE  u = t
<1>1. IsFiniteSet(env.threads)
  BY Typed, EnvType, FS_Subset, StreamAssumption
<1>2. \E s : env.threads = {s}
  BY <1>1, FS_Singleton
<1>3. u \in env.threads
  BY DEF Labels, Heard
<1>4. QED BY <1>2, <1>3

LEMMA BaseType == TypeOK /\ Counted => Base \in Int /\ Base <= last
<1> SUFFICES ASSUME TypeOK, Counted PROVE Base \in Int /\ Base <= last
  OBVIOUS
<1> DEFINE q == Len(stream.queue)
           l == Len(loop)
           h == Cardinality(Heard)
<1>1. last \in Nat /\ q \in Nat /\ l \in Nat /\ h \in Nat /\ Base = last - q - l - h
  BY Typed, HeardCount DEF Counted, Base
<1> HIDE DEF q, l, h
<1>2. QED BY <1>1

LEMMA BacklogOfThreads ==
  ASSUME TypeOK, Labels, Opened, Rising, Counted, Cardinality(env.threads) = 1, Backlog,
         NEW t \in Threads, Thread(t)
  PROVE  Backlog'
<1>1. /\ loop \in Seq(Events) /\ stream.queue \in Seq(Events) /\ last \in Nat /\ Base \in Int
      /\ Len(stream.queue) \in Nat
  BY Typed, BaseType
<1>2. UNCHANGED <<stream, wire, lastId>>
  BY DEF Thread, Commit, Publish, Notify, serverVars, clientVars
<1>3. t \in env.threads
  BY DEF Labels, Thread, Commit, Publish, Notify
<1>4. CASE Commit(t)
  <2>1. Base' = Base /\ Heard' = Heard /\ t \notin Heard /\ UNCHANGED <<loop, last>>
    BY <1>4, BaseMoves, HeardMoves, PubMoves DEF Sent, Commit, serverVars, Heard
  <2>2. \A u \in Heard : pub'[u] = pub[u]
    BY <1>4, <2>1, PubMoves DEF Thread, Heard
  <2>3. QED BY <1>2, <2>1, <2>2 DEF Backlog, Sending, Numbered
<1>5. CASE Publish(t)
  <2>1. UNCHANGED loop /\ t \notin Heard /\ last' = last + 1 /\ pub'[t].id = last + 1
    BY <1>5, HeardMoves, PubMoves DEF Publish, serverVars
  <2>2. Heard = {}
    BY <1>3, <2>1, OneThread DEF Heard
  <2>3. CASE stream.pc = "none"
    <3>1. Heard' = {} /\ loop = <<>> /\ stream.queue = <<>> /\ ~Sending
      BY <1>5, <2>2, <2>3, HeardMoves DEF Opened, Closed, Sending
    <3>2. QED BY <1>2, <2>1, <3>1 DEF Backlog, Sending, Numbered
  <2>4. CASE stream.pc # "none"
    <3>1. Base' = Base /\ Heard' = {t}
      BY <1>5, <2>2, <2>4, BaseMoves, HeardMoves DEF Sent
    <3>2. QED BY <1>2, <2>1, <3>1 DEF Backlog, Sending, Numbered
  <2>5. QED BY <2>3, <2>4
<1>6. CASE Notify(t)
  <2> DEFINE e == Event(pub[t].type, pub[t].id)
  <2>1. Base' = Base /\ Heard' = Heard \ {t} /\ UNCHANGED last
    BY <1>6, BaseMoves, HeardMoves DEF Sent, Notify
  <2>2. \A u \in Heard : u = t
    BY <1>3, OneThread DEF Heard
  <2>3. Heard' = {}
    BY <2>1, <2>2
  <2>4. Numbered(loop', Base + Len(stream.queue))
    <3>1. CASE t \in Heard
      <4>1. Heard = {t} /\ loop' = Append(loop, e) /\ e \in Events /\ e.id = last
        BY <1>6, <2>2, <3>1, ThreadType DEF Notify, Heard, Backlog
      <4>2. Cardinality(Heard) = 1
        BY <4>1, FS_Singleton
      <4> DEFINE q == Len(stream.queue)
                 l == Len(loop)
      <4>3. Base = last - q - l - 1 /\ q \in Nat /\ l \in Nat
        BY <4>2, Typed DEF Base
      <4> DEFINE b == Base
      <4>4. last = (b + q) + l + 1 /\ b + q \in Int
        <5>1. b = last - q - l - 1
          BY <4>3
        <5> HIDE DEF q, l, b
        <5>2. QED BY <1>1, <4>3, <5>1
      <4> HIDE DEF e
      <4>5. QED BY <1>1, <4>1, <4>4, RowGrows DEF Backlog
    <3>2. CASE t \notin Heard
      <4>1. loop' = loop
        BY <1>6, <3>2 DEF Notify, Heard
      <4>2. QED BY <4>1 DEF Backlog
    <3>3. QED BY <3>1, <3>2
  <2>5. QED BY <1>2, <2>1, <2>3, <2>4 DEF Backlog, Sending
<1>7. QED BY <1>4, <1>5, <1>6 DEF Thread

LEMMA BacklogOfStream ==
  ASSUME TypeOK, Ring, Labels, Opened, Rising, Below, Counted, Calm, count.restarts = 0, Frames, Backlog,
         stream.pc \notin {"gap", "told"}, Put \/ Stream
  PROVE  Frames' /\ Backlog'
<1> DEFINE q == Len(stream.queue)
           b == Base
           h == stream.highest
           m == Len(stream.missed)
<1>1. /\ loop \in Seq(Events) /\ stream.queue \in Seq(Events) /\ wire \in Seq(Events)
      /\ stream.missed \in Seq(Events) /\ last \in Nat /\ lastId \in Nat
      /\ b \in Int /\ b <= last /\ q \in Nat /\ h \in Nat /\ m \in Nat
  BY Typed, BaseType
<1>2. UNCHANGED <<pub, last, lastId>> /\ Heard' = Heard
  BY DEF Put, Stream, Replay, SendMissed, SendResync, SkipToLast, Forward, busVars, clientVars, Heard
<1>3. CASE Put
  <2>1. Base' = b /\ stream'.queue = Append(stream.queue, Head(loop)) /\ loop # <<>> /\ loop' = Tail(loop)
    BY <1>3, CalmIsRoomy, BaseMoves, StreamMoves DEF Put, Sent
  <2>2. Head(loop) \in Events
    BY <1>1, <2>1, FirstIsIn
  <2>3. Numbered(loop, b + q) /\ b + q \in Int /\ Numbered(stream.queue, b)
    BY <1>1 DEF Backlog
  <2>4. Numbered(Tail(loop), b + q + 1) /\ Head(loop).id = b + q + 1
    BY <1>1, <2>1, <2>3, RowShrinks
  <2>5. Numbered(stream'.queue, b)
    <3>1. Head(loop).id = b + Len(stream.queue) + 1
      BY <2>4
    <3>2. QED BY <1>1, <2>1, <2>2, <2>3, <3>1, RowGrows
  <2>6. Len(stream'.queue) = q + 1
    BY <1>1, <2>1, <2>2, Longer
  <2>7. b + Len(stream'.queue) = b + q + 1
    <3> DEFINE r == Len(stream'.queue)
    <3>1. r = q + 1
      BY <2>6
    <3> HIDE DEF b, q, r
    <3>2. b + r = b + q + 1
      BY <1>1, <3>1
    <3>3. QED BY <3>2 DEF r
  <2>8. Numbered(loop', Base' + Len(stream'.queue))
    BY <2>1, <2>4, <2>7
  <2>9. UNCHANGED wire /\ stream'.pc = stream.pc /\ stream'.missed = stream.missed /\ stream'.highest = stream.highest
    BY <1>3, StreamMoves DEF Put
  <2>10. Frames'
    BY <1>2, <2>9 DEF Frames, Sending
  <2>11. Backlog'
    BY <1>2, <2>1, <2>5, <2>8, <2>9 DEF Backlog, Sending
  <2>12. QED BY <2>10, <2>11
<1>4. ASSUME Replay \/ SendMissed, Frames', stream'.highest + Len(stream'.missed) # 0
                                              => b <= stream'.highest + Len(stream'.missed)
      PROVE  Frames' /\ Backlog'
  <2>1. stream'.queue = stream.queue /\ UNCHANGED loop
    BY <1>4, StreamMoves DEF Replay, SendMissed
  <2>2. Base' = Base
    BY <1>2, <2>1 DEF Base
  <2>3. QED BY <1>2, <1>4, <2>1, <2>2 DEF Backlog
<1>5. CASE Replay
  <2>1. /\ stream'.pc = "replaying" /\ stream'.missed = Missed /\ stream'.highest = lastId
        /\ wire = <<>> /\ wire' = <<>>
    BY <1>5, CalmIsRoomy, StreamMoves DEF Replay, Opened
  <2>2. Frames'
    BY <1>2, <2>1 DEF Frames, Adjacent
  <2>3. stream'.highest + Len(stream'.missed) # 0 => b <= stream'.highest + Len(stream'.missed)
    <3>1. CASE lastId = 0
      <4>1. Missed = <<>>
        BY <3>1 DEF Missed
      <4>2. stream'.highest + Len(stream'.missed) = 0
        BY <2>1, <3>1, <4>1
      <4>3. QED BY <4>2
    <3>2. CASE lastId # 0
      <4>1. lastId + Len(Missed) = last
        BY <3>2, CalmIsRoomy, MissedNumbers DEF Below
      <4>2. QED BY <1>1, <2>1, <4>1
    <3>3. QED BY <3>1, <3>2
  <2>4. QED BY <1>4, <1>5, <2>2, <2>3
<1>6. CASE SendMissed
  <2>0. stream.pc = "replaying" /\ (h + m # 0 => b <= h + m)
    BY <1>6 DEF SendMissed, Backlog, Sending
  <2>1. CASE stream.missed = <<>>
    <3>1. wire' = wire /\ stream'.highest = stream.highest /\ stream'.missed = stream.missed
      BY <1>6, <2>1, StreamMoves
    <3>2. Frames'
      BY <1>2, <2>0, <3>1 DEF Frames, Sending
    <3>3. QED BY <1>4, <1>6, <2>0, <3>1, <3>2
  <2>2. CASE stream.missed # <<>>
    <3> DEFINE e == Head(stream.missed)
               n == e.id
               k == stream'.highest
               l == Len(stream'.missed)
    <3>1. /\ stream'.missed = Tail(stream.missed) /\ stream'.highest = e.id
          /\ wire' = Append(wire, e)
      BY <1>6, <2>2, StreamMoves
    <3>2. e \in Events /\ e = stream.missed[1] /\ 1 \in DOMAIN stream.missed
      BY <1>1, <2>2, FirstIsIn
    <3>3. n = h + 1
      BY <3>2 DEF Rising
    <3>4. k = n /\ l = m - 1
      BY <1>1, <2>2, <3>1, Shorter
    <3>5. k + l # 0 => b <= k + l
      <4> HIDE DEF b, h, m, n, k, l
      <4>1. QED BY <1>1, <2>0, <3>3, <3>4
    <3>6. h = IF wire = <<>> THEN lastId ELSE wire[Len(wire)].id
      BY <2>0 DEF Frames, Sending
    <3>7. wire = <<>> \/ e.id = wire[Len(wire)].id + 1
      BY <3>3, <3>6
    <3>8. wire = <<>> => e.id = lastId + 1
      BY <3>3, <3>6
    <3> HIDE DEF e
    <3>9. /\ Adjacent(wire') /\ wire' # <<>> /\ wire'[Len(wire')] = e
          /\ wire'[1] = IF wire = <<>> THEN e ELSE wire[1]
      <4>1. wire \in Seq(Events) /\ Adjacent(wire)
        BY <1>1, <1>2 DEF Frames
      <4>2. /\ Adjacent(Append(wire, e)) /\ Append(wire, e) # <<>>
            /\ Append(wire, e)[Len(Append(wire, e))] = e
            /\ Append(wire, e)[1] = IF wire = <<>> THEN e ELSE wire[1]
        BY <1>1, <3>2, <3>7, <4>1, NextInRow
      <4>3. QED BY <3>1, <4>2
    <3>10. Frames'
      BY <1>2, <3>1, <3>8, <3>9 DEF Frames
    <3>11. QED BY <1>4, <1>6, <3>5, <3>10
  <2>3. QED BY <2>1, <2>2
<1>7. CASE Forward
  <2> DEFINE e == Head(stream.queue)
             n == e.id
  <2>1. /\ stream.pc = "live" /\ stream'.pc = "live" /\ stream'.missed = stream.missed /\ stream.missed = <<>>
        /\ stream.queue # <<>> /\ stream'.queue = Tail(stream.queue) /\ UNCHANGED loop /\ Base' = b + 1
    BY <1>7, StreamMoves, BaseMoves DEF Forward, Opened, Sent
  <2>2. e \in Events /\ m = 0 /\ Len(stream'.missed) = 0 /\ n \in Nat
    BY <1>1, <2>1, FirstIsIn, Lengths, EventType
  <2>3. Numbered(stream'.queue, b + 1) /\ n = b + 1
    BY <1>1, <2>1, RowShrinks DEF Backlog
  <2>4. Numbered(loop', Base' + Len(stream'.queue))
    <3>1. Len(stream'.queue) = q - 1
      BY <1>1, <2>1, Shorter
    <3> DEFINE r == Len(stream'.queue)
               c == Base'
    <3>2. r = q - 1 /\ c = b + 1
      BY <2>1, <3>1
    <3>3. b + q = c + r
      <4> HIDE DEF b, q, r, c
      <4>1. QED BY <1>1, <3>2
    <3>4. Numbered(loop, b + q)
      BY DEF Backlog
    <3>5. QED BY <2>1, <3>3, <3>4
  <2>5. (h # 0 => b <= h) /\ h = IF wire = <<>> THEN lastId ELSE wire[Len(wire)].id
    <3>1. h + m # 0 => b <= h + m
      BY <2>1 DEF Backlog, Sending
    <3>2. h # 0 => b <= h
      <4> HIDE DEF b, h, m
      <4>1. QED BY <1>1, <2>2, <3>1
    <3>3. QED BY <2>1, <3>2 DEF Frames, Sending
  <2>6. ASSUME Base' <= stream'.highest, stream'.highest \in Nat PROVE Backlog'
    <3>1. stream'.highest + Len(stream'.missed) = stream'.highest
      BY <2>2, <2>6
    <3>2. QED BY <1>2, <2>1, <2>3, <2>4, <2>6, <3>1 DEF Backlog
  <2>7. CASE n <= h
    <3>1. wire' = wire /\ stream'.highest = h
      BY <1>7, <2>7, StreamMoves
    <3>2. Frames'
      BY <1>2, <2>1, <3>1 DEF Frames, Sending
    <3>3. Base' <= h
      BY <2>1, <2>3, <2>7
    <3>4. QED BY <1>1, <2>6, <3>1, <3>2, <3>3
  <2>8. CASE ~(n <= h)
    <3>1. wire' = Append(wire, e) /\ stream'.highest = n
      BY <1>7, <2>8, StreamMoves
    <3>2. h # 0 => n = h + 1
      <4> HIDE DEF b, h, n
      <4>1. QED BY <1>1, <2>2, <2>3, <2>5, <2>8
    <3>3. h = 0 => wire = <<>> /\ lastId = 0
      <4>1. ASSUME wire # <<>> PROVE h > 0
        <5>1. Len(wire) \in DOMAIN wire
          BY <1>1, <4>1, Lengths, FirstIsIn
        <5>2. wire[Len(wire)].id > lastId /\ wire[Len(wire)].id \in Nat
          BY <1>1, <5>1, Lengths, EventType DEF Rising
        <5>3. QED BY <1>1, <2>5, <4>1, <5>2
      <4>2. QED BY <1>1, <2>5, <4>1
    <3>4. wire = <<>> \/ e.id = wire[Len(wire)].id + 1
      BY <2>5, <3>2, <3>3
    <3>5. wire = <<>> /\ lastId # 0 => e.id = lastId + 1
      BY <2>5, <3>2, <3>3
    <3>6. /\ Adjacent(wire') /\ wire' # <<>> /\ wire'[Len(wire')] = e
          /\ wire'[1] = IF wire = <<>> THEN e ELSE wire[1]
      <4> HIDE DEF e
      <4>1. QED BY <1>1, <2>2, <3>1, <3>4, NextInRow DEF Frames
    <3>7. Frames'
      BY <1>2, <3>1, <3>5, <3>6 DEF Frames
    <3>8. Base' <= stream'.highest /\ stream'.highest \in Nat
      BY <1>1, <2>1, <2>2, <2>3, <3>1
    <3>9. QED BY <2>6, <3>7, <3>8
  <2>9. QED BY <2>7, <2>8
<1>8. QED BY <1>3, <1>5, <1>6, <1>7 DEF Stream, SendResync, SkipToLast

LEMMA LineStep ==
  TypeOK /\ Ring /\ Labels /\ Sent /\ Below /\ Counted /\ Covered /\ Line /\ [Next]_vars => Line'
<1> SUFFICES ASSUME TypeOK, Ring, Labels, Opened, Rising, Below, Counted, Covered, Line, [Next]_vars,
                    Calm', Cardinality(env'.threads) = 1, count'.restarts = 0
             PROVE  Frames' /\ Backlog'
  BY DEF Sent, Line
<1>1. /\ wire \in Seq(Events) /\ lastId \in Nat /\ online \in BOOLEAN /\ Base \in Int
  BY Typed, BaseType
<1>2. env' = env
  BY DEF Next, Thread, Commit, Publish, Notify, Put, Stream, Replay, SendMissed, SendResync, SkipToLast,
     Forward, Renew, Connect, Receive, NoticeEnd, Fetching, Read, Answer, Refresh, Lose, FetchFails,
     Restart, vars
<1>3. Calm /\ Cardinality(env.threads) = 1 /\ count.restarts = 0 /\ ~Restart
  BY <1>2, NotRestarted DEF Calm
<1>4. Frames /\ Backlog /\ stream.pc \notin {"gap", "told"}
  BY <1>3 DEF Line, Covered
<1>5. ASSUME NEW t \in Threads, Thread(t) PROVE Frames' /\ Backlog'
  <2>1. UNCHANGED <<stream, wire, lastId>>
    BY <1>5 DEF Thread, Commit, Publish, Notify, serverVars, clientVars
  <2>2. Frames'
    BY <1>4, <2>1 DEF Frames, Sending
  <2>3. QED BY <1>3, <1>4, <1>5, <2>2, BacklogOfThreads
<1>6. CASE Put \/ Stream
  BY <1>3, <1>4, <1>6, BacklogOfStream
<1>7. CASE Renew \/ Lose \/ Connect
  <2>1. stream'.pc \in {"none", "subscribed"} /\ stream'.queue = <<>>
    BY <1>7 DEF Renew, Lose, Connect, Unsubscribe, Closed
  <2>2. loop' = <<>> /\ Heard' = {}
    <3>1. CASE Renew \/ Lose
      BY <3>1, Unsubscribed DEF Renew, Lose
    <3>2. CASE Connect
      BY <3>2 DEF Connect, Opened, busVars, Heard
    <3>3. QED BY <1>7, <3>1, <3>2
  <2>3. UNCHANGED lastId /\ (wire' = wire \/ wire' = <<>>)
    BY <1>7 DEF Renew, Lose, Connect, clientVars
  <2>4. Frames'
    BY <1>4, <2>1, <2>3 DEF Frames, Sending, Adjacent
  <2>5. Backlog'
    BY <2>1, <2>2 DEF Backlog, Sending, Numbered
  <2>6. QED BY <2>4, <2>5
<1>8. CASE Receive
  <2>1. wire # <<>> /\ wire' = Tail(wire) /\ lastId' = Head(wire).id /\ UNCHANGED <<pub, last, loop, stream>>
    BY <1>8 DEF Receive, serverVars, busVars
  <2>2. /\ Adjacent(Tail(wire))
        /\ Tail(wire) # <<>> => Tail(wire)[1].id = Head(wire).id + 1 /\ Tail(wire)[Len(Tail(wire))] = wire[Len(wire)]
        /\ Tail(wire) = <<>> => Head(wire) = wire[Len(wire)]
    BY <1>1, <1>4, <2>1, FirstOfRow DEF Frames
  <2>3. Frames'
    BY <1>4, <2>1, <2>2 DEF Frames, Sending
  <2>4. Backlog'
    BY <1>4, <2>1 DEF Backlog, Base, Heard, Sending, Numbered
  <2>5. QED BY <2>3, <2>4
<1>9. CASE NoticeEnd \/ Fetching \/ Refresh \/ FetchFails \/ UNCHANGED vars
  <2>1. UNCHANGED <<pub, last, loop, stream, wire, lastId>>
    BY <1>9 DEF NoticeEnd, Fetching, Read, Answer, Refresh, FetchFails, vars, busVars, serverVars, clientVars
  <2>2. QED BY <1>4, <2>1 DEF Frames, Backlog, Base, Heard, Sending, Numbered
<1>10. QED BY <1>3, <1>5, <1>6, <1>7, <1>8, <1>9 DEF Next

-----------------------------------------------------------------------------
(* The invariant, and what it says of a quiet board and of a frame.         *)
LEMMA IInvBegins == Init => IInv
<1> SUFFICES ASSUME Init PROVE IInv
  OBVIOUS
<1>1. TypeOK
  BY Initial
<1>2. /\ last = 0 /\ buffer = <<>> /\ loop = <<>> /\ wire = <<>> /\ lastId = 0 /\ ~online
      /\ stream = Closed /\ fetches = <<Unread>>
      /\ \A t \in Threads : pub[t] = Idle
  BY DEF Init
<1>3. Heard = {}
  BY <1>2 DEF Heard, Idle
<1>4. Pending = {}
  BY <1>2, <1>3 DEF Pending, Closed
<1>5. Labels
  BY <1>2 DEF Labels, Idle, Closed
<1>6. Ring
  BY <1>2 DEF Ring
<1>7. Sent
  BY <1>2, <1>3 DEF Sent, Opened, Rising, Sending, Closed
<1>8. Below
  BY <1>2, <1>4 DEF Below, Closed
<1>9. Counted
  <2>1. IsFiniteSet({}) /\ Cardinality({}) = 0
    BY FS_EmptySet
  <2>2. QED BY <1>2, <1>3, <2>1 DEF Counted, Base, Closed
<1>10. Covered
  BY <1>2 DEF Covered, Known, Closed
<1>11. Line
  BY <1>2, <1>3 DEF Line, Frames, Backlog, Adjacent, Numbered, Sending, Closed
<1>12. QED
  BY <1>1, <1>5, <1>6, <1>7, <1>8, <1>9, <1>10, <1>11 DEF IInv

LEMMA IInvHolds == Spec => []IInv
<1>1. IInv /\ [Next]_vars => IInv'
  BY TypeStep, RingStep, LabelsStep, OpenedStep, RisingStep, BelowStep, CountedStep, CoveredStep, LineStep
  DEF IInv, Sent
<1>2. QED BY <1>1, IInvBegins, PTL DEF Spec

LEMMA QuietIsCovered == IInv => QuietIsFresh
<1> SUFFICES ASSUME IInv, Calm, count.restarts = 0, Quiet PROVE Fresh
  BY DEF QuietIsFresh
<1>1. Heard = {} /\ stream.missed = <<>>
  BY DEF IInv, Labels, Sent, Opened, Quiet, Heard
<1>2. Pending = {}
  BY <1>1 DEF Pending, Quiet
<1>3. ~Coming
  BY <1>1, <1>2 DEF Coming, Quiet
<1>4. QED BY <1>3 DEF IInv, Covered, Known, Quiet

LEMMA FrameIsNewer ==
  IInv /\ [Next]_vars
    => (wire # <<>> /\ wire' = Tail(wire) /\ online' /\ Head(wire).type # "resync" => lastId' > lastId)
<1> SUFFICES ASSUME IInv, [Next]_vars, wire # <<>>, wire' = Tail(wire), online' PROVE lastId' > lastId
  OBVIOUS
<1>1. TypeOK /\ Opened /\ Rising
  BY DEF IInv, Sent
<1>2. wire \in Seq(Events) /\ stream.missed \in Seq(Events) /\ stream.queue \in Seq(Events)
  BY <1>1, Typed
<1>3. Len(wire') = Len(wire) - 1 /\ Len(wire) \in Nat
  BY <1>2, Shorter
<1>4. wire' # wire /\ \A e \in Events : wire' # Append(wire, e)
  <2>1. \A e \in Events : Len(Append(wire, e)) = Len(wire) + 1
    BY <1>2, Longer
  <2>2. \A n \in Nat : n # n - 1 /\ n + 1 # n - 1
    OBVIOUS
  <2>3. QED BY <1>3, <2>1, <2>2
<1>5. CASE Receive
  <2>1. 1 \in DOMAIN wire /\ Head(wire) = wire[1]
    BY <1>2, FirstIsIn
  <2>2. QED BY <1>1, <1>5, <2>1 DEF Receive, Rising
<1>6. CASE Lose \/ Restart
  BY <1>6 DEF Lose, Restart
<1>7. CASE Stream
  <2>1. Event("resync", last) \in Events
    BY <1>1, Parts DEF Event, Events, BusTypes
  <2>2. CASE SendMissed
    BY <1>2, <1>4, <2>2, FirstIsIn DEF SendMissed
  <2>3. CASE SendResync
    BY <1>4, <2>1, <2>3 DEF SendResync
  <2>4. CASE Forward
    BY <1>2, <1>4, <2>4, FirstIsIn DEF Forward
  <2>5. CASE Replay \/ SkipToLast
    BY <1>4, <2>5 DEF Replay, SkipToLast
  <2>6. QED BY <1>7, <2>2, <2>3, <2>4, <2>5 DEF Stream
<1>8. CASE wire' = wire
  BY <1>4, <1>8
<1>9. QED
  BY <1>5, <1>6, <1>7, <1>8
  DEF Next, Thread, Commit, Publish, Notify, Put, Renew, Connect, NoticeEnd, Fetching, Read, Answer,
      Refresh, FetchFails, vars

LEMMA FrameIsNext ==
  IInv /\ [Next]_vars
    => (Calm /\ Cardinality(env.threads) = 1 /\ count.restarts = 0 /\ lastId # 0 /\ lastId' # lastId
          => lastId' = lastId + 1)
<1> SUFFICES ASSUME IInv, [Next]_vars, Calm, Cardinality(env.threads) = 1, count.restarts = 0, lastId # 0,
                    lastId' # lastId
             PROVE  lastId' = lastId + 1
  OBVIOUS
<1>1. Receive
  BY DEF Next, Thread, Commit, Publish, Notify, Put, Stream, Replay, SendMissed, SendResync, SkipToLast,
     Forward, Renew, Connect, NoticeEnd, Fetching, Read, Answer, Refresh, Lose, FetchFails, Restart, vars,
     clientVars
<1>2. wire \in Seq(Events) /\ wire # <<>>
  BY <1>1, Typed DEF IInv, Receive
<1>3. Head(wire) = wire[1]
  BY <1>2, FirstIsIn
<1>4. wire[1].id = lastId + 1
  BY <1>2 DEF IInv, Line, Frames
<1>5. QED BY <1>1, <1>3, <1>4 DEF Receive

(* A quiet board is fresh: when every event asks for a fetch and nothing    *)
(* overflows, a connected board with nothing on its way shows the rows as   *)
(* they are or an error, until the server restarts.  It rests on the order  *)
(* of subscribe, replay and live delivery in event_stream, on the ring of   *)
(* publish and on reconcile after every connect (stream.py:96-150,          *)
(* events.py, useJobStream.ts).                                             *)
THEOREM QuietBoardsAreFresh == Spec => []QuietIsFresh
BY IInvHolds, QuietIsCovered, PTL

(* No event reaches the browser twice or after a newer one, through replay, *)
(* live delivery, resyncs, lost connections and restarts (the highest of    *)
(* event_stream, stream.py:122-150).                                        *)
THEOREM EventsComeOnce == Spec => EachEventOnce
BY IInvHolds, FrameIsNewer, PTL DEF Spec, EachEventOnce

(* With one thread to publish and room for what it publishes, replay_since  *)
(* and live delivery leave nothing out: after one event the browser is sent *)
(* the next (stream.py:13).                                                 *)
THEOREM NoneIsSkipped == Spec => NoGap
BY IInvHolds, FrameIsNext, PTL DEF Spec, NoGap
=============================================================================
