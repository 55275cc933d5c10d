---------------------------- MODULE StoreProofs ----------------------------
(***************************************************************************)
(* Whatever overlaps, every row that is or will be written has a category  *)
(* in step with its status.  As long as no two writes overlap (Alone), a   *)
(* pending write knows what the database holds (Current), so it neither    *)
(* takes back another one's columns nor leaves rows of a deleted job.      *)
(***************************************************************************)
EXTENDS Store, TLAPS

USE StoreAssumption

QueueCalls == {Creates(r) : r \in RunIds} \cup {Joins(r) : r \in RunIds}

Strays(table) == IF table = "samples" THEN {Stray} ELSE {}

PendingInStep == \A c \in Clients : client[c].op = "upsert" => InStep(client[c].row)

Busy(c) == client[c].op # "idle"
Current(w) ==
  /\ w.op = "upsert" => \A col \in Columns \ w.names : w.row[col] = jobs[w.name].cols[col]
  /\ w.op = "add" => \/ HasRow(w.name) /\ w.of = life[w.name]
                     \/ w.table = "samples" /\ w.of = Stray
  /\ w.op = "delete" => w.names = {n \in Names : HasRow(n) /\ jobs[n].cols.run_id = w.run}
Alone == ~racing => /\ \A c, d \in Clients : Busy(c) /\ Busy(d) => c = d
                    /\ \A c \in Clients : Current(client[c])

StoreIInv == StoreTypeOK /\ CategoryInStep /\ PendingInStep /\ Alone /\ HistoryIsOwn

-----------------------------------------------------------------------------
LEMMA FieldTypes ==
  ASSUME NEW fields \in Calls \cup QueueCalls
  PROVE  /\ fields.names \in SUBSET Columns /\ fields.row \in Row
         /\ "failure_category" \in fields.names => "status" \in fields.names /\ InStep(fields.row)
<1> DEFINE row(f, s, cat, r, m) == [feature_id |-> f, status |-> s, failure_category |-> cat,
                                    run_id |-> r, metrics |-> m]
<1>1. CASE fields \in {Becomes(s) : s \in Outcomes}
  <2>1. PICK s \in Outcomes : fields = Becomes(s)
    BY <1>1
  <2>2. fields.names = {"status"} /\ fields.row = row(FALSE, s, "none", NoRun, FALSE)
    BY <2>1 DEF Becomes, Fields, Blank
  <2>3. QED BY <2>2 DEF Columns, Row, Categories
<1>2. CASE fields = Restarts
  <2>1. /\ fields.names = {"status", "failure_category", "metrics"}
        /\ fields.row = row(FALSE, "running", "none", NoRun, FALSE)
    BY <1>2 DEF Restarts, Fields, Blank
  <2>2. QED BY <2>1 DEF Columns, Row, Categories, Statuses, InStep, failure_category_for
<1>3. CASE fields = Measures
  <2>1. fields.names = {"metrics"} /\ fields.row = row(FALSE, "none", "none", NoRun, TRUE)
    BY <1>3 DEF Measures, Fields, Blank
  <2>2. QED BY <2>1 DEF Columns, Row, Categories, Statuses
<1>4. CASE fields = Cancels
  <2>1. /\ fields.names = {"status", "failure_category"}
        /\ fields.row = row(FALSE, "lost", "cancelled", NoRun, FALSE)
    BY <1>4 DEF Cancels, Fields, Blank
  <2>2. QED BY <2>1 DEF Columns, Row, Categories, Statuses, InStep
<1>5. CASE fields \in QueueCalls
  <2>1. PICK r \in RunIds : fields = Creates(r) \/ fields = Joins(r)
    BY <1>5 DEF QueueCalls
  <2>2. CASE fields = Creates(r)
    <3>1. /\ fields.names = {"feature_id", "status", "run_id"}
          /\ fields.row = row(TRUE, "queued", "none", r, FALSE)
      BY <2>2 DEF Creates, Fields, Blank
    <3>2. QED BY <3>1 DEF Columns, Row, Categories, Statuses
  <2>3. CASE fields = Joins(r)
    <3>1. fields.names = {"run_id"} /\ fields.row = row(FALSE, "none", "none", r, FALSE)
      BY <2>3 DEF Joins, Fields, Blank
    <3>2. QED BY <3>1 DEF Columns, Row, Categories, Statuses
  <2>4. QED BY <2>1, <2>2, <2>3
<1>6. QED BY <1>1, <1>2, <1>3, <1>4, <1>5 DEF Calls

(* A call of upsert with its category: it names the status and a category   *)
(* that is in step with it, or neither.                                     *)
LEMMA CategoryTypes ==
  ASSUME NEW fields \in Calls \cup QueueCalls
  PROVE  /\ WithCategory(fields).names \in SUBSET Columns /\ WithCategory(fields).row \in Row
         /\ \/ /\ {"status", "failure_category"} \subseteq WithCategory(fields).names
               /\ InStep(WithCategory(fields).row)
            \/ {"status", "failure_category"} \cap WithCategory(fields).names = {}
<1>1. /\ fields.names \in SUBSET Columns /\ fields.row \in Row
      /\ "failure_category" \in fields.names => "status" \in fields.names /\ InStep(fields.row)
  BY FieldTypes
<1>2. CASE "status" \in fields.names /\ "failure_category" \notin fields.names
  <2> DEFINE cat == failure_category_for(fields.row.status)
             row == [fields.row EXCEPT !.failure_category = cat]
  <2>1. WithCategory(fields).names = fields.names \cup {"failure_category"} /\ WithCategory(fields).row = row
    BY <1>2 DEF WithCategory, Fields
  <2>2. cat \in Categories
    BY DEF failure_category_for, Categories
  <2>3. row \in Row /\ row.status = fields.row.status /\ row.failure_category = cat
    <3> HIDE DEF cat
    <3>1. QED BY <1>1, <2>2 DEF Row
  <2>4. InStep(row)
    BY <2>3 DEF InStep
  <2>5. QED BY <1>1, <1>2, <2>1, <2>3, <2>4 DEF Columns
<1>3. CASE ~("status" \in fields.names /\ "failure_category" \notin fields.names)
  BY <1>1, <1>3 DEF WithCategory
<1>4. QED BY <1>2, <1>3

LEMMA MergeTypes ==
  ASSUME NEW row \in Row, NEW fields, fields.names \in SUBSET Columns, fields.row \in Row
  PROVE  /\ Merge(row, fields) \in Row
         /\ \A c \in Columns : Merge(row, fields)[c] = IF c \in fields.names THEN fields.row[c] ELSE row[c]
<1> DEFINE m == Merge(row, fields)
<1>1. m = [c \in Columns |-> IF c \in fields.names THEN fields.row[c] ELSE row[c]]
  BY DEF Merge
<1>2. m = [feature_id |-> m.feature_id, status |-> m.status, failure_category |-> m.failure_category,
           run_id |-> m.run_id, metrics |-> m.metrics]
  BY <1>1 DEF Columns
<1>3. QED BY <1>1, <1>2 DEF Row, Columns

(* What an upsert is about to write.                                        *)
LEMMA MergingTypes ==
  ASSUME StoreIInv, NEW n \in Names, NEW fields \in Calls \cup QueueCalls
  PROVE  /\ Merging(n, fields) \in Writes /\ Merging(n, fields).op = "upsert"
         /\ InStep(Merging(n, fields).row) /\ Current(Merging(n, fields))
<1> DEFINE w == Merging(n, fields)
           call == WithCategory(fields)
<1>1. jobs[n].cols \in Row /\ InStep(jobs[n].cols)
  BY DEF StoreIInv, StoreTypeOK, CategoryInStep
<1>2. /\ call.names \in SUBSET Columns /\ call.row \in Row
      /\ \/ {"status", "failure_category"} \subseteq call.names /\ InStep(call.row)
         \/ {"status", "failure_category"} \cap call.names = {}
  BY CategoryTypes
<1> HIDE DEF call
<1>3. /\ Merge(jobs[n].cols, call) \in Row
      /\ \A c \in Columns : Merge(jobs[n].cols, call)[c] = IF c \in call.names THEN call.row[c] ELSE jobs[n].cols[c]
  BY <1>1, <1>2, MergeTypes
<1>4. w = [op |-> "upsert", name |-> n, names |-> call.names, row |-> Merge(jobs[n].cols, call)]
  BY DEF Merging, call
<1>5. w \in Writes /\ w.op = "upsert"
  BY <1>2, <1>3, <1>4 DEF Writes
<1>6. InStep(w.row)
  <2>1. /\ w.row.status = IF "status" \in call.names THEN call.row.status ELSE jobs[n].cols.status
        /\ w.row.failure_category = IF "failure_category" \in call.names THEN call.row.failure_category
                                    ELSE jobs[n].cols.failure_category
    BY <1>3, <1>4 DEF Columns
  <2>2. QED BY <1>1, <1>2, <2>1 DEF InStep
<1>7. Current(w)
  BY <1>3, <1>4 DEF Current
<1>8. QED BY <1>5, <1>6, <1>7

-----------------------------------------------------------------------------
(* A thread begins a write, or goes from one step of it to the next, and    *)
(* changes nothing else.                                                    *)
LEMMA BeginStep ==
  ASSUME StoreIInv, NEW c \in Clients, NEW w \in Writes, client' = [client EXCEPT ![c] = w],
         UNCHANGED <<racing, jobs, runs, life, tables, box>>, w.op = "upsert" => InStep(w.row),
         ~racing => Current(w) /\ \A d \in Clients \ {c} : ~Busy(d)
  PROVE  StoreIInv'
<1>1. StoreTypeOK /\ client \in [Clients -> Writes]
  BY DEF StoreIInv, StoreTypeOK
<1>2. client'[c] = w /\ \A d \in Clients \ {c} : client'[d] = client[d]
  BY <1>1
<1>3. StoreTypeOK'
  BY <1>1 DEF StoreTypeOK
<1>4. CategoryInStep' /\ HistoryIsOwn'
  BY DEF StoreIInv, CategoryInStep, HistoryIsOwn, HasRow
<1>5. PendingInStep'
  BY <1>2 DEF StoreIInv, PendingInStep
<1>6. Alone'
  <2> SUFFICES ASSUME ~racing PROVE Alone'
    BY DEF Alone
  <2>1. Current(client[c])'
    BY <1>2 DEF Current, HasRow
  <2>2. ASSUME NEW d \in Clients \ {c} PROVE Current(client[d])'
    BY <1>2 DEF Busy, Current
  <2>3. \A d \in Clients : Busy(d)' => d = c
    BY <1>2 DEF Busy
  <2>4. QED BY <2>1, <2>2, <2>3 DEF Alone
<1>7. QED BY <1>3, <1>4, <1>5, <1>6 DEF StoreIInv

(* A write ends, or the server dies: whoever is not as before is idle.      *)
LEMMA EndStep ==
  ASSUME StoreIInv, StoreTypeOK', CategoryInStep', HistoryIsOwn', UNCHANGED racing,
         \A d \in Clients : client'[d] = client[d] \/ ~Busy(d)',
         ~racing => \A d \in Clients : Busy(d)' => Current(client[d])'
  PROVE  StoreIInv'
<1>1. PendingInStep'
  BY DEF StoreIInv, PendingInStep, Busy
<1>2. Alone'
  <2>1. \A d \in Clients : ~Busy(d)' => Current(client[d])'
    BY DEF Busy, Current
  <2>2. \A d \in Clients : Busy(d)' => Busy(d)
    BY DEF Busy
  <2>3. QED BY <2>1, <2>2 DEF StoreIInv, Alone
<1>3. QED BY <1>1, <1>2 DEF StoreIInv

LEMMA StoreInitial == StoreInit => StoreIInv
<1> SUFFICES ASSUME StoreInit PROVE StoreIInv
  OBVIOUS
<1>1. NoRow \in [cols : Row, tail : BOOLEAN, present : BOOLEAN] /\ InStep(NoRow.cols) /\ Nothing \in Tables
  BY DEF NoRow, Row, Blank, Categories, Statuses, InStep, failure_category_for, Nothing, Tables
<1>2. NoWrite \in Writes /\ NoWrite.op = "idle"
  BY DEF NoWrite, Writes
<1>3. StoreTypeOK
  BY <1>1, <1>2 DEF StoreInit, StoreTypeOK
<1>4. CategoryInStep
  BY <1>1 DEF StoreInit, CategoryInStep
<1>5. PendingInStep /\ Alone
  BY <1>2 DEF StoreInit, PendingInStep, Alone, Busy, Current
<1>6. HistoryIsOwn
  BY DEF StoreInit, HistoryIsOwn, Nothing
<1>7. QED BY <1>3, <1>4, <1>5, <1>6 DEF StoreIInv

-----------------------------------------------------------------------------
LEMMA BeginsWrite ==
  ASSUME StoreIInv, NEW c \in Clients, NEW n \in Names,
         \/ \E r \in RunIds : RecordQueued(c, n, r)
         \/ \E fields \in Calls : Upsert(c, n, fields)
         \/ See(c, n) \/ TakeSample(c, n)
  PROVE  StoreIInv'
<1>1. /\ Free(c) /\ UNCHANGED <<racing, jobs, runs, life, tables, box>>
      /\ ~racing => \A d \in Clients \ {c} : ~Busy(d)
  BY DEF RecordQueued, Upsert, See, TakeSample, Adding, Free, Quiet, Busy
<1>2. CASE \E r \in RunIds : RecordQueued(c, n, r)
  <2>1. PICK w : /\ w \in Writes /\ w.op = "queue" /\ client' = [client EXCEPT ![c] = w]
    BY <1>2 DEF RecordQueued, Writes
  <2>2. Current(w)
    BY <2>1 DEF Current
  <2>3. QED BY <1>1, <2>1, <2>2, BeginStep
<1>3. CASE \E fields \in Calls : Upsert(c, n, fields)
  <2>1. PICK fields \in Calls : client' = [client EXCEPT ![c] = Merging(n, fields)]
    BY <1>3 DEF Upsert
  <2>2. /\ Merging(n, fields) \in Writes /\ InStep(Merging(n, fields).row) /\ Current(Merging(n, fields))
    BY MergingTypes
  <2>3. QED BY <1>1, <2>1, <2>2, BeginStep
<1>4. CASE See(c, n) \/ TakeSample(c, n)
  <2>1. PICK table \in Logs, of \in 0..MaxLives :
          /\ Adding(c, n, table, of)
          /\ (HasRow(n) /\ of = life[n]) \/ (table = "samples" /\ of = Stray)
    <3>1. life[n] \in 0..MaxLives /\ Stray \in 0..MaxLives /\ {"samples", "agent_events"} \subseteq Logs
      BY DEF Logs, Stray, StoreIInv, StoreTypeOK
    <3>2. CASE See(c, n)
      BY <3>1, <3>2 DEF See
    <3>3. CASE TakeSample(c, n)
      <4> DEFINE of == IF HasRow(n) /\ box[n] = life[n] THEN life[n] ELSE Stray
      <4>1. Adding(c, n, "samples", of)
        BY <3>3 DEF TakeSample
      <4>2. of \in 0..MaxLives /\ ((HasRow(n) /\ of = life[n]) \/ of = Stray)
        BY <3>1
      <4> HIDE DEF of
      <4>3. QED BY <3>1, <4>1, <4>2
    <3>4. QED BY <1>4, <3>2, <3>3
  <2> DEFINE w == [op |-> "add", name |-> n, table |-> table, of |-> of]
  <2>2. w \in Writes /\ w.op = "add" /\ client' = [client EXCEPT ![c] = w]
    BY <2>1 DEF Adding, Writes
  <2>3. Current(w)
    BY <2>1 DEF Current
  <2>4. QED BY <1>1, <2>2, <2>3, BeginStep
<1>5. QED BY <1>2, <1>3, <1>4

LEMMA GoesOn ==
  ASSUME StoreIInv, NEW c \in Clients, UpsertQueued(c) \/ \E r \in RunIds : DeleteRun(c, r)
  PROVE  StoreIInv'
<1>1. UNCHANGED <<racing, jobs, runs, life, tables, box>>
  BY DEF UpsertQueued, DeleteRun
<1>2. CASE UpsertQueued(c)
  <2>1. ~racing => \A d \in Clients \ {c} : ~Busy(d)
    BY <1>2 DEF UpsertQueued, StoreIInv, Alone, Busy
  <2>2. client[c] \in Writes /\ client[c].op = "queue"
    BY <1>2 DEF UpsertQueued, StoreIInv, StoreTypeOK
  <2>3. client[c].name \in Names /\ client[c].fields \in Calls \cup QueueCalls
    BY <2>2 DEF Writes, QueueCalls
  <2> DEFINE w == Merging(client[c].name, client[c].fields)
  <2>4. /\ w \in Writes /\ w.op = "upsert" /\ InStep(w.row) /\ Current(w)
    BY <2>3, MergingTypes
  <2>5. client' = [client EXCEPT ![c] = w]
    BY <1>2 DEF UpsertQueued
  <2> HIDE DEF w
  <2>6. QED BY <1>1, <2>1, <2>4, <2>5, BeginStep
<1>3. CASE \E r \in RunIds : DeleteRun(c, r)
  <2>1. PICK r \in RunIds : DeleteRun(c, r)
    BY <1>3
  <2> DEFINE w == [op |-> "delete", run |-> r, names |-> {n \in Names : HasRow(n) /\ jobs[n].cols.run_id = r}]
  <2>2. w \in Writes /\ w.op = "delete" /\ client' = [client EXCEPT ![c] = w]
    BY <2>1 DEF DeleteRun, Writes
  <2>3. ~racing => \A d \in Clients \ {c} : ~Busy(d)
    BY <2>1 DEF DeleteRun, Free, Quiet, Busy
  <2>4. Current(w)
    BY DEF Current
  <2>5. QED BY <1>1, <2>2, <2>3, <2>4, BeginStep
<1>4. QED BY <1>2, <1>3

-----------------------------------------------------------------------------
LEMMA RewriteStep ==
  ASSUME StoreIInv, NEW c \in Clients, Rewrite(c)
  PROVE  StoreIInv'
<1> DEFINE n == client[c].name
           row == client[c].row
<1>1. /\ StoreTypeOK /\ client[c] \in Writes /\ client[c].op = "upsert" /\ InStep(row)
      /\ UNCHANGED <<racing, runs, tables, box>> /\ client' = [client EXCEPT ![c] = NoWrite]
  BY DEF Rewrite, StoreIInv, StoreTypeOK, PendingInStep
<1>2. n \in Names /\ row \in Row
  BY <1>1 DEF Writes
<1>3. /\ client' \in [Clients -> Writes] /\ client'[c].op = "idle"
      /\ \A d \in Clients \ {c} : client'[d] = client[d]
  BY <1>1 DEF NoWrite, Writes, StoreTypeOK
<1>4. \/ UNCHANGED <<jobs, life>>
      \/ /\ HasRow(n) \/ life[n] < MaxLives
         /\ jobs' = [jobs EXCEPT ![n] = [cols |-> row, tail |-> jobs[n].tail, present |-> TRUE]]
         /\ life' = [life EXCEPT ![n] = IF HasRow(n) THEN life[n] ELSE life[n] + 1]
  BY DEF Rewrite
<1> HIDE DEF n, row
<1>5. StoreTypeOK'
  <2>1. CASE UNCHANGED <<jobs, life>>
    BY <1>1, <1>3, <2>1 DEF StoreTypeOK
  <2>2. CASE ~UNCHANGED <<jobs, life>>
    <3>1. [cols |-> row, tail |-> jobs[n].tail, present |-> TRUE] \in [cols : Row, tail : BOOLEAN, present : BOOLEAN]
      BY <1>1, <1>2 DEF StoreTypeOK
    <3>2. (IF HasRow(n) THEN life[n] ELSE life[n] + 1) \in 0..MaxLives
      BY <1>1, <1>2, <1>4, <2>2 DEF StoreTypeOK
    <3>3. jobs' \in [Names -> [cols : Row, tail : BOOLEAN, present : BOOLEAN]]
      BY <1>1, <1>2, <1>4, <2>2, <3>1 DEF StoreTypeOK
    <3>4. life' \in [Names -> 0..MaxLives]
      BY <1>1, <1>2, <1>4, <2>2, <3>2 DEF StoreTypeOK
    <3>5. QED BY <1>1, <1>3, <3>3, <3>4 DEF StoreTypeOK
  <2>3. QED BY <2>1, <2>2
<1>6. CategoryInStep'
  BY <1>1, <1>2, <1>4 DEF StoreIInv, CategoryInStep, StoreTypeOK
<1>7. HistoryIsOwn'
  <2> SUFFICES ASSUME ~racing, NEW m \in Names, NEW table \in DOMAIN Nothing
               PROVE  tables[m][table] \subseteq (IF jobs'[m].present THEN {life'[m]} ELSE {}) \cup Strays(table)
    BY <1>1 DEF HistoryIsOwn, HasRow, Strays
  <2>1. tables[m][table] \subseteq (IF jobs[m].present THEN {life[m]} ELSE {}) \cup Strays(table)
    BY DEF StoreIInv, HistoryIsOwn, HasRow, Strays
  <2>2. \/ jobs'[m] = jobs[m] /\ life'[m] = life[m]
        \/ jobs'[m].present /\ (jobs[m].present => life'[m] = life[m])
    BY <1>1, <1>2, <1>4 DEF StoreTypeOK, HasRow
  <2>3. QED BY <2>1, <2>2
<1>8. \A d \in Clients : client'[d] = client[d] \/ ~Busy(d)'
  BY <1>3 DEF Busy
<1>9. ~racing => \A d \in Clients : ~Busy(d)'
  BY <1>1, <1>3 DEF StoreIInv, Alone, Busy
<1>10. QED BY <1>1, <1>5, <1>6, <1>7, <1>8, <1>9, EndStep

LEMMA AddRowStep ==
  ASSUME StoreIInv, NEW c \in Clients, AddRow(c)
  PROVE  StoreIInv'
<1> DEFINE n == client[c].name
           table == client[c].table
<1>1. /\ StoreTypeOK /\ client[c] \in Writes /\ client[c].op = "add"
      /\ UNCHANGED <<racing, jobs, runs, life, box>> /\ client' = [client EXCEPT ![c] = NoWrite]
  BY DEF AddRow, StoreIInv, StoreTypeOK
<1>2. n \in Names /\ table \in Logs /\ client[c].of \in 0..MaxLives
  BY <1>1 DEF Writes
<1>3. /\ client' \in [Clients -> Writes] /\ client'[c].op = "idle"
      /\ \A d \in Clients \ {c} : client'[d] = client[d]
  BY <1>1 DEF NoWrite, Writes, StoreTypeOK
<1> HIDE DEF n, table
<1>4. tables[n] \in Tables /\ tables[n][table] \cup {client[c].of} \in SUBSET (0..MaxLives)
  <2>1. tables[n] \in Tables
    BY <1>1, <1>2 DEF StoreTypeOK
  <2>2. tables[n][table] \in SUBSET (0..MaxLives)
    BY <1>2, <2>1 DEF Tables
  <2>3. QED BY <1>2, <2>1, <2>2
<1>5. tables' = [tables EXCEPT ![n] = [tables[n] EXCEPT ![table] = tables[n][table] \cup {client[c].of}]]
  BY DEF AddRow, n, table
<1>6. [tables[n] EXCEPT ![table] = tables[n][table] \cup {client[c].of}] \in Tables
  BY <1>4 DEF Tables
<1>7. StoreTypeOK'
  BY <1>1, <1>3, <1>5, <1>6 DEF StoreTypeOK
<1>8. CategoryInStep'
  BY <1>1 DEF StoreIInv, CategoryInStep
<1>9. HistoryIsOwn'
  <2> SUFFICES ASSUME ~racing, NEW m \in Names, NEW tb \in DOMAIN Nothing
               PROVE  tables'[m][tb] \subseteq (IF jobs[m].present THEN {life[m]} ELSE {}) \cup Strays(tb)
    BY <1>1 DEF HistoryIsOwn, HasRow, Strays
  <2>1. tables[m][tb] \subseteq (IF jobs[m].present THEN {life[m]} ELSE {}) \cup Strays(tb)
    BY DEF StoreIInv, HistoryIsOwn, HasRow, Strays
  <2>2. (jobs[n].present /\ client[c].of = life[n]) \/ (table = "samples" /\ client[c].of = Stray)
    <3>1. Current(client[c])
      BY DEF StoreIInv, Alone
    <3>2. QED BY <1>1, <3>1 DEF Current, HasRow, n, table
  <2>3. tables'[m][tb] = IF m = n /\ tb = table THEN tables[m][tb] \cup {client[c].of} ELSE tables[m][tb]
    BY <1>1, <1>2, <1>4, <1>5 DEF StoreTypeOK, Tables, Nothing
  <2>4. QED BY <2>1, <2>2, <2>3 DEF Strays
<1>10. \A d \in Clients : client'[d] = client[d] \/ ~Busy(d)'
  BY <1>3 DEF Busy
<1>11. ~racing => \A d \in Clients : ~Busy(d)'
  BY <1>1, <1>3 DEF StoreIInv, Alone, Busy
<1>12. QED BY <1>1, <1>7, <1>8, <1>9, <1>10, <1>11, EndStep

LEMMA DeleteRowsStep ==
  ASSUME StoreIInv, NEW c \in Clients, DeleteRows(c)
  PROVE  StoreIInv'
<1> DEFINE r == client[c].run
           gone == client[c].names
<1>1. /\ StoreTypeOK /\ client[c] \in Writes /\ client[c].op = "delete"
      /\ UNCHANGED <<racing, life, box>> /\ client' = [client EXCEPT ![c] = NoWrite]
      /\ runs' \subseteq runs
      /\ tables' = [m \in Names |-> IF m \in gone THEN Nothing ELSE tables[m]]
      /\ jobs' = [m \in Names |-> IF jobs[m].cols.run_id = r THEN NoRow ELSE jobs[m]]
  BY DEF DeleteRows, StoreIInv, StoreTypeOK
<1>2. /\ client' \in [Clients -> Writes] /\ client'[c].op = "idle"
      /\ \A d \in Clients \ {c} : client'[d] = client[d]
  BY <1>1 DEF NoWrite, Writes, StoreTypeOK
<1>3. NoRow \in [cols : Row, tail : BOOLEAN, present : BOOLEAN] /\ InStep(NoRow.cols) /\ ~NoRow.present
      /\ Nothing \in Tables
  BY DEF NoRow, Row, Blank, Categories, Statuses, InStep, failure_category_for, Nothing, Tables
<1>4. StoreTypeOK'
  BY <1>1, <1>2, <1>3 DEF StoreTypeOK
<1>5. CategoryInStep'
  BY <1>1, <1>3 DEF StoreIInv, CategoryInStep
<1>6. HistoryIsOwn'
  <2> SUFFICES ASSUME ~racing, NEW m \in Names, NEW table \in DOMAIN Nothing
               PROVE  tables'[m][table] \subseteq (IF jobs'[m].present THEN {life[m]} ELSE {}) \cup Strays(table)
    BY <1>1 DEF HistoryIsOwn, HasRow, Strays
  <2>1. tables[m][table] \subseteq (IF jobs[m].present THEN {life[m]} ELSE {}) \cup Strays(table)
    BY DEF StoreIInv, HistoryIsOwn, HasRow, Strays
  <2>2. m \in gone <=> jobs[m].present /\ jobs[m].cols.run_id = r
    BY <1>1 DEF StoreIInv, Alone, Current, HasRow
  <2>3. QED BY <1>1, <1>3, <2>1, <2>2 DEF Nothing
<1>7. \A d \in Clients : client'[d] = client[d] \/ ~Busy(d)'
  BY <1>2 DEF Busy
<1>8. ~racing => \A d \in Clients : ~Busy(d)'
  BY <1>1, <1>2 DEF StoreIInv, Alone, Busy
<1>9. QED BY <1>1, <1>4, <1>5, <1>6, <1>7, <1>8, EndStep

-----------------------------------------------------------------------------
(* The writes of one statement.                                             *)
LEMMA StatementStep ==
  ASSUME StoreIInv, \/ \E r \in RunIds : AddRun(r)
                    \/ \E n \in Names : \/ UpdateLogTail(n) \/ LaunchBox(n) \/ LoseBox(n)
                                         \/ \E table \in Facts : SetFact(n, table)
                    \/ StoreCrash \/ UNCHANGED storeVars
  PROVE  StoreIInv'
<1>1. StoreTypeOK
  BY DEF StoreIInv
<1>2. CASE \E r \in RunIds : AddRun(r)
  <2>1. UNCHANGED <<racing, jobs, life, tables, box, client>> /\ runs' \subseteq RunIds
    BY <1>1, <1>2 DEF AddRun, StoreTypeOK
  <2>2. StoreTypeOK' /\ CategoryInStep' /\ HistoryIsOwn'
    BY <2>1 DEF StoreIInv, StoreTypeOK, CategoryInStep, HistoryIsOwn, HasRow
  <2>3. ~racing => \A d \in Clients : Current(client[d])'
    BY <2>1 DEF StoreIInv, Alone, Current, HasRow
  <2>4. QED BY <2>1, <2>2, <2>3, EndStep
<1>3. CASE \E n \in Names : UpdateLogTail(n)
  <2>1. PICK n \in Names : UpdateLogTail(n)
    BY <1>3
  <2>2. /\ UNCHANGED <<racing, runs, life, tables, box, client>>
        /\ jobs' = [jobs EXCEPT ![n] = [jobs[n] EXCEPT !.tail = TRUE]]
        /\ ~racing => \A d \in Clients : ~Busy(d)
    BY <2>1 DEF UpdateLogTail, Quiet, Busy
  <2>3. \A m \in Names : jobs'[m].cols = jobs[m].cols /\ jobs'[m].present = jobs[m].present
    BY <1>1, <2>2 DEF StoreTypeOK
  <2>4. StoreTypeOK'
    BY <1>1, <2>2 DEF StoreTypeOK
  <2>5. CategoryInStep' /\ HistoryIsOwn'
    BY <2>2, <2>3 DEF StoreIInv, CategoryInStep, HistoryIsOwn, HasRow
  <2>6. ~racing => \A d \in Clients : ~Busy(d)'
    BY <2>2 DEF Busy
  <2>7. QED BY <2>2, <2>4, <2>5, <2>6, EndStep
<1>4. CASE \E n \in Names, table \in Facts : SetFact(n, table)
  <2>1. PICK n \in Names, table \in Facts : SetFact(n, table)
    BY <1>4
  <2>2. /\ UNCHANGED <<racing, jobs, runs, life, box, client>> /\ jobs[n].present /\ ~racing
        /\ tables' = [tables EXCEPT ![n] = [tables[n] EXCEPT ![table] = {life[n]}]]
        /\ \A d \in Clients : ~Busy(d)
    BY <2>1 DEF SetFact, Followed, HasRow, Quiet, Busy
  <2>3. tables[n] \in Tables /\ {life[n]} \in SUBSET (0..MaxLives)
    BY <1>1 DEF StoreTypeOK
  <2>4. [tables[n] EXCEPT ![table] = {life[n]}] \in Tables
    BY <2>3 DEF Tables
  <2>5. StoreTypeOK'
    BY <1>1, <2>2, <2>4 DEF StoreTypeOK
  <2>6. CategoryInStep'
    BY <2>2 DEF StoreIInv, CategoryInStep
  <2>7. HistoryIsOwn'
    <3> SUFFICES ASSUME NEW m \in Names, NEW tb \in DOMAIN Nothing
                 PROVE  tables'[m][tb] \subseteq (IF jobs[m].present THEN {life[m]} ELSE {}) \cup Strays(tb)
      BY <2>2 DEF HistoryIsOwn, HasRow, Strays
    <3>1. tables[m][tb] \subseteq (IF jobs[m].present THEN {life[m]} ELSE {}) \cup Strays(tb)
      BY <2>2 DEF StoreIInv, HistoryIsOwn, HasRow, Strays
    <3>2. tables'[m][tb] = IF m = n /\ tb = table THEN {life[n]} ELSE tables[m][tb]
      BY <1>1, <2>2, <2>3 DEF StoreTypeOK, Tables, Nothing
    <3>3. QED BY <2>2, <3>1, <3>2
  <2>8. ~racing => \A d \in Clients : ~Busy(d)'
    BY <2>2 DEF Busy
  <2>9. QED BY <2>2, <2>5, <2>6, <2>7, <2>8, EndStep
<1>5. CASE StoreCrash \/ UNCHANGED storeVars
  <2>1. /\ UNCHANGED <<racing, jobs, runs, life, tables, box>>
        /\ client' = client \/ client' = [c \in Clients |-> NoWrite]
    BY <1>5 DEF StoreCrash, storeVars
  <2>2. NoWrite \in Writes /\ NoWrite.op = "idle"
    BY DEF NoWrite, Writes
  <2>3. StoreTypeOK' /\ CategoryInStep' /\ HistoryIsOwn'
    BY <2>1, <2>2 DEF StoreIInv, StoreTypeOK, CategoryInStep, HistoryIsOwn, HasRow
  <2>4. \A d \in Clients : client'[d] = client[d] \/ ~Busy(d)'
    BY <2>1, <2>2 DEF Busy
  <2>5. ~racing => \A d \in Clients : Busy(d)' => Current(client[d])'
    BY <2>1, <2>2 DEF StoreIInv, Alone, Current, HasRow, Busy
  <2>6. QED BY <2>1, <2>3, <2>4, <2>5, EndStep
<1>6. CASE \E n \in Names : LaunchBox(n) \/ LoseBox(n)
  <2>1. UNCHANGED <<racing, jobs, runs, life, tables, client>>
    BY <1>6 DEF LaunchBox, LoseBox
  <2>2. box' \in [Names -> 0..MaxLives]
    BY <1>1, <1>6 DEF LaunchBox, LoseBox, StoreTypeOK
  <2>3. StoreTypeOK' /\ CategoryInStep' /\ HistoryIsOwn'
    BY <2>1, <2>2 DEF StoreIInv, StoreTypeOK, CategoryInStep, HistoryIsOwn, HasRow
  <2>4. ~racing => \A d \in Clients : Current(client[d])'
    BY <2>1 DEF StoreIInv, Alone, Current, HasRow
  <2>5. QED BY <2>1, <2>3, <2>4, EndStep
<1>7. QED BY <1>2, <1>3, <1>4, <1>5, <1>6

LEMMA StoreStep == StoreIInv /\ [StoreNext]_storeVars => StoreIInv'
<1> SUFFICES ASSUME StoreIInv, [StoreNext]_storeVars PROVE StoreIInv'
  OBVIOUS
<1>1. CASE \/ \E r \in RunIds : AddRun(r)
           \/ \E n \in Names : \/ UpdateLogTail(n) \/ LaunchBox(n) \/ LoseBox(n)
                                \/ \E table \in Facts : SetFact(n, table)
           \/ StoreCrash \/ UNCHANGED storeVars
  BY <1>1, StatementStep
<1>2. CASE \E c \in Clients, n \in Names :
             \/ \E r \in RunIds : RecordQueued(c, n, r)
             \/ \E fields \in Calls : Upsert(c, n, fields)
             \/ See(c, n) \/ TakeSample(c, n)
  BY <1>2, BeginsWrite
<1>3. CASE \E c \in Clients : \/ UpsertQueued(c) \/ Rewrite(c) \/ AddRow(c) \/ DeleteRows(c)
                             \/ \E r \in RunIds : DeleteRun(c, r)
  BY <1>3, GoesOn, RewriteStep, AddRowStep, DeleteRowsStep
<1>4. QED BY <1>1, <1>2, <1>3 DEF StoreNext

(* Whatever overlaps or dies, the failure category of a row is in step with *)
(* its status (upsert).                                                     *)
THEOREM RowsAreSound == StoreSpec => [](StoreTypeOK /\ CategoryInStep)
<1>1. StoreIInv => StoreTypeOK /\ CategoryInStep
  BY DEF StoreIInv
<1>2. QED BY <1>1, StoreInitial, StoreStep, PTL DEF StoreSpec

(* When no writes overlap, the specs, events and samples that are kept      *)
(* under a name are of the job that has it now, and a deleted job leaves    *)
(* none; only samples that were taken when its sandbox had outlived it may  *)
(* be there beside them (delete_run, on_sample, _store_batch).              *)
THEOREM HistoriesAreOwn == StoreSpec => []HistoryIsOwn
<1>1. StoreIInv => HistoryIsOwn
  BY DEF StoreIInv
<1>2. QED BY <1>1, StoreInitial, StoreStep, PTL DEF StoreSpec

(* When no writes overlap a column changes only by a call of upsert that    *)
(* names it, and no upsert ever touches the log tail (upsert).              *)
THEOREM NoneOverwritten == StoreSpec => NoLostUpdate
<1> DEFINE Kept == \A n \in Names : jobs[n].present /\ jobs'[n].present =>
                     /\ racing \/ \A c \in Columns : jobs'[n].cols[c] # jobs[n].cols[c] => Named(n, c)
                     /\ jobs[n].tail => jobs'[n].tail
<1>1. ASSUME StoreIInv, [StoreNext]_storeVars PROVE Kept
  <2> SUFFICES ASSUME NEW n \in Names, jobs[n].present, jobs'[n].present
               PROVE  /\ racing \/ \A c \in Columns : jobs'[n].cols[c] # jobs[n].cols[c] => Named(n, c)
                      /\ jobs[n].tail => jobs'[n].tail
    OBVIOUS
  <2>1. StoreTypeOK
    BY <1>1 DEF StoreIInv
  <2>2. CASE UNCHANGED jobs
    BY <2>2
  <2>3. CASE \E m \in Names : UpdateLogTail(m)
    <3>1. jobs'[n].cols = jobs[n].cols /\ (jobs[n].tail => jobs'[n].tail)
      BY <2>1, <2>3 DEF UpdateLogTail, StoreTypeOK
    <3>2. QED BY <3>1
  <2>4. CASE \E w \in Clients : DeleteRows(w)
    <3>1. jobs'[n] = jobs[n]
      BY <2>4 DEF DeleteRows, NoRow
    <3>2. QED BY <3>1
  <2>5. CASE \E w \in Clients : Rewrite(w)
    <3>1. PICK w \in Clients : Rewrite(w)
      BY <2>5
    <3>2. /\ client[w].op = "upsert" /\ client'[w].op = "idle" /\ client[w].name \in Names
          /\ client[w].row \in Row
      BY <2>1, <3>1 DEF Rewrite, StoreTypeOK, Writes, NoWrite
    <3>3. \/ jobs' = jobs
          \/ jobs' = [jobs EXCEPT ![client[w].name] =
                        [cols |-> client[w].row, tail |-> jobs[client[w].name].tail, present |-> TRUE]]
      BY <3>1 DEF Rewrite
    <3>4. jobs'[n].tail = jobs[n].tail
      BY <2>1, <3>2, <3>3 DEF StoreTypeOK
    <3>5. ASSUME ~racing, NEW c \in Columns, jobs'[n].cols[c] # jobs[n].cols[c]
          PROVE  Named(n, c)
      <4>1. n = client[w].name /\ jobs'[n].cols = client[w].row
        BY <2>1, <3>2, <3>3, <3>5 DEF StoreTypeOK
      <4>2. c \in client[w].names
        BY <1>1, <3>2, <3>5, <4>1 DEF StoreIInv, Alone, Current
      <4>3. QED BY <3>2, <4>1, <4>2 DEF Named
    <3>6. QED BY <3>4, <3>5
  <2>6. QED
    BY <1>1, <2>2, <2>3, <2>4, <2>5 DEF StoreNext, AddRun, SetFact, RecordQueued, Upsert, See,
       TakeSample, Adding, LaunchBox, LoseBox, UpsertQueued, AddRow, DeleteRun, StoreCrash, storeVars
<1>2. StoreIInv /\ [StoreNext]_storeVars => [Kept]_storeVars
  BY <1>1
<1>3. QED BY <1>2, StoreInitial, StoreStep, PTL DEF StoreSpec, NoLostUpdate
=============================================================================
