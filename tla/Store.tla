------------------------------- MODULE Store -------------------------------
(***************************************************************************)
(* The job database of orchestrator/state.py under several connections,    *)
(* with the sampler of runner.py and the receiver of routes_otlp.py, which *)
(* write to it beside the drivers and the people.                          *)
(*                                                                         *)
(* A write is one transaction, but it begins with the first statement that *)
(* changes something: what upsert, delete_run and the receiver have read   *)
(* before it is read outside of it, so each of them is two steps here.     *)
(***************************************************************************)
EXTENDS Integers, FiniteSets

CONSTANTS
  Names,       \* sandbox names, the keys of the job rows
  RunIds,      \* runs
  NoRun,       \* the run of a row that belongs to none
  Clients,     \* threads with a connection of their own
  Facts,       \* tables with one row about a name: job_specs, agent_launches
  Outcomes,    \* statuses the drivers and the people write
  MaxLives     \* bound: rows inserted for one name

VARIABLES
  racing,      \* whether a write may fall between another one's read and write
  jobs,        \* name -> its row
  runs,        \* the rows of runs
  life,        \* name -> rows inserted for it so far
  tables,      \* name -> what the other tables hold about it: of which rows
  box,         \* name -> the row its sandbox was launched for, 0 if there is none
  client       \* thread -> the write it is in the middle of

storeVars == <<racing, jobs, runs, life, tables, box, client>>

-----------------------------------------------------------------------------
(* Rows.  Of the columns upsert writes, five kinds matter: the feature_id,  *)
(* which may not be NULL, the status, its failure_category, the run_id, and *)
(* what a finished step leaves (metrics).                                   *)

Statuses   == {"none", "queued", "running", "succeeded", "stopped", "lost", "timed_out", "tests_failed"}
Categories == {"none", "infra", "timeout", "tests", "cancelled"}
ASSUME StoreAssumption == MaxLives \in Nat /\ NoRun \notin RunIds /\ Outcomes \subseteq Statuses

Columns    == {"feature_id", "status", "failure_category", "run_id", "metrics"}
Row        == [feature_id : BOOLEAN, status : Statuses, failure_category : Categories,
               run_id : RunIds \cup {NoRun}, metrics : BOOLEAN]
Blank      == [feature_id |-> FALSE, status |-> "none", failure_category |-> "none",
               run_id |-> NoRun, metrics |-> FALSE]
NoRow      == [cols |-> Blank, tail |-> FALSE, present |-> FALSE]

failure_category_for(status) ==
  CASE status = "lost"         -> "infra"
    [] status = "timed_out"    -> "timeout"
    [] status = "tests_failed" -> "tests"
    [] OTHER                   -> "none"

(* The calls of upsert: which columns each names, and the values.           *)
Fields(names, row) == [names |-> names, row |-> row]
Creates(r)  == Fields({"feature_id", "status", "run_id"},
                      [Blank EXCEPT !.feature_id = TRUE, !.status = "queued", !.run_id = r])
Joins(r)    == Fields({"run_id"}, [Blank EXCEPT !.run_id = r])
Becomes(s)  == Fields({"status"}, [Blank EXCEPT !.status = s])
Restarts    == Fields({"status", "failure_category", "metrics"}, [Blank EXCEPT !.status = "running"])
Measures    == Fields({"metrics"}, [Blank EXCEPT !.metrics = TRUE])
Cancels     == Fields({"status", "failure_category"},
                      [Blank EXCEPT !.status = "lost", !.failure_category = "cancelled"])
Calls       == {Becomes(s) : s \in Outcomes} \cup {Restarts, Measures, Cancels}

(* Mutant of WithCategory: a status leaves the category as it was.           *)
WithCategoryKept(fields) == fields

(* A status without a category brings its own along.                        *)
WithCategory(fields) ==
  IF "status" \in fields.names /\ "failure_category" \notin fields.names
  THEN Fields(fields.names \cup {"failure_category"},
              [fields.row EXCEPT !.failure_category = failure_category_for(fields.row.status)])
  ELSE fields

(* Mutant of Merge: the columns a call does not name are written as NULL.    *)
MergeBlank(row, fields) ==
  [c \in Columns |-> IF c \in fields.names THEN fields.row[c]
                     ELSE IF c = "feature_id" THEN row[c] ELSE Blank[c]]

Merge(row, fields) == [c \in Columns |-> IF c \in fields.names THEN fields.row[c] ELSE row[c]]

(* What the other tables know of a name, each row by the number of the job   *)
(* row it was written about; a sample of a sandbox whose job has no row any  *)
(* more is Stray.  Logs have many rows about a name, Facts have one.         *)
Stray   == 0
Logs    == {"samples", "agent_events"}
Tables  == [Logs \cup Facts -> SUBSET (0..MaxLives)]
Nothing == [table \in Logs \cup Facts |-> {}]

NoWrite == [op |-> "idle"]

-----------------------------------------------------------------------------
HasRow(n) == jobs[n].present
Quiet      == racing \/ \A c \in Clients : client[c].op = "idle"
Free(c)   == client[c].op = "idle" /\ Quiet

(* upsert reads the row, as part of a call that names some columns ...      *)
Merging(n, fields) == [op |-> "upsert", name |-> n, names |-> WithCategory(fields).names,
                       row |-> Merge(jobs[n].cols, WithCategory(fields))]

(* ... and writes all of its columns, but not log_tail.  If there was no row *)
(* to merge with and the call does not create one, NOT NULL refuses it.      *)
Rewrite(c) ==
  /\ client[c].op = "upsert"
  /\ LET n == client[c].name  row == client[c].row IN
       \/ /\ ~row.feature_id
          /\ UNCHANGED <<jobs, life>>
       \/ /\ row.feature_id
          /\ HasRow(n) \/ life[n] < MaxLives
          /\ jobs' = [jobs EXCEPT ![n] = [cols |-> row, tail |-> jobs[n].tail, present |-> TRUE]]
          /\ life' = [life EXCEPT ![n] = IF HasRow(n) THEN @ ELSE @ + 1]
  /\ client' = [client EXCEPT ![c] = NoWrite]
  /\ UNCHANGED <<racing, runs, tables, box>>

(* Drivers and people write to the rows of jobs that have been recorded.    *)
Upsert(c, n, fields) ==
  /\ Free(c) /\ life[n] > 0
  /\ client' = [client EXCEPT ![c] = Merging(n, fields)]
  /\ UNCHANGED <<racing, jobs, runs, life, tables, box>>

(* record_queued looks whether a job has a row: if so the row joins the run, *)
(* otherwise one is created.                                                 *)
RecordQueued(c, n, r) ==
  /\ Free(c) /\ r \in runs
  /\ client' = [client EXCEPT ![c] = [op |-> "queue", name |-> n,
                                      fields |-> IF HasRow(n) THEN Joins(r) ELSE Creates(r)]]
  /\ UNCHANGED <<racing, jobs, runs, life, tables, box>>
UpsertQueued(c) ==
  /\ client[c].op = "queue"
  /\ client' = [client EXCEPT ![c] = Merging(client[c].name, client[c].fields)]
  /\ UNCHANGED <<racing, jobs, runs, life, tables, box>>

AddRun(r) ==
  /\ runs' = runs \cup {r}
  /\ UNCHANGED <<racing, jobs, life, tables, box, client>>

(* The log tail has one statement of its own; an unknown name is a no-op.   *)
UpdateLogTail(n) ==
  /\ HasRow(n) /\ Quiet
  /\ jobs' = [jobs EXCEPT ![n].tail = TRUE]
  /\ UNCHANGED <<racing, runs, life, tables, box, client>>

(* The other tables.  When writes overlap they may keep rows of deleted jobs *)
(* and nothing is said of them: they are followed only when none do.         *)
Followed(n) == HasRow(n) /\ ~racing

(* What its driver records about a job (set_spec, set_agent_launched_at)     *)
(* replaces what was there.                                                  *)
SetFact(n, table) ==
  /\ Followed(n) /\ Quiet
  /\ tables' = [tables EXCEPT ![n][table] = {life[n]}]
  /\ UNCHANGED <<racing, jobs, runs, life, box, client>>

(* A sandbox is launched for a job, or one that is still there is taken over *)
(* by it; it is removed, or not, before the row is deleted.                  *)
LaunchBox(n) ==
  /\ Followed(n)
  /\ box' = [box EXCEPT ![n] = life[n]]
  /\ UNCHANGED <<racing, jobs, runs, life, tables, client>>
LoseBox(n) ==
  /\ box[n] # 0
  /\ box' = [box EXCEPT ![n] = 0]
  /\ UNCHANGED <<racing, jobs, runs, life, tables, client>>

(* The receiver has found the row in the store, the sampler the sandbox in   *)
(* the listing, with a row or without one; either inserts afterwards,        *)
(* whatever has happened since.                                              *)
Adding(c, n, table, of) ==
  /\ ~racing /\ Free(c)
  /\ client' = [client EXCEPT ![c] = [op |-> "add", name |-> n, table |-> table, of |-> of]]
  /\ UNCHANGED <<racing, jobs, runs, life, tables, box>>
See(c, n) == HasRow(n) /\ Adding(c, n, "agent_events", life[n])
TakeSample(c, n) ==
  /\ box[n] # 0
  /\ Adding(c, n, "samples", IF HasRow(n) /\ box[n] = life[n] THEN life[n] ELSE Stray)
AddRow(c) ==
  /\ client[c].op = "add"
  /\ tables' = [tables EXCEPT ![client[c].name][client[c].table] = @ \cup {client[c].of}]
  /\ client' = [client EXCEPT ![c] = NoWrite]
  /\ UNCHANGED <<racing, jobs, runs, life, box>>

(* delete_run reads the names of the run's jobs; the transaction begins     *)
(* with the first row it deletes.                                           *)
DeleteRun(c, r) ==
  /\ Free(c) /\ r \in runs
  /\ client' = [client EXCEPT ![c] = [op |-> "delete", run |-> r,
                                      names |-> {n \in Names : HasRow(n) /\ jobs[n].cols.run_id = r}]]
  /\ UNCHANGED <<racing, jobs, runs, life, tables, box>>
(* Mutant of DeleteRows: the rows of the other tables stay.                  *)
DeleteRowsOnly(c) ==
  /\ client[c].op = "delete"
  /\ jobs' = [n \in Names |-> IF jobs[n].cols.run_id = client[c].run THEN NoRow ELSE jobs[n]]
  /\ runs' = runs \ {client[c].run}
  /\ client' = [client EXCEPT ![c] = NoWrite]
  /\ UNCHANGED <<racing, life, tables, box>>

DeleteRows(c) ==
  /\ client[c].op = "delete"
  /\ tables' = [n \in Names |-> IF n \in client[c].names THEN Nothing ELSE tables[n]]
  /\ jobs' = [n \in Names |-> IF jobs[n].cols.run_id = client[c].run THEN NoRow ELSE jobs[n]]
  /\ runs' = runs \ {client[c].run}
  /\ client' = [client EXCEPT ![c] = NoWrite]
  /\ UNCHANGED <<racing, life, box>>

(* The server dies: a transaction is in the database or it is not.          *)
StoreCrash ==
  /\ \E c \in Clients : client[c].op # "idle"
  /\ client' = [c \in Clients |-> NoWrite]
  /\ UNCHANGED <<racing, jobs, runs, life, tables, box>>

-----------------------------------------------------------------------------
StoreInit ==
  /\ racing \in BOOLEAN
  /\ jobs = [n \in Names |-> NoRow] /\ runs = {} /\ life = [n \in Names |-> 0]
  /\ tables = [n \in Names |-> Nothing] /\ box = [n \in Names |-> 0]
  /\ client = [c \in Clients |-> NoWrite]

StoreNext ==
  \/ \E r \in RunIds : AddRun(r)
  \/ \E n \in Names : \/ UpdateLogTail(n) \/ LaunchBox(n) \/ LoseBox(n)
                      \/ \E table \in Facts : SetFact(n, table)
  \/ \E c \in Clients, n \in Names :
       \/ \E r \in RunIds : RecordQueued(c, n, r)
       \/ \E fields \in Calls : Upsert(c, n, fields)
       \/ See(c, n) \/ TakeSample(c, n)
  \/ \E c \in Clients :
       \/ UpsertQueued(c) \/ Rewrite(c) \/ AddRow(c) \/ DeleteRows(c)
       \/ \E r \in RunIds : DeleteRun(c, r)
  \/ StoreCrash

StoreSpec == StoreInit /\ [][StoreNext]_storeVars

-----------------------------------------------------------------------------
Writes == [op : {"idle"}]
          \cup [op : {"queue"}, name : Names,
                fields : {Creates(r) : r \in RunIds} \cup {Joins(r) : r \in RunIds}]
          \cup [op : {"upsert"}, name : Names, names : SUBSET Columns, row : Row]
          \cup [op : {"add"}, name : Names, table : Logs, of : 0..MaxLives]
          \cup [op : {"delete"}, run : RunIds, names : SUBSET Names]

StoreTypeOK ==
  /\ racing \in BOOLEAN
  /\ jobs \in [Names -> [cols : Row, tail : BOOLEAN, present : BOOLEAN]]
  /\ runs \subseteq RunIds
  /\ life \in [Names -> 0..MaxLives]
  /\ tables \in [Names -> Tables]
  /\ box \in [Names -> 0..MaxLives]
  /\ client \in [Clients -> Writes]

(* Whatever overlaps or dies, a row's failure category is the one of its     *)
(* status, or says that somebody removed the sandbox: "every path that moves *)
(* a job's status keeps the category in step" (upsert).                      *)
InStep(row) ==
  \/ row.failure_category = failure_category_for(row.status)
  \/ row.status = "lost" /\ row.failure_category = "cancelled"
CategoryInStep == \A n \in Names : InStep(jobs[n].cols)

(* As long as no two writes overlap, a column changes only by a call that    *)
(* names it; and whatever overlaps, no upsert touches the log tail of a row. *)
Named(n, c) == \E w \in Clients : /\ client[w].op = "upsert" /\ client[w].name = n
                                  /\ c \in client[w].names /\ client'[w].op = "idle"
NoLostUpdate ==
  [][\A n \in Names : jobs[n].present /\ jobs'[n].present =>
       /\ racing \/ \A c \in Columns : jobs'[n].cols[c] # jobs[n].cols[c] => Named(n, c)
       /\ jobs[n].tail => jobs'[n].tail]_storeVars

(* As long as no two writes overlap, what is kept about a name beside its    *)
(* row is about this row and not about a deleted one: "stale rows left       *)
(* behind would be read as that next run's history" (delete_run).  The one   *)
(* exception are samples of a sandbox that has outlived its row, which are   *)
(* read so.                                                                  *)
HistoryIsOwn ==
  racing \/ \A n \in Names : \A table \in DOMAIN Nothing :
              tables[n][table] \subseteq (IF HasRow(n) THEN {life[n]} ELSE {})
                                       \cup (IF table = "samples" THEN {Stray} ELSE {})
=============================================================================
