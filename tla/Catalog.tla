------------------------------ MODULE Catalog ------------------------------
(***************************************************************************)
(* The saved model suggestions (model_catalog.py): an update discovers the *)
(* models of every provider in threads of its own, collects what is ready  *)
(* before a deadline, saves it in one file and reports on each provider.   *)
(***************************************************************************)
EXTENDS Integers, FiniteSets

CONSTANTS
  Providers,    \* PROVIDERS
  MaxUpdates,   \* bound: updates
  History       \* MAX_REFRESH_HISTORY

ASSUME CatalogAssumption == MaxUpdates \in Nat /\ History \in Nat \ {0}

VARIABLES
  updates,      \* updates started so far
  kept,         \* CatalogUpdates.jobs, numbered in the order they were started
  refresh,      \* update -> its Refresh
  discovery,    \* provider -> what its thread of the current update is at
  saved,        \* providers the current update has collected models of
  late,         \* whether its deadline has passed
  models,       \* provider -> update whose models are in models.json, 0 for none
  unread        \* history: the last update that saved over a models.json it could not read

catalogVars == <<updates, kept, refresh, discovery, saved, late, models, unread>>

-----------------------------------------------------------------------------
(* What a discovery comes to.  Listings by a CLI, a cache or an API          *)
(* (external) are absent, bad, empty, good, or not there in time.            *)
Listings == {"absent", "bad", "empty", "good", "late"}

Discovered(provider, listing) ==
  CASE listing = "late" -> "timed_out"
    [] listing = "good" -> "found"
    [] listing = "empty" /\ provider = "ollama" -> "found"
    [] OTHER -> "failed"

(* codex falls back to its cache if the CLI has no usable answer; a request  *)
(* of claude's may time out by itself, which is a failure; cursor has a      *)
(* second name.                                                              *)
discover(provider) ==
  CASE provider = "codex"  ->
         {Discovered(provider, IF cli \in {"absent", "bad"} THEN cache ELSE cli) :
            cli \in Listings, cache \in Listings \ {"late"}}
    [] provider = "claude" -> {Discovered(provider, api) : api \in Listings} \cup {"failed"}
    [] provider = "cursor" -> {Discovered(provider, IF cli = "absent" THEN agent ELSE cli) :
                                 cli \in Listings, agent \in Listings}
    [] OTHER               -> {Discovered(provider, cli) : cli \in Listings}

-----------------------------------------------------------------------------
NoReport == [p \in Providers |-> "none"]
Running  == {i \in kept : refresh[i].state = "running"}
Eldest   == CHOOSE i \in kept : \A j \in kept : i <= j

(* start returns the update that is running if there is one; a new one drops *)
(* the eldest from a full history.                                           *)
start ==
  /\ Running = {} /\ updates < MaxUpdates
  /\ updates' = updates + 1
  /\ kept' = (IF Cardinality(kept) >= History THEN kept \ {Eldest} ELSE kept) \cup {updates + 1}
  /\ refresh' = [refresh EXCEPT ![updates + 1] = [state |-> "running", results |-> NoReport,
                                                  error |-> FALSE]]
  /\ discovery' = [p \in Providers |-> "working"]
  /\ saved' = {} /\ late' = FALSE
  /\ UNCHANGED <<models, unread>>

Discover(p) ==
  /\ discovery[p] = "working" /\ Running # {}
  /\ \E outcome \in discover(p) : discovery' = [discovery EXCEPT ![p] = outcome]
  /\ UNCHANGED <<updates, kept, refresh, saved, late, models, unread>>

(* _execute takes the outcomes as they come ...                              *)
Collect(i, p) ==
  /\ i \in Running /\ discovery[p] \in {"found", "failed", "timed_out"}
  /\ refresh[i].results[p] = "none"
  /\ saved' = IF discovery[p] = "found" THEN saved \cup {p} ELSE saved
  /\ refresh' = [refresh EXCEPT ![i].results[p] =
                   IF discovery[p] = "found" THEN "updated" ELSE discovery[p]]
  /\ UNCHANGED <<updates, kept, discovery, late, models, unread>>

DeadlinePasses ==
  /\ Running # {} /\ ~late /\ late' = TRUE
  /\ UNCHANGED <<updates, kept, refresh, discovery, saved, models, unread>>

(* ... and when it has all of them, or the deadline has passed, it saves     *)
(* them, under the lock the reports are read under.                          *)
Results(i) == [p \in Providers |-> IF refresh[i].results[p] = "none" THEN "timed_out"
                                   ELSE refresh[i].results[p]]
(* Mutant of Finish: a failed save is not reported.                          *)
FinishUnsaved(i) ==
  /\ i \in Running
  /\ late \/ \A p \in Providers : refresh[i].results[p] # "none"
  /\ \/ models' = [p \in Providers |-> IF p \in saved THEN i ELSE models[p]]
     \/ saved # {} /\ UNCHANGED models
  /\ refresh' = [refresh EXCEPT ![i] = [state |-> "finished", results |-> Results(i),
                                        error |-> FALSE]]
  /\ UNCHANGED <<updates, kept, discovery, saved, late, unread>>

(* Mutant of Finish: every discovery is waited for.                          *)
FinishComplete(i) ==
  /\ i \in Running /\ \A p \in Providers : refresh[i].results[p] # "none"
  /\ models' = [p \in Providers |-> IF p \in saved THEN i ELSE models[p]]
  /\ refresh' = [refresh EXCEPT ![i] = [state |-> "finished", results |-> Results(i),
                                        error |-> FALSE]]
  /\ UNCHANGED <<updates, kept, discovery, saved, late, unread>>

(* _save adds to what the file holds, or, if it cannot be read or is not a   *)
(* JSON object, to nothing.                                                  *)
_save(i) ==
  \/ /\ models' = [p \in Providers |-> IF p \in saved THEN i ELSE models[p]]
     /\ UNCHANGED unread
  \/ /\ saved # {} /\ unread' = i
     /\ models' = [p \in Providers |-> IF p \in saved THEN i ELSE 0]

Finish(i) ==
  /\ i \in Running
  /\ late \/ \A p \in Providers : refresh[i].results[p] # "none"
  /\ \/ /\ _save(i)
        /\ refresh' = [refresh EXCEPT ![i] = [state |-> "finished", results |-> Results(i),
                                              error |-> FALSE]]
     \/ /\ saved # {}
        /\ refresh' = [refresh EXCEPT ![i] =
             [state |-> "finished", error |-> TRUE,
              results |-> [p \in Providers |-> IF p \in saved THEN "failed" ELSE Results(i)[p]]]]
        /\ UNCHANGED <<models, unread>>
  /\ UNCHANGED <<updates, kept, discovery, saved, late>>

(* The updates are forgotten with the server, the file is not.               *)
CatalogCrash ==
  /\ kept # {} /\ kept' = {}
  /\ refresh' = [i \in 1..MaxUpdates |-> IF i \in kept THEN [refresh[i] EXCEPT !.state = "forgotten"]
                                         ELSE refresh[i]]
  /\ UNCHANGED <<updates, discovery, saved, late, models, unread>>

-----------------------------------------------------------------------------
CatalogInit ==
  /\ updates = 0 /\ kept = {} /\ saved = {} /\ late = FALSE
  /\ refresh = [i \in 1..MaxUpdates |-> [state |-> "none", results |-> NoReport, error |-> FALSE]]
  /\ discovery = [p \in Providers |-> "idle"]
  /\ models = [p \in Providers |-> 0] /\ unread = 0

CatalogNext ==
  \/ start \/ DeadlinePasses \/ CatalogCrash
  \/ \E p \in Providers : Discover(p)
  \/ \E i \in 1..MaxUpdates : Finish(i) \/ \E p \in Providers : Collect(i, p)

(* The clock runs and the thread of the update goes on; a discovery need     *)
(* never end.                                                                *)
CatalogFairness ==
  /\ WF_catalogVars(DeadlinePasses)
  /\ WF_catalogVars(\E i \in 1..MaxUpdates : Finish(i) \/ \E p \in Providers : Collect(i, p))

CatalogSpec == CatalogInit /\ [][CatalogNext]_catalogVars /\ CatalogFairness

-----------------------------------------------------------------------------
Reports == {"none", "updated", "failed", "timed_out"}
CatalogTypeOK ==
  /\ updates \in 0..MaxUpdates
  /\ kept \subseteq 1..updates
  /\ refresh \in [1..MaxUpdates -> [state : {"none", "running", "finished", "forgotten"},
                                    results : [Providers -> Reports], error : BOOLEAN]]
  /\ discovery \in [Providers -> {"idle", "working", "found", "failed", "timed_out"}]
  /\ saved \subseteq Providers /\ late \in BOOLEAN
  /\ models \in [Providers -> 0..MaxUpdates] /\ unread \in 0..updates

(* A finished update reports a provider as updated exactly if its models, or *)
(* those of a later update, are in the file: "failure never replaces a       *)
(* previously saved catalog" (discover), and a failed save is not reported   *)
(* as an update.  Only a later update that saves over a file it cannot read  *)
(* drops what is not its own.                                                *)
ReportIsTrue ==
  \A i \in 1..updates : refresh[i].state = "finished" =>
    \A p \in Providers : /\ refresh[i].results[p] # "none"
                         /\ refresh[i].results[p] = "updated" => models[p] >= i \/ unread > i
                         /\ models[p] = i => refresh[i].results[p] = "updated"

(* An update ends, even if a discovery does not: one deadline bounds it.     *)
RefreshFinishes == \A i \in 1..MaxUpdates : refresh[i].state = "running"
                                              ~> refresh[i].state # "running"
=============================================================================
