----------------------------- MODULE Expansion -----------------------------
(***************************************************************************)
(* How the entries of a feature become jobs (job/expand.py) and how a job  *)
(* is given back the spec it was launched with (spec_for_job), while       *)
(* features.yaml and config.yaml are edited and runs are deleted.          *)
(*                                                                         *)
(* One feature; a sandbox name is its agent and label, the only parts of   *)
(* it that differ.  (JobNames of more than 60 characters, which are cut off,  *)
(* are not distinguished by the code and do not occur here.)               *)
(***************************************************************************)
EXTENDS Integers, Sequences

CONSTANTS
  Agents,        \* agent ids
  Models,        \* model names
  Labels,        \* run labels
  Unset,         \* None
  Safe,          \* model -> the label made of it, Unset if nothing is left of it
  DefaultModels, \* DEFAULT_MODELS: agent -> model, or Unset
  Lists          \* bound: the lists of entries people write

AgentSpec == [agent_id : Agents, run_label : Labels \cup {Unset}, model : Models \cup {Unset},
         command : BOOLEAN]

ASSUME ExpansionAssumption ==
  /\ Safe \in [Models -> Labels \cup {Unset}] /\ DefaultModels \in [Agents -> Models \cup {Unset}]
  /\ Lists \subseteq Seq(AgentSpec) /\ Unset \notin Models \cup Agents

JobNames   == Agents \X (Labels \cup {Unset})
NoSpec  == [agent_id |-> Unset, run_label |-> Unset, model |-> Unset, command |-> FALSE]

VARIABLES
  features,      \* the entries of the feature in features.yaml
  model,         \* config.model
  rows,          \* names of the jobs that have a row
  origin,        \* name -> the spec its job was recorded with
  launched,      \* name -> the spec its job was last launched with, NoSpec if run_job has
                 \* stored one since and launched nothing
  job_specs,     \* name -> the spec in the store
  edited         \* names whose entries or configuration may have changed since they were recorded

expansionVars == <<features, model, rows, origin, launched, job_specs, edited>>

-----------------------------------------------------------------------------
resolve_model(spec, config_model) ==
  CASE spec.model # Unset                  -> spec.model
    [] DefaultModels[spec.agent_id] # Unset -> DefaultModels[spec.agent_id]
    [] OTHER                                -> config_model

with_default_run_label(spec, config_model) ==
  IF spec.run_label # Unset \/ spec.command THEN spec
  ELSE [spec EXCEPT !.run_label = Safe[resolve_model(spec, config_model)]]

sandbox_name_for(spec) == <<spec.agent_id, spec.run_label>>

(* A feature without entries runs the default agent; two entries with one    *)
(* name are refused.                                                         *)
Labelled(list)    == [i \in DOMAIN list |-> with_default_run_label(list[i], model)]
Collides(specs)   == \E i, j \in DOMAIN specs :
                       i # j /\ sandbox_name_for(specs[i]) = sandbox_name_for(specs[j])
expand_jobs(list) == IF Collides(Labelled(list)) THEN {}
                     ELSE {Labelled(list)[i] : i \in DOMAIN list}

(* The entry a name is of: the first one that has it, with its default label *)
(* or, as names were before there were such labels, without.                 *)
Matches(requested, name) ==
  name \in {sandbox_name_for(with_default_run_label(requested, model)), sandbox_name_for(requested)}
find_spec_for_sandbox(name) ==
  IF \E i \in DOMAIN features : Matches(features[i], name)
  THEN LET i == CHOOSE j \in DOMAIN features :
                  /\ Matches(features[j], name)
                  /\ \A h \in 1..(j - 1) : ~Matches(features[h], name)
           labelled == with_default_run_label(features[i], model)
       IN  IF sandbox_name_for(labelled) = name THEN labelled ELSE features[i]
  ELSE NoSpec

(* Mutant of spec_for_job: the recorded spec is not looked up.               *)
spec_from_features(name) == find_spec_for_sandbox(name)

(* A recorded spec another version cannot read counts as none.               *)
spec_for_job(name) == IF job_specs[name] # NoSpec THEN job_specs[name]
                      ELSE find_spec_for_sandbox(name)

-----------------------------------------------------------------------------
(* A run is made of the saved entries, or of a copy the launcher sends along. *)
(* Every job gets a row, unless it has one.                                  *)
record_queued(list) ==
  LET specs == expand_jobs(list)
      names == {sandbox_name_for(s) : s \in specs}
      of(n) == CHOOSE s \in specs : sandbox_name_for(s) = n
  IN  /\ specs # {}
      /\ rows' = rows \cup names
      /\ origin' = [n \in JobNames |-> IF n \in names THEN of(n) ELSE origin[n]]
      /\ edited' = IF list = features THEN edited \ names ELSE edited \cup names
      /\ UNCHANGED <<features, model, launched, job_specs>>

(* run_job, if it does not skip the job, records the spec and launches with  *)
(* it -- or finds the sandbox running, or fails, and launches nothing.  A    *)
(* run comes with the spec the job was recorded with, a respawn of a job     *)
(* whose sandbox is gone with the one it finds.                              *)
run_job(n) ==
  /\ n \in rows
  /\ \E spec \in {origin[n], spec_for_job(n)} \ {NoSpec} :
       /\ job_specs' = [job_specs EXCEPT ![n] = spec]
       /\ launched' \in {[launched EXCEPT ![n] = spec], [launched EXCEPT ![n] = NoSpec]}
  /\ UNCHANGED <<features, model, rows, origin, edited>>

(* An answer, a follow-up or a respawn in place launches again, with what it *)
(* finds, and records nothing.                                               *)
Relaunch(n) ==
  /\ n \in rows /\ spec_for_job(n) # NoSpec
  /\ launched' = [launched EXCEPT ![n] = spec_for_job(n)]
  /\ UNCHANGED <<features, model, rows, origin, job_specs, edited>>

(* A run is deleted with its jobs and their specs.                           *)
DeleteJob(n) ==
  /\ n \in rows /\ rows' = rows \ {n}
  /\ job_specs' = [job_specs EXCEPT ![n] = NoSpec]
  /\ launched' = [launched EXCEPT ![n] = NoSpec]
  /\ origin' = [origin EXCEPT ![n] = NoSpec]
  /\ UNCHANGED <<features, model, edited>>

put_features(list) ==
  /\ features' = list /\ edited' = JobNames
  /\ UNCHANGED <<model, rows, origin, launched, job_specs>>
put_config(m) ==
  /\ model' = m /\ edited' = JobNames
  /\ UNCHANGED <<features, rows, origin, launched, job_specs>>

-----------------------------------------------------------------------------
ExpansionInit ==
  /\ features \in Lists /\ model \in Models /\ rows = {} /\ edited = {}
  /\ origin = [n \in JobNames |-> NoSpec] /\ launched = [n \in JobNames |-> NoSpec]
  /\ job_specs = [n \in JobNames |-> NoSpec]

ExpansionNext ==
  \/ \E list \in Lists : record_queued(list) \/ put_features(list)
  \/ \E m \in Models : put_config(m)
  \/ \E n \in JobNames : run_job(n) \/ Relaunch(n) \/ DeleteJob(n)

ExpansionSpec == ExpansionInit /\ [][ExpansionNext]_expansionVars

-----------------------------------------------------------------------------
(* An unlabelled entry before a command entry that has no label of its own   *)
(* answers to the name of that one.                                          *)
Shadowed(n) == \E i, j \in DOMAIN features :
                 i < j /\ sandbox_name_for(features[i]) = n
                       /\ sandbox_name_for(with_default_run_label(features[j], model)) = n

(* A job is relaunched with the spec it was launched with, whatever has been *)
(* edited since, unless run_job has stored another one and launched nothing; *)
(* one that was never launched with the spec it was recorded with, as long   *)
(* as nothing was edited and its entry is not shadowed ("the AgentSpec a job *)
(* was actually launched with", spec_for_job).                               *)
FindsItsSpec ==
  \A n \in rows :
    /\ job_specs[n] # NoSpec /\ launched[n] # NoSpec => spec_for_job(n) = launched[n]
    /\ job_specs[n] = NoSpec /\ n \notin edited /\ ~Shadowed(n) => spec_for_job(n) = origin[n]
=============================================================================
