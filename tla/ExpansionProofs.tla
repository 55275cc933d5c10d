--------------------------- MODULE ExpansionProofs ---------------------------
(***************************************************************************)
(* A job that has been launched has its spec in the store (Recorded); one  *)
(* that nothing was edited under still has its entry in the feature        *)
(* (Entered), and the search for its name ends at that entry.              *)
(***************************************************************************)
EXTENDS Expansion, TLAPS

USE ExpansionAssumption

ExpansionTypeOK ==
  /\ features \in Lists /\ model \in Models /\ rows \subseteq JobNames
  /\ \A f \in {origin, launched, job_specs} : f = [n \in JobNames |-> f[n]]

Recorded == \A n \in JobNames : job_specs[n] # NoSpec => launched[n] \in {job_specs[n], NoSpec}
Entered  == \A n \in rows \ edited : /\ ~Collides(Labelled(features))
                                     /\ \E i \in DOMAIN features : origin[n] = Labelled(features)[i]
                                     /\ sandbox_name_for(origin[n]) = n

ExpansionIInv == ExpansionTypeOK /\ Recorded /\ Entered

-----------------------------------------------------------------------------
LEMMA LabelledType ==
  ASSUME NEW list \in Lists, model \in Models
  PROVE  /\ DOMAIN Labelled(list) = DOMAIN list
         /\ \A i \in DOMAIN list : /\ Labelled(list)[i] = with_default_run_label(list[i], model)
                                   /\ sandbox_name_for(Labelled(list)[i]) \in JobNames
<1>1. DOMAIN Labelled(list) = DOMAIN list
      /\ \A i \in DOMAIN list : Labelled(list)[i] = with_default_run_label(list[i], model)
  BY DEF Labelled
<1>2. ASSUME NEW i \in DOMAIN list PROVE sandbox_name_for(Labelled(list)[i]) \in JobNames
  <2> DEFINE spec == list[i]
  <2>1. spec \in AgentSpec
    <3>1. list \in Seq(AgentSpec)
      OBVIOUS
    <3>2. QED BY <3>1
  <2>2. resolve_model(spec, model) \in Models
    BY <2>1 DEF resolve_model, AgentSpec
  <2>3. Safe[resolve_model(spec, model)] \in Labels \cup {Unset}
    BY <2>2
  <2>4. with_default_run_label(spec, model) \in AgentSpec
    BY <2>1, <2>3 DEF with_default_run_label, AgentSpec
  <2>5. QED BY <1>1, <2>4 DEF sandbox_name_for, JobNames, AgentSpec
<1>3. QED BY <1>1, <1>2

(* The search for a name ends at the entry that was recorded under it.      *)
LEMMA FindsEntry ==
  ASSUME ExpansionIInv, NEW n \in rows \ edited, ~Shadowed(n)
  PROVE  find_spec_for_sandbox(n) = origin[n]
<1>1. features \in Lists /\ model \in Models /\ features \in Seq(AgentSpec)
  BY DEF ExpansionIInv, ExpansionTypeOK
<1>2. PICK j \in DOMAIN features : origin[n] = Labelled(features)[j]
  BY DEF ExpansionIInv, Entered
<1> DEFINE labelled(i) == with_default_run_label(features[i], model)
<1>3. sandbox_name_for(labelled(j)) = n /\ origin[n] = labelled(j)
  BY <1>1, <1>2, LabelledType DEF ExpansionIInv, Entered
<1>4. \A i \in DOMAIN features : sandbox_name_for(labelled(i)) = n => i = j
  BY <1>1, <1>3, LabelledType DEF ExpansionIInv, Entered, Collides
<1>5. \A h \in DOMAIN features : h < j => ~Matches(features[h], n)
  <2> SUFFICES ASSUME NEW h \in DOMAIN features, h < j, Matches(features[h], n) PROVE FALSE
    OBVIOUS
  <2>1. DOMAIN features = 1..Len(features)
    BY <1>1
  <2>2. h # j
    BY <2>1
  <2>3. sandbox_name_for(features[h]) = n
    BY <1>4, <2>2 DEF Matches
  <2>4. QED BY <1>3, <2>3 DEF Shadowed
<1>6. Matches(features[j], n)
  BY <1>3 DEF Matches
<1>7. DOMAIN features = 1..Len(features) /\ Len(features) \in Nat
  BY <1>1
<1> DEFINE First(i) == Matches(features[i], n) /\ \A h \in 1..(i - 1) : ~Matches(features[h], n)
<1>8. First(j)
  BY <1>5, <1>6, <1>7
<1>9. \A i \in DOMAIN features : First(i) => i = j
  BY <1>5, <1>6, <1>7
<1>10. (CHOOSE i \in DOMAIN features : First(i)) = j
  BY <1>8, <1>9
<1>11. find_spec_for_sandbox(n) =
         LET first == CHOOSE i \in DOMAIN features : First(i)
         IN  IF sandbox_name_for(labelled(first)) = n THEN labelled(first) ELSE features[first]
  BY <1>6 DEF find_spec_for_sandbox
<1>12. QED BY <1>3, <1>10, <1>11

LEMMA ExpansionInitial == ExpansionInit => ExpansionIInv
<1> SUFFICES ASSUME ExpansionInit PROVE ExpansionIInv
  OBVIOUS
<1>1. ExpansionTypeOK
  BY DEF ExpansionInit, ExpansionTypeOK
<1>2. Recorded
  BY DEF ExpansionInit, Recorded
<1>3. Entered
  BY DEF ExpansionInit, Entered
<1>4. QED BY <1>1, <1>2, <1>3 DEF ExpansionIInv

-----------------------------------------------------------------------------
LEMMA QueuedStep ==
  ASSUME ExpansionIInv, NEW list \in Lists, record_queued(list)
  PROVE  ExpansionIInv'
<1> DEFINE specs == expand_jobs(list)
           names == {sandbox_name_for(s) : s \in specs}
           of(n) == CHOOSE s \in specs : sandbox_name_for(s) = n
<1>1. /\ specs # {} /\ rows' = rows \cup names
      /\ origin' = [n \in JobNames |-> IF n \in names THEN of(n) ELSE origin[n]]
      /\ edited' = IF list = features THEN edited \ names ELSE edited \cup names
      /\ UNCHANGED <<features, model, launched, job_specs>>
  BY DEF record_queued
<1>2. ExpansionTypeOK /\ Recorded /\ Entered
  BY DEF ExpansionIInv
<1>3. ~Collides(Labelled(list)) /\ specs = {Labelled(list)[i] : i \in DOMAIN list}
  BY <1>1 DEF expand_jobs
<1>4. names \subseteq JobNames
  BY <1>2, <1>3, LabelledType DEF ExpansionTypeOK
<1>5. \A n \in names : of(n) \in specs /\ sandbox_name_for(of(n)) = n
  OBVIOUS
<1> HIDE DEF specs, names, of
<1>6. ExpansionTypeOK'
  BY <1>1, <1>2, <1>4 DEF ExpansionTypeOK
<1>7. Recorded'
  BY <1>1, <1>2 DEF Recorded
<1>8. Entered'
  <2> SUFFICES ASSUME NEW n \in rows' \ edited'
               PROVE  /\ ~Collides(Labelled(features))
                      /\ \E i \in DOMAIN features : origin'[n] = Labelled(features)[i]
                      /\ sandbox_name_for(origin'[n]) = n
    <3>1. Labelled(features)' = Labelled(features) /\ features' = features
      BY <1>1 DEF Labelled
    <3>2. Collides(Labelled(features))' <=> Collides(Labelled(features))
      BY <3>1 DEF Collides
    <3>3. QED BY <3>1, <3>2 DEF Entered
  <2>1. n \in JobNames
    BY <1>6 DEF ExpansionTypeOK
  <2>2. CASE n \in names
    <3>1. list = features /\ origin'[n] = of(n)
      BY <1>1, <2>1, <2>2
    <3>2. QED BY <1>3, <1>5, <2>2, <3>1
  <2>3. CASE n \notin names
    <3>1. n \in rows \ edited /\ origin'[n] = origin[n]
      BY <1>1, <2>1, <2>3
    <3>2. QED BY <1>2, <3>1 DEF Entered
  <2>4. QED BY <2>2, <2>3
<1>9. QED BY <1>6, <1>7, <1>8 DEF ExpansionIInv

LEMMA JobStep ==
  ASSUME ExpansionIInv, NEW n \in JobNames, run_job(n) \/ Relaunch(n) \/ DeleteJob(n)
  PROVE  ExpansionIInv'
<1>1. ExpansionTypeOK /\ Recorded /\ Entered
  BY DEF ExpansionIInv
<1>2. UNCHANGED <<features, model, edited>> /\ rows' \subseteq rows
  BY DEF run_job, Relaunch, DeleteJob
<1>3. ExpansionTypeOK'
  <2>1. \A f \in {origin', launched', job_specs'} : f = [m \in JobNames |-> f[m]]
    BY <1>1 DEF run_job, Relaunch, DeleteJob, ExpansionTypeOK
  <2>2. QED BY <1>1, <1>2, <2>1 DEF ExpansionTypeOK
<1>4. Recorded'
  <2>1. CASE run_job(n)
    BY <1>1, <2>1 DEF run_job, ExpansionTypeOK, Recorded
  <2>2. CASE Relaunch(n)
    BY <1>1, <2>2 DEF Relaunch, spec_for_job, ExpansionTypeOK, Recorded
  <2>3. CASE DeleteJob(n)
    BY <1>1, <2>3 DEF DeleteJob, ExpansionTypeOK, Recorded
  <2>4. QED BY <2>1, <2>2, <2>3
<1>5. Entered'
  <2>1. \A m \in rows' : m \in rows /\ origin'[m] = origin[m]
    BY <1>1 DEF run_job, Relaunch, DeleteJob, ExpansionTypeOK
  <2>2. QED BY <1>1, <1>2, <2>1 DEF Entered, Labelled
<1>6. QED BY <1>3, <1>4, <1>5 DEF ExpansionIInv

LEMMA ExpansionStep == ExpansionIInv /\ [ExpansionNext]_expansionVars => ExpansionIInv'
<1> SUFFICES ASSUME ExpansionIInv, [ExpansionNext]_expansionVars PROVE ExpansionIInv'
  OBVIOUS
<1>1. CASE \E list \in Lists : record_queued(list)
  BY <1>1, QueuedStep
<1>2. CASE (\E list \in Lists : put_features(list)) \/ \E m \in Models : put_config(m)
  <2>1. /\ features' \in Lists /\ model' \in Models /\ edited' = JobNames
        /\ UNCHANGED <<rows, origin, launched, job_specs>>
    BY <1>2 DEF put_features, put_config, ExpansionIInv, ExpansionTypeOK
  <2>2. QED BY <2>1 DEF ExpansionIInv, ExpansionTypeOK, Recorded, Entered
<1>3. CASE \E n \in JobNames : run_job(n) \/ Relaunch(n) \/ DeleteJob(n)
  BY <1>3, JobStep
<1>4. CASE UNCHANGED expansionVars
  BY <1>4 DEF expansionVars, ExpansionIInv, ExpansionTypeOK, Recorded, Entered, Labelled
<1>5. QED BY <1>1, <1>2, <1>3, <1>4 DEF ExpansionNext

(* A job is relaunched with the spec it was last launched with, whatever    *)
(* has been edited since, unless run_job has stored another one and         *)
(* launched nothing; one that was never launched with the spec it was       *)
(* recorded with, unless something was edited or its entry is shadowed      *)
(* (spec_for_job, find_spec_for_sandbox).                                   *)
THEOREM SpecsAreFound == ExpansionSpec => []FindsItsSpec
<1>1. ASSUME ExpansionIInv PROVE FindsItsSpec
  BY <1>1, FindsEntry DEF FindsItsSpec, spec_for_job, ExpansionIInv, ExpansionTypeOK, Recorded
<1>2. QED BY <1>1, ExpansionInitial, ExpansionStep, PTL DEF ExpansionSpec
=============================================================================
