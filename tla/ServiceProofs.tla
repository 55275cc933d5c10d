----------------------------- MODULE ServiceProofs -----------------------------
(***************************************************************************)
(* Three services that share no state with one another: the registry of    *)
(* asks, the updates of the model catalog, and the telemetry sampler.  One *)
(* part for each, with the invariant it needs.                             *)
(***************************************************************************)
EXTENDS Ask, Catalog, Telemetry, FiniteSetTheorems, TLAPS

-----------------------------------------------------------------------------
(***************************************************************************)
(* The registry of asks keeps exactly the newest asks of this server, for  *)
(* every capacity and however many are asked.  It is inductive with the    *)
(* types: that the tracked asks are an interval gives their number, and    *)
(* with it what put evicts.                                                *)
(***************************************************************************)

(* Where the tracked asks begin: after the last restart, and Cap at most.   *)
First == IF before > asked - Cap THEN before + 1 ELSE asked - Cap + 1

AskIInv == AskTypeOK /\ RecentIsKept

LEMMA TrackedIsInterval ==
  ASSUME AskIInv
  PROVE  tracked = First..asked /\ First \in Int
<1>1. /\ asked \in 0..MaxAsks /\ before \in 0..asked /\ tracked \subseteq 1..MaxAsks
      /\ MaxAsks \in Nat /\ Cap \in Nat \ {0}
  BY AskAssumption DEF AskIInv, AskTypeOK
<1>2. \A i \in 1..MaxAsks : i \in tracked <=> i > before /\ i <= asked /\ i > asked - Cap
  BY DEF AskIInv, RecentIsKept
<1>3. First \in Int /\ First >= 1
  BY <1>1 DEF First
<1>4. ASSUME NEW i \in 1..MaxAsks PROVE i \in tracked <=> i \in First..asked
  BY <1>1, <1>2, <1>3 DEF First
<1>5. First..asked \subseteq 1..MaxAsks
  BY <1>1, <1>3
<1>6. QED BY <1>1, <1>3, <1>4, <1>5

(* put evicts the eldest ask exactly if the registry is full.               *)
LEMMA PutKeepsNewest ==
  ASSUME AskIInv, asked < MaxAsks
  PROVE  \A i \in 1..MaxAsks :
           i \in Put(tracked, asked + 1) <=>
             i > before /\ i <= asked + 1 /\ i > asked + 1 - Cap
<1>1. /\ asked \in 0..MaxAsks /\ before \in 0..asked /\ tracked \subseteq 1..MaxAsks
      /\ MaxAsks \in Nat /\ Cap \in Nat \ {0} /\ asked \in Nat /\ before \in Nat
  BY AskAssumption DEF AskIInv, AskTypeOK
<1>2. tracked = First..asked /\ First \in Int /\ First <= asked + 1
  BY <1>1, TrackedIsInterval DEF First
<1> DEFINE with == tracked \cup {asked + 1}
<1>3. with = First..(asked + 1)
  BY <1>1, <1>2
<1>4. Cardinality(with) = asked + 2 - First
  <2>1. Cardinality(First..(asked + 1)) =
          IF First > asked + 1 THEN 0 ELSE (asked + 1) - First + 1
    <3>1. First \in Int /\ asked + 1 \in Int
      BY <1>1, <1>2
    <3>2. QED BY <3>1, FS_Interval, Zenon
  <2>2. Cardinality(with) = Cardinality(First..(asked + 1))
    BY <1>3
  <2>3. ~(First > asked + 1) /\ First \in Int /\ asked \in Int
    BY <1>1, <1>2
  <2> HIDE DEF with
  <2>4. QED BY <2>1, <2>2, <2>3
<1>5. CASE Cardinality(with) > Cap
  <2>1. before <= asked - Cap /\ First = asked - Cap + 1
    BY <1>1, <1>2, <1>4, <1>5 DEF First
  <2>2. Oldest(with) = First
    <3>1. First \in with /\ \A j \in with : First <= j
      BY <1>1, <1>2, <1>3
    <3>2. \A x \in with : (\A j \in with : x <= j) => x = First
      BY <3>1, <1>1, <1>2, <1>3
    <3>3. QED BY <3>1, <3>2 DEF Oldest
  <2>3. Put(tracked, asked + 1) = First..(asked + 1) \ {First}
    BY <1>3, <1>5, <2>2 DEF Put
  <2>4. QED BY <1>1, <2>1, <2>3
<1>6. CASE ~(Cardinality(with) > Cap)
  <2>1. before > asked - Cap \/ First = asked - Cap + 1
    BY <1>1 DEF First
  <2>2. before >= asked + 1 - Cap /\ First = before + 1
    BY <1>1, <1>2, <1>4, <1>6 DEF First
  <2>3. Put(tracked, asked + 1) = First..(asked + 1)
    BY <1>3, <1>6 DEF Put
  <2>4. QED BY <1>1, <2>2, <2>3
<1>7. QED BY <1>5, <1>6

LEMMA AskInitial == AskInit => AskIInv
<1> SUFFICES ASSUME AskInit PROVE AskIInv
  OBVIOUS
<1>1. MaxAsks \in Nat /\ Cap \in Nat \ {0}
  BY AskAssumption
<1>2. AskTypeOK
  BY <1>1 DEF AskInit, AskTypeOK
<1>3. RecentIsKept
  BY <1>1 DEF AskInit, RecentIsKept
<1>4. QED BY <1>2, <1>3 DEF AskIInv

LEMMA AskStep ==
  ASSUME AskIInv, [AskNext]_askVars
  PROVE  AskIInv'
<1>1. /\ MaxAsks \in Nat /\ Cap \in Nat \ {0} /\ AskTypeOK /\ RecentIsKept
      /\ Requests \subseteq Seq({"claude", "codex", "openrouter", "ollama"})
  BY AskAssumption DEF AskIInv
<1>2. ASSUME NEW request \in Requests, start_ask(request) PROVE AskIInv'
  <2>1. asked < MaxAsks /\ asked' = asked + 1 /\ before' = before
        /\ tracked' = Put(tracked, asked + 1)
    BY <1>2 DEF start_ask
  <2>2. RecentIsKept'
    <3>1. \A i \in 1..MaxAsks : i \in Put(tracked, asked + 1) <=>
            i > before /\ i <= asked + 1 /\ i > asked + 1 - Cap
      BY <2>1, PutKeepsNewest
    <3>2. asked' - Cap = asked + 1 - Cap
      BY <1>1, <2>1 DEF AskTypeOK
    <3>3. QED BY <2>1, <3>1, <3>2, Zenon DEF RecentIsKept
  <2>3. tracked' \subseteq 1..MaxAsks
    <3>1. tracked \cup {asked + 1} \subseteq 1..MaxAsks
      BY <1>1, <2>1 DEF AskTypeOK
    <3>2. Put(tracked, asked + 1) \subseteq tracked \cup {asked + 1}
      BY DEF Put
    <3>3. QED BY <2>1, <3>1, <3>2
  <2>4. submitting' \in [1..MaxAsks -> Nat] /\ DOMAIN answers' = 1..MaxAsks
    <3>1. Len(request) \in Nat
      BY <1>1
    <3>2. QED BY <1>1, <1>2, <3>1 DEF start_ask, AskTypeOK
  <2>5. asked' \in 0..MaxAsks /\ before' \in 0..asked'
    BY <1>1, <2>1 DEF AskTypeOK
  <2>6. QED BY <2>2, <2>3, <2>4, <2>5 DEF AskIInv, AskTypeOK
<1>3. CASE TakeTask
  BY <1>1, <1>3 DEF TakeTask, AskIInv, AskTypeOK, RecentIsKept
<1>4. CASE AskCrash
  <2>1. asked' = asked /\ before' = asked /\ tracked' = {}
        /\ answers' = [i \in 1..MaxAsks |-> <<>>] /\ submitting' = [i \in 1..MaxAsks |-> 0]
    BY <1>4 DEF AskCrash
  <2>2. RecentIsKept'
    BY <1>1, <2>1 DEF RecentIsKept, AskTypeOK
  <2>3. AskTypeOK'
    BY <1>1, <2>1 DEF AskTypeOK
  <2>4. QED BY <2>2, <2>3 DEF AskIInv
<1>5. ASSUME NEW i \in 1..MaxAsks, Submit(i) PROVE AskIInv'
  <2>1. submitting' \in [1..MaxAsks -> Nat]
    <3>1. submitting[i] \in Nat /\ submitting[i] > 0
      BY <1>1, <1>5 DEF Submit, AskTypeOK
    <3>2. submitting[i] - 1 \in Nat
      BY <3>1
    <3>3. QED BY <1>1, <1>5, <3>2 DEF Submit, AskTypeOK
  <2>2. QED BY <1>1, <1>5, <2>1 DEF Submit, AskIInv, AskTypeOK, RecentIsKept
<1>6. ASSUME NEW i \in 1..MaxAsks, NEW c, _work(i, c) PROVE AskIInv'
  <2>1. DOMAIN answers' = 1..MaxAsks
    BY <1>1, <1>6 DEF _work, AskTypeOK
  <2>2. QED BY <1>1, <1>6, <2>1 DEF _work, AskIInv, AskTypeOK, RecentIsKept
<1>7. CASE UNCHANGED askVars
  BY <1>1, <1>7 DEF askVars, AskIInv, AskTypeOK, RecentIsKept
<1>8. QED
  BY <1>2, <1>3, <1>4, <1>5, <1>6, <1>7 DEF AskNext, Work

(* The registry of _AskRegistry.put holds the newest asks put since the      *)
(* server was started, Cap of them at most, and no others.                   *)
THEOREM AsksAreKept == AskSpec => [](AskTypeOK /\ RecentIsKept)
<1>1. AskInit => AskIInv
  BY AskInitial
<1>2. AskIInv /\ [AskNext]_askVars => AskIInv'
  BY AskStep
<1>3. QED BY <1>1, <1>2, PTL DEF AskSpec, AskIInv

-----------------------------------------------------------------------------
(***************************************************************************)
(* The reports of the catalog updates are true for every set of providers, *)
(* every history and every number of updates.  The argument needs that at  *)
(* most the newest update is going (OneRuns), that nothing in the file is  *)
(* of a later update than the newest that ended (FileIsOlder), and what    *)
(* the thread in between has collected (CollectedIsSaved).                 *)
(***************************************************************************)

Report == [state : {"none", "running", "finished", "forgotten"},
           results : [Providers -> Reports], error : BOOLEAN]

OneRuns == \A i \in 1..MaxUpdates : refresh[i].state = "running" => i = updates /\ i \in kept
FileIsOlder == \A p \in Providers : \A i \in 1..MaxUpdates :
                 models[p] <= updates /\ (refresh[i].state = "running" => models[p] < i)
CollectedIsSaved == \A p \in Providers : \A i \in 1..MaxUpdates :
                 refresh[i].state = "running" => (refresh[i].results[p] = "updated" <=> p \in saved)

CatalogIInv == CatalogTypeOK /\ OneRuns /\ FileIsOlder /\ CollectedIsSaved /\ ReportIsTrue

LEMMA DiscoverType ==
  ASSUME NEW p PROVE discover(p) \subseteq {"found", "failed", "timed_out"}
<1>1. \A q, listing : Discovered(q, listing) \in {"found", "failed", "timed_out"}
  BY DEF Discovered
<1>2. QED BY <1>1 DEF discover

LEMMA CatalogInitial == CatalogInit => CatalogIInv
<1> SUFFICES ASSUME CatalogInit PROVE CatalogIInv
  OBVIOUS
<1>1. MaxUpdates \in Nat /\ NoReport \in [Providers -> Reports]
  BY CatalogAssumption DEF NoReport, Reports
<1>2. CatalogTypeOK
  <2>1. [state |-> "none", results |-> NoReport, error |-> FALSE] \in Report
    BY <1>1 DEF Report
  <2>2. refresh \in [1..MaxUpdates -> Report]
    BY <2>1 DEF CatalogInit
  <2>3. models \in [Providers -> 0..MaxUpdates]
    BY <1>1 DEF CatalogInit
  <2>4. /\ updates \in 0..MaxUpdates /\ kept \subseteq 1..updates
        /\ discovery \in [Providers -> {"idle", "working", "found", "failed", "timed_out"}]
        /\ saved \subseteq Providers /\ unread \in 0..updates
    BY <1>1 DEF CatalogInit
  <2>5. late \in BOOLEAN
    BY Zenon DEF CatalogInit
  <2>6. QED BY <2>2, <2>3, <2>4, <2>5, Zenon DEF CatalogTypeOK, Report
<1>3. OneRuns /\ FileIsOlder /\ CollectedIsSaved /\ ReportIsTrue
  BY <1>1 DEF CatalogInit, OneRuns, FileIsOlder, CollectedIsSaved, ReportIsTrue
<1>4. QED BY <1>2, <1>3 DEF CatalogIInv

LEMMA StartStep ==
  ASSUME CatalogIInv, start
  PROVE  CatalogIInv'
<1>1. /\ updates < MaxUpdates /\ updates' = updates + 1 /\ MaxUpdates \in Nat
      /\ updates \in Nat /\ kept' \subseteq kept \cup {updates + 1} /\ updates + 1 \in kept'
      /\ saved' = {} /\ models' = models /\ late' = FALSE /\ unread' = unread
      /\ discovery' = [p \in Providers |-> "working"]
  BY CatalogAssumption DEF start, CatalogIInv, CatalogTypeOK
<1> DEFINE new == [state |-> "running", results |-> NoReport, error |-> FALSE]
<1>2. refresh' = [refresh EXCEPT ![updates + 1] = new]
  BY DEF start
<1>3. new \in Report /\ refresh \in [1..MaxUpdates -> Report]
  <2>1. NoReport \in [Providers -> Reports]
    BY DEF NoReport, Reports
  <2>2. QED BY <2>1 DEF Report, CatalogIInv, CatalogTypeOK
<1>4. \A i \in 1..MaxUpdates : refresh[i].state # "running"
  <2>1. \A i \in kept : refresh[i].state # "running"
    BY DEF start, Running
  <2>2. QED BY <2>1 DEF CatalogIInv, OneRuns
<1>5. \A i \in 1..MaxUpdates : refresh'[i] = IF i = updates + 1 THEN new ELSE refresh[i]
  BY <1>2, <1>3
<1>6. CatalogTypeOK'
  <2>1. refresh' \in [1..MaxUpdates -> Report]
    BY <1>2, <1>3, <1>1
  <2>2. discovery' \in [Providers -> {"idle", "working", "found", "failed", "timed_out"}]
    BY <1>1
  <2>3. updates' \in 0..MaxUpdates /\ kept' \subseteq 1..updates' /\ unread' \in 0..updates'
    <3>1. kept \subseteq 1..updates /\ unread \in 0..updates
      BY DEF CatalogIInv, CatalogTypeOK
    <3>2. QED BY <1>1, <3>1
  <2>4. saved' \subseteq Providers /\ late' \in BOOLEAN /\ models' \in [Providers -> 0..MaxUpdates]
    BY <1>1, Zenon DEF CatalogIInv, CatalogTypeOK
  <2>5. QED BY <2>1, <2>2, <2>3, <2>4, Zenon DEF CatalogTypeOK, Report
<1>7. OneRuns'
  BY <1>1, <1>4, <1>5 DEF OneRuns
<1>8. FileIsOlder'
  BY <1>1, <1>4, <1>5 DEF FileIsOlder, CatalogIInv, CatalogTypeOK
<1>9. CollectedIsSaved'
  <2>1. \A p \in Providers : new.results[p] = "none"
    BY DEF NoReport
  <2>2. QED BY <1>1, <1>4, <1>5, <2>1 DEF CollectedIsSaved
<1>10. ReportIsTrue'
  <2>1. ASSUME NEW i \in 1..updates', refresh'[i].state = "finished"
        PROVE  i \in 1..updates /\ refresh'[i] = refresh[i]
    BY <1>1, <1>5, <2>1
  <2>2. QED BY <1>1, <2>1 DEF ReportIsTrue, CatalogIInv
<1>11. QED BY <1>6, <1>7, <1>8, <1>9, <1>10 DEF CatalogIInv

LEMMA CollectStep ==
  ASSUME CatalogIInv, NEW i \in 1..MaxUpdates, NEW p \in Providers, Collect(i, p)
  PROVE  CatalogIInv'
<1> DEFINE found == discovery[p] = "found"
           result == IF found THEN "updated" ELSE discovery[p]
<1>1. /\ refresh[i].state = "running" /\ i \in kept
      /\ refresh' = [refresh EXCEPT ![i].results[p] = result]
      /\ saved' = (IF found THEN saved \cup {p} ELSE saved)
      /\ UNCHANGED <<updates, kept, discovery, late, models, unread>>
      /\ refresh[i].results[p] = "none" /\ discovery[p] \in {"found", "failed", "timed_out"}
  BY DEF Collect, Running
<1>2. refresh \in [1..MaxUpdates -> Report] /\ result \in Reports \ {"none"}
      /\ (result = "updated" <=> found) /\ MaxUpdates \in Nat /\ updates \in 0..MaxUpdates
  BY <1>1, CatalogAssumption DEF CatalogIInv, CatalogTypeOK, Report, Reports
<1>3. /\ refresh' \in [1..MaxUpdates -> Report]
      /\ \A j \in 1..MaxUpdates : refresh'[j].state = refresh[j].state
      /\ \A j \in 1..MaxUpdates : j # i => refresh'[j] = refresh[j]
      /\ \A q \in Providers : refresh'[i].results[q] =
                                IF q = p THEN result ELSE refresh[i].results[q]
  <2> HIDE DEF result
  <2>1. refresh[i] \in Report /\ refresh[i].results \in [Providers -> Reports]
    BY <1>2 DEF Report
  <2> DEFINE after == [refresh[i].results EXCEPT ![p] = result]
  <2>2. after \in [Providers -> Reports]
        /\ \A q \in Providers : after[q] = IF q = p THEN result ELSE refresh[i].results[q]
    BY <1>2, <2>1
  <2>3. refresh' = [refresh EXCEPT ![i] = [refresh[i] EXCEPT !.results = after]]
    BY <1>1, <1>2
  <2> HIDE DEF after
  <2>4. /\ [refresh[i] EXCEPT !.results = after] \in Report
        /\ [refresh[i] EXCEPT !.results = after].state = refresh[i].state
        /\ [refresh[i] EXCEPT !.results = after].results = after
    BY <2>1, <2>2 DEF Report
  <2>5. QED BY <1>2, <2>2, <2>3, <2>4
<1>4. CatalogTypeOK'
  BY <1>1, <1>3 DEF CatalogIInv, CatalogTypeOK, Report
<1>5. OneRuns' /\ FileIsOlder'
  BY <1>1, <1>3 DEF CatalogIInv, OneRuns, FileIsOlder
<1>6. \A j \in 1..MaxUpdates : refresh[j].state = "running" => j = i
  BY <1>1 DEF CatalogIInv, OneRuns
<1>7. CollectedIsSaved'
  <2>1. \A q \in Providers : refresh[i].results[q] = "updated" <=> q \in saved
    BY <1>1 DEF CatalogIInv, CollectedIsSaved
  <2>2. \A q \in Providers : refresh'[i].results[q] = "updated" <=> q \in saved'
    <3> HIDE DEF result
    <3>1. \A q \in Providers : q # p => refresh'[i].results[q] = refresh[i].results[q]
      BY <1>3
    <3>2. refresh'[i].results[p] = "updated" <=> found
      BY <1>2, <1>3
    <3>3. p \notin saved
      BY <1>1, <2>1
    <3>4. \A q \in Providers : q \in saved' <=> q \in saved \/ (q = p /\ found)
      BY <1>1
    <3>5. QED BY <2>1, <3>1, <3>2, <3>3, <3>4, Zenon
  <2>3. QED BY <1>3, <1>6, <2>2 DEF CollectedIsSaved
<1>8. ReportIsTrue'
  <2>1. ASSUME NEW j \in 1..updates, refresh'[j].state = "finished"
        PROVE  refresh'[j] = refresh[j]
    <3>1. j \in 1..MaxUpdates
      BY <1>2
    <3>2. j # i
      BY <1>1, <1>3, <2>1, <3>1
    <3>3. QED BY <1>3, <3>1, <3>2
  <2>2. QED BY <1>1, <2>1 DEF CatalogIInv, ReportIsTrue
<1>9. QED BY <1>4, <1>5, <1>7, <1>8 DEF CatalogIInv

(* A save that succeeds makes true what was collected, one that fails takes *)
(* it all back; the reports of earlier updates are not touched by either.   *)
LEMMA FinishStep ==
  ASSUME CatalogIInv, NEW i \in 1..MaxUpdates, Finish(i)
  PROVE  CatalogIInv'
<1>1. /\ refresh[i].state = "running" /\ i \in kept
      /\ UNCHANGED <<updates, kept, discovery, saved, late>> /\ unread \in 0..updates
      /\ MaxUpdates \in Nat /\ updates \in 0..MaxUpdates
      /\ refresh \in [1..MaxUpdates -> Report]
      /\ models \in [Providers -> 0..MaxUpdates]
  BY CatalogAssumption DEF Finish, Running, CatalogIInv, CatalogTypeOK, Report
<1>2. \A j \in 1..MaxUpdates : refresh[j].state = "running" => j = i
  BY <1>1 DEF CatalogIInv, OneRuns
<1>3. i = updates
  BY <1>1 DEF CatalogIInv, OneRuns
<1>4. \A p \in Providers : models[p] < i /\ (refresh[i].results[p] = "updated" <=> p \in saved)
  BY <1>1 DEF CatalogIInv, FileIsOlder, CollectedIsSaved
<1>5. /\ Results(i) \in [Providers -> Reports]
      /\ \A p \in Providers : Results(i)[p] # "none" /\ (Results(i)[p] = "updated" <=> p \in saved)
  <2>1. refresh[i].results \in [Providers -> Reports]
    BY <1>1 DEF Report
  <2>2. QED BY <1>4, <2>1 DEF Results, Reports
<1> DEFINE taken == [p \in Providers |-> IF p \in saved THEN "failed" ELSE Results(i)[p]]
<1>6. /\ taken \in [Providers -> Reports]
      /\ \A p \in Providers : taken[p] # "none" /\ taken[p] # "updated"
  BY <1>5 DEF Reports
<1>7. PICK results \in [Providers -> Reports], error \in BOOLEAN :
        /\ unread' \in {unread, i}
        /\ refresh' = [refresh EXCEPT ![i] = [state |-> "finished", results |-> results,
                                              error |-> error]]
        /\ models' \in [Providers -> 0..MaxUpdates]
        /\ \A p \in Providers :
             /\ results[p] # "none"
             /\ \/ models'[p] = i /\ results[p] = "updated"
                \/ models'[p] = models[p] /\ results[p] # "updated"
                \/ models'[p] = 0 /\ unread' = i /\ results[p] # "updated"
  <2>1. CASE /\ _save(i)
             /\ refresh' = [refresh EXCEPT ![i] = [state |-> "finished", results |-> Results(i),
                                                   error |-> FALSE]]
    <3>1. /\ models' \in [Providers -> 0..MaxUpdates] /\ unread' \in {unread, i}
          /\ \A p \in Providers : \/ models'[p] = IF p \in saved THEN i ELSE models[p]
                                  \/ unread' = i /\ models'[p] = IF p \in saved THEN i ELSE 0
      <4>1. i \in 0..MaxUpdates /\ 0 \in 0..MaxUpdates
        BY <1>1
      <4>2. CASE models' = [p \in Providers |-> IF p \in saved THEN i ELSE models[p]] /\ unread' = unread
        BY <1>1, <4>1, <4>2
      <4>3. CASE models' = [p \in Providers |-> IF p \in saved THEN i ELSE 0] /\ unread' = i
        BY <1>1, <4>1, <4>3
      <4>4. QED BY <2>1, <4>2, <4>3 DEF _save
    <3>2. \A p \in Providers :
             /\ Results(i)[p] # "none"
             /\ \/ models'[p] = i /\ Results(i)[p] = "updated"
                \/ models'[p] = models[p] /\ Results(i)[p] # "updated"
                \/ models'[p] = 0 /\ unread' = i /\ Results(i)[p] # "updated"
      BY <1>5, <3>1
    <3>3. QED BY <1>5, <2>1, <3>1, <3>2, Zenon
  <2>2. CASE /\ refresh' = [refresh EXCEPT ![i] = [state |-> "finished", error |-> TRUE,
                                                   results |-> taken]]
             /\ UNCHANGED <<models, unread>>
    <3> HIDE DEF taken
    <3>1. refresh' = [refresh EXCEPT ![i] = [state |-> "finished", results |-> taken,
                                             error |-> TRUE]]
      BY <2>2
    <3>2. models' = models /\ unread' = unread
      BY <2>2
    <3>3. QED BY <1>1, <1>6, <3>1, <3>2, Zenon
  <2>3. QED BY <2>1, <2>2 DEF Finish
<1>8. /\ refresh' \in [1..MaxUpdates -> Report]
      /\ refresh'[i].state = "finished" /\ refresh'[i].results = results
      /\ \A j \in 1..MaxUpdates : j # i => refresh'[j] = refresh[j]
  <2>1. [state |-> "finished", results |-> results, error |-> error] \in Report
    BY DEF Report
  <2>2. QED BY <1>1, <1>7, <2>1
<1>9. CatalogTypeOK'
  <2>1. unread' \in 0..updates'
    BY <1>1, <1>3, <1>7
  <2>2. QED BY <1>1, <1>7, <1>8, <2>1 DEF CatalogIInv, CatalogTypeOK, Report
<1>10. \A j \in 1..MaxUpdates : refresh'[j].state # "running"
  BY <1>2, <1>8
<1>11. OneRuns' /\ CollectedIsSaved'
  BY <1>10 DEF OneRuns, CollectedIsSaved
<1>12. FileIsOlder'
  BY <1>1, <1>3, <1>4, <1>7, <1>10 DEF FileIsOlder, CatalogIInv
<1>13. ReportIsTrue'
  <2>1. ASSUME NEW j \in 1..updates, refresh'[j].state = "finished", NEW p \in Providers
        PROVE  /\ refresh'[j].results[p] # "none"
               /\ refresh'[j].results[p] = "updated" => models'[p] >= j \/ unread' > j
               /\ models'[p] = j => refresh'[j].results[p] = "updated"
    <3>1. j \in 1..MaxUpdates /\ j <= i
      BY <1>1, <1>3
    <3>2. CASE j = i
      BY <1>1, <1>4, <1>7, <1>8, <3>2
    <3>3. CASE j # i
      <4>1. refresh'[j] = refresh[j]
        BY <1>8, <3>1, <3>3
      <4>2. /\ refresh[j].results[p] # "none"
            /\ refresh[j].results[p] = "updated" => models[p] >= j \/ unread > j
            /\ models[p] = j => refresh[j].results[p] = "updated"
        BY <2>1, <4>1 DEF CatalogIInv, ReportIsTrue
      <4>3. /\ models'[p] = i \/ models'[p] = models[p] \/ (models'[p] = 0 /\ unread' = i)
            /\ unread' \in {unread, i}
        BY <1>7
      <4>4. QED BY <1>1, <3>1, <3>3, <4>1, <4>2, <4>3
    <3>4. QED BY <3>2, <3>3
  <2>2. QED BY <1>1, <2>1 DEF ReportIsTrue
<1>14. QED BY <1>9, <1>11, <1>12, <1>13 DEF CatalogIInv

LEMMA CatalogCrashStep ==
  ASSUME CatalogIInv, CatalogCrash
  PROVE  CatalogIInv'
<1>1. /\ kept' = {} /\ UNCHANGED <<updates, discovery, saved, late, models, unread>>
      /\ refresh' = [i \in 1..MaxUpdates |-> IF i \in kept
                                             THEN [refresh[i] EXCEPT !.state = "forgotten"]
                                             ELSE refresh[i]]
      /\ refresh \in [1..MaxUpdates -> Report] /\ MaxUpdates \in Nat /\ updates \in 0..MaxUpdates
  BY CatalogAssumption DEF CatalogCrash, CatalogIInv, CatalogTypeOK, Report
<1>2. \A i \in 1..MaxUpdates :
        /\ refresh'[i] \in Report
        /\ (refresh'[i] = refresh[i] /\ i \notin kept) \/ refresh'[i].state = "forgotten"
  BY <1>1 DEF Report
<1>3. CatalogTypeOK'
  <2>1. refresh' \in [1..MaxUpdates -> Report]
    BY <1>1, <1>2
  <2>2. QED BY <1>1, <2>1 DEF CatalogIInv, CatalogTypeOK, Report
<1>4. \A i \in 1..MaxUpdates : refresh'[i].state # "running"
  BY <1>2 DEF CatalogIInv, OneRuns
<1>5. OneRuns' /\ FileIsOlder' /\ CollectedIsSaved'
  BY <1>1, <1>4 DEF CatalogIInv, OneRuns, FileIsOlder, CollectedIsSaved
<1>6. ReportIsTrue'
  <2>1. \A i \in 1..updates : i \in 1..MaxUpdates
    BY <1>1
  <2>2. \A i \in 1..updates : refresh'[i].state = "finished" => refresh'[i] = refresh[i]
    BY <1>2, <2>1
  <2>3. QED BY <1>1, <2>2 DEF CatalogIInv, ReportIsTrue
<1>7. QED BY <1>3, <1>5, <1>6 DEF CatalogIInv

LEMMA CatalogStep ==
  ASSUME CatalogIInv, [CatalogNext]_catalogVars
  PROVE  CatalogIInv'
<1>1. CASE start
  BY <1>1, StartStep
<1>2. CASE DeadlinePasses
  BY <1>2 DEF DeadlinePasses, CatalogIInv, CatalogTypeOK, OneRuns, FileIsOlder, CollectedIsSaved,
              ReportIsTrue
<1>3. CASE CatalogCrash
  BY <1>3, CatalogCrashStep
<1>4. ASSUME NEW p \in Providers, Discover(p) PROVE CatalogIInv'
  <2>1. PICK outcome \in discover(p) : discovery' = [discovery EXCEPT ![p] = outcome]
    BY <1>4 DEF Discover
  <2>2. outcome \in {"found", "failed", "timed_out"}
    BY DiscoverType
  <2>3. discovery' \in [Providers -> {"idle", "working", "found", "failed", "timed_out"}]
    BY <2>1, <2>2 DEF CatalogIInv, CatalogTypeOK
  <2>4. UNCHANGED <<updates, kept, refresh, saved, late, models, unread>>
    BY <1>4 DEF Discover
  <2>5. QED BY <2>3, <2>4 DEF CatalogIInv, CatalogTypeOK, OneRuns, FileIsOlder, CollectedIsSaved,
                              ReportIsTrue
<1>5. ASSUME NEW i \in 1..MaxUpdates, NEW p \in Providers, Collect(i, p) PROVE CatalogIInv'
  BY <1>5, CollectStep
<1>6. ASSUME NEW i \in 1..MaxUpdates, Finish(i) PROVE CatalogIInv'
  BY <1>6, FinishStep
<1>7. CASE UNCHANGED catalogVars
  BY <1>7 DEF catalogVars, CatalogIInv, CatalogTypeOK, OneRuns, FileIsOlder, CollectedIsSaved,
              ReportIsTrue
<1>8. QED BY <1>1, <1>2, <1>3, <1>4, <1>5, <1>6, <1>7 DEF CatalogNext

(* What an update that _execute has finished reports of a provider agrees    *)
(* with the file, whatever was late, failed, or could not be saved.          *)
THEOREM ReportsAreTrue == CatalogSpec => [](CatalogTypeOK /\ ReportIsTrue)
<1>1. CatalogInit => CatalogIInv
  BY CatalogInitial
<1>2. CatalogIInv /\ [CatalogNext]_catalogVars => CatalogIInv'
  BY CatalogStep
<1>3. QED BY <1>1, <1>2, PTL DEF CatalogSpec, CatalogIInv

-----------------------------------------------------------------------------
(***************************************************************************)
(* The recorded rates are real for every number of cores, however slow the *)
(* probes are and whatever restarts.  What has to be known before a probe  *)
(* is how far the counter can have gone since the last reading, as long as *)
(* no probe has failed since: then that reading was made the recorded      *)
(* delay after the begin of the pass before.                               *)
(***************************************************************************)
ReadAt == (IF pass = "probing" THEN last - elapsed ELSE last) + delay

(* A restart takes the counter back, never beyond what the time allows.     *)
Growth == last_usec # NoReading /\ ~missed =>
            ReadAt <= now /\ counter - last_usec <= Cores * (now - ReadAt)

TelemetryIInv == TelemetryTypeOK /\ Growth /\ RateIsReal

LEMMA OneMore ==
  ASSUME NEW c \in Nat, NEW n \in Nat
  PROVE  c * (n + 1) = c * n + c /\ c * n \in Nat
OBVIOUS

LEMMA Monotone ==
  ASSUME NEW c \in Nat, NEW m \in Nat, NEW n \in Nat, n - m \in Nat
  PROVE  c * m <= c * n
<1>1. n = m + (n - m) /\ c * (m + (n - m)) = c * m + c * (n - m)
  OBVIOUS
<1>2. c * (n - m) \in Nat /\ c * m \in Nat
  OBVIOUS
<1>3. QED BY <1>1, <1>2

LEMMA NoRateType ==
  /\ NoRate \in [delta : Nat, elapsed : 0..MaxTime, missed : BOOLEAN, late : BOOLEAN]
  /\ NoRate.delta = 0 /\ NoRate.elapsed = 0
<1>1. 0 \in Nat /\ 0 \in 0..MaxTime
  BY TelemetryAssumption
<1>2. QED BY <1>1, Zenon DEF NoRate

LEMMA NoRateIsReal == sample' = NoRate => RateIsReal'
<1>1. Cores \in Nat /\ Cores * 0 = 0
  BY TelemetryAssumption
<1>2. QED BY <1>1, NoRateType DEF RateIsReal

LEMMA TelemetryInitial == TelemetryInit => TelemetryIInv
<1> SUFFICES ASSUME TelemetryInit PROVE TelemetryIInv
  OBVIOUS
<1>1. Cores \in Nat /\ MaxTime \in Nat /\ Cores * 0 = 0
  BY TelemetryAssumption
<1>2. TelemetryTypeOK
  <2>1. sample \in [delta : Nat, elapsed : 0..MaxTime, missed : BOOLEAN, late : BOOLEAN]
    BY NoRateType DEF TelemetryInit
  <2>2. /\ now \in 0..MaxTime /\ last \in 0..now /\ elapsed \in 0..last /\ delay \in 0..MaxTime
        /\ counter \in Nat /\ last_usec \in Nat \cup {NoReading}
    BY <1>1 DEF TelemetryInit
  <2>3. pass \in {"waiting", "probing"} /\ missed \in BOOLEAN
    BY DEF TelemetryInit
  <2>4. QED BY <2>1, <2>2, <2>3 DEF TelemetryTypeOK
<1>3. Growth
  BY DEF TelemetryInit, Growth
<1>4. RateIsReal
  BY <1>1, NoRateType DEF TelemetryInit, RateIsReal
<1>5. QED BY <1>2, <1>3, <1>4 DEF TelemetryIInv

LEMMA ProbeStep ==
  ASSUME TelemetryIInv, sample_once
  PROVE  TelemetryIInv'
<1>1. /\ Cores \in Nat /\ MaxTime \in Nat
      /\ TelemetryTypeOK /\ Growth /\ RateIsReal
  BY TelemetryAssumption DEF TelemetryIInv
<1>2. /\ now \in 0..MaxTime /\ last \in 0..now /\ elapsed \in 0..last /\ delay \in 0..MaxTime
      /\ counter \in Nat /\ last_usec \in Nat \cup {NoReading} /\ missed \in BOOLEAN
  BY <1>1 DEF TelemetryTypeOK
<1>3. pass = "probing" /\ pass' = "waiting" /\ UNCHANGED <<now, counter, last, elapsed>>
  BY DEF sample_once
<1>4. CASE /\ sample' = compute_cpu_cores(last_usec, counter, elapsed)
           /\ last_usec' = counter /\ delay' = now - last /\ missed' = FALSE
  <2>1. /\ now' \in 0..MaxTime /\ last' \in 0..now' /\ elapsed' \in 0..last'
        /\ counter' \in Nat /\ last_usec' \in Nat \cup {NoReading}
    BY <1>1, <1>2, <1>3, <1>4
  <2>2. delay' \in 0..MaxTime
    BY <1>1, <1>2, <1>4
  <2>3. pass' \in {"waiting", "probing"} /\ missed' \in BOOLEAN
    BY <1>3, <1>4
  <2>4. Growth'
    <3>1. ReadAt' = now' /\ now' - ReadAt' = 0 /\ Cores * 0 = 0 /\ counter' - last_usec' = 0
      BY <1>1, <1>2, <1>3, <1>4 DEF ReadAt
    <3>2. Cores * (now' - ReadAt') = 0
      BY <3>1
    <3>3. ReadAt' <= now'
      BY <1>2, <1>3, <3>1
    <3>4. QED BY <3>1, <3>2, <3>3 DEF Growth
  <2>5. CASE last_usec = NoReading \/ elapsed <= 0 \/ counter < last_usec
    <3>1. sample' = NoRate
      BY <1>4, <2>5 DEF compute_cpu_cores
    <3>2. TelemetryTypeOK'
      BY <2>1, <2>2, <2>3, <3>1, NoRateType DEF TelemetryTypeOK
    <3>3. QED BY <2>4, <3>1, <3>2, NoRateIsReal DEF TelemetryIInv
  <2>6. CASE ~(last_usec = NoReading \/ elapsed <= 0 \/ counter < last_usec)
    <3>1. sample' = [delta |-> counter - last_usec, elapsed |-> elapsed, missed |-> missed,
                     late |-> now - last > delay]
      BY <1>4, <2>6 DEF compute_cpu_cores
    <3>2. counter - last_usec \in Nat /\ elapsed \in 0..MaxTime /\ (now - last > delay) \in BOOLEAN
      BY <1>1, <1>2, <2>6
    <3>3. /\ sample'.delta = counter - last_usec /\ sample'.elapsed = elapsed
          /\ sample'.missed = missed /\ sample'.late = (now - last > delay)
      BY <3>1, Zenon
    <3>4. ASSUME ~missed, ~(now - last > delay) PROVE counter - last_usec <= Cores * elapsed
      <4>1. ReadAt = (last - elapsed) + delay
        BY <1>3 DEF ReadAt
      <4>2. counter - last_usec <= Cores * (now - ReadAt) /\ ReadAt <= now
        BY <1>1, <2>6, <3>4 DEF Growth
      <4>3. now - ReadAt \in Nat /\ elapsed - (now - ReadAt) \in Nat /\ elapsed \in Nat
        BY <1>1, <1>2, <3>4, <4>1, <4>2
      <4>4. Cores * (now - ReadAt) <= Cores * elapsed
        BY <1>1, <4>3, Monotone
      <4>5. Cores * (now - ReadAt) \in Nat /\ Cores * elapsed \in Nat
        BY <1>1, <4>3, OneMore
      <4>6. QED BY <3>2, <4>2, <4>4, <4>5
    <3>5. RateIsReal'
      <4>1. UNCHANGED Cores
        OBVIOUS
      <4>2. sample'.delta >= 0
        BY <3>2, <3>3
      <4>3. sample'.delta <= Cores * sample'.elapsed \/ sample'.missed \/ sample'.late
        BY <3>3, <3>4, Zenon
      <4>4. QED BY <4>2, <4>3 DEF RateIsReal
    <3>6. TelemetryTypeOK'
      <4>1. sample' \in [delta : Nat, elapsed : 0..MaxTime, missed : BOOLEAN, late : BOOLEAN]
        BY <1>2, <3>1, <3>2, Zenon
      <4>2. QED BY <2>1, <2>2, <2>3, <4>1 DEF TelemetryTypeOK
    <3>7. QED BY <2>4, <3>5, <3>6 DEF TelemetryIInv
  <2>7. QED BY <2>5, <2>6
<1>5. CASE sample' = NoRate /\ missed' = TRUE /\ UNCHANGED <<last_usec, delay>>
  <2>1. TelemetryTypeOK'
    BY <1>1, <1>2, <1>3, <1>5, NoRateType DEF TelemetryTypeOK
  <2>2. Growth'
    BY <1>5 DEF Growth
  <2>3. QED BY <1>5, <2>1, <2>2, NoRateIsReal DEF TelemetryIInv
<1>6. QED BY <1>4, <1>5 DEF sample_once

LEMMA TelemetryStep ==
  ASSUME TelemetryIInv, [TelemetryNext]_telemetryVars
  PROVE  TelemetryIInv'
<1>1. /\ Cores \in Nat /\ MaxTime \in Nat
      /\ TelemetryTypeOK /\ Growth /\ RateIsReal
  BY TelemetryAssumption DEF TelemetryIInv
<1>2. /\ now \in 0..MaxTime /\ last \in 0..now /\ elapsed \in 0..last /\ delay \in 0..MaxTime
      /\ counter \in Nat /\ last_usec \in Nat \cup {NoReading} /\ missed \in BOOLEAN
      /\ pass \in {"waiting", "probing"}
  BY <1>1 DEF TelemetryTypeOK
<1>3. ReadAt \in Nat /\ (ReadAt <= now => now - ReadAt \in Nat /\ Cores * (now - ReadAt) \in Nat)
  <2>1. ReadAt \in Nat
    BY <1>1, <1>2 DEF ReadAt
  <2>2. ReadAt <= now => now - ReadAt \in Nat
    BY <1>1, <1>2, <2>1
  <2>3. QED BY <1>1, <2>1, <2>2, OneMore
<1>4. CASE TimePasses
  <2>1. PICK used \in 0..Cores : counter' = counter + used
    BY <1>4 DEF TimePasses
  <2>2. /\ now' = now + 1 /\ now < MaxTime
        /\ UNCHANGED <<pass, last, elapsed, last_usec, delay, missed, sample>>
    BY <1>4 DEF TimePasses
  <2>3. Growth'
    <3> SUFFICES ASSUME last_usec # NoReading, ~missed
                 PROVE  ReadAt' <= now' /\ counter' - last_usec' <= Cores * (now' - ReadAt')
      BY <2>2 DEF Growth
    <3>1. ReadAt <= now /\ counter - last_usec <= Cores * (now - ReadAt)
      BY <1>1 DEF Growth
    <3>2. ReadAt' = ReadAt
      BY <2>2 DEF ReadAt
    <3>3. now' - ReadAt' = (now - ReadAt) + 1 /\ ReadAt' <= now'
      BY <1>2, <1>3, <2>2, <3>1, <3>2
    <3>4. Cores * (now' - ReadAt') = Cores * (now - ReadAt) + Cores
      BY <1>1, <1>3, <3>1, <3>3, OneMore
    <3>5. last_usec \in Nat
      BY <1>2
    <3>6. QED BY <1>1, <1>2, <1>3, <2>1, <2>2, <3>1, <3>3, <3>4, <3>5
  <2>4. TelemetryTypeOK'
    BY <1>1, <1>2, <2>1, <2>2 DEF TelemetryTypeOK
  <2>5. RateIsReal'
    BY <1>1, <2>2 DEF RateIsReal
  <2>6. QED BY <2>3, <2>4, <2>5 DEF TelemetryIInv
<1>5. CASE ContainerRestarts
  <2>1. /\ counter' = 0 /\ ReadAt' = ReadAt
        /\ UNCHANGED <<now, pass, last, elapsed, last_usec, delay, missed, sample>>
    BY <1>5 DEF ContainerRestarts, ReadAt
  <2>2. Growth'
    <3>1. last_usec # NoReading => last_usec \in Nat
      BY <1>2
    <3>2. QED BY <1>1, <1>3, <2>1, <3>1 DEF Growth
  <2>3. TelemetryTypeOK' /\ RateIsReal'
    BY <1>1, <1>2, <2>1 DEF TelemetryTypeOK, RateIsReal
  <2>4. QED BY <2>2, <2>3 DEF TelemetryIInv
<1>6. CASE _loop
  <2>1. /\ pass = "waiting" /\ pass' = "probing" /\ elapsed' = now - last /\ last' = now
        /\ UNCHANGED <<now, counter, last_usec, delay, missed, sample>>
    BY <1>6 DEF _loop
  <2>2. TelemetryTypeOK'
    BY <1>1, <1>2, <2>1 DEF TelemetryTypeOK
  <2>3. ReadAt' = ReadAt
    BY <1>2, <2>1 DEF ReadAt
  <2>4. Growth' /\ RateIsReal'
    BY <1>1, <2>1, <2>3 DEF Growth, RateIsReal
  <2>5. QED BY <2>2, <2>4 DEF TelemetryIInv
<1>7. CASE sample_once
  BY <1>7, ProbeStep
<1>8. CASE UNCHANGED telemetryVars
  BY <1>1, <1>8 DEF telemetryVars, TelemetryIInv, TelemetryTypeOK, Growth, ReadAt, RateIsReal
<1>9. QED BY <1>4, <1>5, <1>6, <1>7, <1>8 DEF TelemetryNext

(* A rate that sample_once records leaves the range from 0 to the cores of    *)
(* the container only after a failed probe, or if this reading came later in  *)
(* its pass than the last one.                                                *)
THEOREM RatesAreReal == TelemetrySpec => [](TelemetryTypeOK /\ RateIsReal)
<1>1. TelemetryInit => TelemetryIInv
  BY TelemetryInitial
<1>2. TelemetryIInv /\ [TelemetryNext]_telemetryVars => TelemetryIInv'
  BY TelemetryStep
<1>3. QED BY <1>1, <1>2, PTL DEF TelemetrySpec, TelemetryIInv
=============================================================================
