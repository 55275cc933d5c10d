--------------------------- MODULE WorkspaceProofs ---------------------------
(***************************************************************************)
(* The registry that is read is well formed whatever overlaps (Listed of   *)
(* every file and of everything that will be saved), and a save that is    *)
(* alone loses no workspace (Serial: it replaces what it has loaded, with  *)
(* exactly what it has written), unless it did not read the registry.      *)
(***************************************************************************)
EXTENDS Workspace, FiniteSetTheorems, TLAPS

USE WorkspaceAssumption

Listed(r) == r.active # NoPath => r.active \in r.known
AllListed == /\ \A name \in {"registry", "tmp"} : Listed(file[name])
             /\ \A s \in Savers : Listed(saver[s].registry)
Targets   == \A k \in Clones : clone[k].queued \/ k \in cloning =>
               /\ clone[k].target \in Paths /\ clone[k].state = "running"
               /\ k \in cloning => ~clone[k].queued

WorkspaceShape == WorkspaceTypeOK /\ AllListed /\ Targets

(* A save at work.  Alone, it will write everything that is listed now but  *)
(* what it forgets, and the .tmp is its own.                                *)
Busy(s) == saver[s].step \in {"open", "write", "replace"}
Keeps(s) == \/ saver[s].blind
            \/ \A p \in registry_read.known :
                 p \in saver[s].registry.known \/ (s \in Users /\ saver[s].forgets = p)
Own(s) == /\ saver[s].step \in {"write", "replace"} => saver[s].on = "tmp"
          /\ saver[s].step = "write" => file["tmp"].state = "bad"
          /\ saver[s].step = "replace" => file["tmp"] = saver[s].registry
Serial == ~overlap =>
            /\ \A s, t \in Savers : Busy(s) /\ Busy(t) => s = t
            /\ \A s \in Savers : Busy(s) => /\ saver[s].registry.state = "ok"
                                            /\ Keeps(s) /\ Own(s)

WorkspaceIInv == WorkspaceShape /\ Serial

-----------------------------------------------------------------------------
LEMMA EmptyTypes ==
  /\ EmptyRegistry \in Contents /\ NoFile \in Contents /\ Damaged \in Contents
  /\ Listed(EmptyRegistry) /\ Listed(NoFile) /\ Listed(Damaged)
  /\ NoSave \in Saves /\ Listed(NoSave.registry) /\ NoSave.step = "idle"
  /\ Damaged.state = "bad" /\ EmptyRegistry.state = "ok" /\ NoFile.state = "missing"
BY DEF EmptyRegistry, NoFile, Damaged, Contents, Listed, NoSave, Saves, NoPath

LEMMA LoadedType ==
  ASSUME WorkspaceShape
  PROVE  \A r \in load_registry : r \in Contents /\ Listed(r) /\ r.state = "ok"
<1>1. file["registry"] \in Contents /\ Listed(file["registry"])
  BY DEF WorkspaceShape, WorkspaceTypeOK, AllListed
<1>2. registry_read \in Contents /\ Listed(registry_read) /\ registry_read.state = "ok"
  BY <1>1, EmptyTypes DEF registry_read
<1>3. QED BY <1>2, EmptyTypes DEF load_registry

LEMMA OperationTypes ==
  ASSUME NEW r \in Contents, Listed(r), r.state = "ok", NEW p \in Paths
  PROVE  /\ Registered(r, p) \in Contents /\ Listed(Registered(r, p))
         /\ Registered(r, p).state = "ok" /\ r.known \subseteq Registered(r, p).known
         /\ Forgotten(r, p) \in Contents /\ Listed(Forgotten(r, p))
         /\ Forgotten(r, p).state = "ok" /\ Forgotten(r, p).known = r.known \ {p}
<1>1. Registered(r, p) \in Contents /\ Listed(Registered(r, p))
      /\ Registered(r, p).state = "ok" /\ r.known \subseteq Registered(r, p).known
  BY DEF Registered, Contents, Listed
<1>2. Forgotten(r, p) \in Contents /\ Forgotten(r, p).state = "ok"
      /\ Forgotten(r, p).known = r.known \ {p}
      /\ Forgotten(r, p).active = IF r.active = p THEN NoPath ELSE r.active
  BY DEF Forgotten, Contents
<1>3. Listed(Forgotten(r, p))
  BY <1>2 DEF Listed
<1>4. QED BY <1>1, <1>2, <1>3

LEMMA ClearedType ==
  ASSUME NEW r \in Contents, r.state = "ok"
  PROVE  /\ Cleared(r) \in Contents /\ Listed(Cleared(r))
         /\ Cleared(r).state = "ok" /\ r.known = Cleared(r).known
BY DEF Cleared, Contents, Listed

(* What all steps that begin a save have in common.                         *)
LEMMA BeginStep ==
  ASSUME WorkspaceIInv, NEW s \in Savers, NEW r \in Contents, NEW f \in Paths \cup {NoPath},
         Listed(r), r.state = "ok", NEW loaded, Begin(s, r, loaded, f),
         UNCHANGED <<overlap, file, dir, clone, cloning>>,
         \A p \in loaded.known : p \in r.known \/ (s \in Users /\ f = p)
  PROVE  WorkspaceIInv'
<1> DEFINE new == Saving(r, loaded, f)
<1>0. Calm /\ saver' = [saver EXCEPT ![s] = new]
  BY DEF Begin
<1>1. /\ new \in Saves /\ new.step = "open" /\ new.registry = r /\ new.forgets = f
      /\ new.blind \/ loaded = registry_read
  BY DEF Saves, Saving
<1> HIDE DEF new
<1>2. saver \in [Savers -> Saves]
  BY DEF WorkspaceIInv, WorkspaceShape, WorkspaceTypeOK
<1>3. saver' \in [Savers -> Saves] /\ \A t \in Savers : saver'[t] = IF t = s THEN new ELSE saver[t]
  BY <1>0, <1>1, <1>2
<1>4. registry_read' = registry_read
  BY DEF registry_read
<1>5. WorkspaceShape'
  <2>1. WorkspaceTypeOK'
    BY <1>3 DEF WorkspaceIInv, WorkspaceShape, WorkspaceTypeOK
  <2>2. AllListed'
    BY <1>1, <1>3 DEF WorkspaceIInv, WorkspaceShape, AllListed
  <2>3. Targets'
    BY DEF WorkspaceIInv, WorkspaceShape, Targets
  <2>4. QED BY <2>1, <2>2, <2>3 DEF WorkspaceShape
<1>6. ASSUME ~overlap PROVE \A t \in Savers : Busy(t)' => t = s
  BY <1>0, <1>3, <1>6 DEF Calm, Busy
<1>7. Serial'
  <2>1. Keeps(s)' /\ Own(s)' /\ saver'[s].registry.state = "ok"
    BY <1>1, <1>3, <1>4 DEF Keeps, Own
  <2>2. QED BY <1>6, <2>1 DEF Serial
<1>8. QED BY <1>5, <1>7 DEF WorkspaceIInv

(* A step after which every saver is as before, or neither saves nor holds  *)
(* anything unlisted, and which leaves the files alone.                     *)
LEMMA QuietStep ==
  ASSUME WorkspaceIInv, WorkspaceTypeOK', Targets', UNCHANGED <<overlap, file>>,
         \A s \in Savers : \/ saver'[s] = saver[s]
                           \/ Listed(saver'[s].registry) /\ ~Busy(s)'
  PROVE  WorkspaceIInv'
<1>1. registry_read' = registry_read
  BY DEF registry_read
<1>2. AllListed'
  BY DEF WorkspaceIInv, WorkspaceShape, AllListed
<1>3. \A s \in Savers : Busy(s)' => Busy(s) /\ saver'[s] = saver[s]
  BY DEF Busy
<1>4. ASSUME ~overlap PROVE \A s, t \in Savers : Busy(s)' /\ Busy(t)' => s = t
  BY <1>3, <1>4 DEF WorkspaceIInv, Serial
<1>5. ASSUME ~overlap, NEW s \in Savers, Busy(s)'
      PROVE  saver'[s].registry.state = "ok" /\ Keeps(s)' /\ Own(s)'
  <2>1. Busy(s) /\ saver'[s] = saver[s]
    BY <1>3, <1>5
  <2>2. saver[s].registry.state = "ok" /\ Keeps(s) /\ Own(s)
    BY <1>5, <2>1 DEF WorkspaceIInv, Serial
  <2>3. QED BY <1>1, <2>1, <2>2 DEF Keeps, Own
<1>6. QED BY <1>2, <1>4, <1>5 DEF WorkspaceIInv, WorkspaceShape, Serial

LEMMA WorkspaceInitial == WorkspaceInit => WorkspaceIInv
<1> SUFFICES ASSUME WorkspaceInit PROVE WorkspaceIInv
  OBVIOUS
<1>1. WorkspaceTypeOK
  BY EmptyTypes DEF WorkspaceInit, WorkspaceTypeOK, NoClone
<1>2. AllListed
  BY EmptyTypes DEF WorkspaceInit, AllListed
<1>3. Targets
  BY DEF WorkspaceInit, Targets, NoClone
<1>4. Serial
  BY EmptyTypes DEF WorkspaceInit, Serial, Busy
<1>5. QED BY <1>1, <1>2, <1>3, <1>4 DEF WorkspaceIInv, WorkspaceShape

-----------------------------------------------------------------------------
(* The steps of a save.                                                     *)
LEMMA OpenTmpStep ==
  ASSUME WorkspaceIInv, NEW s \in Savers, OpenTmp(s)
  PROVE  WorkspaceIInv'
<1>1. WorkspaceTypeOK /\ AllListed /\ Targets /\ saver[s] \in Saves
  BY DEF WorkspaceIInv, WorkspaceShape, WorkspaceTypeOK
<1>2. /\ saver' = [saver EXCEPT ![s] = [saver[s] EXCEPT !.step = "write", !.on = "tmp"]]
      /\ file' = [file EXCEPT !["tmp"] = Damaged]
      /\ UNCHANGED <<overlap, dir, clone, cloning>> /\ saver[s].step = "open"
  BY <1>1 DEF OpenTmp, WorkspaceTypeOK
<1>3. [saver[s] EXCEPT !.step = "write", !.on = "tmp"] \in Saves
  BY <1>1 DEF Saves
<1>4. /\ \A t \in Savers \ {s} : saver'[t] = saver[t]
      /\ saver'[s].step = "write" /\ saver'[s].on = "tmp"
      /\ saver'[s].registry = saver[s].registry /\ saver'[s].forgets = saver[s].forgets
      /\ saver'[s].blind = saver[s].blind
      /\ file'["registry"] = file["registry"] /\ file'["tmp"] = Damaged
  BY <1>1, <1>2 DEF WorkspaceTypeOK, Saves
<1>5. WorkspaceTypeOK'
  BY <1>1, <1>2, <1>3, EmptyTypes DEF WorkspaceTypeOK
<1>6. AllListed'
  BY <1>1, <1>4, EmptyTypes DEF AllListed
<1>7. Targets'
  BY <1>1, <1>2 DEF Targets
<1>8. registry_read' = registry_read
  BY <1>4 DEF registry_read
<1>9. Serial'
  <2> SUFFICES ASSUME ~overlap PROVE Serial'
    BY <1>2 DEF Serial
  <2>1. Busy(s) /\ \A t \in Savers : Busy(t)' => t = s
    BY <1>2, <1>4 DEF WorkspaceIInv, Serial, Busy
  <2>2. saver[s].registry.state = "ok" /\ Keeps(s)
    BY <2>1 DEF WorkspaceIInv, Serial
  <2>3. saver'[s].registry.state = "ok" /\ Keeps(s)' /\ Own(s)'
    BY <1>4, <1>8, <2>2, EmptyTypes DEF Keeps, Own
  <2>4. QED BY <2>1, <2>3 DEF Serial
<1>10. QED BY <1>5, <1>6, <1>7, <1>9 DEF WorkspaceIInv, WorkspaceShape

LEMMA WriteTmpStep ==
  ASSUME WorkspaceIInv, NEW s \in Savers, WriteTmp(s)
  PROVE  WorkspaceIInv'
<1>1. WorkspaceTypeOK /\ AllListed /\ Targets /\ saver[s] \in Saves
  BY DEF WorkspaceIInv, WorkspaceShape, WorkspaceTypeOK
<1>2. /\ saver' = [saver EXCEPT ![s] = [saver[s] EXCEPT !.step = "replace"]]
      /\ UNCHANGED <<overlap, dir, clone, cloning>> /\ saver[s].step = "write"
  BY <1>1 DEF WriteTmp, WorkspaceTypeOK
<1>3. [saver[s] EXCEPT !.step = "replace"] \in Saves
  BY <1>1 DEF Saves
<1>4. /\ \A t \in Savers \ {s} : saver'[t] = saver[t]
      /\ saver'[s].step = "replace" /\ saver'[s].on = saver[s].on
      /\ saver'[s].registry = saver[s].registry /\ saver'[s].forgets = saver[s].forgets
      /\ saver'[s].blind = saver[s].blind
  BY <1>1, <1>2 DEF WorkspaceTypeOK, Saves
<1>5. \/ file' = file /\ saver[s].on = "gone"
      \/ \E content \in {saver[s].registry, Damaged} :
           /\ file' = [file EXCEPT ![saver[s].on] = content] /\ saver[s].on \in {"tmp", "registry"}
           /\ file[saver[s].on].state # "ok" => content = saver[s].registry
  BY <1>1 DEF WriteTmp, Saves
<1>6. WorkspaceTypeOK' /\ AllListed'
  <2>1. file' \in [{"registry", "tmp"} -> Contents] /\ \A name \in {"registry", "tmp"} : Listed(file'[name])
    BY <1>1, <1>5, EmptyTypes DEF WorkspaceTypeOK, AllListed, Saves
  <2>2. WorkspaceTypeOK'
    BY <1>1, <1>2, <1>3, <2>1 DEF WorkspaceTypeOK
  <2>3. AllListed'
    BY <1>1, <1>4, <2>1 DEF AllListed
  <2>4. QED BY <2>2, <2>3
<1>7. Targets'
  BY <1>1, <1>2 DEF Targets
<1>8. Serial'
  <2> SUFFICES ASSUME ~overlap PROVE Serial'
    BY <1>2 DEF Serial
  <2>1. Busy(s) /\ \A t \in Savers : Busy(t)' => t = s
    BY <1>2, <1>4 DEF WorkspaceIInv, Serial, Busy
  <2>2. saver[s].registry.state = "ok" /\ Keeps(s) /\ Own(s)
    BY <2>1 DEF WorkspaceIInv, Serial
  <2>3. saver[s].on = "tmp" /\ file["tmp"].state = "bad"
    BY <1>2, <2>2 DEF Own
  <2>4. file' = [file EXCEPT !["tmp"] = saver[s].registry]
    BY <1>5, <2>3
  <2>5. file'["registry"] = file["registry"] /\ file'["tmp"] = saver[s].registry
    BY <1>1, <2>4 DEF WorkspaceTypeOK
  <2>6. registry_read' = registry_read
    BY <2>5 DEF registry_read
  <2>7. saver'[s].registry.state = "ok" /\ Keeps(s)' /\ Own(s)'
    BY <1>4, <2>2, <2>3, <2>5, <2>6 DEF Keeps, Own
  <2>8. QED BY <2>1, <2>7 DEF Serial
<1>9. QED BY <1>6, <1>7, <1>8 DEF WorkspaceIInv, WorkspaceShape

(* What the rename leaves behind.                                           *)
LEMMA ReplaceStep ==
  ASSUME WorkspaceIInv, NEW s \in Savers, replace(s), UNCHANGED <<overlap, dir>>
  PROVE  /\ saver' \in [Savers -> Saves] /\ file' \in [{"registry", "tmp"} -> Contents]
         /\ AllListed' /\ Serial'
<1>1. /\ WorkspaceTypeOK /\ AllListed /\ saver \in [Savers -> Saves]
      /\ file \in [{"registry", "tmp"} -> Contents] /\ saver[s].step = "replace"
  BY DEF WorkspaceIInv, WorkspaceShape, WorkspaceTypeOK, replace
<1>2. CASE file["tmp"].state = "missing"
  <2>1. saver' = [saver EXCEPT ![s] = NoSave] /\ file' = file
    BY <1>2 DEF replace
  <2>2. saver' \in [Savers -> Saves] /\ AllListed'
    BY <1>1, <2>1, EmptyTypes DEF AllListed
  <2>3. \A t \in Savers : IF t = s THEN ~Busy(t)' ELSE saver'[t] = saver[t]
    BY <1>1, <2>1, EmptyTypes DEF Busy
  <2>4. ASSUME ~overlap PROVE \A t \in Savers : ~Busy(t)'
    <3>1. Busy(s)
      BY <1>1 DEF Busy
    <3>2. \A t \in Savers : Busy(t) => t = s
      BY <2>4, <3>1 DEF WorkspaceIInv, Serial
    <3>3. QED BY <2>3, <3>2 DEF Busy
  <2>5. QED BY <1>1, <2>1, <2>2, <2>4 DEF Serial
<1>3. CASE file["tmp"].state # "missing"
  <2>1. /\ file' = [file EXCEPT !["registry"] = file["tmp"], !["tmp"] = NoFile]
        /\ saver' = [t \in Savers |->
                        IF t = s THEN NoSave
                        ELSE [saver[t] EXCEPT !.on = IF saver[t].on = "tmp" THEN "registry" ELSE "gone"]]
    BY <1>1, <1>3 DEF replace, Saves
  <2>2. \A t \in Savers : [saver[t] EXCEPT !.on = IF saver[t].on = "tmp" THEN "registry" ELSE "gone"] \in Saves
    BY <1>1 DEF Saves
  <2>3. saver' \in [Savers -> Saves]
    BY <2>1, <2>2, EmptyTypes
  <2>4. \A t \in Savers : IF t = s THEN saver'[t] = NoSave
                         ELSE saver'[t].step = saver[t].step /\ saver'[t].registry = saver[t].registry
    BY <1>1, <2>1 DEF Saves
  <2>5. file' \in [{"registry", "tmp"} -> Contents] /\ AllListed'
    BY <1>1, <2>1, <2>4, EmptyTypes DEF AllListed
  <2>6. ASSUME ~overlap PROVE \A t \in Savers : ~Busy(t)'
    <3>1. Busy(s)
      BY <1>1 DEF Busy
    <3>2. \A t \in Savers : Busy(t) => t = s
      BY <2>6, <3>1 DEF WorkspaceIInv, Serial
    <3>3. QED BY <2>4, <3>2, EmptyTypes DEF Busy
  <2>7. QED BY <2>3, <2>5, <2>6 DEF Serial
<1>4. QED BY <1>2, <1>3

(* What a save that raises leaves behind: alone, the registry as it was.     *)
LEMMA RaiseStep ==
  ASSUME WorkspaceIInv, NEW s \in Savers, save_raises(s), UNCHANGED <<overlap, dir>>
  PROVE  /\ saver' \in [Savers -> Saves] /\ file' \in [{"registry", "tmp"} -> Contents]
         /\ AllListed' /\ Serial'
         /\ ~overlap => file'["registry"] = file["registry"]
<1>1. /\ WorkspaceTypeOK /\ AllListed /\ saver \in [Savers -> Saves]
      /\ file \in [{"registry", "tmp"} -> Contents] /\ Busy(s)
  BY DEF WorkspaceIInv, WorkspaceShape, WorkspaceTypeOK, save_raises, Busy
<1>2. saver' = [saver EXCEPT ![s] = NoSave]
  BY DEF save_raises
<1>3. saver' \in [Savers -> Saves]
      /\ \A t \in Savers : saver'[t] = IF t = s THEN NoSave ELSE saver[t]
  BY <1>1, <1>2, EmptyTypes
<1>4. \/ file' = file
      \/ /\ saver[s].step = "write" /\ saver[s].on \in {"tmp", "registry"}
         /\ file' = [file EXCEPT ![saver[s].on] = Damaged]
  BY <1>1 DEF save_raises, Saves
<1>5. file' \in [{"registry", "tmp"} -> Contents]
  BY <1>1, <1>4, EmptyTypes
<1>6. AllListed'
  BY <1>1, <1>3, <1>4, EmptyTypes DEF AllListed
<1>7. ASSUME ~overlap PROVE \A t \in Savers : ~Busy(t)'
  <2>1. \A t \in Savers : Busy(t) => t = s
    BY <1>1, <1>7 DEF WorkspaceIInv, Serial
  <2>2. QED BY <1>3, <2>1, EmptyTypes DEF Busy
<1>8. Serial'
  BY <1>7 DEF Serial
<1>9. ASSUME ~overlap PROVE file'["registry"] = file["registry"]
  <2>1. saver[s].step = "write" => saver[s].on = "tmp"
    BY <1>1, <1>9 DEF WorkspaceIInv, Serial, Own
  <2>2. QED BY <1>1, <1>4, <2>1
<1>10. QED BY <1>3, <1>5, <1>6, <1>8, <1>9

-----------------------------------------------------------------------------
LEMMA SelectForgetStep ==
  ASSUME WorkspaceIInv, NEW u \in Users, NEW p \in Paths, select(u, p) \/ forget(u, p)
  PROVE  WorkspaceIInv'
<1>1. u \in Savers /\ WorkspaceShape /\ NoPath \in Paths \cup {NoPath}
  BY DEF Savers, WorkspaceIInv
<1>2. UNCHANGED <<overlap, file, dir, clone, cloning>>
  BY DEF select, forget
<1>3. PICK loaded \in load_registry : \/ Begin(u, Registered(loaded, p), loaded, NoPath)
                                       \/ Begin(u, Forgotten(loaded, p), loaded, p)
  BY DEF select, forget
<1>4. loaded \in Contents /\ Listed(loaded) /\ loaded.state = "ok"
  BY <1>1, <1>3, LoadedType
<1>5. /\ Registered(loaded, p) \in Contents /\ Listed(Registered(loaded, p))
      /\ Registered(loaded, p).state = "ok" /\ loaded.known \subseteq Registered(loaded, p).known
      /\ Forgotten(loaded, p) \in Contents /\ Listed(Forgotten(loaded, p))
      /\ Forgotten(loaded, p).state = "ok" /\ Forgotten(loaded, p).known = loaded.known \ {p}
  BY <1>4, OperationTypes
<1>6. CASE Begin(u, Registered(loaded, p), loaded, NoPath)
  BY <1>1, <1>2, <1>5, <1>6, BeginStep
<1>7. CASE Begin(u, Forgotten(loaded, p), loaded, p)
  <2>1. \A q \in loaded.known : q \in Forgotten(loaded, p).known \/ p = q
    BY <1>5
  <2>2. QED BY <1>1, <1>2, <1>5, <1>7, <2>1, BeginStep
<1>8. QED BY <1>3, <1>6, <1>7

LEMMA ClearStep ==
  ASSUME WorkspaceIInv, NEW u \in Users, clear_selection(u)
  PROVE  WorkspaceIInv'
<1>1. u \in Savers /\ WorkspaceShape /\ NoPath \in Paths \cup {NoPath}
      /\ UNCHANGED <<overlap, file, dir, clone, cloning>>
  BY DEF Savers, WorkspaceIInv, clear_selection
<1>2. PICK loaded \in load_registry : Begin(u, Cleared(loaded), loaded, NoPath)
  BY DEF clear_selection
<1>3. loaded \in Contents /\ loaded.state = "ok"
  BY <1>1, <1>2, LoadedType
<1>4. /\ Cleared(loaded) \in Contents /\ Listed(Cleared(loaded))
      /\ Cleared(loaded).state = "ok" /\ loaded.known = Cleared(loaded).known
  BY <1>3, ClearedType
<1>5. QED BY <1>1, <1>2, <1>4, BeginStep

LEMMA SaveStep ==
  ASSUME WorkspaceIInv, NEW u \in Users, Save(u) \/ SaveRaises(u)
  PROVE  WorkspaceIInv'
<1>1. u \in Savers /\ WorkspaceShape
  BY DEF Savers, WorkspaceIInv
<1>2. replace(u) \/ save_raises(u)
  BY DEF Save, SaveRaises
<1>3. UNCHANGED <<overlap, dir, clone, cloning>>
  BY DEF Save, SaveRaises
<1>4. saver' \in [Savers -> Saves] /\ file' \in [{"registry", "tmp"} -> Contents] /\ AllListed' /\ Serial'
  BY <1>1, <1>2, <1>3, ReplaceStep, RaiseStep
<1>5. WorkspaceTypeOK'
  BY <1>1, <1>3, <1>4 DEF WorkspaceShape, WorkspaceTypeOK
<1>6. Targets'
  BY <1>1, <1>3 DEF WorkspaceShape, Targets
<1>7. QED BY <1>4, <1>5, <1>6 DEF WorkspaceIInv, WorkspaceShape

LEMMA CloneStep ==
  ASSUME WorkspaceIInv, NEW k \in Clones,
         \/ start_clone(k) \/ TakeClone(k) \/ GitStarts(k) \/ CloneFails(k) \/ GitClones(k)
         \/ RegisterClone(k) \/ CloneEnds(k) \/ CloneRaises(k)
  PROVE  WorkspaceIInv'
<1>1. /\ Cloner \in Savers /\ WorkspaceShape /\ WorkspaceTypeOK /\ Targets
      /\ saver \in [Savers -> Saves] /\ dir \in [Paths -> {"absent", "partial", "repo"}]
  BY DEF Savers, WorkspaceIInv, WorkspaceShape, WorkspaceTypeOK
<1> DEFINE CloneJobs == [state : {"none", "running", "finished", "failed"},
                         target : Paths \cup {NoPath}, queued : BOOLEAN, raised : BOOLEAN]
<1>2. clone \in [Clones -> CloneJobs] /\ cloning \subseteq Clones
  BY <1>1 DEF WorkspaceTypeOK
(* The end of a clone, whatever it is.                                      *)
<1>0. ASSUME cloning' = {}, k \in cloning,
             clone' \in {Settled(k, "failed"), Settled(k, "finished"), Raised(k)}
      PROVE  clone' \in [Clones -> CloneJobs] /\ Targets'
  <2>1. PICK new \in CloneJobs : clone' = [clone EXCEPT ![k] = new] /\ new.queued = clone[k].queued
    <3>1. /\ [clone[k] EXCEPT !.state = "failed", !.target = NoPath] \in CloneJobs
          /\ [clone[k] EXCEPT !.state = "finished", !.target = NoPath] \in CloneJobs
          /\ [clone[k] EXCEPT !.raised = TRUE, !.target = NoPath] \in CloneJobs
      BY <1>2
    <3>2. \/ clone' = [clone EXCEPT ![k] = [clone[k] EXCEPT !.state = "failed", !.target = NoPath]]
          \/ clone' = [clone EXCEPT ![k] = [clone[k] EXCEPT !.state = "finished", !.target = NoPath]]
          \/ clone' = [clone EXCEPT ![k] = [clone[k] EXCEPT !.raised = TRUE, !.target = NoPath]]
      BY <1>0, <1>2 DEF Settled, Raised
    <3>3. QED BY <1>2, <3>1, <3>2
  <2>2. ~clone[k].queued
    BY <1>0, <1>1 DEF Targets
  <2>3. clone' \in [Clones -> CloneJobs]
    BY <1>2, <2>1
  <2>4. \A j \in Clones : clone'[j].queued => clone'[j] = clone[j] /\ clone[j].queued
    BY <1>2, <2>1, <2>2
  <2>5. QED BY <1>0, <1>1, <2>3, <2>4 DEF Targets
<1>3. CASE start_clone(k)
  <2>1. PICK q \in Paths : clone' = [clone EXCEPT ![k] = [state |-> "running", target |-> q, queued |-> TRUE,
                                                           raised |-> FALSE]]
    BY <1>3 DEF start_clone, _target_for
  <2>2. UNCHANGED <<overlap, file, saver, dir, cloning>>
    BY <1>3 DEF start_clone
  <2>3. [state |-> "running", target |-> q, queued |-> TRUE,
                                                           raised |-> FALSE] \in CloneJobs
    OBVIOUS
  <2>4. clone' \in [Clones -> CloneJobs]
    BY <1>2, <2>1, <2>3
  <2>5. WorkspaceTypeOK'
    BY <1>1, <2>2, <2>4 DEF WorkspaceTypeOK
  <2>6. clone[k].state = "none" /\ \A j \in Clones \ {k} : clone'[j] = clone[j]
    BY <1>2, <1>3, <2>1 DEF start_clone
  <2>8. clone'[k].state = "running" /\ clone'[k].target = q /\ clone'[k].queued
    BY <1>2, <2>1
  <2>9. Targets'
    BY <1>1, <2>2, <2>6, <2>8 DEF Targets
  <2>7. QED BY <2>2, <2>5, <2>9, QuietStep
<1>4. CASE TakeClone(k)
  <2>1. /\ clone[k].queued /\ cloning' = {k} /\ UNCHANGED <<overlap, file, saver, dir>>
        /\ clone' = [clone EXCEPT ![k] = [clone[k] EXCEPT !.queued = FALSE]]
    BY <1>2, <1>4 DEF TakeClone
  <2>2. [clone[k] EXCEPT !.queued = FALSE] \in CloneJobs
    BY <1>2
  <2>3. clone' \in [Clones -> CloneJobs]
    BY <1>2, <2>1, <2>2
  <2>4. WorkspaceTypeOK'
    BY <1>1, <2>1, <2>3 DEF WorkspaceTypeOK
  <2>5. \A j \in Clones : /\ clone'[j].target = clone[j].target /\ clone'[j].state = clone[j].state
                          /\ clone'[j].queued => clone[j].queued
    BY <1>2, <2>1
  <2>8. ~clone'[k].queued
    BY <1>2, <2>1
  <2>6. Targets'
    BY <1>1, <2>1, <2>5, <2>8 DEF Targets
  <2>7. QED BY <2>1, <2>4, <2>6, QuietStep
<1>5. CASE GitStarts(k) \/ GitClones(k)
  <2>1. UNCHANGED <<overlap, file, clone, cloning>> /\ k \in cloning
    BY <1>5 DEF GitStarts, GitClones
  <2>2. PICK d \in {"partial", "repo"}, step \in {"git", "cloned"} :
          /\ saver' = [saver EXCEPT ![Cloner] = [saver[Cloner] EXCEPT !.step = step]]
          /\ dir' = [dir EXCEPT ![clone[k].target] = d]
    BY <1>1, <1>5 DEF GitStarts, GitClones
  <2>3. [saver[Cloner] EXCEPT !.step = step] \in Saves
    BY <1>1 DEF Saves
  <2>4. WorkspaceTypeOK'
    BY <1>1, <2>1, <2>2, <2>3 DEF WorkspaceTypeOK
  <2>5. Targets'
    BY <1>1, <2>1 DEF Targets
  <2>6. Listed(saver[Cloner].registry)
    BY <1>1 DEF WorkspaceShape, AllListed
  <2>7. /\ \A s \in Savers \ {Cloner} : saver'[s] = saver[s]
        /\ saver'[Cloner].registry = saver[Cloner].registry /\ saver'[Cloner].step = step
    BY <1>1, <2>2 DEF Saves
  <2>8. QED BY <2>1, <2>4, <2>5, <2>6, <2>7, QuietStep DEF Busy
<1>6. CASE CloneFails(k)
  <2>1. /\ UNCHANGED <<overlap, file>> /\ cloning' = {} /\ k \in cloning
        /\ saver' = [saver EXCEPT ![Cloner] = NoSave] /\ clone' = Settled(k, "failed")
        /\ dir' = [dir EXCEPT ![clone[k].target] = "absent"] \/ dir' = dir
    BY <1>6 DEF CloneFails
  <2>2. clone' \in [Clones -> CloneJobs] /\ Targets'
    BY <1>0, <2>1
  <2>3. WorkspaceTypeOK'
    BY <1>1, <2>1, <2>2, EmptyTypes DEF WorkspaceTypeOK
  <2>4. QED BY <1>1, <2>1, <2>2, <2>3, EmptyTypes, QuietStep DEF Busy
<1>7. CASE RegisterClone(k)
  <2>1. clone[k].target \in Paths /\ UNCHANGED <<overlap, file, dir, clone, cloning>>
    BY <1>1, <1>7 DEF RegisterClone, Targets
  <2>2. PICK loaded \in load_registry :
          Begin(Cloner, Registered(loaded, clone[k].target), loaded, NoPath)
    BY <1>7 DEF RegisterClone
  <2>3. loaded \in Contents /\ Listed(loaded) /\ loaded.state = "ok"
    BY <1>1, <2>2, LoadedType
  <2>4. /\ Registered(loaded, clone[k].target) \in Contents
        /\ Listed(Registered(loaded, clone[k].target))
        /\ Registered(loaded, clone[k].target).state = "ok"
        /\ loaded.known \subseteq Registered(loaded, clone[k].target).known
    BY <2>1, <2>3, OperationTypes
  <2>5. NoPath \in Paths \cup {NoPath}
    OBVIOUS
  <2>6. QED BY <1>1, <2>1, <2>2, <2>4, <2>5, BeginStep
<1>8. CASE CloneEnds(k)
  <2>1. /\ replace(Cloner) /\ cloning' = {} /\ k \in cloning /\ UNCHANGED <<overlap, dir>>
        /\ clone' \in {Raised(k), Settled(k, "finished")}
    BY <1>8 DEF CloneEnds
  <2>2. clone' \in [Clones -> CloneJobs] /\ Targets'
    BY <1>0, <2>1
  <2>3. saver' \in [Savers -> Saves] /\ file' \in [{"registry", "tmp"} -> Contents] /\ AllListed' /\ Serial'
    BY <1>1, <2>1, ReplaceStep
  <2>4. WorkspaceTypeOK'
    BY <1>1, <2>1, <2>2, <2>3 DEF WorkspaceTypeOK
  <2>5. QED BY <2>2, <2>3, <2>4 DEF WorkspaceIInv, WorkspaceShape
<1>9. CASE CloneRaises(k)
  <2>1. cloning' = {} /\ k \in cloning /\ UNCHANGED <<overlap, dir>> /\ clone' = Raised(k)
    BY <1>9 DEF CloneRaises
  <2>2. clone' \in [Clones -> CloneJobs] /\ Targets'
    BY <1>0, <2>1
  <2>3. CASE save_raises(Cloner)
    <3>1. /\ saver' \in [Savers -> Saves] /\ file' \in [{"registry", "tmp"} -> Contents]
          /\ AllListed' /\ Serial'
      BY <1>1, <2>1, <2>3, RaiseStep
    <3>2. WorkspaceTypeOK'
      BY <1>1, <2>1, <2>2, <3>1 DEF WorkspaceTypeOK
    <3>3. QED BY <2>2, <3>1, <3>2 DEF WorkspaceIInv, WorkspaceShape
  <2>4. CASE saver' = [saver EXCEPT ![Cloner] = NoSave] /\ file' = file
    <3>1. WorkspaceTypeOK'
      BY <1>1, <2>1, <2>2, <2>4, EmptyTypes DEF WorkspaceTypeOK
    <3>2. QED BY <1>1, <2>1, <2>2, <2>4, <3>1, EmptyTypes, QuietStep DEF Busy
  <2>5. QED BY <1>9, <2>3, <2>4 DEF CloneRaises
<1>10. QED BY <1>3, <1>4, <1>5, <1>6, <1>7, <1>8, <1>9

LEMMA CrashStep ==
  ASSUME WorkspaceIInv, WorkspaceCrash
  PROVE  WorkspaceIInv'
<1>1. WorkspaceTypeOK /\ Targets
  BY DEF WorkspaceIInv, WorkspaceShape
<1>2. /\ UNCHANGED <<overlap, file, dir>> /\ cloning' = {} /\ saver' = [s \in Savers |-> NoSave]
      /\ clone' = [k \in Clones |-> NoClone]
  BY DEF WorkspaceCrash
<1>3. NoClone \in [state : {"none", "running", "finished", "failed"},
                  target : Paths \cup {NoPath}, queued : BOOLEAN, raised : BOOLEAN]
      /\ ~NoClone.queued
  BY DEF NoClone
<1>4. WorkspaceTypeOK'
  BY <1>1, <1>2, <1>3, EmptyTypes DEF WorkspaceTypeOK
<1>5. \A k \in Clones : ~clone'[k].queued
  BY <1>2, <1>3
<1>6. Targets'
  BY <1>2, <1>5 DEF Targets
<1>7. QED BY <1>2, <1>4, <1>6, EmptyTypes, QuietStep DEF Busy

LEMMA WorkspaceStep == WorkspaceIInv /\ [WorkspaceNext]_workspaceVars => WorkspaceIInv'
<1> SUFFICES ASSUME WorkspaceIInv, [WorkspaceNext]_workspaceVars PROVE WorkspaceIInv'
  OBVIOUS
<1>1. CASE \E u \in Users : \/ \E p \in Paths : select(u, p) \/ forget(u, p)
                            \/ clear_selection(u) \/ Save(u) \/ SaveRaises(u)
  BY <1>1, SelectForgetStep, ClearStep, SaveStep
<1>2. CASE \E s \in Savers : Staging(s)
  BY <1>2, OpenTmpStep, WriteTmpStep DEF Staging
<1>3. CASE \E k \in Clones : start_clone(k) \/ CloneRaises(k)
  BY <1>3, CloneStep
<1>4. CASE Working
  BY <1>4, CloneStep DEF Working
<1>5. CASE WorkspaceCrash
  BY <1>5, CrashStep
<1>6. CASE UNCHANGED workspaceVars
  <2>1. UNCHANGED <<overlap, file, saver, dir, clone, cloning>>
    BY <1>6 DEF workspaceVars
  <2>2. WorkspaceTypeOK' /\ Targets'
    BY <2>1 DEF WorkspaceIInv, WorkspaceShape, WorkspaceTypeOK, Targets
  <2>3. QED BY <2>1, <2>2, QuietStep
<1>7. QED BY <1>1, <1>2, <1>3, <1>4, <1>5, <1>6 DEF WorkspaceNext

(* A step of WorkspaceSpec moves one saver at a time, and the registry is   *)
(* only ever replaced.                                                      *)
LEMMA OnlyReplaced ==
  ASSUME WorkspaceIInv, [WorkspaceNext]_workspaceVars, ~overlap
  PROVE  \/ file'["registry"] = file["registry"]
         \/ \E s \in Savers : replace(s)
<1>1. WorkspaceTypeOK
  BY DEF WorkspaceIInv, WorkspaceShape
<1>2. CASE \E s \in Savers : Staging(s)
  <2>1. PICK s \in Savers : OpenTmp(s) \/ WriteTmp(s)
    BY <1>2 DEF Staging
  <2>2. CASE OpenTmp(s)
    BY <1>1, <2>2 DEF OpenTmp, WorkspaceTypeOK
  <2>3. CASE WriteTmp(s)
    <3>1. saver[s].on = "tmp"
      BY <2>3 DEF WriteTmp, WorkspaceIInv, Serial, Busy, Own
    <3>2. \E content \in {saver[s].registry, Damaged} : file' = [file EXCEPT !["tmp"] = content]
      BY <2>3, <3>1 DEF WriteTmp
    <3>3. QED BY <1>1, <3>2 DEF WorkspaceTypeOK
  <2>4. QED BY <2>1, <2>2, <2>3
<1>3. CASE \E u \in Users : \/ \E p \in Paths : select(u, p) \/ forget(u, p)
                            \/ clear_selection(u) \/ Save(u)
  BY <1>3 DEF select, forget, clear_selection, Save, Savers
<1>4. CASE (\E k \in Clones : start_clone(k)) \/ WorkspaceCrash \/ UNCHANGED workspaceVars
  BY <1>4 DEF start_clone, WorkspaceCrash, workspaceVars
<1>6. CASE (\E u \in Users : SaveRaises(u)) \/ \E k \in Clones : CloneRaises(k)
  <2>1. UNCHANGED <<overlap, dir>>
    BY <1>6 DEF SaveRaises, CloneRaises
  <2>2. file' = file \/ \E s \in Savers : save_raises(s)
    BY <1>6 DEF SaveRaises, CloneRaises, Savers
  <2>3. QED BY <2>1, <2>2, RaiseStep
<1>5. CASE Working
  BY <1>5 DEF Working, TakeClone, GitStarts, CloneFails, GitClones, RegisterClone, CloneEnds, Savers
<1>7. QED BY <1>2, <1>3, <1>4, <1>5, <1>6 DEF WorkspaceNext

(* The registry that is read never selects a workspace it does not list,    *)
(* whatever overlaps or dies (forget).                                      *)
THEOREM ActiveListed == WorkspaceSpec => []ActiveIsListed
<1>1. WorkspaceIInv => ActiveIsListed
  BY LoadedType DEF WorkspaceIInv, ActiveIsListed, Listed
<1>2. QED BY <1>1, WorkspaceInitial, WorkspaceStep, PTL DEF WorkspaceSpec

(* A save that is alone loses no workspace but the one it forgets, also     *)
(* when it raises or the server dies in the middle of it (save_registry),   *)
(* unless it goes on from a registry that could not be read.                *)
THEOREM NoneLost == WorkspaceSpec => NoWorkspaceLost
<1> DEFINE Kept == \A p \in registry_read.known :
                     \/ p \in registry_read'.known
                     \/ \E u \in Users : saver[u].forgets = p /\ saver'[u].step = "idle"
                     \/ \E s \in Savers : saver[s].blind /\ saver'[s].step = "idle"
                     \/ Cardinality(file'["registry"].known) > MaxKnown
<1>1. ASSUME WorkspaceIInv, [WorkspaceNext]_workspaceVars, ~overlap
      PROVE  Kept
  <2>1. CASE file'["registry"] = file["registry"]
    BY <2>1 DEF registry_read
  <2>2. CASE \E s \in Savers : replace(s)
    <3>1. PICK s \in Savers : replace(s)
      BY <2>2
    <3>2. WorkspaceTypeOK /\ saver[s].step = "replace" /\ saver[s].registry.state = "ok"
          /\ Keeps(s) /\ file["tmp"] = saver[s].registry
      BY <1>1, <3>1 DEF replace, WorkspaceIInv, WorkspaceShape, Serial, Busy, Own
    <3>3. file' = [file EXCEPT !["registry"] = file["tmp"], !["tmp"] = NoFile] /\ saver'[s].step = "idle"
      BY <3>1, <3>2, EmptyTypes DEF replace
    <3>4. file'["registry"] = saver[s].registry
      BY <3>2, <3>3 DEF WorkspaceTypeOK
    <3>5. Cardinality(saver[s].registry.known) \in Nat
      <4>1. IsFiniteSet(Paths)
        BY FS_Interval DEF Paths
      <4>2. saver[s].registry.known \subseteq Paths
        BY <3>2 DEF WorkspaceTypeOK, Saves, Contents
      <4>3. QED BY <4>1, <4>2, FS_Subset, FS_CardinalityType
    <3>6. CASE Cardinality(saver[s].registry.known) <= MaxKnown
      <4>1. registry_read' = saver[s].registry
        BY <3>2, <3>4, <3>6 DEF registry_read
      <4>2. QED BY <3>2, <3>3, <4>1 DEF Keeps
    <3>7. CASE ~(Cardinality(saver[s].registry.known) <= MaxKnown)
      BY <3>4, <3>5, <3>7
    <3>8. QED BY <3>6, <3>7
  <2>3. QED BY <1>1, <2>1, <2>2, OnlyReplaced
<1>2. WorkspaceIInv /\ [WorkspaceNext]_workspaceVars => [overlap \/ Kept]_workspaceVars
  BY <1>1
<1>3. QED BY <1>2, WorkspaceInitial, WorkspaceStep, PTL DEF WorkspaceSpec, NoWorkspaceLost
=============================================================================
