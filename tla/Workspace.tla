----------------------------- MODULE Workspace -----------------------------
(***************************************************************************)
(* The registry of workspaces (workspace.py), a JSON file that requests    *)
(* load, change and save without a lock, and the clones (clone.py) that    *)
(* register what they have fetched.                                        *)
(*                                                                         *)
(* A save writes <registry>.tmp and renames it.  Every save uses the same  *)
(* .tmp, so a handle of one save may be on the file another one renames:   *)
(* a handle is on "tmp", on the "registry", or on a file that is "gone".   *)
(***************************************************************************)
EXTENDS Integers, FiniteSets

CONSTANTS
  Users,       \* requests of people
  Cloner,      \* the one worker of _clone_pool
  Clones,      \* clones that are asked for
  MaxPath,     \* directories 1..MaxPath; a clone takes the first that is free
  MaxKnown     \* max_length of WorkspaceRegistry.workspaces

ASSUME WorkspaceAssumption == MaxPath \in Nat /\ MaxKnown \in Nat /\ Cloner \notin Users

Paths  == 1..MaxPath
NoPath == 0
Savers == Users \cup {Cloner}

VARIABLES
  overlap,     \* whether a save may begin while another one is under way
  file,        \* name -> what "registry" and "tmp" hold
  saver,       \* saver -> the change it is in the middle of
  dir,         \* path -> "absent", "partial" or "repo"
  clone,       \* clone -> its CloneJob, and whether the pool has taken it up
  cloning      \* the clone git is working for, or is being registered

workspaceVars == <<overlap, file, saver, dir, clone, cloning>>

-----------------------------------------------------------------------------
(* Contents of a file, "missing" if there is none and "bad" if it is not    *)
(* valid JSON.                                                              *)
EmptyRegistry   == [state |-> "ok", active |-> NoPath, known |-> {}]
NoFile == [EmptyRegistry EXCEPT !.state = "missing"]
Damaged     == [EmptyRegistry EXCEPT !.state = "bad"]
Contents == [state : {"ok", "missing", "bad"}, active : Paths \cup {NoPath}, known : SUBSET Paths]

(* A missing or damaged registry is read as an empty one, and so is one with *)
(* more entries than the model allows ...                                    *)
registry_read ==
  IF file["registry"].state = "ok" /\ Cardinality(file["registry"].known) <= MaxKnown
  THEN file["registry"] ELSE EmptyRegistry

(* ... and any, if the system does not let it be read just then.             *)
load_registry == {registry_read, EmptyRegistry}

(* What the operations make of the registry they have loaded.               *)
Registered(registry, p) == [registry EXCEPT !.active = p, !.known = @ \cup {p}]
Cleared(registry)       == [registry EXCEPT !.active = NoPath]
(* Mutant of Forgotten: the selection stays.                                 *)
ForgottenOnly(registry, p) == [registry EXCEPT !.known = @ \ {p}]

Forgotten(registry, p)  == [registry EXCEPT !.active = IF @ = p THEN NoPath ELSE @,
                                            !.known = @ \ {p}]

(* A save that goes on from what was loaded; blind says that the registry    *)
(* was not what was loaded.                                                  *)
Saving(registry, loaded, forgets) ==
  [step |-> "open", forgets |-> forgets, registry |-> registry, on |-> "gone",
   blind |-> loaded # registry_read]
NoSave == [step |-> "idle", forgets |-> NoPath, registry |-> EmptyRegistry, on |-> "gone",
           blind |-> FALSE]
Calm == overlap \/ \A s \in Savers : saver[s].step \notin {"open", "write", "replace"}
Begin(s, registry, loaded, forgets) ==
  /\ Calm
  /\ saver' = [saver EXCEPT ![s] = Saving(registry, loaded, forgets)]

-----------------------------------------------------------------------------
(* The requests: each loads the registry and computes what it will save.    *)
select(u, p) ==
  /\ saver[u].step = "idle" /\ dir[p] # "absent"
  /\ \E loaded \in load_registry : Begin(u, Registered(loaded, p), loaded, NoPath)
  /\ UNCHANGED <<overlap, file, dir, clone, cloning>>
clear_selection(u) ==
  /\ saver[u].step = "idle"
  /\ \E loaded \in load_registry : Begin(u, Cleared(loaded), loaded, NoPath)
  /\ UNCHANGED <<overlap, file, dir, clone, cloning>>
forget(u, p) ==
  /\ saver[u].step = "idle"
  /\ \E loaded \in load_registry : p \in loaded.known /\ Begin(u, Forgotten(loaded, p), loaded, p)
  /\ UNCHANGED <<overlap, file, dir, clone, cloning>>

(* Mutant of OpenTmp: the registry is rewritten in place.                    *)
OpenRegistry(s) ==
  /\ saver[s].step = "open"
  /\ saver' = [saver EXCEPT ![s].step = "write", ![s].on = "registry"]
  /\ file' = [file EXCEPT !["registry"] = Damaged]
  /\ UNCHANGED <<overlap, dir, clone, cloning>>

(* save_registry: open the .tmp, which creates or truncates it, ...          *)
OpenTmp(s) ==
  /\ saver[s].step = "open"
  /\ saver' = [saver EXCEPT ![s].step = "write", ![s].on = "tmp"]
  /\ file' = [file EXCEPT !["tmp"] = Damaged]
  /\ UNCHANGED <<overlap, dir, clone, cloning>>

(* ... write it, where bytes of another save may be left behind these, ...   *)
WriteTmp(s) ==
  /\ saver[s].step = "write"
  /\ saver' = [saver EXCEPT ![s].step = "replace"]
  /\ IF saver[s].on = "gone" THEN UNCHANGED file
     ELSE \E content \in {saver[s].registry}
            \cup (IF file[saver[s].on].state = "ok" THEN {Damaged} ELSE {}) :
            file' = [file EXCEPT ![saver[s].on] = content]
  /\ UNCHANGED <<overlap, dir, clone, cloning>>

(* ... and rename it.  The handles that were on it are on the registry now.  *)
(* If another save has renamed it already the request fails.                 *)
replace(s) ==
  /\ saver[s].step = "replace"
  /\ IF file["tmp"].state = "missing"
     THEN /\ saver' = [saver EXCEPT ![s] = NoSave]
          /\ UNCHANGED file
     ELSE /\ file' = [file EXCEPT !["registry"] = file["tmp"], !["tmp"] = NoFile]
          /\ saver' = [t \in Savers |->
                         IF t = s THEN NoSave
                         ELSE [saver[t] EXCEPT !.on = IF @ = "tmp" THEN "registry" ELSE "gone"]]
Save(u) == /\ replace(u)
           /\ UNCHANGED <<overlap, dir, clone, cloning>>

(* Any of the calls may raise, which leaves half of the .tmp behind if it is *)
(* the write.                                                                *)
save_raises(s) ==
  /\ saver[s].step \in {"open", "write", "replace"}
  /\ saver' = [saver EXCEPT ![s] = NoSave]
  /\ IF saver[s].step = "write" /\ saver[s].on # "gone"
     THEN file' = [file EXCEPT ![saver[s].on] = Damaged]
     ELSE UNCHANGED file
SaveRaises(u) == /\ save_raises(u)
                 /\ UNCHANGED <<overlap, dir, clone, cloning>>

-----------------------------------------------------------------------------
(* start_clone takes the first directory that is absent or empty; the worker *)
(* clones one after the other.                                               *)
_target_for == {p \in Paths : dir[p] = "absent" /\ \A q \in 1..(p - 1) : dir[q] # "absent"}
NoClone == [state |-> "none", target |-> NoPath, queued |-> FALSE, raised |-> FALSE]
Settled(k, state) == [clone EXCEPT ![k].state = state, ![k].target = NoPath]
Raised(k)         == [clone EXCEPT ![k].raised = TRUE, ![k].target = NoPath]

start_clone(k) ==
  /\ clone[k].state = "none"
  /\ \E p \in _target_for :
       clone' = [clone EXCEPT ![k] = [state |-> "running", target |-> p, queued |-> TRUE,
                                        raised |-> FALSE]]
  /\ UNCHANGED <<overlap, file, saver, dir, cloning>>

TakeClone(k) ==
  /\ cloning = {} /\ clone[k].queued
  /\ cloning' = {k} /\ clone' = [clone EXCEPT ![k].queued = FALSE]
  /\ UNCHANGED <<overlap, file, saver, dir>>

(* git refuses a directory that has something in it, and fills an empty one  *)
(* until it succeeds, or fails and removes what it made.                     *)
GitStarts(k) ==
  /\ k \in cloning /\ saver[Cloner].step = "idle" /\ dir[clone[k].target] = "absent"
  /\ clone[k].state = "running"
  /\ dir' = [dir EXCEPT ![clone[k].target] = "partial"]
  /\ saver' = [saver EXCEPT ![Cloner].step = "git"]
  /\ UNCHANGED <<overlap, file, clone, cloning>>
CloneFails(k) ==
  /\ k \in cloning
  /\ \/ /\ saver[Cloner].step = "git"
        /\ dir' = [dir EXCEPT ![clone[k].target] = "absent"]
     \/ /\ saver[Cloner].step = "idle" /\ dir[clone[k].target] # "absent"
        /\ UNCHANGED dir
  /\ saver' = [saver EXCEPT ![Cloner] = NoSave]
  /\ clone' = Settled(k, "failed") /\ cloning' = {}
  /\ UNCHANGED <<overlap, file>>
GitClones(k) ==
  /\ k \in cloning /\ saver[Cloner].step = "git"
  /\ dir' = [dir EXCEPT ![clone[k].target] = "repo"]
  /\ saver' = [saver EXCEPT ![Cloner].step = "cloned"]
  /\ UNCHANGED <<overlap, file, clone, cloning>>

(* The worker registers and selects what it has cloned; if the save raises   *)
(* the job is never marked.                                                  *)
RegisterClone(k) ==
  /\ k \in cloning /\ saver[Cloner].step = "cloned"
  /\ \E loaded \in load_registry :
       Begin(Cloner, Registered(loaded, clone[k].target), loaded, NoPath)
  /\ UNCHANGED <<overlap, file, dir, clone, cloning>>
(* Mutant of CloneEnds: the outcome of a clone is not recorded.              *)
CloneEndsUnmarked(k) ==
  /\ k \in cloning /\ replace(Cloner)
  /\ cloning' = {}
  /\ UNCHANGED <<overlap, dir, clone>>

CloneEnds(k) ==
  /\ k \in cloning /\ replace(Cloner)
  /\ clone' = IF file["tmp"].state = "missing" THEN Raised(k) ELSE Settled(k, "finished")
  /\ cloning' = {}
  /\ UNCHANGED <<overlap, dir>>

(* Nothing in _do_clone is caught: it may be the mkdir or starting git that  *)
(* raises, the inspection of the clone, or the save.                         *)
CloneRaises(k) ==
  /\ k \in cloning
  /\ \/ /\ saver[Cloner].step \in {"idle", "cloned"}
        /\ saver' = [saver EXCEPT ![Cloner] = NoSave]
        /\ UNCHANGED file
     \/ save_raises(Cloner)
  /\ clone' = Raised(k) /\ cloning' = {}
  /\ UNCHANGED <<overlap, dir>>

(* The server dies and knows no clone any more; the .tmp stays as it is, and *)
(* git may stop anywhere.                                                    *)
WorkspaceCrash ==
  /\ \E s \in Savers : saver[s].step # "idle"
  /\ saver' = [s \in Savers |-> NoSave]
  /\ clone' = [k \in Clones |-> NoClone]
  /\ cloning' = {}
  /\ UNCHANGED <<overlap, file, dir>>

-----------------------------------------------------------------------------
WorkspaceInit ==
  /\ overlap \in BOOLEAN
  /\ file = [name \in {"registry", "tmp"} |-> NoFile]
  /\ saver = [s \in Savers |-> NoSave]
  /\ dir \in [Paths -> {"absent", "repo"}]
  /\ clone = [k \in Clones |-> NoClone] /\ cloning = {}

Working == \E k \in Clones : \/ TakeClone(k) \/ GitStarts(k) \/ CloneFails(k) \/ GitClones(k)
                             \/ RegisterClone(k) \/ CloneEnds(k)
Staging(s) == OpenTmp(s) \/ WriteTmp(s)

WorkspaceNext ==
  \/ \E u \in Users : \/ \E p \in Paths : select(u, p) \/ forget(u, p)
                      \/ clear_selection(u) \/ Save(u) \/ SaveRaises(u)
  \/ \E s \in Savers : Staging(s)
  \/ \E k \in Clones : start_clone(k) \/ CloneRaises(k)
  \/ Working \/ WorkspaceCrash

(* Threads that have work do it; git ends (external: it has no timeout).     *)
(* The worker's is strong: Calm holds it back while a save of somebody else  *)
(* is under way, where in the code it waits for nothing.                     *)
WorkspaceFairness ==
  /\ SF_workspaceVars(Working \/ Staging(Cloner))
  /\ \A u \in Users : WF_workspaceVars(Staging(u) \/ Save(u))

WorkspaceSpec == WorkspaceInit /\ [][WorkspaceNext]_workspaceVars /\ WorkspaceFairness

-----------------------------------------------------------------------------
Saves == [step : {"idle", "open", "write", "replace", "git", "cloned"},
          forgets : Paths \cup {NoPath}, registry : Contents, on : {"gone", "tmp", "registry"},
          blind : BOOLEAN]

WorkspaceTypeOK ==
  /\ overlap \in BOOLEAN
  /\ file \in [{"registry", "tmp"} -> Contents]
  /\ saver \in [Savers -> Saves]
  /\ dir \in [Paths -> {"absent", "partial", "repo"}]
  /\ clone \in [Clones -> [state : {"none", "running", "finished", "failed"},
                           target : Paths \cup {NoPath}, queued : BOOLEAN, raised : BOOLEAN]]
  /\ cloning \subseteq Clones

(* Whatever overlaps, is damaged or dies, the registry that is read never    *)
(* points at a workspace it does not list (forget).                          *)
ActiveIsListed ==
  \A r \in load_registry : r.active # NoPath => r.active \in r.known

(* As long as no two saves overlap, a workspace is lost only by forgetting   *)
(* it, also when a save raises or the server dies in the middle of it ("a    *)
(* half-written registry would lose every known workspace", save_registry).  *)
(* Two ways of losing all of them are left: a save that goes on from a       *)
(* registry which could not be read when it was loaded, and more workspaces  *)
(* than a registry that is read may list.                                    *)
NoWorkspaceLost ==
  [][overlap
     \/ \A p \in registry_read.known :
          \/ p \in registry_read'.known
          \/ \E u \in Users : saver[u].forgets = p /\ saver'[u].step = "idle"
          \/ \E s \in Savers : saver[s].blind /\ saver'[s].step = "idle"
          \/ Cardinality(file'["registry"].known) > MaxKnown]_workspaceVars

(* A clone the server has not forgotten ends finished or failed, "the        *)
(* outcome" a reconnecting browser asks for, unless its worker raised, with  *)
(* or without another save under way: only then it is running for good.      *)
CloneSettles ==
  \A k \in Clones : clone[k].state = "running" ~> (clone[k].raised \/ clone[k].state # "running")
=============================================================================
