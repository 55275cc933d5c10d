----------------------------- MODULE MCServices -----------------------------
(* Small instances of the components around the jobs.  They share no state, *)
(* so a behaviour of all of them is one of each: what TLC explores is their *)
(* disjoint union, in which one part, chosen at the start, moves and the    *)
(* others stay where they begin.                                            *)
EXTENDS Store, Usage, Workspace, Ask, Catalog, Telemetry, Expansion

CONSTANTS n1, r1, c1, c2, u1, k1, k2

Parts == {"store", "usage", "workspace", "ask", "catalog", "telemetry", "expansion"}

(* The questions people ask, and the entries they write for a feature: one,  *)
(* a command beside a model in both orders, a label that is the name of      *)
(* another entry's model, which is refused.                                  *)
TheRequests == {<<"claude", "openrouter">>, <<"codex">>}

Entry(label, m, command) == [agent_id |-> "claude", run_label |-> label, model |-> m,
                             command |-> command]
TheEntry == Entry(Unset, Unset, FALSE)
TheLists == {<<TheEntry>>,
             <<Entry(Unset, Unset, TRUE), Entry(Unset, "b", FALSE)>>,
             <<Entry(Unset, "b", FALSE), Entry(Unset, Unset, TRUE)>>,
             <<Entry("a", "b", FALSE), Entry(Unset, "a", FALSE)>>}
ModelAsLabel    == [m \in Models |-> m]
NoDefaultModels == [a \in Agents |-> Unset]

VARIABLE part

MCvars == <<part, storeVars, usageVars, workspaceVars, askVars, catalogVars, telemetryVars,
            expansionVars>>

Init ==
  /\ part \in Parts
  /\ StoreInit /\ UsageInit /\ WorkspaceInit /\ AskInit /\ CatalogInit /\ TelemetryInit
  /\ ExpansionInit
  (* One directory is there to be selected, the other one to be cloned into. *)
  /\ \A p \in Paths : dir[p] = IF p = 1 THEN "absent" ELSE "repo"
  (* One initial state is enough for a part that stays there.               *)
  /\ part # "store"     => racing = FALSE
  /\ part # "usage"     => exporting = FALSE
  /\ part # "workspace" => overlap = FALSE
  /\ part # "expansion" => features = <<TheEntry>> /\ model = "a"

Next ==
  /\ UNCHANGED part
  /\ \/ /\ part = "store" /\ StoreNext
        /\ UNCHANGED <<usageVars, workspaceVars, askVars, catalogVars, telemetryVars, expansionVars>>
     \/ /\ part = "usage" /\ UsageNext
        /\ UNCHANGED <<storeVars, workspaceVars, askVars, catalogVars, telemetryVars, expansionVars>>
     \/ /\ part = "workspace" /\ WorkspaceNext
        (* Where saves overlap, one clone is enough.                         *)
        /\ overlap => UNCHANGED <<clone[k2]>>
        /\ UNCHANGED <<storeVars, usageVars, askVars, catalogVars, telemetryVars, expansionVars>>
     \/ /\ part = "ask" /\ AskNext
        /\ UNCHANGED <<storeVars, usageVars, workspaceVars, catalogVars, telemetryVars, expansionVars>>
     \/ /\ part = "catalog" /\ CatalogNext
        /\ UNCHANGED <<storeVars, usageVars, workspaceVars, askVars, telemetryVars, expansionVars>>
     \/ /\ part = "telemetry" /\ TelemetryNext
        /\ UNCHANGED <<storeVars, usageVars, workspaceVars, askVars, catalogVars, expansionVars>>
     \/ /\ part = "expansion" /\ ExpansionNext
        /\ UNCHANGED <<storeVars, usageVars, workspaceVars, askVars, catalogVars, telemetryVars>>

Spec == Init /\ [][Next]_MCvars /\ WorkspaceFairness /\ AskFairness /\ CatalogFairness
=============================================================================
