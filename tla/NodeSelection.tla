---------------------------- MODULE NodeSelection ----------------------------
(***************************************************************************)
(* The screen that selects nodes and creates the storage cluster:          *)
(* console/src/ui/storage-clusters and the use case and repositories it    *)
(* uses.  A node is selected by its storage label; the checkbox of a row   *)
(* replaces all labels of the node by a changed copy of what the row last  *)
(* saw, and keeps a status of its own.                                     *)
(***************************************************************************)
EXTENDS ConsoleStore

CONSTANTS
    SmallNodes,      \* nodes with less memory than MINIMUM_AMOUNT_OF_MEMORY_GIB
    MINIMUM_AMOUNT_OF_NODES,
    MINIMUM_AMOUNT_OF_SHARED_DISKS,
    MaxCalls         \* calls to the API server in flight

ASSUME SelectionAssumption ==
    /\ SmallNodes \subseteq Nodes /\ MaxCalls \in Nat
    /\ MINIMUM_AMOUNT_OF_NODES \in Nat /\ MINIMUM_AMOUNT_OF_SHARED_DISKS \in Nat

VARIABLES
    row,      \* the status of each row of the table
    patches,  \* patches of nodes in flight
    cluster,  \* the storage cluster exists
    creates   \* creations of the storage cluster in flight

rowVars == <<row, patches>>
selectionVars == <<row, patches, cluster, creates>>

RowStates == {"unmounted", "unselected", "selected", "selection-pending"}
\* Who still listens for the answer: the row, only its screen, nobody.
Listeners == {"row", "screen", "nobody"}
Patches == [node: Nodes, checked: BOOLEAN, old: SUBSET Labels, for: Listeners,
            st: {"sent", "done", "failed"}]
Creates == [id: 1..MaxCalls, for: {"screen", "nobody"}]

----------------------------------------------------------------------------
(* What the screen computes from its watches.                              *)

selectedNodes(nw) == {n \in Nodes : Storage \in nw.copy[n]}

wwnSet(rw, n) == {rw.copy.dev[n][p] : p \in Paths} \ {NoDisk}

\* Results of selected nodes only; a node without one is left out.
sharedDisksCount(nw, rw) ==
    LET counted == selectedNodes(nw) \cap rw.copy.nodes
    IN  IF Cardinality(counted) >= 2
        THEN Cardinality({w \in Wwns : \A n \in counted : w \in wwnSet(rw, n)})
        ELSE 0

Known(nw, rw) == IsLoaded(nw) /\ IsLoaded(rw)

Unmet(nw, rw) ==
    \/ sharedDisksCount(nw, rw) < MINIMUM_AMOUNT_OF_SHARED_DISKS
    \/ Cardinality(selectedNodes(nw)) < MINIMUM_AMOUNT_OF_NODES

\* The dependencies of the effect of useValidateMinimumRequirements.
Deps(nw, rw) ==
    <<Known(nw, rw), Cardinality(selectedNodes(nw)), sharedDisksCount(nw, rw)>>

\* Mistake: the effect runs when the number of nodes changes only.
Validate_NodesOnly(nw, rw, list) ==
    IF ~Known(nw, rw) \/ (Known(nodesW, resultsW) /\ selectedNodes(nw) = selectedNodes(nodesW))
    THEN alerts' = list /\ UNCHANGED cta
    ELSE /\ cta' = [cta EXCEPT !.isDisabled = Unmet(nw, rw)]
         /\ alerts' = IF Unmet(nw, rw) THEN addAlert(list, Requirements)
                      ELSE IF Has(alerts, Requirements) THEN dismissAlert(list) ELSE list

\* Mistake: the first alert is dismissed without looking for the right one.
Validate_Dismisses(nw, rw, list) ==
    IF Deps(nw, rw) = Deps(nodesW, resultsW) \/ ~Known(nw, rw)
    THEN alerts' = list /\ UNCHANGED cta
    ELSE /\ cta' = [cta EXCEPT !.isDisabled = Unmet(nw, rw)]
         /\ alerts' = IF Unmet(nw, rw) THEN addAlert(list, Requirements)
                      ELSE dismissAlert(list)

\* useValidateMinimumRequirements, after the effects that left the alerts list: it
\* looks for its alert in the list that was rendered and dismisses from the current.
Validate(nw, rw, list) ==
    IF Deps(nw, rw) = Deps(nodesW, resultsW) \/ ~Known(nw, rw)
    THEN alerts' = list /\ UNCHANGED cta
    ELSE /\ cta' = [cta EXCEPT !.isDisabled = Unmet(nw, rw)]
         /\ alerts' = IF Unmet(nw, rw) THEN addAlert(list, Requirements)
                      ELSE IF Has(alerts, Requirements) THEN dismissAlert(list) ELSE list

\* The table has rows when both watches deliver; a new row takes its status from
\* the node's label, a row that stays keeps its own.
status(lbls) == IF Storage \in lbls THEN "selected" ELSE "unselected"

Rows(nw, rw) ==
    IF nw.st = "data" /\ rw.st = "data"
    THEN /\ row' = [n \in Nodes |-> IF row[n] = "unmounted" THEN status(nw.copy[n])
                                                            ELSE row[n]]
         /\ UNCHANGED patches
    ELSE /\ row' = [n \in Nodes |-> "unmounted"]
         /\ patches' = {[p EXCEPT !.for = IF @ = "row" THEN "screen" ELSE @] : p \in patches}

----------------------------------------------------------------------------
(* The screen's events.                                                    *)

onNodes == screen = "nodes"

\* The watches deliver what the API server stores now.
NodesDelivered ==
    /\ onNodes /\ nodesW # Delivered(labels)
    /\ nodesW' = Delivered(labels) /\ UNCHANGED resultsW
    /\ Rows(nodesW', resultsW) /\ Validate(nodesW', resultsW, alerts)
    /\ UNCHANGED <<screen, clusterVars, inFlight, upsets, cluster, creates>>

ResultsDelivered ==
    /\ onNodes /\ resultsW # Delivered(results)
    /\ resultsW' = Delivered(results) /\ UNCHANGED nodesW
    /\ Rows(nodesW, resultsW') /\ Validate(nodesW, resultsW', alerts)
    /\ UNCHANGED <<screen, clusterVars, inFlight, upsets, cluster, creates>>

\* A watch fails, or fails again: an alert nobody can close.
NodesFail ==
    /\ onNodes /\ Upset("watch")
    /\ nodesW' = Failed(NoLabels) /\ UNCHANGED resultsW
    /\ Rows(nodesW', resultsW) /\ Validate(nodesW', resultsW, addAlert(alerts, "nodes"))
    /\ UNCHANGED <<screen, clusterVars, inFlight, cluster, creates>>

ResultsFail ==
    /\ onNodes /\ Upset("watch")
    /\ resultsW' = Failed(NoResults) /\ UNCHANGED nodesW
    /\ Rows(nodesW, resultsW') /\ Validate(nodesW, resultsW', addAlert(alerts, "results"))
    /\ UNCHANGED <<screen, clusterVars, inFlight, cluster, creates>>

\* The close button of the alert that is shown; only the requirements have one.
CloseRequirements ==
    /\ onNodes /\ alerts # <<>> /\ Head(alerts) = Requirements
    /\ alerts' = dismissAlert(alerts)
    /\ UNCHANGED <<screen, cta, clusterVars, watchVars, inFlight, upsets, selectionVars>>

\* The checkbox of a row, up to the patch it sends; old is the row's copy of the labels.
handleNodeSelectionChange(n) ==
    /\ onNodes /\ n \notin SmallNodes /\ Cardinality(patches) < MaxCalls
    /\ row[n] \in {"selected", "unselected"}
    /\ row' = [row EXCEPT ![n] = "selection-pending"]
    /\ patches' = patches \cup {[node |-> n, checked |-> row[n] = "unselected",
                                 old |-> nodesW.copy[n], for |-> "row", st |-> "sent"]}
    /\ UNCHANGED <<screen, storeVars, clusterVars, watchVars, inFlight, upsets,
                   cluster, creates>>

toggleNodeStorageRoleLabel(lbls, checked) ==
    IF checked THEN lbls \cup {Storage} ELSE lbls \ {Storage}

\* The API server replaces the labels, or refuses; an answer may also get lost on
\* its way, which the console cannot tell from a refusal.
PatchNode(p) ==
    /\ p.st = "sent"
    /\ \/ /\ labels' = [labels EXCEPT ![p.node] = toggleNodeStorageRoleLabel(p.old, p.checked)]
          /\ \/ patches' = (patches \ {p}) \cup {[p EXCEPT !.st = "done"]} /\ UNCHANGED upsets
             \/ /\ Upset("reply")
                /\ patches' = (patches \ {p}) \cup {[p EXCEPT !.st = "failed"]}
       \/ /\ Upset("refuse") /\ UNCHANGED labels
          /\ patches' = (patches \ {p}) \cup {[p EXCEPT !.st = "failed"]}
    /\ UNCHANGED <<screen, storeVars, results, watchVars, inFlight, row, cluster, creates>>

\* Mistake: after a failure the row stays pending.
PatchAnswered_Pending(p) ==
    /\ p.st # "sent" /\ patches' = patches \ {p}
    /\ row' = IF p.for = "row" /\ p.st = "done"
              THEN [row EXCEPT ![p.node] = IF p.checked THEN "selected" ELSE "unselected"]
              ELSE row
    /\ alerts' = IF p.for # "nobody" /\ p.st = "failed" THEN addAlert(alerts, "selection")
                                                        ELSE alerts
    /\ UNCHANGED <<screen, cta, clusterVars, watchVars, inFlight, upsets, cluster, creates>>

\* The rest of handleNodeSelectionChange; after a failure the status is what the
\* labels said when the box was clicked.
PatchAnswered(p) ==
    /\ p.st # "sent" /\ patches' = patches \ {p}
    /\ row' = IF p.for # "row" THEN row
              ELSE [row EXCEPT ![p.node] =
                       IF p.st = "failed" THEN status(p.old)
                       ELSE IF p.checked THEN "selected" ELSE "unselected"]
    /\ alerts' = IF p.for # "nobody" /\ p.st = "failed" THEN addAlert(alerts, "selection")
                                                        ELSE alerts
    /\ UNCHANGED <<screen, cta, clusterVars, watchVars, inFlight, upsets, cluster, creates>>

\* The create button; it shows that a creation is under way and stays enabled.  A
\* click while the API definitions are read waits for a value that cannot change.
handleCreateStorageCluster ==
    /\ onNodes /\ ~cta.isDisabled /\ Len(alerts) < MaxAlerts
    /\ cta' = [cta EXCEPT !.isLoading = TRUE]
    /\ \/ inFlight /\ UNCHANGED creates
       \/ /\ ~inFlight
          /\ \E i \in 1..MaxCalls :
                /\ \A c \in creates : c.id # i
                /\ creates' = creates \cup {[id |-> i, for |-> "screen"]}
    /\ UNCHANGED <<screen, alerts, clusterVars, watchVars, inFlight, upsets,
                   rowVars, cluster>>

\* Mistake: the answers still reach the rows that are gone.
Leave_Heard(to) ==
    /\ screen' = to /\ alerts' = <<>> /\ cta' = initialCta
    /\ nodesW' = Loading(NoLabels) /\ resultsW' = Loading(NoResults)
    /\ row' = [n \in Nodes |-> "unmounted"]
    /\ UNCHANGED patches

\* Leaving a screen drops its store, its watches and its rows; answers still come.
Leave(to) ==
    /\ screen' = to /\ alerts' = <<>> /\ cta' = initialCta
    /\ nodesW' = Loading(NoLabels) /\ resultsW' = Loading(NoResults)
    /\ row' = [n \in Nodes |-> "unmounted"]
    /\ patches' = {[p EXCEPT !.for = "nobody"] : p \in patches}

\* The answer to a creation: the claims are shown, whatever is on the screen by then.
ClusterCreated(c) ==
    /\ ~cluster /\ cluster' = TRUE
    /\ Leave("claims")
    /\ creates' = {[d EXCEPT !.for = "nobody"] : d \in creates \ {c}}
    /\ UNCHANGED <<clusterVars, inFlight, upsets>>

ClusterRefused(c) ==
    /\ \/ cluster /\ UNCHANGED upsets
       \/ ~cluster /\ Upset("refuse")
    /\ creates' = creates \ {c}
    /\ \/ /\ c.for = "screen"
          /\ alerts' = addAlert(alerts, "create") /\ cta' = [cta EXCEPT !.isLoading = FALSE]
       \/ c.for = "nobody" /\ UNCHANGED storeVars
    /\ UNCHANGED <<screen, clusterVars, watchVars, inFlight, rowVars, cluster>>

SelectionEvents ==
    \/ NodesDelivered \/ ResultsDelivered \/ NodesFail \/ ResultsFail
    \/ CloseRequirements \/ handleCreateStorageCluster
    \/ \E n \in Nodes : handleNodeSelectionChange(n)

----------------------------------------------------------------------------
(* Properties.                                                             *)

\* The warning about the requirements, when there is one, is the alert that is
\* shown, whatever failed before or after it; there is never a second one.
RequirementsShown ==
    \A i \in DOMAIN alerts : alerts[i] = Requirements => i = 1

\* The button and the warning follow what the screen knows: no creation while the
\* requirements are not met, no warning once they are.
ButtonFollowsRequirements ==
    onNodes /\ Known(nodesW, resultsW) =>
        /\ cta.isDisabled = Unmet(nodesW, resultsW)
        /\ ~Unmet(nodesW, resultsW) => ~Has(alerts, Requirements)

\* Dismissal is by position, yet while the screen is open it never takes an alert
\* about a failure: the failures reported so far stay, in their order.  The warning,
\* when there is one, comes before them (RequirementsShown).
Failures ==
    IF alerts # <<>> /\ Head(alerts) = Requirements THEN Tail(alerts) ELSE alerts
FailuresKept ==
    [][onNodes /\ onNodes' =>
          /\ Len(Failures) <= Len(Failures')
          /\ SubSeq(Failures', 1, Len(Failures)) = Failures]_<<screen, alerts>>

\* A row that waits for its patch gets out of it, whatever the answer.
PendingEnds ==
    \A n \in Nodes : row[n] = "selection-pending" ~> row[n] # "selection-pending"
=============================================================================
