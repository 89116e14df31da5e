------------------------------ MODULE ClaimForm ------------------------------
(***************************************************************************)
(* The screen that creates a FileSystemClaim from a name and a choice of   *)
(* LUNs: console/src/ui/file-system-claims, domain/use-cases and the       *)
(* repositories they use.                                                  *)
(*                                                                         *)
(* The LUNs on offer are computed from three watches and change under the  *)
(* user's hands; the function that submits the form is memoized and works  *)
(* on the LUNs of the render that made it.                                 *)
(***************************************************************************)
EXTENDS ConsoleStore

CONSTANTS
    NodeOrder,   \* the order in which the API server lists results
    Names,       \* what the name field may hold
    ValidNames,  \* those that pass the field's validation; not the empty name
    MaxSubmits   \* creations of claims in flight

NoName == "no name"

ASSUME FormAssumption ==
    /\ NodeOrder \in Seq(Nodes) /\ ValidNames \subseteq Names /\ NoName \notin Names
    /\ \A n \in Nodes : \E i \in DOMAIN NodeOrder : NodeOrder[i] = n
    /\ MaxSubmits \in Nat

VARIABLES
    disks,     \* WWNs that have a LocalDisk, as the API server stores them
    disksW,    \* the screen's watch of LocalDisks
    luns,      \* the LUNs on offer, by WWN: device path and selection
    name,      \* the name field
    captured,  \* the LUNs the memoized submit function works on
    healthy,   \* the create button has seen a healthy daemon
    claims,    \* names of the FileSystemClaims there are
    submits,   \* creations of claims in flight
    chosen     \* history: WWNs on offer that the user has ticked

formVars == <<disksW, luns, name, captured, healthy>>
claimFormVars == <<disks, formVars, claims, submits, chosen>>

Luns == UNION {[S -> [path: Paths, isSelected: BOOLEAN]] : S \in SUBSET Wwns}
Submits == [name: Names, devices: SUBSET Paths, for: {"screen", "nobody"}]

NoLuns == [w \in {} |-> {}]

selected(list) == {w \in DOMAIN list : list[w].isSelected}
selectedPaths(list) == {list[w].path : w \in selected(list)}

----------------------------------------------------------------------------
(* use_luns_use_case.ts                                                    *)

\* useStorageNodesLvdrs: the results of nodes that carry the storage label.
lvdrs(nw, rw) == {n \in rw.copy.nodes : Storage \in nw.copy[n]}

pathOf(rw, n, w) == CHOOSE p \in Paths : rw.copy.dev[n][p] = w

\* getSharedDiscoveredDevicesRepresentatives: a WWN reported as often as there are
\* results; a node reports a WWN once (uniqueDevices of the device finder).
sharedWwns(nw, rw) ==
    {w \in Wwns : /\ lvdrs(nw, rw) # {}
                  /\ \A n \in lvdrs(nw, rw) : \E p \in Paths : rw.copy.dev[n][p] = w}

\* The path is the one on the first node listed.
representative(nw, rw) ==
    LET first == CHOOSE i \in DOMAIN NodeOrder :
                    /\ NodeOrder[i] \in lvdrs(nw, rw)
                    /\ \A j \in 1..(i - 1) : NodeOrder[j] \notin lvdrs(nw, rw)
    IN  NodeOrder[first]

makeLuns(nw, rw, dw, keep) ==
    [w \in sharedWwns(nw, rw) \ dw.copy |->
        [path |-> pathOf(rw, representative(nw, rw), w), isSelected |-> w \in keep]]

\* Mistake: the selection is kept by path.
Refresh_ByPath(nw, rw, dw) ==
    IF ~(IsLoaded(nw) /\ IsLoaded(rw) /\ IsLoaded(dw)) THEN luns
    ELSE LET new == makeLuns(nw, rw, dw, {})
         IN  [w \in DOMAIN new |-> [new[w] EXCEPT !.isSelected = @ \/ new[w].path \in selectedPaths(luns)]]

\* Mistake: the list is not computed again once it is there.
Refresh_Once(nw, rw, dw) ==
    IF ~(IsLoaded(nw) /\ IsLoaded(rw) /\ IsLoaded(dw)) \/ luns # NoLuns THEN luns
    ELSE makeLuns(nw, rw, dw, selected(luns))

\* The effect that keeps the list, and by WWN the selection, up to date.
Refresh(nw, rw, dw) ==
    IF ~(IsLoaded(nw) /\ IsLoaded(rw) /\ IsLoaded(dw)) THEN luns
    ELSE makeLuns(nw, rw, dw, selected(luns))

----------------------------------------------------------------------------
(* The form.                                                               *)

onForm == screen = "form"

\* The effect that enables the button: a valid name and at least one LUN.
Cta(nm, list) == [cta EXCEPT !.isDisabled = nm \notin ValidNames \/ selected(list) = {}]

\* The LUNs change and the button with them; the submit function does not.
Show(list) ==
    /\ luns' = list /\ cta' = Cta(name, list)
    /\ UNCHANGED <<name, captured>>

\* The error of the results' watch hides the one of the nodes' watch.
lvdrError(nw, rw) == IF rw.st = "error" THEN "results" ELSE IF nw.st = "error" THEN "nodes" ELSE "none"

\* One alert when an error appears or changes, one dismissal when it goes away.
\* Both errors of the LUNs' watches have the same title.
errorEffect(list, before, after, title) ==
    IF after = before THEN list
    ELSE IF after # "none" THEN addAlert(list, title)
    ELSE dismissAlert(list)

Rendered(nw, rw, dw, list) ==
    /\ nodesW' = nw /\ resultsW' = rw /\ disksW' = dw
    /\ Show(Refresh(nw, rw, dw))
    /\ chosen' = chosen \cap DOMAIN luns'
    /\ alerts' = list
    /\ UNCHANGED <<screen, clusterVars, inFlight, disks, healthy, claims, submits>>

FormNodesDelivered ==
    /\ onForm /\ nodesW # Delivered(labels)
    /\ Rendered(Delivered(labels), resultsW, disksW,
                errorEffect(alerts, lvdrError(nodesW, resultsW),
                            lvdrError(Delivered(labels), resultsW), "results"))
    /\ UNCHANGED upsets

FormResultsDelivered ==
    /\ onForm /\ resultsW # Delivered(results)
    /\ Rendered(nodesW, Delivered(results), disksW,
                errorEffect(alerts, lvdrError(nodesW, resultsW),
                            lvdrError(nodesW, Delivered(results)), "results"))
    /\ UNCHANGED upsets

FormDisksDelivered ==
    /\ onForm /\ disksW # Delivered(disks)
    /\ Rendered(nodesW, resultsW, Delivered(disks),
                errorEffect(alerts, IF disksW.st = "error" THEN "disks" ELSE "none",
                            "none", "disks"))
    /\ UNCHANGED upsets

\* A watch fails, or fails again.  Failed LocalDisks hide nothing from the list:
\* disks in use are on offer.  Failed nodes or results empty it, selection and all.
FormWatchFails ==
    /\ onForm /\ Upset("watch")
    /\ \/ Rendered(Failed(NoLabels), resultsW, disksW,
                   IF resultsW.st = "error" THEN alerts ELSE addAlert(alerts, "results"))
       \/ Rendered(nodesW, Failed(NoResults), disksW, addAlert(alerts, "results"))
       \/ Rendered(nodesW, resultsW, Failed({}), addAlert(alerts, "disks"))

\* The close button of the alert that is shown; a failed creation has none.
FormCloseAlert ==
    /\ onForm /\ alerts # <<>> /\ Head(alerts) # "create"
    /\ alerts' = dismissAlert(alerts)
    /\ UNCHANGED <<screen, cta, clusterVars, watchVars, inFlight, upsets, claimFormVars>>

\* Typing renders the form with a new name, and with it a new submit function.
handleFileSystemNameChange(nm) ==
    /\ onForm /\ name' = nm /\ nm # name
    /\ captured' = luns /\ cta' = Cta(nm, luns)
    /\ UNCHANGED <<screen, alerts, clusterVars, watchVars, inFlight, upsets,
                   disks, disksW, luns, healthy, claims, submits, chosen>>

\* setSelected finds the LUN by its path.
handleSelectLun(w) ==
    /\ onForm
    /\ LET same == {v \in DOMAIN luns : luns[v].path = luns[w].path}
       IN  Show([v \in DOMAIN luns |->
                    IF v \in same THEN [luns[v] EXCEPT !.isSelected = ~luns[w].isSelected]
                                  ELSE luns[v]])
    /\ chosen' = IF luns[w].isSelected THEN chosen \ {w} ELSE chosen \cup {w}
    /\ UNCHANGED <<screen, alerts, clusterVars, watchVars, inFlight, upsets,
                   disks, disksW, healthy, claims, submits>>

\* setAllSelected: everything, or nothing when everything is.
handleSelectAllLuns ==
    /\ onForm /\ DOMAIN luns # {}
    /\ LET all == selected(luns) # DOMAIN luns
       IN  /\ Show([v \in DOMAIN luns |-> [luns[v] EXCEPT !.isSelected = all]])
           /\ chosen' = IF all THEN DOMAIN luns ELSE {}
    /\ UNCHANGED <<screen, alerts, clusterVars, watchVars, inFlight, upsets,
                   disks, disksW, healthy, claims, submits>>

\* The button asks for a healthy daemon and remembers the last one it saw: a list
\* that is empty, or fails, changes nothing.
DaemonsDelivered ==
    /\ onForm /\ \E h \in BOOLEAN : h # healthy /\ healthy' = h
    /\ UNCHANGED <<screen, storeVars, clusterVars, watchVars, inFlight, upsets,
                   disks, disksW, luns, name, captured, claims, submits, chosen>>

\* The submit function, up to the call it sends.
handleSubmitForm ==
    /\ onForm /\ ~cta.isDisabled /\ healthy /\ Len(alerts) < MaxAlerts
    /\ cta' = [cta EXCEPT !.isLoading = TRUE]
    /\ \/ inFlight /\ UNCHANGED submits
       \/ /\ ~inFlight /\ Cardinality(submits) < MaxSubmits
          /\ submits' = submits \cup {[name |-> name, devices |-> selectedPaths(captured),
                                       for |-> "screen"]}
    /\ UNCHANGED <<screen, alerts, clusterVars, watchVars, inFlight, upsets,
                   disks, formVars, claims, chosen>>

\* Leaving the form drops it; answers still come.
LeaveForm ==
    /\ disksW' = Loading({}) /\ luns' = NoLuns /\ name' = NoName /\ captured' = NoLuns
    /\ healthy' = FALSE /\ chosen' = {}

\* The answer to a creation; on success the claims are shown, whatever is on the
\* screen by then (the caller leaves the screen).
ClaimCreated(s) ==
    /\ s.name \notin claims /\ claims' = claims \cup {s.name}
    /\ submits' = {[t EXCEPT !.for = "nobody"] : t \in submits \ {s}}
    /\ LeaveForm
    /\ UNCHANGED <<clusterVars, inFlight, upsets, disks>>

ClaimRefused(s) ==
    /\ \/ s.name \in claims /\ UNCHANGED upsets
       \/ s.name \notin claims /\ Upset("refuse")
    /\ submits' = submits \ {s}
    /\ \/ /\ s.for = "screen"
          /\ alerts' = addAlert(alerts, "create") /\ cta' = [cta EXCEPT !.isLoading = FALSE]
       \/ s.for = "nobody" /\ UNCHANGED storeVars
    /\ UNCHANGED <<screen, clusterVars, watchVars, inFlight, disks, formVars, claims, chosen>>

\* A disk is taken into use, or freed.
OthersUseDisk ==
    /\ Upset("disk")
    /\ \E w \in Wwns : disks' = IF w \in disks THEN disks \ {w} ELSE disks \cup {w}
    /\ UNCHANGED <<screen, storeVars, clusterVars, watchVars, inFlight, formVars,
                   claims, submits, chosen>>

FormEvents ==
    \/ FormNodesDelivered \/ FormResultsDelivered \/ FormDisksDelivered
    \/ FormWatchFails \/ FormCloseAlert \/ DaemonsDelivered
    \/ \E nm \in Names \cup {NoName} : handleFileSystemNameChange(nm)
    \/ \E w \in DOMAIN luns : handleSelectLun(w)
    \/ handleSelectAllLuns \/ handleSubmitForm

----------------------------------------------------------------------------
(* Properties.                                                             *)

\* While the watches deliver, the LUNs on offer are the disks that every node with
\* the storage label and a result reports and no LocalDisk uses, whatever order the
\* watches came in and however often they changed.
OfferIsCurrent ==
    onForm /\ nodesW.st = "data" /\ resultsW.st = "data" /\ disksW.st = "data" =>
        LET reporting == {n \in Nodes : Storage \in nodesW.copy[n] /\ n \in resultsW.copy.nodes}
            sees(n, w) == \E p \in Paths : resultsW.copy.dev[n][p] = w
        IN  DOMAIN luns = {w \in Wwns : /\ w \notin disksW.copy
                                        /\ reporting # {}
                                        /\ \A n \in reporting : sees(n, w)}

\* What is ticked is what the user ticked: the choice follows the disk when nodes
\* renumber their devices, and is lost with a disk that was off the list.
ChoiceFollowsDisk == selected(luns) = chosen

\* A claim is submitted for the devices that are ticked when the user submits it.
SubmitsSelection ==
    [][\A s \in submits' \ submits : s.for = "screen" /\ onForm' =>
          s.devices = selectedPaths(luns)]_<<submits, screen>>
=============================================================================
