---------------------------- MODULE ConsoleStore ----------------------------
(***************************************************************************)
(* What the screens of the web console have in common (console/src): the   *)
(* store of the mounted screen (shared/store/reducer.ts), the watches it   *)
(* renders from (shared/utils/use_k8s_watch_resource.ts) and the cluster   *)
(* behind them.  React handles one event at a time: an action here is an   *)
(* event together with the renders and the effects it leads to.            *)
(***************************************************************************)
EXTENDS Naturals, Sequences, FiniteSets

CONSTANTS
    Nodes,        \* worker nodes
    Paths,        \* device paths
    Wwns,         \* disk identities
    Discoveries,  \* contents the LocalVolumeDiscoveryResults may have
    Upsets,       \* kinds of disturbance
    MaxUpsets,    \* how many of them
    MaxAlerts     \* alerts on the screen when a creation is asked for

NoDisk == "no disk"

ASSUME StoreAssumption ==
    /\ NoDisk \notin Wwns /\ MaxUpsets \in Nat /\ MaxAlerts \in Nat
    /\ IsFiniteSet(Nodes) /\ IsFiniteSet(Wwns)
    /\ Discoveries # {}
    /\ Discoveries \subseteq
         [nodes: SUBSET Nodes, dev: [Nodes -> [Paths -> Wwns \cup {NoDisk}]]]

VARIABLES
    screen,    \* the mounted screen
    alerts,    \* its alerts; only the first is shown (shared/components/ListPage.tsx)
    cta,       \* its call-to-action button
    labels,    \* the labels of each node, as the API server stores them
    results,   \* the LocalVolumeDiscoveryResults: which nodes have one, and the disks
    nodesW,    \* the screen's watch of nodes
    resultsW,  \* the screen's watch of LocalVolumeDiscoveryResults
    inFlight,  \* the console is reading the cluster's API definitions
    upsets

storeVars == <<alerts, cta>>
clusterVars == <<labels, results>>
watchVars == <<nodesW, resultsW>>

Screens == {"home", "clusters", "nodes", "claims", "form"}

\* STORAGE_ROLE_LABEL, and a label another component of the cluster looks after.
Storage == "storage"
Other == "other"
Labels == {Storage, Other}

----------------------------------------------------------------------------
(* The reducer.  An alert is named by what it reports.                     *)

Requirements == "minimum-shared-disks-and-nodes"
ErrorAlerts == {"results", "nodes", "disks", "selection", "create"}

Has(list, a) == \E i \in DOMAIN list : list[i] = a

\* Mistake: every alert goes to the back.
addAlert_AtBack(list, a) == IF a = Requirements /\ Has(list, a) THEN list ELSE Append(list, a)

\* The alert about the requirements is added once, and first.
addAlert(list, a) ==
    IF a # Requirements THEN Append(list, a)
    ELSE IF ~Has(list, a) THEN <<a>> \o list
    ELSE LET i == CHOOSE j \in DOMAIN list : list[j] = a /\ \A k \in 1..(j - 1) : list[k] # a
         IN  <<a>> \o SubSeq(list, 1, i - 1) \o SubSeq(list, i + 1, Len(list))

\* Whoever dismisses an alert, the first one goes.
dismissAlert(list) == IF list = <<>> THEN list ELSE Tail(list)

initialCta == [isDisabled |-> TRUE, isLoading |-> FALSE]

----------------------------------------------------------------------------
(* Watches: loading, failed or delivered.                                  *)

Watch(data) == [st: {"loading", "error", "data"}, copy: data]
Labellings == [Nodes -> SUBSET Labels]

NoLabels == [n \in Nodes |-> {}]
NoResults == [nodes |-> {}, dev |-> [n \in Nodes |-> [p \in Paths |-> NoDisk]]]

Loading(none) == [st |-> "loading", copy |-> none]
Failed(none) == [st |-> "error", copy |-> none]
Delivered(data) == [st |-> "data", copy |-> data]

\* normalizeResult: a failed watch counts as loaded and has no data, which the
\* repositories turn into an empty list.
IsLoaded(w) == w.st # "loading"

Upset(kind) == kind \in Upsets /\ upsets < MaxUpsets /\ upsets' = upsets + 1

----------------------------------------------------------------------------
(* The cluster.                                                            *)

\* Someone else selects a node, or another component labels it.
OthersLabel ==
    /\ Upset("label")
    /\ \E n \in Nodes, l \in Labels :
          labels' = [labels EXCEPT ![n] = IF l \in @ THEN @ \ {l} ELSE @ \cup {l}]
    /\ UNCHANGED <<screen, storeVars, results, watchVars, inFlight>>

\* The device finders report something else.
OthersDiscover ==
    /\ Upset("discovery")
    /\ results' \in Discoveries \ {results}
    /\ UNCHANGED <<screen, storeVars, labels, watchVars, inFlight>>
=============================================================================
