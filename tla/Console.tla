------------------------------- MODULE Console -------------------------------
(***************************************************************************)
(* The web console (console/src): the screens a user moves between, one    *)
(* mounted at a time, over one cluster.  NodeSelection and ClaimForm are   *)
(* the two screens that change the cluster; the others show it and lead    *)
(* from one to the next.  An answer to a call of a screen that was left    *)
(* still comes, and one about a creation still moves the user.             *)
(***************************************************************************)
EXTENDS NodeSelection, ClaimForm

CONSTANTS
    FirstScreens,    \* screens a user may open first
    FirstLabels,     \* labels the nodes may have to begin with
    FirstDisks,      \* disks that may be in use to begin with
    ClusterAtFirst   \* may a storage cluster be there to begin with?

ASSUME ConsoleAssumption ==
    /\ FirstScreens \subseteq Screens /\ FirstLabels \subseteq Labellings
    /\ FirstDisks \subseteq SUBSET Wwns
    /\ ClusterAtFirst \subseteq BOOLEAN

vars == <<screen, storeVars, clusterVars, watchVars, inFlight, upsets,
          selectionVars, claimFormVars>>

Init ==
    /\ screen \in FirstScreens /\ alerts = <<>> /\ cta = initialCta
    /\ labels \in FirstLabels /\ results \in Discoveries /\ disks \in FirstDisks
    /\ nodesW = Loading(NoLabels) /\ resultsW = Loading(NoResults)
    /\ disksW = Loading({})
    /\ inFlight = FALSE /\ upsets = 0
    /\ row = [n \in Nodes |-> "unmounted"] /\ patches = {} /\ creates = {}
    /\ cluster \in ClusterAtFirst
    /\ luns = NoLuns /\ name = NoName /\ captured = NoLuns /\ healthy = FALSE
    /\ claims = {} /\ submits = {} /\ chosen = {}

----------------------------------------------------------------------------
(* Moving between screens.                                                 *)

\* Calls that outlive the screen they came from.
Unheard(calls) == {[c EXCEPT !.for = "nobody"] : c \in calls}

Moved(to) ==
    /\ Leave(to) /\ LeaveForm
    /\ creates' = Unheard(creates) /\ submits' = Unheard(submits)
    /\ UNCHANGED <<clusterVars, inFlight, cluster, disks, claims>>

\* A link, a cancel button or a URL.
Open(s) ==
    Upset("visit") /\ s # screen /\ Moved(s)

\* The home screen sends the user on once the FusionAccess is ready; the form sends
\* the user away when there is no storage cluster.
Redirect ==
    /\ \/ screen = "home" /\ Moved(IF cluster THEN "claims" ELSE "clusters")
       \/ onForm /\ ~cluster /\ Moved("clusters")
    /\ UNCHANGED upsets

----------------------------------------------------------------------------
(* Answers.                                                                *)

NodeAnswer(p) ==
    /\ PatchNode(p) \/ PatchAnswered(p)
    /\ UNCHANGED claimFormVars

ClusterAnswer(c) ==
    \/ /\ ClusterCreated(c) /\ LeaveForm /\ submits' = Unheard(submits)
       /\ UNCHANGED <<disks, claims>>
    \/ ClusterRefused(c) /\ UNCHANGED claimFormVars

ClaimAnswer(s) ==
    \/ ClaimCreated(s) /\ Leave("claims") /\ creates' = Unheard(creates) /\ UNCHANGED cluster
    \/ ClaimRefused(s) /\ UNCHANGED selectionVars

----------------------------------------------------------------------------

\* The console reads the API definitions anew, and is done: the screens get new
\* functions to create with.
ModelsInFlight ==
    /\ \/ ~inFlight /\ Upset("models")
       \/ inFlight /\ UNCHANGED upsets
    /\ inFlight' = ~inFlight /\ captured' = luns
    /\ UNCHANGED <<screen, storeVars, clusterVars, watchVars, selectionVars,
                   disks, disksW, luns, name, healthy, claims, submits, chosen>>

Others ==
    \/ (OthersLabel \/ OthersDiscover) /\ UNCHANGED <<selectionVars, claimFormVars>>
    \/ OthersUseDisk /\ UNCHANGED selectionVars

Next ==
    \/ SelectionEvents /\ UNCHANGED claimFormVars
    \/ FormEvents /\ UNCHANGED selectionVars
    \/ \E p \in patches : NodeAnswer(p)
    \/ \E c \in creates : ClusterAnswer(c)
    \/ \E s \in submits : ClaimAnswer(s)
    \/ \E s \in Screens : Open(s)
    \/ Redirect \/ ModelsInFlight \/ Others

Spec == Init /\ [][Next]_vars

\* A call is answered, if only by the browser giving up on it.
FairSpec ==
    Spec /\ \A n \in Nodes : WF_vars(\E p \in patches : p.node = n /\ NodeAnswer(p))

----------------------------------------------------------------------------

\* Every variable keeps its type, and a call is heard only on its own screen.
TypeOK ==
    /\ screen \in Screens /\ alerts \in Seq(ErrorAlerts \cup {Requirements})
    /\ cta \in [isDisabled: BOOLEAN, isLoading: BOOLEAN]
    /\ labels \in Labellings /\ results \in Discoveries
    /\ nodesW \in Watch(Labellings) /\ resultsW \in Watch(Discoveries \cup {NoResults})
    /\ disks \subseteq Wwns /\ disksW \in Watch(SUBSET Wwns)
    /\ inFlight \in BOOLEAN /\ upsets \in 0..MaxUpsets
    /\ row \in [Nodes -> RowStates] /\ patches \subseteq Patches
    /\ cluster \in BOOLEAN /\ creates \subseteq Creates
    /\ luns \in Luns /\ captured \in Luns /\ name \in Names \cup {NoName}
    /\ healthy \in BOOLEAN /\ claims \subseteq Names
    /\ submits \subseteq Submits /\ chosen \subseteq Wwns
    /\ \A p \in patches : p.for # "nobody" => onNodes
    /\ \A c \in creates : c.for = "screen" => onNodes
    /\ \A s \in submits : s.for = "screen" => onForm
=============================================================================
