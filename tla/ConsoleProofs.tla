---------------------------- MODULE ConsoleProofs ----------------------------
(***************************************************************************)
(* Theorems about the web console: the types of its state, and what a user *)
(* sees of it.  The alerts' types and their order are proved together: the *)
(* reducer takes an alert out of the list by the position it looks it up   *)
(* at, and dismisses by position without looking.                          *)
(***************************************************************************)
EXTENDS Console, SequenceTheorems, WellFoundedInduction, TLAPS

Alerts == ErrorAlerts \cup {Requirements}
Ctas == [isDisabled: BOOLEAN, isLoading: BOOLEAN]

\* The warning about the requirements comes first in the list, and once.
Shown(list) == \A i \in DOMAIN list : list[i] = Requirements => i = 1

StoreOK == screen \in Screens /\ alerts \in Seq(Alerts) /\ Shown(alerts) /\ cta \in Ctas
ClusterOK ==
    /\ labels \in Labellings /\ results \in Discoveries /\ disks \subseteq Wwns
    /\ claims \subseteq Names /\ cluster \in BOOLEAN /\ inFlight \in BOOLEAN
    /\ upsets \in 0..MaxUpsets
WatchOK ==
    /\ nodesW \in Watch(Labellings) /\ resultsW \in Watch(Discoveries \cup {NoResults})
    /\ disksW \in Watch(SUBSET Wwns)
RowOK ==
    /\ row \in [Nodes -> RowStates] /\ patches \subseteq Patches
    /\ \A p \in patches : p.for # "nobody" => onNodes
CreateOK == creates \subseteq Creates /\ \A c \in creates : c.for = "screen" => onNodes
SubmitOK == submits \subseteq Submits /\ \A s \in submits : s.for = "screen" => onForm
FormOK ==
    /\ luns \in Luns /\ captured \in Luns /\ name \in Names \cup {NoName}
    /\ healthy \in BOOLEAN /\ chosen \subseteq Wwns

ConsoleInv == StoreOK /\ ClusterOK /\ WatchOK /\ RowOK /\ CreateOK /\ SubmitOK /\ FormOK

LEMMA InvParts == ConsoleInv <=> TypeOK /\ RequirementsShown
  BY DEF ConsoleInv, StoreOK, ClusterOK, WatchOK, RowOK, CreateOK, SubmitOK, FormOK, TypeOK,
         RequirementsShown, Shown, Alerts, Ctas

----------------------------------------------------------------------------
(* The reducer.                                                            *)

LEMMA NotRequirements == Requirements \notin ErrorAlerts
  BY DEF Requirements, ErrorAlerts

\* An alert about a failure goes to the back.
LEMMA AddFailure ==
    ASSUME NEW list \in Seq(Alerts), Shown(list), NEW a \in ErrorAlerts
    PROVE  /\ addAlert(list, a) \in Seq(Alerts) /\ Shown(addAlert(list, a))
           /\ Has(addAlert(list, a), Requirements) <=> Has(list, Requirements)
           /\ Len(addAlert(list, a)) = Len(list) + 1
           /\ \A i \in 1..Len(list) : addAlert(list, a)[i] = list[i]
<1>1. a # Requirements /\ a \in Alerts
  BY NotRequirements DEF Alerts
<1>2. addAlert(list, a) = Append(list, a)
  BY <1>1 DEF addAlert
<1>3. /\ Append(list, a) \in Seq(Alerts) /\ Len(Append(list, a)) = Len(list) + 1
      /\ \A i \in 1..Len(list) : Append(list, a)[i] = list[i]
      /\ Append(list, a)[Len(list) + 1] = a
      /\ Len(list) \in Nat /\ DOMAIN list = 1..Len(list)
      /\ DOMAIN Append(list, a) = 1..(Len(list) + 1)
  BY <1>1, AppendProperties, LenProperties
<1>4. \A i \in DOMAIN Append(list, a) : i \in DOMAIN list \/ i = Len(list) + 1
  BY <1>3
<1>5. DOMAIN list \subseteq DOMAIN Append(list, a)
  BY <1>3
<1>6. Shown(Append(list, a))
  BY <1>1, <1>3, <1>4 DEF Shown
<1>7. Has(Append(list, a), Requirements) <=> Has(list, Requirements)
  BY <1>1, <1>3, <1>4, <1>5 DEF Has
<1>8. QED BY <1>2, <1>3, <1>6, <1>7

\* The alerts but for the warning.
Rest(list) == IF list # <<>> /\ Head(list) = Requirements THEN Tail(list) ELSE list

\* The warning goes to the front, and nothing else changes its place.
LEMMA AddWarning ==
    ASSUME NEW list \in Seq(Alerts), Shown(list)
    PROVE  /\ addAlert(list, Requirements) \in Seq(Alerts) /\ Shown(addAlert(list, Requirements))
           /\ addAlert(list, Requirements) = <<Requirements>> \o Rest(list)
<1>1. Len(list) \in Nat /\ DOMAIN list = 1..Len(list) /\ Requirements \in Alerts
  BY LenProperties DEF Alerts
<1>2. CASE ~Has(list, Requirements)
  <2> DEFINE new == <<Requirements>> \o list
  <2>1. /\ new \in Seq(Alerts) /\ Len(new) = 1 + Len(list)
        /\ \A i \in 1..Len(new) : new[i] = IF i <= 1 THEN <<Requirements>>[i] ELSE list[i - 1]
    BY <1>1, ConcatProperties
  <2>2. \A i \in 1..Len(new) : i # 1 => new[i] = list[i - 1] /\ i - 1 \in DOMAIN list
    BY <1>1, <2>1
  <2>3. Shown(new)
    BY <1>2, <2>1, <2>2, LenProperties DEF Shown, Has
  <2>4. Rest(list) = list
    <3>1. list # <<>> => Head(list) = list[1] /\ 1 \in DOMAIN list
      BY <1>1
    <3>2. QED BY <1>2, <3>1 DEF Has, Rest
  <2>5. QED BY <1>2, <2>1, <2>3, <2>4 DEF addAlert
<1>3. CASE Has(list, Requirements)
  <2>1. list[1] = Requirements /\ Len(list) >= 1
    BY <1>1, <1>3 DEF Has, Shown
  <2> DEFINE first == CHOOSE j \in DOMAIN list :
                         list[j] = Requirements /\ \A k \in 1..(j - 1) : list[k] # Requirements
  <2>2. first = 1
    <3>1. /\ 1 \in DOMAIN list /\ list[1] = Requirements
          /\ \A k \in 1..(1 - 1) : list[k] # Requirements
      BY <1>1, <2>1
    <3>2. first \in DOMAIN list /\ list[first] = Requirements
      BY <3>1
    <3>3. QED BY <3>2 DEF Shown
  <2>3. addAlert(list, Requirements)
          = <<Requirements>> \o SubSeq(list, 1, first - 1) \o SubSeq(list, first + 1, Len(list))
    BY <1>3 DEF addAlert
  <2> HIDE DEF first
  <2>4. addAlert(list, Requirements)
          = <<Requirements>> \o SubSeq(list, 1, 0) \o SubSeq(list, 2, Len(list))
    BY <2>2, <2>3
  <2>5. SubSeq(list, 1, 0) = <<>>
    BY <1>1, SubSeqEmpty
  <2> DEFINE rest == SubSeq(list, 2, Len(list))
             new == <<Requirements>> \o rest
  <2>6. /\ rest \in Seq(Alerts) /\ Len(rest) = Len(list) - 1
        /\ \A i \in 1..(Len(list) - 1) : rest[i] = list[i + 1]
    BY <1>1, <2>1
  <2>7. /\ new \in Seq(Alerts) /\ Len(new) = Len(list)
        /\ \A i \in 1..Len(new) : new[i] = IF i <= 1 THEN <<Requirements>>[i] ELSE rest[i - 1]
    BY <1>1, <2>6, ConcatProperties
  <2>8. \A i \in 1..Len(new) : i # 1 => new[i] = list[i] /\ i \in DOMAIN list
    BY <1>1, <2>6, <2>7
  <2>9. Shown(new)
    BY <2>7, <2>8, LenProperties DEF Shown
  <2>10. addAlert(list, Requirements) = new
    BY <1>1, <2>4, <2>5
  <2>11. Rest(list) = rest
    <3>1. list # <<>> /\ Head(list) = Requirements
      BY <1>1, <2>1
    <3>2. QED BY <3>1, TailIsSubSeq DEF Rest
  <2>12. QED BY <2>7, <2>9, <2>10, <2>11
<1>4. QED BY <1>2, <1>3

\* Dismissing takes the warning, when there is one.
LEMMA Dismissed ==
    ASSUME NEW list \in Seq(Alerts), Shown(list)
    PROVE  /\ dismissAlert(list) \in Seq(Alerts) /\ Shown(dismissAlert(list))
           /\ ~Has(dismissAlert(list), Requirements)
<1>1. CASE list = <<>>
  BY <1>1 DEF dismissAlert, Has
<1>2. CASE list # <<>>
  <2>1. /\ Tail(list) \in Seq(Alerts) /\ Len(Tail(list)) = Len(list) - 1
        /\ \A i \in 1..Len(Tail(list)) : Tail(list)[i] = list[i + 1]
    BY <1>2, HeadTailProperties
  <2>2. \A i \in DOMAIN Tail(list) : i + 1 \in DOMAIN list /\ i \in Nat \ {0}
    BY <2>1, LenProperties
  <2>3. \A i \in DOMAIN Tail(list) : Tail(list)[i] # Requirements
    BY <2>1, <2>2, LenProperties DEF Shown
  <2>4. QED BY <1>2, <2>1, <2>3 DEF dismissAlert, Shown, Has
<1>3. QED BY <1>1, <1>2

----------------------------------------------------------------------------
(* Watches and LUNs.                                                       *)

Results == Discoveries \cup {NoResults}

LEMMA ResultsType ==
    ASSUME NEW r \in Results
    PROVE  r.nodes \subseteq Nodes /\ r.dev \in [Nodes -> [Paths -> Wwns \cup {NoDisk}]]
  BY StoreAssumption DEF Results, NoResults

LEMMA WatchTypes ==
    /\ \A d \in Labellings : Delivered(d) \in Watch(Labellings)
    /\ \A d \in Results : Delivered(d) \in Watch(Results)
    /\ \A d \in SUBSET Wwns : Delivered(d) \in Watch(SUBSET Wwns)
    /\ Loading(NoLabels) \in Watch(Labellings) /\ Failed(NoLabels) \in Watch(Labellings)
    /\ Loading(NoResults) \in Watch(Results) /\ Failed(NoResults) \in Watch(Results)
    /\ Loading({}) \in Watch(SUBSET Wwns) /\ Failed({}) \in Watch(SUBSET Wwns)
<1>1. NoLabels \in Labellings /\ NoResults \in Results /\ {} \in SUBSET Wwns
  BY DEF NoLabels, Labellings, Results
<1>2. QED BY <1>1 DEF Watch, Delivered, Loading, Failed

\* The first node listed among those that count is one of them.
LEMMA RepresentativeCounts ==
    ASSUME NEW nw, NEW rw \in Watch(Results), lvdrs(nw, rw) # {}
    PROVE  representative(nw, rw) \in lvdrs(nw, rw)
<1> DEFINE T == {i \in DOMAIN NodeOrder : NodeOrder[i] \in lvdrs(nw, rw)}
<1>1. lvdrs(nw, rw) \subseteq Nodes
  BY ResultsType DEF lvdrs, Watch
<1>2. DOMAIN NodeOrder \subseteq Nat
  BY FormAssumption, LenProperties
<1>3. T \subseteq Nat /\ T # {}
  BY <1>1, <1>2, FormAssumption
<1>4. PICK x \in T : \A y \in T : ~(<<y, x>> \in OpToRel(<, Nat))
  BY <1>3, WFMin, NatLessThanWellFounded
<1>5. \A y \in T : ~(y < x)
  BY <1>3, <1>4 DEF OpToRel
<1>6. \A j \in 1..(x - 1) : NodeOrder[j] \notin lvdrs(nw, rw)
  <2>1. SUFFICES ASSUME NEW j \in 1..(x - 1), NodeOrder[j] \in lvdrs(nw, rw) PROVE FALSE
    OBVIOUS
  <2>2. x \in 1..Len(NodeOrder) /\ DOMAIN NodeOrder = 1..Len(NodeOrder) /\ Len(NodeOrder) \in Nat
    BY FormAssumption, LenProperties
  <2>3. j \in DOMAIN NodeOrder /\ j < x
    BY <2>2
  <2>4. QED BY <1>5, <2>1, <2>3
<1> DEFINE first == CHOOSE i \in DOMAIN NodeOrder :
                       /\ NodeOrder[i] \in lvdrs(nw, rw)
                       /\ \A j \in 1..(i - 1) : NodeOrder[j] \notin lvdrs(nw, rw)
<1>7. NodeOrder[first] \in lvdrs(nw, rw)
  BY <1>6
<1>8. QED BY <1>7 DEF representative

\* No two LUNs of the form share their path.
PathsDistinct(list) == \A v, w \in DOMAIN list : list[v].path = list[w].path => v = w

\* The disks on offer, and the selection kept among them.
OnOffer(nw, rw, dw) == sharedWwns(nw, rw) \ dw.copy
KeepsChoice(list, keep) == selected(list) = DOMAIN list \cap keep

LEMMA MakeLuns ==
    ASSUME NEW nw, NEW rw \in Watch(Results), NEW dw, NEW keep
    PROVE  /\ makeLuns(nw, rw, dw, keep) \in Luns /\ PathsDistinct(makeLuns(nw, rw, dw, keep))
           /\ DOMAIN makeLuns(nw, rw, dw, keep) = OnOffer(nw, rw, dw)
           /\ KeepsChoice(makeLuns(nw, rw, dw, keep), keep)
<1> DEFINE list == makeLuns(nw, rw, dw, keep)
           rep == representative(nw, rw)
<1>1. /\ DOMAIN list = sharedWwns(nw, rw) \ dw.copy
      /\ \A w \in DOMAIN list : /\ list[w] = [path |-> pathOf(rw, rep, w), isSelected |-> w \in keep]
                                 /\ list[w].path = pathOf(rw, rep, w)
                                 /\ list[w].isSelected = (w \in keep)
  <2>1. list = [w \in sharedWwns(nw, rw) \ dw.copy |->
                  [path |-> pathOf(rw, rep, w), isSelected |-> w \in keep]]
    BY DEF makeLuns
  <2> HIDE DEF list, rep
  <2>2. QED BY <2>1
<1>2. ASSUME NEW w \in DOMAIN list
      PROVE  w \in Wwns /\ pathOf(rw, rep, w) \in Paths /\ rw.copy.dev[rep][pathOf(rw, rep, w)] = w
  <2>1. w \in Wwns /\ lvdrs(nw, rw) # {}
        /\ \A n \in lvdrs(nw, rw) : \E p \in Paths : rw.copy.dev[n][p] = w
    <3> HIDE DEF list
    <3>1. w \in sharedWwns(nw, rw)
      BY <1>1, <1>2
    <3>2. QED BY <3>1 DEF sharedWwns
  <2>2. \E p \in Paths : rw.copy.dev[rep][p] = w
    BY <2>1, RepresentativeCounts
  <2>3. QED BY <2>1, <2>2 DEF pathOf
<1> HIDE DEF list, rep
<1>3. PathsDistinct(list)
  <2>1. SUFFICES ASSUME NEW v \in DOMAIN list, NEW w \in DOMAIN list, list[v].path = list[w].path
                 PROVE  v = w
    BY DEF PathsDistinct
  <2>2. pathOf(rw, rep, v) = pathOf(rw, rep, w)
    BY <1>1, <2>1
  <2>3. rw.copy.dev[rep][pathOf(rw, rep, v)] = v /\ rw.copy.dev[rep][pathOf(rw, rep, w)] = w
    BY <1>2
  <2>4. QED BY <2>2, <2>3
<1>4. selected(list) = DOMAIN list \cap keep
  BY <1>1 DEF selected
<1>5. list \in Luns
  <2>1. DOMAIN list \in SUBSET Wwns
    BY <1>2
  <2>2. ASSUME NEW w \in DOMAIN list PROVE list[w] \in [path: Paths, isSelected: BOOLEAN]
    <3>1. pathOf(rw, rep, w) \in Paths /\ (w \in keep) \in BOOLEAN
      BY <1>2
    <3>2. list[w] = [path |-> pathOf(rw, rep, w), isSelected |-> w \in keep]
      BY <1>1
    <3>3. QED BY <3>1, <3>2
  <2>3. list = [w \in DOMAIN list |-> list[w]]
    BY DEF list, makeLuns
  <2>4. list \in [DOMAIN list -> [path: Paths, isSelected: BOOLEAN]]
    BY <2>2, <2>3
  <2>5. QED BY <2>1, <2>4 DEF Luns
<1>6. QED BY <1>1, <1>3, <1>4, <1>5 DEF list, OnOffer, KeepsChoice

----------------------------------------------------------------------------
(* What the events leave alone, and leaving a screen.                      *)

LEMMA Same ==
    /\ StoreOK /\ UNCHANGED <<screen, alerts, cta>> => StoreOK'
    /\ ClusterOK /\ UNCHANGED <<labels, results, disks, claims, cluster, inFlight, upsets>>
          => ClusterOK'
    /\ WatchOK /\ UNCHANGED <<nodesW, resultsW, disksW>> => WatchOK'
    /\ RowOK /\ UNCHANGED <<screen, row, patches>> => RowOK'
    /\ CreateOK /\ UNCHANGED <<screen, creates>> => CreateOK'
    /\ SubmitOK /\ UNCHANGED <<screen, submits>> => SubmitOK'
    /\ FormOK /\ UNCHANGED <<luns, captured, name, healthy, chosen>> => FormOK'
<1>1. StoreOK /\ UNCHANGED <<screen, alerts, cta>> => StoreOK'
  BY DEF StoreOK, Shown
<1>2. ClusterOK /\ UNCHANGED <<labels, results, disks, claims, cluster, inFlight, upsets>> => ClusterOK'
  BY DEF ClusterOK
<1>3. WatchOK /\ UNCHANGED <<nodesW, resultsW, disksW>> => WatchOK'
  BY DEF WatchOK
<1>4. RowOK /\ UNCHANGED <<screen, row, patches>> => RowOK'
  BY DEF RowOK, onNodes
<1>5. CreateOK /\ UNCHANGED <<screen, creates>> => CreateOK'
  BY DEF CreateOK, onNodes
<1>6. SubmitOK /\ UNCHANGED <<screen, submits>> => SubmitOK'
  BY DEF SubmitOK, onForm
<1>7. FormOK /\ UNCHANGED <<luns, captured, name, healthy, chosen>> => FormOK'
  BY DEF FormOK
<1>8. QED BY <1>1, <1>2, <1>3, <1>4, <1>5, <1>6, <1>7

LEMMA UpsetType ==
    ASSUME upsets \in 0..MaxUpsets, NEW k, Upset(k) \/ UNCHANGED upsets
    PROVE  upsets' \in 0..MaxUpsets
  BY StoreAssumption DEF Upset

LEMMA EmptyAlerts == <<>> \in Seq(Alerts) /\ Shown(<<>>) /\ ~Has(<<>>, Requirements)
  BY DEF Shown, Has

LEMMA NoLunsType == NoLuns \in Luns /\ selected(NoLuns) = {} /\ PathsDistinct(NoLuns)
<1>1. DOMAIN NoLuns = {}
  BY DEF NoLuns
<1>2. NoLuns \in [{} -> [path: Paths, isSelected: BOOLEAN]]
  BY DEF NoLuns
<1>3. QED BY <1>1, <1>2 DEF Luns, selected, PathsDistinct

\* The store, the watches, the rows and the form start anew.
LEMMA LeftScreen ==
    ASSUME ConsoleInv, NEW to \in Screens, Leave(to), LeaveForm, ClusterOK',
           NEW C \in SUBSET creates, creates' = Unheard(C),
           NEW S \in SUBSET submits, submits' = Unheard(S)
    PROVE  ConsoleInv'
<1>1. StoreOK'
  BY EmptyAlerts DEF Leave, StoreOK, initialCta, Ctas
<1>2. WatchOK'
  BY WatchTypes DEF Leave, LeaveForm, WatchOK, Results
<1>3. RowOK'
  <2>1. row' \in [Nodes -> RowStates]
    BY DEF Leave, RowStates
  <2>2. patches \subseteq Patches
    BY DEF ConsoleInv, RowOK
  <2>3. \A p \in Patches : [p EXCEPT !.for = "nobody"] \in Patches
                             /\ [p EXCEPT !.for = "nobody"].for = "nobody"
    BY DEF Patches, Listeners
  <2>4. patches' = {[p EXCEPT !.for = "nobody"] : p \in patches}
    BY DEF Leave
  <2>5. \A p \in patches' : p \in Patches /\ p.for = "nobody"
    BY <2>2, <2>3, <2>4
  <2>6. QED BY <2>1, <2>5 DEF RowOK
<1>4. CreateOK'
  <2>1. C \subseteq Creates
    BY DEF ConsoleInv, CreateOK
  <2>2. \A c \in Creates : [c EXCEPT !.for = "nobody"] \in Creates
                             /\ [c EXCEPT !.for = "nobody"].for = "nobody"
    BY DEF Creates
  <2>3. \A c \in creates' : c \in Creates /\ c.for = "nobody"
    BY <2>1, <2>2 DEF Unheard
  <2>4. QED BY <2>3 DEF CreateOK
<1>5. SubmitOK'
  <2>1. S \subseteq Submits
    BY DEF ConsoleInv, SubmitOK
  <2>2. \A c \in Submits : [c EXCEPT !.for = "nobody"] \in Submits
                             /\ [c EXCEPT !.for = "nobody"].for = "nobody"
    BY DEF Submits
  <2>3. \A c \in submits' : c \in Submits /\ c.for = "nobody"
    BY <2>1, <2>2 DEF Unheard
  <2>4. QED BY <2>3 DEF SubmitOK
<1>6. FormOK'
  BY NoLunsType DEF LeaveForm, FormOK
<1>7. QED BY <1>1, <1>2, <1>3, <1>4, <1>5, <1>6 DEF ConsoleInv

----------------------------------------------------------------------------
(* The screen that selects nodes.                                          *)

LEMMA Validated ==
    ASSUME cta \in Ctas, NEW list \in Seq(Alerts), Shown(list), NEW nw, NEW rw,
           Validate(nw, rw, list)
    PROVE  alerts' \in Seq(Alerts) /\ Shown(alerts)' /\ cta' \in Ctas
<1>1. cta' \in Ctas
  <2>1. Unmet(nw, rw) \in BOOLEAN
    BY DEF Unmet
  <2>2. cta' = cta \/ cta' = [cta EXCEPT !.isDisabled = Unmet(nw, rw)]
    BY DEF Validate
  <2> HIDE DEF Unmet
  <2>3. QED BY <2>1, <2>2 DEF Ctas
<1>2. alerts' \in {list, addAlert(list, Requirements), dismissAlert(list)}
  BY DEF Validate
<1>3. QED BY <1>1, <1>2, AddWarning, Dismissed DEF Shown

LEMMA RowsKept ==
    ASSUME RowOK, NEW nw, NEW rw, Rows(nw, rw), screen' = screen PROVE RowOK'
<1>1. row \in [Nodes -> RowStates] /\ patches \subseteq Patches
      /\ \A p \in patches : p.for # "nobody" => onNodes
  BY DEF RowOK
<1>2. row' \in [Nodes -> RowStates]
  BY <1>1 DEF Rows, RowStates, status
<1>3. CASE patches' = patches
  BY <1>1, <1>2, <1>3 DEF RowOK, onNodes
<1>4. CASE patches' = {[p EXCEPT !.for = IF @ = "row" THEN "screen" ELSE @] : p \in patches}
  <2>1. \A p \in patches : LET q == [p EXCEPT !.for = IF @ = "row" THEN "screen" ELSE @]
                           IN  q \in Patches /\ (q.for # "nobody" => p.for # "nobody")
    BY <1>1 DEF Patches, Listeners
  <2>2. \A q \in patches' : q \in Patches /\ (q.for # "nobody" => onNodes)
    BY <1>1, <1>4, <2>1
  <2>3. QED BY <1>2, <2>2 DEF RowOK, onNodes
<1>5. QED BY <1>3, <1>4 DEF Rows

\* What the watches of the screen bring.
WatchEvent == NodesDelivered \/ ResultsDelivered \/ NodesFail \/ ResultsFail

LEMMA WatchEventType == ASSUME ConsoleInv, WatchEvent, UNCHANGED claimFormVars PROVE ConsoleInv'
<1>1. /\ cta \in Ctas /\ alerts \in Seq(Alerts) /\ Shown(alerts) /\ screen \in Screens
      /\ labels \in Labellings /\ results \in Results
  BY DEF ConsoleInv, StoreOK, ClusterOK, Results
<1>2. /\ UNCHANGED <<screen, clusterVars, inFlight, cluster, creates>>
      /\ Upset("watch") \/ UNCHANGED upsets
  BY DEF WatchEvent, NodesDelivered, ResultsDelivered, NodesFail, ResultsFail
<1>3. PICK list \in {alerts, addAlert(alerts, "nodes"), addAlert(alerts, "results")} :
        Rows(nodesW', resultsW') /\ Validate(nodesW', resultsW', list)
  BY DEF WatchEvent, NodesDelivered, ResultsDelivered, NodesFail, ResultsFail
<1>4. list \in Seq(Alerts) /\ Shown(list)
  BY <1>1, <1>3, AddFailure DEF ErrorAlerts
<1>5. StoreOK'
  BY <1>1, <1>2, <1>3, <1>4, Validated DEF StoreOK
<1>6. RowOK'
  BY <1>2, <1>3, RowsKept DEF ConsoleInv
<1>7. WatchOK'
  <2>1. nodesW' = nodesW \/ nodesW' = Delivered(labels) \/ nodesW' = Failed(NoLabels)
    BY DEF WatchEvent, NodesDelivered, ResultsDelivered, NodesFail, ResultsFail
  <2>2. resultsW' = resultsW \/ resultsW' = Delivered(results) \/ resultsW' = Failed(NoResults)
    BY DEF WatchEvent, NodesDelivered, ResultsDelivered, NodesFail, ResultsFail
  <2>3. disksW' = disksW
    BY DEF claimFormVars, formVars
  <2>4. QED BY <1>1, <2>1, <2>2, <2>3, WatchTypes DEF WatchOK, ConsoleInv, Results
<1>8. ClusterOK'
  BY <1>2, UpsetType DEF ClusterOK, ConsoleInv, clusterVars, claimFormVars
<1>9. CreateOK' /\ SubmitOK' /\ FormOK'
  BY <1>2, Same DEF ConsoleInv, claimFormVars, formVars
<1>10. QED BY <1>5, <1>6, <1>7, <1>8, <1>9 DEF ConsoleInv

LEMMA SelectionType ==
    ASSUME ConsoleInv, SelectionEvents, UNCHANGED claimFormVars PROVE ConsoleInv'
<1>1. CASE CloseRequirements
  <2>1. StoreOK'
    BY <1>1, Dismissed DEF CloseRequirements, ConsoleInv, StoreOK
  <2>2. UNCHANGED <<screen, clusterVars, watchVars, inFlight, upsets, selectionVars, claimFormVars>>
    BY <1>1 DEF CloseRequirements
  <2>3. QED BY <2>1, <2>2, Same
            DEF ConsoleInv, clusterVars, watchVars, selectionVars, claimFormVars, formVars
<1>2. CASE handleCreateStorageCluster
  <2>1. /\ cta' = [cta EXCEPT !.isLoading = TRUE] /\ onNodes
        /\ UNCHANGED <<screen, alerts, clusterVars, watchVars, inFlight, upsets, rowVars, cluster>>
    BY <1>2 DEF handleCreateStorageCluster
  <2>2. StoreOK'
    BY <2>1 DEF ConsoleInv, StoreOK, Ctas, Shown
  <2>3. CreateOK'
    <3>1. CASE creates' = creates
      BY <2>1, <3>1, Same DEF ConsoleInv
    <3>2. ASSUME NEW i \in 1..MaxCalls, creates' = creates \cup {[id |-> i, for |-> "screen"]}
          PROVE  CreateOK'
      <4>1. [id |-> i, for |-> "screen"] \in Creates
        BY DEF Creates
      <4>2. QED BY <2>1, <3>2, <4>1 DEF ConsoleInv, CreateOK, onNodes
    <3>3. QED BY <1>2, <3>1, <3>2 DEF handleCreateStorageCluster
  <2>4. QED BY <2>1, <2>2, <2>3, Same
            DEF ConsoleInv, clusterVars, watchVars, rowVars, claimFormVars, formVars
<1>3. ASSUME NEW n \in Nodes, handleNodeSelectionChange(n) PROVE ConsoleInv'
  <2>1. /\ onNodes /\ row' = [row EXCEPT ![n] = "selection-pending"]
        /\ UNCHANGED <<screen, storeVars, clusterVars, watchVars, inFlight, upsets, cluster, creates>>
    BY <1>3 DEF handleNodeSelectionChange
  <2>2. PICK p : /\ p = [node |-> n, checked |-> row[n] = "unselected",
                         old |-> nodesW.copy[n], for |-> "row", st |-> "sent"]
                 /\ patches' = patches \cup {p}
    BY <1>3 DEF handleNodeSelectionChange
  <2>3. nodesW.copy[n] \subseteq Labels
    BY DEF ConsoleInv, WatchOK, Watch, Labellings
  <2>4. p \in Patches
    <3>1. (row[n] = "unselected") \in BOOLEAN
      OBVIOUS
    <3>2. QED BY <2>2, <2>3, <3>1 DEF Patches, Listeners
  <2>5. RowOK'
    BY <2>1, <2>2, <2>4 DEF ConsoleInv, RowOK, RowStates, onNodes
  <2>6. QED BY <2>1, <2>5, Same
            DEF ConsoleInv, storeVars, clusterVars, watchVars, claimFormVars, formVars
<1>4. QED BY <1>1, <1>2, <1>3, WatchEventType DEF SelectionEvents, WatchEvent

LEMMA NodeAnswerType ==
    ASSUME ConsoleInv, NEW p \in patches, NodeAnswer(p) PROVE ConsoleInv'
<1>1. p \in Patches /\ patches \subseteq Patches /\ row \in [Nodes -> RowStates]
      /\ labels \in Labellings /\ (p.for # "nobody" => onNodes)
  BY DEF ConsoleInv, RowOK, ClusterOK
<1>2. CASE PatchNode(p)
  <2>1. UNCHANGED <<screen, storeVars, results, watchVars, inFlight, row, cluster, creates,
                    claimFormVars>> /\ (UNCHANGED upsets \/ Upset("reply") \/ Upset("refuse"))
    BY <1>2 DEF PatchNode, NodeAnswer
  <2>2. labels' \in Labellings
    <3>1. toggleNodeStorageRoleLabel(p.old, p.checked) \subseteq Labels
      BY <1>1 DEF toggleNodeStorageRoleLabel, Patches, Labels
    <3>2. QED BY <1>1, <1>2, <3>1 DEF PatchNode, Labellings, Patches
  <2>3. RowOK'
    <3>1. PICK x \in {"done", "failed"} : patches' = (patches \ {p}) \cup {[p EXCEPT !.st = x]}
      BY <1>2 DEF PatchNode
    <3>2. [p EXCEPT !.st = x] \in Patches /\ [p EXCEPT !.st = x].for = p.for
      BY <1>1 DEF Patches
    <3>3. QED BY <1>1, <2>1, <3>1, <3>2 DEF ConsoleInv, RowOK, onNodes
  <2>4. ClusterOK'
    BY <2>1, <2>2, UpsetType DEF ConsoleInv, ClusterOK, claimFormVars
  <2>5. QED BY <2>1, <2>3, <2>4, Same
            DEF ConsoleInv, storeVars, watchVars, claimFormVars, formVars
<1>3. CASE PatchAnswered(p)
  <2>1. /\ patches' = patches \ {p}
        /\ UNCHANGED <<screen, cta, clusterVars, watchVars, inFlight, upsets, cluster, creates,
                       claimFormVars>>
    BY <1>3 DEF PatchAnswered, NodeAnswer
  <2>2. RowOK'
    <3>1. row' \in [Nodes -> RowStates]
      BY <1>1, <1>3 DEF PatchAnswered, RowStates, status
    <3>2. QED BY <2>1, <3>1 DEF ConsoleInv, RowOK, onNodes
  <2>3. StoreOK'
    <3>1. alerts' \in {alerts, addAlert(alerts, "selection")}
      BY <1>3 DEF PatchAnswered
    <3>2. alerts' \in Seq(Alerts) /\ Shown(alerts)'
      BY <3>1, AddFailure DEF ConsoleInv, StoreOK, ErrorAlerts, Shown
    <3>3. QED BY <2>1, <3>2 DEF ConsoleInv, StoreOK
  <2>4. QED BY <2>1, <2>2, <2>3, Same
            DEF ConsoleInv, clusterVars, watchVars, claimFormVars, formVars
<1>4. QED BY <1>2, <1>3 DEF NodeAnswer

LEMMA ClusterAnswerType ==
    ASSUME ConsoleInv, NEW c \in creates, ClusterAnswer(c) PROVE ConsoleInv'
<1>1. CASE ClusterCreated(c) /\ LeaveForm /\ submits' = Unheard(submits) /\ UNCHANGED <<disks, claims>>
  <2>1. ClusterOK'
    BY <1>1 DEF ClusterCreated, ConsoleInv, ClusterOK, clusterVars
  <2>2. creates' = Unheard(creates \ {c}) /\ Leave("claims")
    BY <1>1 DEF ClusterCreated, Unheard
  <2>3. "claims" \in Screens /\ creates \ {c} \in SUBSET creates /\ submits \in SUBSET submits
    BY DEF Screens
  <2>4. QED BY <1>1, <2>1, <2>2, <2>3, LeftScreen
<1>2. CASE ClusterRefused(c) /\ UNCHANGED claimFormVars
  <2>1. /\ UNCHANGED <<screen, clusterVars, watchVars, inFlight, rowVars, cluster, claimFormVars>>
        /\ creates' = creates \ {c} /\ (UNCHANGED upsets \/ Upset("refuse"))
    BY <1>2 DEF ClusterRefused
  <2>2. StoreOK'
    <3>1. alerts' \in {alerts, addAlert(alerts, "create")} /\ cta' \in {cta, [cta EXCEPT !.isLoading = FALSE]}
      BY <1>2 DEF ClusterRefused, storeVars
    <3>2. alerts' \in Seq(Alerts) /\ Shown(alerts)'
      BY <3>1, AddFailure DEF ConsoleInv, StoreOK, ErrorAlerts, Shown
    <3>3. cta' \in Ctas
      BY <3>1 DEF ConsoleInv, StoreOK, Ctas
    <3>4. QED BY <2>1, <3>2, <3>3 DEF ConsoleInv, StoreOK
  <2>3. CreateOK'
    BY <2>1 DEF ConsoleInv, CreateOK, onNodes
  <2>4. ClusterOK'
    BY <2>1, UpsetType DEF ConsoleInv, ClusterOK, clusterVars, claimFormVars
  <2>5. QED BY <2>1, <2>2, <2>3, <2>4, Same
            DEF ConsoleInv, watchVars, rowVars, claimFormVars, formVars
<1>3. QED BY <1>1, <1>2 DEF ClusterAnswer

----------------------------------------------------------------------------
(* The form.                                                               *)

Lun == [path: Paths, isSelected: BOOLEAN]

LEMMA LunsAre ==
    ASSUME NEW list \in Luns
    PROVE  DOMAIN list \subseteq Wwns /\ \A w \in DOMAIN list : list[w] \in Lun
  BY DEF Luns, Lun

LEMMA LunsFrom ==
    ASSUME NEW S \in SUBSET Wwns, NEW f, f = [w \in S |-> f[w]], \A w \in S : f[w] \in Lun
    PROVE  f \in Luns
<1>1. f \in [S -> Lun]
  OBVIOUS
<1>2. QED BY <1>1 DEF Luns, Lun

LEMMA CtaType == ASSUME cta \in Ctas, NEW nm, NEW list PROVE Cta(nm, list) \in Ctas
<1>1. (nm \notin ValidNames \/ selected(list) = {}) \in BOOLEAN
  OBVIOUS
<1>2. QED BY <1>1 DEF Cta, Ctas

\* The list a render shows is the old one or made from the watches.
LEMMA RefreshType ==
    ASSUME luns \in Luns, NEW nw, NEW rw \in Watch(Results), NEW dw
    PROVE  Refresh(nw, rw, dw) \in Luns
  BY MakeLuns DEF Refresh

LEMMA RenderedType ==
    ASSUME ConsoleInv, NEW nw \in Watch(Labellings), NEW rw \in Watch(Results),
           NEW dw \in Watch(SUBSET Wwns), NEW list \in Seq(Alerts), Shown(list),
           Rendered(nw, rw, dw, list), UNCHANGED selectionVars,
           UNCHANGED upsets \/ Upset("watch")
    PROVE  ConsoleInv'
<1>1. /\ nodesW' = nw /\ resultsW' = rw /\ disksW' = dw /\ alerts' = list
      /\ luns' = Refresh(nw, rw, dw) /\ cta' = Cta(name, Refresh(nw, rw, dw))
      /\ chosen' = chosen \cap DOMAIN luns'
      /\ UNCHANGED <<name, captured, screen, clusterVars, inFlight, disks, healthy, claims, submits>>
  BY DEF Rendered, Show
<1>2. StoreOK'
  BY <1>1, CtaType DEF ConsoleInv, StoreOK
<1>3. WatchOK'
  BY <1>1 DEF WatchOK, Results
<1>4. FormOK'
  BY <1>1, RefreshType DEF ConsoleInv, FormOK
<1>5. ClusterOK'
  BY <1>1, UpsetType DEF ConsoleInv, ClusterOK, clusterVars, selectionVars
<1>6. QED BY <1>1, <1>2, <1>3, <1>4, <1>5, Same DEF ConsoleInv, selectionVars

LEMMA ErrorEffectType ==
    ASSUME NEW list \in Seq(Alerts), Shown(list), NEW b, NEW a, NEW t \in ErrorAlerts
    PROVE  errorEffect(list, b, a, t) \in Seq(Alerts) /\ Shown(errorEffect(list, b, a, t))
<1>1. errorEffect(list, b, a, t) \in {list, addAlert(list, t), dismissAlert(list)}
  BY DEF errorEffect
<1>2. QED BY <1>1, AddFailure, Dismissed

\* The watches of the form, and what its alerts make of them.
FormWatchEvent ==
    FormNodesDelivered \/ FormResultsDelivered \/ FormDisksDelivered \/ FormWatchFails

LEMMA FormWatchShape ==
    ASSUME ConsoleInv, FormWatchEvent
    PROVE  \E nw \in Watch(Labellings), rw \in Watch(Results), dw \in Watch(SUBSET Wwns),
              list \in Seq(Alerts) :
              /\ Shown(list) /\ Rendered(nw, rw, dw, list)
              /\ UNCHANGED upsets \/ Upset("watch")
<1>1. /\ alerts \in Seq(Alerts) /\ Shown(alerts) /\ labels \in Labellings
      /\ results \in Results /\ disks \in SUBSET Wwns
      /\ nodesW \in Watch(Labellings) /\ resultsW \in Watch(Results)
      /\ disksW \in Watch(SUBSET Wwns) /\ {"results", "disks"} \subseteq ErrorAlerts
  BY DEF ConsoleInv, StoreOK, ClusterOK, WatchOK, Results, ErrorAlerts
<1>2. CASE FormNodesDelivered
  BY <1>1, <1>2, WatchTypes, ErrorEffectType DEF FormNodesDelivered
<1>3. CASE FormResultsDelivered
  BY <1>1, <1>3, WatchTypes, ErrorEffectType DEF FormResultsDelivered
<1>4. CASE FormDisksDelivered
  BY <1>1, <1>4, WatchTypes, ErrorEffectType DEF FormDisksDelivered
<1>5. CASE FormWatchFails
  <2>1. CASE Rendered(Failed(NoLabels), resultsW, disksW,
                      IF resultsW.st = "error" THEN alerts ELSE addAlert(alerts, "results"))
    BY <1>1, <1>5, <2>1, WatchTypes, AddFailure DEF FormWatchFails
  <2>2. CASE Rendered(nodesW, Failed(NoResults), disksW, addAlert(alerts, "results"))
    BY <1>1, <1>5, <2>2, WatchTypes, AddFailure DEF FormWatchFails
  <2>3. CASE Rendered(nodesW, resultsW, Failed({}), addAlert(alerts, "disks"))
    BY <1>1, <1>5, <2>3, WatchTypes, AddFailure DEF FormWatchFails
  <2>4. QED BY <1>5, <2>1, <2>2, <2>3 DEF FormWatchFails
<1>6. QED BY <1>2, <1>3, <1>4, <1>5 DEF FormWatchEvent

\* Ticking one LUN ticks all with its path.
Ticked(w) ==
    [v \in DOMAIN luns |->
        IF v \in {u \in DOMAIN luns : luns[u].path = luns[w].path}
        THEN [luns[v] EXCEPT !.isSelected = ~luns[w].isSelected] ELSE luns[v]]
AllTicked ==
    [v \in DOMAIN luns |-> [luns[v] EXCEPT !.isSelected = (selected(luns) # DOMAIN luns)]]

LEMMA TickType ==
    ASSUME luns \in Luns
    PROVE  AllTicked \in Luns /\ \A w \in DOMAIN luns : Ticked(w) \in Luns
<1>1. DOMAIN luns \in SUBSET Wwns /\ \A w \in DOMAIN luns : luns[w] \in Lun
  BY LunsAre
<1>2. \A v \in DOMAIN luns : \A b \in BOOLEAN : [luns[v] EXCEPT !.isSelected = b] \in Lun
  BY <1>1 DEF Lun
<1>3. AllTicked \in Luns
  <2>1. (selected(luns) # DOMAIN luns) \in BOOLEAN
    OBVIOUS
  <2>2. \A v \in DOMAIN luns : AllTicked[v] \in Lun
    BY <1>2, <2>1 DEF AllTicked
  <2>3. AllTicked = [v \in DOMAIN luns |-> AllTicked[v]]
    BY DEF AllTicked
  <2>4. QED BY <1>1, <2>2, <2>3, LunsFrom
<1>4. ASSUME NEW w \in DOMAIN luns PROVE Ticked(w) \in Luns
  <2>1. (~luns[w].isSelected) \in BOOLEAN
    OBVIOUS
  <2>2. \A v \in DOMAIN luns : Ticked(w)[v] \in Lun
    BY <1>1, <1>2, <2>1 DEF Ticked
  <2>3. Ticked(w) = [v \in DOMAIN luns |-> Ticked(w)[v]]
    BY DEF Ticked
  <2>4. QED BY <1>1, <2>2, <2>3, LunsFrom
<1>5. QED BY <1>3, <1>4

\* The user's choice, and the list after it.
Ticks ==
    \/ \E w \in DOMAIN luns : handleSelectLun(w)
    \/ handleSelectAllLuns

LEMMA TickShape ==
    ASSUME Ticks
    PROVE  /\ onForm /\ Show(luns')
           /\ UNCHANGED <<screen, alerts, clusterVars, watchVars, inFlight, upsets,
                          disks, disksW, healthy, claims, submits>>
           /\ \/ \E w \in DOMAIN luns :
                    /\ luns' = Ticked(w)
                    /\ chosen' = IF luns[w].isSelected THEN chosen \ {w} ELSE chosen \cup {w}
              \/ /\ luns' = AllTicked
                 /\ chosen' = IF selected(luns) # DOMAIN luns THEN DOMAIN luns ELSE {}
<1>1. ASSUME NEW w \in DOMAIN luns, handleSelectLun(w) PROVE Show(Ticked(w))
  BY <1>1 DEF handleSelectLun, Ticked
<1>2. ASSUME handleSelectAllLuns PROVE Show(AllTicked)
  BY <1>2 DEF handleSelectAllLuns, AllTicked
<1>3. \A list : Show(list) => luns' = list
  BY DEF Show
<1>4. ASSUME NEW w \in DOMAIN luns, handleSelectLun(w)
      PROVE  /\ luns' = Ticked(w) /\ Show(luns')
             /\ chosen' = IF luns[w].isSelected THEN chosen \ {w} ELSE chosen \cup {w}
  BY <1>1, <1>3, <1>4 DEF handleSelectLun
<1>5. ASSUME handleSelectAllLuns
      PROVE  /\ luns' = AllTicked /\ Show(luns')
             /\ chosen' = IF selected(luns) # DOMAIN luns THEN DOMAIN luns ELSE {}
  BY <1>2, <1>3, <1>5 DEF handleSelectAllLuns
<1>6. onForm /\ UNCHANGED <<screen, alerts, clusterVars, watchVars, inFlight, upsets,
                            disks, disksW, healthy, claims, submits>>
  BY DEF Ticks, handleSelectLun, handleSelectAllLuns
<1>7. QED BY <1>4, <1>5, <1>6 DEF Ticks

\* The button of the form is enabled for a valid name only.
SubmitReady == onForm /\ ~cta.isDisabled => name \in ValidNames

LEMMA FormType ==
    ASSUME ConsoleInv, SubmitReady, FormEvents, UNCHANGED selectionVars PROVE ConsoleInv'
<1>1. CASE FormWatchEvent
  BY <1>1, FormWatchShape, RenderedType
<1>2. CASE FormCloseAlert
  <2>1. /\ alerts' = dismissAlert(alerts)
        /\ UNCHANGED <<screen, cta, clusterVars, watchVars, inFlight, upsets, claimFormVars>>
    BY <1>2 DEF FormCloseAlert
  <2>2. StoreOK'
    BY <2>1, Dismissed DEF ConsoleInv, StoreOK
  <2>3. QED BY <2>1, <2>2, Same
            DEF ConsoleInv, clusterVars, watchVars, claimFormVars, formVars, selectionVars
<1>3. CASE DaemonsDelivered
  <2>1. FormOK'
    BY <1>3 DEF DaemonsDelivered, ConsoleInv, FormOK
  <2>2. QED BY <1>3, <2>1, Same
            DEF DaemonsDelivered, ConsoleInv, storeVars, clusterVars, watchVars, selectionVars
<1>4. ASSUME NEW nm \in Names \cup {NoName}, handleFileSystemNameChange(nm) PROVE ConsoleInv'
  <2>1. /\ name' = nm /\ captured' = luns /\ cta' = Cta(nm, luns)
        /\ UNCHANGED <<screen, alerts, clusterVars, watchVars, inFlight, upsets,
                       disks, disksW, luns, healthy, claims, submits, chosen>>
    BY <1>4 DEF handleFileSystemNameChange
  <2>2. StoreOK' /\ FormOK'
    BY <1>4, <2>1, CtaType DEF ConsoleInv, StoreOK, FormOK, Shown
  <2>3. QED BY <2>1, <2>2, Same DEF ConsoleInv, clusterVars, watchVars, selectionVars
<1>5. CASE Ticks
  <2>1. /\ cta' = Cta(name, luns') /\ UNCHANGED <<name, captured>>
        /\ UNCHANGED <<screen, alerts, clusterVars, watchVars, inFlight, upsets,
                       disks, disksW, healthy, claims, submits>>
    BY <1>5, TickShape DEF Show
  <2>2. luns \in Luns /\ DOMAIN luns \subseteq Wwns /\ chosen \subseteq Wwns
    BY LunsAre DEF ConsoleInv, FormOK
  <2>3. luns' \in Luns /\ chosen' \subseteq Wwns
    BY <1>5, <2>2, TickShape, TickType
  <2>4. StoreOK' /\ FormOK'
    BY <2>1, <2>3, CtaType DEF ConsoleInv, StoreOK, FormOK, Shown
  <2>5. QED BY <2>1, <2>4, Same DEF ConsoleInv, clusterVars, watchVars, selectionVars
<1>6. CASE handleSubmitForm
  <2>1. /\ onForm /\ ~cta.isDisabled /\ cta' = [cta EXCEPT !.isLoading = TRUE]
        /\ \/ UNCHANGED submits
           \/ submits' = submits \cup {[name |-> name, devices |-> selectedPaths(captured),
                                        for |-> "screen"]}
        /\ UNCHANGED <<screen, alerts, clusterVars, watchVars, inFlight, upsets,
                       disks, formVars, claims, chosen>>
    BY <1>6 DEF handleSubmitForm
  <2>2. StoreOK'
    BY <2>1 DEF ConsoleInv, StoreOK, Ctas, Shown
  <2>3. SubmitOK'
    <3>1. selectedPaths(captured) \subseteq Paths
      BY LunsAre DEF ConsoleInv, FormOK, selectedPaths, selected, Lun
    <3>2. name \in Names
      BY <2>1, FormAssumption DEF SubmitReady
    <3>3. [name |-> name, devices |-> selectedPaths(captured), for |-> "screen"] \in Submits
      BY <3>1, <3>2 DEF Submits
    <3>4. QED BY <2>1, <3>3 DEF ConsoleInv, SubmitOK, onForm
  <2>4. QED BY <2>1, <2>2, <2>3, Same
            DEF ConsoleInv, clusterVars, watchVars, formVars, selectionVars
<1>7. QED
  BY <1>1, <1>2, <1>3, <1>4, <1>5, <1>6 DEF FormEvents, FormWatchEvent, Ticks

LEMMA ClaimAnswerType ==
    ASSUME ConsoleInv, NEW s \in submits, ClaimAnswer(s) PROVE ConsoleInv'
<1>1. s \in Submits
  BY DEF ConsoleInv, SubmitOK
<1>2. CASE ClaimCreated(s) /\ Leave("claims") /\ creates' = Unheard(creates) /\ UNCHANGED cluster
  <2>1. ClusterOK'
    BY <1>1, <1>2 DEF ClaimCreated, ConsoleInv, ClusterOK, clusterVars, Submits
  <2>2. submits' = Unheard(submits \ {s}) /\ LeaveForm
    BY <1>2 DEF ClaimCreated, Unheard
  <2>3. "claims" \in Screens /\ submits \ {s} \in SUBSET submits /\ creates \in SUBSET creates
    BY DEF Screens
  <2>4. QED BY <1>2, <2>1, <2>2, <2>3, LeftScreen
<1>3. CASE ClaimRefused(s) /\ UNCHANGED selectionVars
  <2>1. /\ UNCHANGED <<screen, clusterVars, watchVars, inFlight, disks, formVars, claims, chosen,
                       selectionVars>>
        /\ submits' = submits \ {s} /\ (UNCHANGED upsets \/ Upset("refuse"))
    BY <1>3 DEF ClaimRefused
  <2>2. StoreOK'
    <3>1. alerts' \in {alerts, addAlert(alerts, "create")} /\ cta' \in {cta, [cta EXCEPT !.isLoading = FALSE]}
      BY <1>3 DEF ClaimRefused, storeVars
    <3>2. alerts' \in Seq(Alerts) /\ Shown(alerts)'
      BY <3>1, AddFailure DEF ConsoleInv, StoreOK, ErrorAlerts, Shown
    <3>3. cta' \in Ctas
      BY <3>1 DEF ConsoleInv, StoreOK, Ctas
    <3>4. QED BY <2>1, <3>2, <3>3 DEF ConsoleInv, StoreOK
  <2>3. SubmitOK'
    BY <2>1 DEF ConsoleInv, SubmitOK, onForm
  <2>4. ClusterOK'
    BY <2>1, UpsetType DEF ConsoleInv, ClusterOK, clusterVars, selectionVars
  <2>5. QED BY <2>1, <2>2, <2>3, <2>4, Same
            DEF ConsoleInv, watchVars, selectionVars, formVars
<1>4. QED BY <1>2, <1>3 DEF ClaimAnswer

LEMMA MovedType ==
    ASSUME ConsoleInv, NEW to \in Screens, Moved(to), NEW k, UNCHANGED upsets \/ Upset(k)
    PROVE  ConsoleInv'
<1>1. ClusterOK'
  BY UpsetType DEF Moved, ConsoleInv, ClusterOK, clusterVars
<1>2. creates \in SUBSET creates /\ submits \in SUBSET submits
  OBVIOUS
<1>3. QED BY <1>1, <1>2, LeftScreen DEF Moved

LEMMA OthersType == ASSUME ConsoleInv, Others \/ ModelsInFlight PROVE ConsoleInv'
<1>1. CASE OthersLabel /\ UNCHANGED <<selectionVars, claimFormVars>>
  <2>1. labels' \in Labellings
    BY <1>1 DEF OthersLabel, ConsoleInv, ClusterOK, Labellings
  <2>2. ClusterOK'
    BY <1>1, <2>1, UpsetType DEF OthersLabel, ConsoleInv, ClusterOK, selectionVars, claimFormVars
  <2>3. QED BY <1>1, <2>2, Same
            DEF OthersLabel, ConsoleInv, storeVars, watchVars, selectionVars, claimFormVars, formVars
<1>2. CASE OthersDiscover /\ UNCHANGED <<selectionVars, claimFormVars>>
  <2>1. ClusterOK'
    BY <1>2, UpsetType DEF OthersDiscover, ConsoleInv, ClusterOK, selectionVars, claimFormVars
  <2>2. QED BY <1>2, <2>1, Same
            DEF OthersDiscover, ConsoleInv, storeVars, watchVars, selectionVars, claimFormVars, formVars
<1>3. CASE OthersUseDisk /\ UNCHANGED selectionVars
  <2>1. ClusterOK'
    BY <1>3, UpsetType DEF OthersUseDisk, ConsoleInv, ClusterOK, clusterVars, selectionVars
  <2>2. QED BY <1>3, <2>1, Same
            DEF OthersUseDisk, ConsoleInv, storeVars, watchVars, selectionVars, formVars
<1>4. CASE ModelsInFlight
  <2>1. ClusterOK' /\ FormOK'
    BY <1>4, UpsetType DEF ModelsInFlight, ConsoleInv, ClusterOK, FormOK, clusterVars, selectionVars
  <2>2. QED BY <1>4, <2>1, Same
            DEF ModelsInFlight, ConsoleInv, storeVars, watchVars, selectionVars
<1>5. QED BY <1>1, <1>2, <1>3, <1>4 DEF Others

LEMMA NextConsole == ASSUME ConsoleInv, SubmitReady, [Next]_vars PROVE ConsoleInv'
<1>1. CASE UNCHANGED vars
  BY <1>1, Same DEF vars, ConsoleInv, storeVars, clusterVars, watchVars, selectionVars,
                    claimFormVars, formVars
<1>2. CASE \E s \in Screens : Open(s)
  BY <1>2, MovedType DEF Open
<1>3. CASE Redirect
  BY <1>3, MovedType DEF Redirect, Screens
<1>4. QED
  BY <1>1, <1>2, <1>3, SelectionType, FormType, NodeAnswerType, ClusterAnswerType,
     ClaimAnswerType, OthersType DEF Next

LEMMA InitConsole == ASSUME Init PROVE ConsoleInv
<1>1. StoreOK
  BY ConsoleAssumption, EmptyAlerts DEF Init, StoreOK, initialCta, Ctas
<1>2. ClusterOK
  <2>1. 0 \in 0..MaxUpsets
    BY StoreAssumption
  <2>2. labels \in Labellings /\ results \in Discoveries /\ disks \subseteq Wwns
    BY ConsoleAssumption DEF Init
  <2>3. cluster \in BOOLEAN
    BY ConsoleAssumption DEF Init
  <2>4. claims = {} /\ inFlight = FALSE /\ upsets = 0
    BY DEF Init
  <2>5. QED BY <2>1, <2>2, <2>3, <2>4 DEF ClusterOK
<1>3. WatchOK
  BY WatchTypes DEF Init, WatchOK, Results
<1>4. RowOK /\ CreateOK /\ SubmitOK
  BY DEF Init, RowOK, CreateOK, SubmitOK, RowStates
<1>5. FormOK
  BY NoLunsType DEF Init, FormOK
<1>6. QED BY <1>1, <1>2, <1>3, <1>4, <1>5 DEF ConsoleInv

----------------------------------------------------------------------------
(* What a step does to the state the user sees.                            *)

Left == \E to \in Screens : (onNodes => to # "nodes") /\ Leave(to) /\ LeaveForm

FormShown ==
    /\ onForm
    /\ \E nw \in Watch(Labellings), rw \in Watch(Results), dw \in Watch(SUBSET Wwns),
          list \in Seq(Alerts) :
          Rendered(nw, rw, dw, list)

NameTyped ==
    onForm /\ cta' = Cta(name', luns) /\ UNCHANGED <<screen, watchVars, disksW, luns, chosen>>

TicksMade ==
    /\ onForm /\ Show(luns')
    /\ UNCHANGED <<screen, watchVars, disksW>>
    /\ \/ \E w \in DOMAIN luns :
             /\ luns' = Ticked(w)
             /\ chosen' = IF luns[w].isSelected THEN chosen \ {w} ELSE chosen \cup {w}
       \/ luns' = AllTicked /\ chosen' = IF selected(luns) # DOMAIN luns THEN DOMAIN luns ELSE {}

\* The alerts of a call that failed, and of one that was closed.
AlertsQuiet ==
    \/ alerts' = alerts \/ (\E a \in ErrorAlerts : alerts' = addAlert(alerts, a))
    \/ /\ alerts' = dismissAlert(alerts)
       /\ onNodes => alerts # <<>> /\ Head(alerts) = Requirements

Quiet ==
    /\ UNCHANGED <<screen, watchVars, disksW, luns, name, chosen>>
    /\ cta'.isDisabled = cta.isDisabled /\ AlertsQuiet

LEMMA SelectionKind ==
    ASSUME ConsoleInv, SelectionEvents, UNCHANGED claimFormVars
    PROVE  (WatchEvent /\ UNCHANGED claimFormVars) \/ Quiet
<1>1. cta \in Ctas
  BY DEF ConsoleInv, StoreOK
<1>2. CASE CloseRequirements
  BY <1>2 DEF CloseRequirements, Quiet, AlertsQuiet, claimFormVars, formVars
<1>3. CASE handleCreateStorageCluster
  <2>1. cta' = [cta EXCEPT !.isLoading = TRUE]
        /\ UNCHANGED <<screen, alerts, watchVars>>
    BY <1>3 DEF handleCreateStorageCluster
  <2>2. cta'.isDisabled = cta.isDisabled
    BY <1>1, <2>1 DEF Ctas
  <2>3. QED BY <2>1, <2>2 DEF Quiet, AlertsQuiet, claimFormVars, formVars
<1>4. ASSUME NEW n \in Nodes, handleNodeSelectionChange(n) PROVE Quiet
  BY <1>4 DEF handleNodeSelectionChange, Quiet, AlertsQuiet, claimFormVars, formVars, storeVars
<1>5. QED BY <1>2, <1>3, <1>4 DEF SelectionEvents, WatchEvent

LEMMA FormKind ==
    ASSUME ConsoleInv, FormEvents
    PROVE  FormShown \/ NameTyped \/ TicksMade \/ Quiet
<1>1. cta \in Ctas /\ "nodes" # "form"
  BY DEF ConsoleInv, StoreOK
<1>2. CASE FormWatchEvent
  <2>1. onForm
    BY <1>2 DEF FormWatchEvent, FormNodesDelivered, FormResultsDelivered, FormDisksDelivered,
                FormWatchFails
  <2>2. QED BY <1>2, <2>1, FormWatchShape DEF FormShown
<1>3. CASE FormCloseAlert
  BY <1>1, <1>3 DEF FormCloseAlert, Quiet, AlertsQuiet, claimFormVars, formVars, onForm, onNodes
<1>4. CASE DaemonsDelivered
  BY <1>4 DEF DaemonsDelivered, Quiet, AlertsQuiet, storeVars
<1>5. ASSUME NEW nm, handleFileSystemNameChange(nm) PROVE NameTyped
  BY <1>5 DEF handleFileSystemNameChange, NameTyped
<1>6. CASE Ticks
  BY <1>6, TickShape DEF TicksMade
<1>7. CASE handleSubmitForm
  <2>1. cta' = [cta EXCEPT !.isLoading = TRUE]
        /\ UNCHANGED <<screen, alerts, watchVars, formVars, chosen>>
    BY <1>7 DEF handleSubmitForm
  <2>2. cta'.isDisabled = cta.isDisabled
    BY <1>1, <2>1 DEF Ctas
  <2>3. QED BY <2>1, <2>2 DEF Quiet, AlertsQuiet, formVars
<1>8. QED
  BY <1>2, <1>3, <1>4, <1>5, <1>6, <1>7 DEF FormEvents, FormWatchEvent, Ticks

LEMMA AnswerKind ==
    ASSUME ConsoleInv
    PROVE  /\ \A p \in patches : NodeAnswer(p) => Quiet
           /\ \A c \in creates : ClusterAnswer(c) => Left \/ Quiet
           /\ \A s \in submits : ClaimAnswer(s) => Left \/ Quiet
<1>1. cta \in Ctas /\ "claims" \in Screens /\ "claims" # "nodes"
      /\ {"create", "selection"} \subseteq ErrorAlerts
  BY DEF ConsoleInv, StoreOK, Screens, ErrorAlerts
<1>2. ASSUME NEW p \in patches, NodeAnswer(p) PROVE Quiet
  <2>1. CASE PatchNode(p)
    BY <1>2, <2>1 DEF PatchNode, NodeAnswer, Quiet, AlertsQuiet, storeVars, claimFormVars, formVars
  <2>2. CASE PatchAnswered(p)
    <3>1. alerts' = alerts \/ alerts' = addAlert(alerts, "selection")
      BY <2>2 DEF PatchAnswered
    <3>2. AlertsQuiet
      BY <1>1, <3>1 DEF AlertsQuiet
    <3>3. QED BY <1>2, <2>2, <3>2 DEF PatchAnswered, NodeAnswer, Quiet, claimFormVars, formVars
  <2>3. QED BY <1>2, <2>1, <2>2 DEF NodeAnswer
<1>3. ASSUME NEW c \in creates, ClusterAnswer(c) PROVE Left \/ Quiet
  <2>1. CASE ClusterCreated(c) /\ LeaveForm
    BY <1>1, <2>1 DEF ClusterCreated, Left
  <2>2. CASE ClusterRefused(c) /\ UNCHANGED claimFormVars
    <3>1. /\ alerts' = alerts \/ alerts' = addAlert(alerts, "create")
          /\ cta' = cta \/ cta' = [cta EXCEPT !.isLoading = FALSE]
      BY <2>2 DEF ClusterRefused, storeVars
    <3>2. AlertsQuiet
      BY <1>1, <3>1 DEF AlertsQuiet
    <3>3. cta'.isDisabled = cta.isDisabled
      BY <1>1, <3>1 DEF Ctas
    <3>4. QED BY <2>2, <3>2, <3>3 DEF ClusterRefused, Quiet, claimFormVars, formVars
  <2>3. QED BY <1>3, <2>1, <2>2 DEF ClusterAnswer
<1>4. ASSUME NEW s \in submits, ClaimAnswer(s) PROVE Left \/ Quiet
  <2>1. CASE ClaimCreated(s) /\ Leave("claims")
    BY <1>1, <2>1 DEF ClaimCreated, Left
  <2>2. CASE ClaimRefused(s)
    <3>1. /\ alerts' = alerts \/ alerts' = addAlert(alerts, "create")
          /\ cta' = cta \/ cta' = [cta EXCEPT !.isLoading = FALSE]
      BY <2>2 DEF ClaimRefused, storeVars
    <3>2. AlertsQuiet
      BY <1>1, <3>1 DEF AlertsQuiet
    <3>3. cta'.isDisabled = cta.isDisabled
      BY <1>1, <3>1 DEF Ctas
    <3>4. QED BY <2>2, <3>2, <3>3 DEF ClaimRefused, Quiet, formVars
  <2>3. QED BY <1>4, <2>1, <2>2 DEF ClaimAnswer
<1>5. QED BY <1>2, <1>3, <1>4

\* Every step is of one of these kinds.
LEMMA StepKind ==
    ASSUME ConsoleInv, [Next]_vars
    PROVE  \/ Left \/ (WatchEvent /\ UNCHANGED claimFormVars)
           \/ FormShown \/ NameTyped \/ TicksMade \/ Quiet
<1>1. CASE UNCHANGED vars
  BY <1>1 DEF vars, Quiet, AlertsQuiet, storeVars, claimFormVars, formVars
<1>2. ASSUME NEW s \in Screens, Open(s) PROVE Left
  BY <1>2 DEF Open, Moved, Left, onNodes
<1>3. CASE Redirect
  <2>1. PICK to \in {"claims", "clusters"} : Moved(to)
    BY <1>3 DEF Redirect
  <2>2. to \in Screens /\ to # "nodes"
    BY <2>1 DEF Screens
  <2>3. QED BY <2>1, <2>2 DEF Moved, Left
<1>4. CASE ModelsInFlight
  BY <1>4 DEF ModelsInFlight, Quiet, AlertsQuiet, storeVars
<1>5. CASE Others
  <2>1. CASE (OthersLabel \/ OthersDiscover) /\ UNCHANGED <<selectionVars, claimFormVars>>
    BY <2>1 DEF OthersLabel, OthersDiscover, Quiet, AlertsQuiet, storeVars, claimFormVars, formVars
  <2>2. CASE OthersUseDisk
    BY <2>2 DEF OthersUseDisk, Quiet, AlertsQuiet, storeVars, formVars
  <2>3. QED BY <1>5, <2>1, <2>2 DEF Others
<1>6. QED
  BY <1>1, <1>2, <1>3, <1>4, <1>5, SelectionKind, FormKind, AnswerKind DEF Next

LEMMA NextSubmitReady == ASSUME ConsoleInv, SubmitReady, [Next]_vars PROVE SubmitReady'
<1>1. cta \in Ctas /\ "nodes" # "form"
  BY DEF ConsoleInv, StoreOK
<1>2. \A nm, list : ~Cta(nm, list).isDisabled => nm \in ValidNames
  BY <1>1 DEF Cta, Ctas
<1>3. CASE Left
  BY <1>3 DEF Left, Leave, initialCta, SubmitReady
<1>4. CASE WatchEvent
  BY <1>1, <1>4 DEF WatchEvent, NodesDelivered, ResultsDelivered, NodesFail, ResultsFail,
                    onNodes, onForm, SubmitReady
<1>5. CASE FormShown
  BY <1>2, <1>5 DEF FormShown, Rendered, Show, SubmitReady
<1>6. CASE NameTyped
  BY <1>2, <1>6 DEF NameTyped, SubmitReady
<1>7. CASE TicksMade
  BY <1>2, <1>7 DEF TicksMade, Show, SubmitReady
<1>8. CASE Quiet
  BY <1>8 DEF Quiet, SubmitReady, onForm
<1>9. QED BY <1>3, <1>4, <1>5, <1>6, <1>7, <1>8, StepKind

LEMMA InitSubmitReady == ASSUME Init PROVE SubmitReady
<1>1. cta.isDisabled = TRUE
  BY DEF Init, initialCta
<1>2. QED BY <1>1 DEF SubmitReady

LEMMA ConsoleAlways == Spec => []ConsoleInv
<1>1. Init => ConsoleInv /\ SubmitReady
  BY InitConsole, InitSubmitReady
<1>2. ConsoleInv /\ SubmitReady /\ [Next]_vars => ConsoleInv' /\ SubmitReady'
  BY NextConsole, NextSubmitReady
<1>3. QED BY <1>1, <1>2, PTL DEF Spec

\* The state of the console keeps its types in every step of every screen, answers
\* to calls of screens that were left included; see TypeOK.
THEOREM ConsoleTypeCorrect == Spec => []TypeOK
<1>1. ConsoleInv => TypeOK
  BY InvParts
<1>2. QED BY <1>1, ConsoleAlways, PTL

\* The warning about the requirements is the alert the page shows, whatever failed
\* before or after it (addAlert of the reducer); see RequirementsShown.
THEOREM WarningIsShown == Spec => []RequirementsShown
<1>1. ConsoleInv => RequirementsShown
  BY InvParts
<1>2. QED BY <1>1, ConsoleAlways, PTL

----------------------------------------------------------------------------
(* The button and the warning of the screen that selects nodes.            *)

\* The validation depends on nothing but its dependencies.
LEMMA UnmetFromDeps ==
    ASSUME NEW nw, NEW rw, NEW nv, NEW rv, Deps(nw, rw) = Deps(nv, rv)
    PROVE  Known(nw, rw) = Known(nv, rv) /\ Unmet(nw, rw) = Unmet(nv, rv)
<1>1. /\ Known(nw, rw) = Known(nv, rv)
      /\ Cardinality(selectedNodes(nw)) = Cardinality(selectedNodes(nv))
      /\ sharedDisksCount(nw, rw) = sharedDisksCount(nv, rv)
  <2> HIDE DEF Known, sharedDisksCount, selectedNodes
  <2>1. QED BY DEF Deps
<1>2. QED BY <1>1 DEF Unmet

LEMMA ButtonOnEvent ==
    ASSUME ConsoleInv, ButtonFollowsRequirements, WatchEvent
    PROVE  ButtonFollowsRequirements'
<1>1. cta \in Ctas /\ alerts \in Seq(Alerts) /\ Shown(alerts)
      /\ {"nodes", "results"} \subseteq ErrorAlerts
  BY DEF ConsoleInv, StoreOK, ErrorAlerts
<1>2. onNodes
  BY DEF WatchEvent, NodesDelivered, ResultsDelivered, NodesFail, ResultsFail
<1>3. PICK list \in {alerts, addAlert(alerts, "nodes"), addAlert(alerts, "results")} :
        Validate(nodesW', resultsW', list)
  BY DEF WatchEvent, NodesDelivered, ResultsDelivered, NodesFail, ResultsFail
<1>4. list \in Seq(Alerts) /\ Shown(list) /\ (Has(list, Requirements) <=> Has(alerts, Requirements))
  BY <1>1, <1>3, AddFailure
<1>5. SUFFICES ASSUME Known(nodesW', resultsW')
               PROVE  /\ cta'.isDisabled = Unmet(nodesW', resultsW')
                      /\ ~Unmet(nodesW', resultsW') => ~Has(alerts', Requirements)
  BY DEF ButtonFollowsRequirements
<1>6. CASE Deps(nodesW', resultsW') = Deps(nodesW, resultsW)
  <2>1. alerts' = list /\ cta' = cta
    BY <1>3, <1>6 DEF Validate
  <2>2. Known(nodesW, resultsW) /\ Unmet(nodesW, resultsW) = Unmet(nodesW', resultsW')
    BY <1>5, <1>6, UnmetFromDeps
  <2>3. QED BY <1>2, <1>4, <2>1, <2>2 DEF ButtonFollowsRequirements
<1>7. CASE Deps(nodesW', resultsW') # Deps(nodesW, resultsW)
  <2>1. /\ cta' = [cta EXCEPT !.isDisabled = Unmet(nodesW', resultsW')]
        /\ alerts' = IF Unmet(nodesW', resultsW') THEN addAlert(list, Requirements)
                     ELSE IF Has(alerts, Requirements) THEN dismissAlert(list) ELSE list
    BY <1>3, <1>5, <1>7 DEF Validate
  <2>2. cta'.isDisabled = Unmet(nodesW', resultsW')
    BY <1>1, <2>1 DEF Ctas
  <2>3. ASSUME ~Unmet(nodesW', resultsW') PROVE ~Has(alerts', Requirements)
    BY <1>4, <2>1, <2>3, Dismissed
  <2>4. QED BY <2>2, <2>3
<1>8. QED BY <1>6, <1>7

LEMMA QuietAlerts ==
    ASSUME ConsoleInv, AlertsQuiet, Has(alerts', Requirements) PROVE Has(alerts, Requirements)
<1>1. alerts \in Seq(Alerts) /\ Shown(alerts)
  BY DEF ConsoleInv, StoreOK
<1>2. QED BY <1>1, AddFailure, Dismissed DEF AlertsQuiet

\* No creation while the requirements are not met, no warning once they are, and the
\* button enabled then (useValidateMinimumRequirements); see ButtonFollowsRequirements.
THEOREM ButtonFollows == Spec => []ButtonFollowsRequirements
<1>1. Init => ButtonFollowsRequirements
  BY DEF Init, Loading, IsLoaded, Known, ButtonFollowsRequirements
<1>2. ASSUME ConsoleInv, ButtonFollowsRequirements, [Next]_vars PROVE ButtonFollowsRequirements'
  <2>1. CASE Left
    BY <2>1 DEF Left, Leave, Loading, IsLoaded, Known, ButtonFollowsRequirements
  <2>2. CASE WatchEvent
    BY <1>2, <2>2, ButtonOnEvent
  <2>3. CASE FormShown \/ NameTyped \/ TicksMade
    <3>1. screen' = "form" /\ "form" # "nodes"
      BY <2>3 DEF FormShown, NameTyped, TicksMade, Rendered, onForm
    <3>2. QED BY <3>1 DEF ButtonFollowsRequirements, onNodes
  <2>4. CASE Quiet
    <3>1. /\ UNCHANGED <<screen, nodesW, resultsW>> /\ cta'.isDisabled = cta.isDisabled
          /\ Has(alerts', Requirements) => Has(alerts, Requirements)
      BY <1>2, <2>4, QuietAlerts DEF Quiet, watchVars
    <3> HIDE DEF Has, Unmet
    <3>2. QED BY <1>2, <3>1 DEF ButtonFollowsRequirements, onNodes
  <2>5. QED BY <1>2, <2>1, <2>2, <2>3, <2>4, StepKind
<1>3. QED BY <1>1, <1>2, ConsoleAlways, PTL DEF Spec

----------------------------------------------------------------------------
(* The LUNs on offer, and the user's choice among them.                    *)

AllLoaded == IsLoaded(nodesW) /\ IsLoaded(resultsW) /\ IsLoaded(disksW)

\* Once all three watches have answered, failed ones included, the list is the one
\* they make.
OfferInv ==
    onForm /\ AllLoaded => DOMAIN luns = OnOffer(nodesW, resultsW, disksW)

\* The list finds a LUN by its path: two with one path would be ticked together.
ChoiceInv == PathsDistinct(luns) /\ selected(luns) = chosen

LEMMA NextOffer == ASSUME ConsoleInv, OfferInv, [Next]_vars PROVE OfferInv'
<1>1. CASE Left
  BY <1>1 DEF Left, Leave, Loading, IsLoaded, AllLoaded, OfferInv
<1>2. CASE WatchEvent
  <2>1. screen' = "nodes" /\ "form" # "nodes"
    BY <1>2 DEF WatchEvent, NodesDelivered, ResultsDelivered, NodesFail, ResultsFail, onNodes
  <2>2. QED BY <2>1 DEF OfferInv, onForm
<1>3. CASE FormShown
  <2>1. PICK nw \in Watch(Labellings), rw \in Watch(Results), dw \in Watch(SUBSET Wwns),
             list \in Seq(Alerts) :
          Rendered(nw, rw, dw, list)
    BY <1>3 DEF FormShown
  <2>2. nodesW' = nw /\ resultsW' = rw /\ disksW' = dw /\ luns' = Refresh(nw, rw, dw)
    BY <2>1 DEF Rendered, Show
  <2>3. ASSUME AllLoaded' PROVE luns' = makeLuns(nw, rw, dw, selected(luns))
    BY <2>2, <2>3 DEF AllLoaded, Refresh
  <2>4. DOMAIN makeLuns(nw, rw, dw, selected(luns)) = OnOffer(nw, rw, dw)
    BY MakeLuns
  <2>5. QED BY <2>2, <2>3, <2>4 DEF OfferInv
<1>4. CASE NameTyped
  BY <1>4 DEF NameTyped, OfferInv, onForm, AllLoaded, watchVars
<1>5. CASE TicksMade
  <2>1. DOMAIN luns' = DOMAIN luns
    BY <1>5 DEF TicksMade, Ticked, AllTicked
  <2>2. QED BY <1>5, <2>1 DEF TicksMade, OfferInv, onForm, AllLoaded, watchVars
<1>6. CASE Quiet
  BY <1>6 DEF Quiet, OfferInv, onForm, AllLoaded, watchVars
<1>7. QED BY <1>1, <1>2, <1>3, <1>4, <1>5, <1>6, StepKind

\* The LUNs on offer are the disks every storage node with a result reports and no
\* LocalDisk uses, in whatever order the watches came (useLuns); see OfferIsCurrent.
THEOREM OfferStaysCurrent == Spec => []OfferIsCurrent
<1>1. Init => OfferInv
  BY DEF Init, Loading, IsLoaded, AllLoaded, OfferInv
<1>2. ASSUME ConsoleInv, OfferInv PROVE OfferIsCurrent
  <2>1. SUFFICES ASSUME onForm, nodesW.st = "data", resultsW.st = "data", disksW.st = "data"
                 PROVE  OfferIsCurrent
    BY DEF OfferIsCurrent
  <2>2. DOMAIN luns = sharedWwns(nodesW, resultsW) \ disksW.copy
    BY <1>2, <2>1 DEF OfferInv, AllLoaded, IsLoaded, OnOffer
  <2>3. resultsW.copy.nodes \subseteq Nodes
    <3>1. resultsW.copy \in Results
      BY <1>2 DEF ConsoleInv, WatchOK, Watch, Results
    <3>2. QED BY <3>1, ResultsType
  <2>4. lvdrs(nodesW, resultsW)
          = {n \in Nodes : Storage \in nodesW.copy[n] /\ n \in resultsW.copy.nodes}
    BY <2>3 DEF lvdrs
  <2>5. QED BY <2>2, <2>4 DEF OfferIsCurrent, sharedWwns
<1>3. QED BY <1>1, <1>2, NextOffer, ConsoleAlways, PTL DEF Spec

LEMMA TicksFollow == ASSUME luns \in Luns, ChoiceInv, TicksMade PROVE ChoiceInv'
<1>1. /\ DOMAIN luns \subseteq Wwns /\ \A w \in DOMAIN luns : luns[w] \in Lun
      /\ PathsDistinct(luns) /\ chosen = {w \in DOMAIN luns : luns[w].isSelected}
  BY LunsAre DEF ChoiceInv, selected
<1>2. \A w \in DOMAIN luns : \A b \in BOOLEAN :
        LET m == [luns[w] EXCEPT !.isSelected = b]
        IN  m.path = luns[w].path /\ m.isSelected = b
  BY <1>1 DEF Lun
<1>3. ASSUME NEW w \in DOMAIN luns, luns' = Ticked(w),
             chosen' = IF luns[w].isSelected THEN chosen \ {w} ELSE chosen \cup {w}
      PROVE  ChoiceInv'
  <2>1. \A v \in DOMAIN luns : luns[v].path = luns[w].path <=> v = w
    BY <1>1 DEF PathsDistinct
  <2>2. (~luns[w].isSelected) \in BOOLEAN
    OBVIOUS
  <2>3. /\ DOMAIN luns' = DOMAIN luns
        /\ \A v \in DOMAIN luns :
              luns'[v] = IF v = w THEN [luns[v] EXCEPT !.isSelected = ~luns[w].isSelected] ELSE luns[v]
    BY <1>3, <2>1 DEF Ticked
  <2>4. /\ \A v \in DOMAIN luns : luns'[v].path = luns[v].path
        /\ luns'[w].isSelected = ~luns[w].isSelected
        /\ \A v \in DOMAIN luns : v # w => luns'[v].isSelected = luns[v].isSelected
    BY <1>2, <2>2, <2>3
  <2>5. PathsDistinct(luns')
    BY <1>1, <2>3, <2>4 DEF PathsDistinct
  <2>6. selected(luns') = chosen'
    BY <1>1, <1>3, <2>3, <2>4 DEF selected
  <2>7. QED BY <2>5, <2>6 DEF ChoiceInv
<1>4. ASSUME luns' = AllTicked,
             chosen' = IF selected(luns) # DOMAIN luns THEN DOMAIN luns ELSE {}
      PROVE  ChoiceInv'
  <2>1. (selected(luns) # DOMAIN luns) \in BOOLEAN
    OBVIOUS
  <2>2. /\ DOMAIN luns' = DOMAIN luns
        /\ \A v \in DOMAIN luns : luns'[v] = [luns[v] EXCEPT !.isSelected = (selected(luns) # DOMAIN luns)]
    BY <1>4 DEF AllTicked
  <2>3. \A v \in DOMAIN luns : /\ luns'[v].path = luns[v].path
                               /\ luns'[v].isSelected = (selected(luns) # DOMAIN luns)
    BY <1>2, <2>1, <2>2
  <2>4. PathsDistinct(luns')
    BY <1>1, <2>2, <2>3 DEF PathsDistinct
  <2>5. CASE selected(luns) # DOMAIN luns
    <3>1. selected(luns') = DOMAIN luns /\ chosen' = DOMAIN luns
      BY <1>4, <2>2, <2>3, <2>5 DEF selected
    <3>2. QED BY <2>4, <3>1 DEF ChoiceInv
  <2>6. CASE selected(luns) = DOMAIN luns
    <3>1. selected(luns') = {} /\ chosen' = {}
      BY <1>4, <2>2, <2>3, <2>6 DEF selected
    <3>2. QED BY <2>4, <3>1 DEF ChoiceInv
  <2>7. QED BY <2>5, <2>6
<1>5. QED BY <1>3, <1>4 DEF TicksMade

\* What is ticked is what the user ticked, by disk and not by path, however the
\* watches changed the list in between (useLuns, setSelected); see ChoiceFollowsDisk.
THEOREM ChoiceFollows == Spec => []ChoiceFollowsDisk
<1>1. Init => ChoiceInv
  BY NoLunsType DEF Init, ChoiceInv
<1>2. ASSUME ConsoleInv, ChoiceInv, [Next]_vars PROVE ChoiceInv'
  <2>1. CASE Left
    <3>1. luns' = NoLuns /\ chosen' = {}
      BY <2>1 DEF Left, LeaveForm
    <3>2. QED BY <3>1, NoLunsType DEF ChoiceInv
  <2>2. CASE WatchEvent /\ UNCHANGED claimFormVars
    BY <1>2, <2>2 DEF ChoiceInv, claimFormVars, formVars
  <2>3. CASE FormShown
    <3>1. PICK nw \in Watch(Labellings), rw \in Watch(Results), dw \in Watch(SUBSET Wwns),
               list \in Seq(Alerts) :
          Rendered(nw, rw, dw, list)
      BY <2>3 DEF FormShown
    <3>2. luns' = Refresh(nw, rw, dw) /\ chosen' = chosen \cap DOMAIN luns'
      BY <3>1 DEF Rendered, Show
    <3>3. CASE luns' = luns
      <4>1. chosen' = chosen
        BY <1>2, <3>2, <3>3 DEF ChoiceInv, selected
      <4>2. QED BY <1>2, <3>3, <4>1 DEF ChoiceInv
    <3>4. CASE luns' = makeLuns(nw, rw, dw, selected(luns))
      <4> DEFINE new == makeLuns(nw, rw, dw, selected(luns))
      <4>0. PathsDistinct(new) /\ selected(new) = DOMAIN new \cap selected(luns)
        <5>1. PathsDistinct(new) /\ KeepsChoice(new, selected(luns))
          BY MakeLuns
        <5>2. QED BY <5>1 DEF KeepsChoice
      <4> HIDE DEF new
      <4>1. PathsDistinct(luns') /\ selected(luns') = DOMAIN luns' \cap selected(luns)
        BY <3>4, <4>0 DEF new
      <4>2. QED BY <1>2, <3>2, <4>1 DEF ChoiceInv
    <3>5. QED BY <3>2, <3>3, <3>4 DEF Refresh
  <2>4. CASE TicksMade
    BY <1>2, <2>4, TicksFollow DEF ConsoleInv, FormOK
  <2>5. CASE NameTyped \/ Quiet
    BY <1>2, <2>5 DEF ChoiceInv, NameTyped, Quiet
  <2>6. QED BY <1>2, <2>1, <2>2, <2>3, <2>4, <2>5, StepKind
<1>3. ChoiceInv => ChoiceFollowsDisk
  BY DEF ChoiceInv, ChoiceFollowsDisk
<1>4. QED BY <1>1, <1>2, <1>3, ConsoleAlways, PTL DEF Spec

----------------------------------------------------------------------------
(* Failures are never dismissed on the screen that selects nodes.          *)

\* One list goes on from another.
Continues(old, new) == Len(old) <= Len(new) /\ SubSeq(new, 1, Len(old)) = old

LEMMA ContinuesSame == ASSUME NEW old \in Seq(Alerts) PROVE Continues(old, old)
<1>1. Len(old) \in Nat /\ SubSeq(old, 1, Len(old)) = old
  BY LenProperties, SubSeqFull
<1>2. QED BY <1>1 DEF Continues

LEMMA ContinuesLonger ==
    ASSUME NEW old \in Seq(Alerts), NEW a \in Alerts PROVE Continues(old, Append(old, a))
<1>1. /\ Append(old, a) \in Seq(Alerts) /\ Len(Append(old, a)) = Len(old) + 1
      /\ \A i \in 1..Len(old) : Append(old, a)[i] = old[i]
      /\ Len(old) \in Nat
  BY AppendProperties, LenProperties
<1> DEFINE new == SubSeq(Append(old, a), 1, Len(old))
<1>2. /\ new \in Seq(Alerts) /\ Len(new) = Len(old)
      /\ \A i \in 1..Len(old) : new[i] = Append(old, a)[i]
  BY <1>1
<1> HIDE DEF new
<1>3. new = old
  BY <1>1, <1>2, SeqEqual
<1>4. QED BY <1>1, <1>3 DEF Continues, new

\* A warning that is there comes first, and what follows it is the rest.
LEMMA RestAre ==
    ASSUME NEW list \in Seq(Alerts), Shown(list)
    PROVE  /\ Rest(list) \in Seq(Alerts)
           /\ Has(list, Requirements) <=> (list # <<>> /\ Head(list) = Requirements)
           /\ Rest(addAlert(list, Requirements)) = Rest(list)
           /\ Has(list, Requirements) => Rest(dismissAlert(list)) = Rest(list)
           /\ \A a \in ErrorAlerts : Rest(addAlert(list, a)) = Append(Rest(list), a)
<1>1. Len(list) \in Nat /\ DOMAIN list = 1..Len(list) /\ Requirements \in Alerts
  BY LenProperties DEF Alerts
<1>2. list # <<>> => Head(list) = list[1] /\ 1 \in DOMAIN list
  BY <1>1
<1>3. Has(list, Requirements) <=> (list # <<>> /\ Head(list) = Requirements)
  BY <1>1, <1>2 DEF Has, Shown
<1>4. Rest(list) \in Seq(Alerts)
  BY HeadTailProperties DEF Rest
<1>5. Rest(addAlert(list, Requirements)) = Rest(list)
  <2>1. addAlert(list, Requirements) = <<Requirements>> \o Rest(list)
    BY AddWarning
  <2> DEFINE new == <<Requirements>> \o Rest(list)
  <2>2. /\ new \in Seq(Alerts) /\ Len(new) = 1 + Len(Rest(list)) /\ Len(Rest(list)) \in Nat
        /\ \A i \in 1..Len(new) : new[i] = IF i <= 1 THEN <<Requirements>>[i] ELSE Rest(list)[i - 1]
    BY <1>1, <1>4, ConcatProperties, LenProperties
  <2> HIDE DEF new
  <2>3. new # <<>> /\ Head(new) = Requirements
    BY <2>2
  <2>4. /\ Tail(new) \in Seq(Alerts) /\ Len(Tail(new)) = Len(Rest(list))
        /\ \A i \in 1..Len(Tail(new)) : Tail(new)[i] = new[i + 1]
    BY <2>2, <2>3, HeadTailProperties
  <2>5. \A i \in 1..Len(Tail(new)) : Tail(new)[i] = Rest(list)[i]
    BY <2>2, <2>4
  <2>6. Tail(new) = Rest(list)
    BY <1>4, <2>4, <2>5, SeqEqual
  <2>7. Rest(new) = Rest(list)
    BY <2>3, <2>6 DEF Rest
  <2>8. QED BY <2>1, <2>7 DEF new
<1>6. ASSUME Has(list, Requirements) PROVE Rest(dismissAlert(list)) = Rest(list)
  <2>1. dismissAlert(list) = Tail(list) /\ Rest(list) = Tail(list)
    BY <1>3, <1>6 DEF dismissAlert, Rest
  <2>2. Tail(list) \in Seq(Alerts) /\ ~Has(Tail(list), Requirements)
    BY <2>1, <1>4, Dismissed
  <2>3. Tail(list) # <<>> => Head(Tail(list)) # Requirements
    <3>1. SUFFICES ASSUME Tail(list) # <<>> PROVE Head(Tail(list)) # Requirements
      OBVIOUS
    <3>2. Head(Tail(list)) = Tail(list)[1] /\ 1 \in DOMAIN Tail(list)
      BY <2>2, <3>1
    <3>3. QED BY <2>2, <3>2 DEF Has
  <2>4. Rest(Tail(list)) = Tail(list)
    BY <2>3 DEF Rest
  <2>5. QED BY <2>1, <2>4
<1>7. ASSUME NEW a \in ErrorAlerts PROVE Rest(addAlert(list, a)) = Append(Rest(list), a)
  <2>1. addAlert(list, a) = Append(list, a) /\ a \in Alerts /\ a # Requirements
    BY NotRequirements DEF addAlert, Alerts
  <2>2. /\ Append(list, a) # <<>>
        /\ Head(Append(list, a)) = IF list = <<>> THEN a ELSE Head(list)
        /\ Tail(Append(list, a)) = IF list = <<>> THEN <<>> ELSE Append(Tail(list), a)
    BY <2>1, HeadTailAppend, AppendProperties
  <2>3. QED BY <2>1, <2>2 DEF Rest
<1>8. QED BY <1>3, <1>4, <1>5, <1>6, <1>7

LEMMA FailuresOnEvent ==
    ASSUME ConsoleInv, WatchEvent PROVE Continues(Rest(alerts), Rest(alerts'))
<1>1. alerts \in Seq(Alerts) /\ Shown(alerts) /\ {"nodes", "results"} \subseteq ErrorAlerts
  BY DEF ConsoleInv, StoreOK, ErrorAlerts
<1>2. PICK list \in {alerts, addAlert(alerts, "nodes"), addAlert(alerts, "results")} :
        Validate(nodesW', resultsW', list)
  BY DEF WatchEvent, NodesDelivered, ResultsDelivered, NodesFail, ResultsFail
<1>3. list \in Seq(Alerts) /\ Shown(list) /\ (Has(list, Requirements) <=> Has(alerts, Requirements))
  BY <1>1, <1>2, AddFailure
<1>4. Continues(Rest(alerts), Rest(list))
  <2>1. Rest(alerts) \in Seq(Alerts) /\ ErrorAlerts \subseteq Alerts
    BY <1>1, RestAre DEF Alerts
  <2>2. Rest(list) = Rest(alerts) \/ \E a \in ErrorAlerts : Rest(list) = Append(Rest(alerts), a)
    BY <1>1, <1>2, RestAre
  <2>3. QED BY <2>1, <2>2, ContinuesSame, ContinuesLonger
<1>5. \/ alerts' = list \/ alerts' = addAlert(list, Requirements)
      \/ Has(alerts, Requirements) /\ alerts' = dismissAlert(list)
  BY <1>2 DEF Validate
<1>6. Rest(alerts') = Rest(list)
  BY <1>3, <1>5, RestAre
<1>7. QED BY <1>4, <1>6

\* While the screen is open, no alert about a failure is dismissed and none changes
\* its place, though whoever dismisses takes the first (dismissAlert of the reducer,
\* useValidateMinimumRequirements, the close button); see FailuresKept.
THEOREM FailuresStay == Spec => FailuresKept
<1> DEFINE Kept == /\ Len(Failures) <= Len(Failures')
                   /\ SubSeq(Failures', 1, Len(Failures)) = Failures
<1>1. ASSUME ConsoleInv, [Next]_vars, onNodes, onNodes' PROVE Kept
  <2>1. alerts \in Seq(Alerts) /\ Shown(alerts) /\ ErrorAlerts \subseteq Alerts
    BY <1>1 DEF ConsoleInv, StoreOK, Alerts
  <2>2. SUFFICES Continues(Rest(alerts), Rest(alerts'))
    BY DEF Continues, Rest, Failures
  <2>3. CASE Left
    BY <1>1, <2>3 DEF Left, Leave, onNodes
  <2>4. CASE WatchEvent
    BY <1>1, <2>4, FailuresOnEvent
  <2>5. CASE FormShown \/ NameTyped \/ TicksMade
    BY <1>1, <2>5 DEF FormShown, NameTyped, TicksMade, onForm, onNodes
  <2>6. CASE Quiet
    <3>1. Rest(alerts) \in Seq(Alerts)
      BY <2>1, RestAre
    <3>2. Rest(alerts') = Rest(alerts) \/ \E a \in ErrorAlerts : Rest(alerts') = Append(Rest(alerts), a)
      BY <1>1, <2>1, <2>6, RestAre DEF Quiet, AlertsQuiet
    <3>3. QED BY <2>1, <3>1, <3>2, ContinuesSame, ContinuesLonger
  <2>7. QED BY <1>1, <2>3, <2>4, <2>5, <2>6, StepKind
<1>2. ConsoleInv /\ [Next]_vars => [onNodes /\ onNodes' => Kept]_<<screen, alerts>>
  BY <1>1
<1>3. QED BY <1>2, ConsoleAlways, PTL DEF Spec, FailuresKept
=============================================================================
