--------------------------- MODULE IabAttachProofs ---------------------------
(***************************************************************************)
(* Theorems about IabAttach, for every forest of cells and every order in  *)
(* which the devices connect and the messages are received.                *)
(***************************************************************************)
EXTENDS IabAttach, FiniteSetTheorems, SequenceTheorems, TLAPS

-----------------------------------------------------------------------------
(***************************************************************************)
(* The inductive invariant.                                                *)
(*                                                                         *)
(* A request leaves the first IAB node on its way only once that node has  *)
(* a bearer; the answer, and the bearer it sets up, come later still.      *)
(***************************************************************************)
RelayReady(i) == Parent[i] \in Donors \cup drb

\* What may be on its way at each place.
Requests    == {m \in RelayMsgs : RelayReady(m.imsi)}
Buffered(c) == {m \in RelayMsgs : Parent[m.imsi] = c \/ RelayReady(m.imsi)}
Uplink(c)   == {m \in UpMsgs : m.type = "InitialUeMessage" =>
                                 c \in IABs \cap drb /\ m \in Requests}
Downlink(c) == {m \in DownMsgs :
                  /\ m.type = "InitialContextSetupRequest" => c \in IABs /\ RelayReady(m.imsi)
                  /\ m.type = "Reconfiguration" => c \in bearer}
Answers     == {r \in [imsi : Devices, enb : Donors] : RelayReady(r.imsi)}

Messages ==
  /\ buffer \in [IABs -> Seq(RelayMsgs)]
  /\ \A c \in IABs : buffer[c] \in Seq(Buffered(c))
  /\ up \in [Devices -> Seq(UpMsgs)]
  /\ \A c \in Devices : up[c] \in Seq(Uplink(c))
  /\ down \in [Devices -> Seq(DownMsgs)]
  /\ \A c \in Devices : down[c] \in Seq(Downlink(c))
  /\ s1apUp \in Seq(Requests)
  /\ s1apDown \in Seq(Answers)

Shapes ==
  /\ ueMgr \in [Devices -> UeStates]
  /\ pending \subseteq Devices /\ bearer \subseteq Devices
  /\ drb \subseteq Devices /\ lost \subseteq Devices
  /\ numIab \in [IABs -> Nat]
  /\ nas \in [Devices -> {"OFF", "ACTIVE"}]
  /\ app \in [Nodes -> AppStates]
  /\ enbAddr \in [Devices -> Donors \cup {None}]
  /\ fault \in Faults

\* The MME has the cell a device attached to, or none.
CellsKnown ==
  /\ cellId \in [Devices -> Nodes \cup {None}]
  /\ \A i \in Devices : cellId[i] \in {None, Parent[i]}

\* What the parent knows of a device that has a bearer.
Announced(i) == /\ i \in app[Parent[i]].localImsi
                /\ app[Parent[i]].imsiIab[i] # "unset"

BearersInOrder ==
  /\ pending \cup drb \subseteq bearer
  /\ \A i \in bearer : RelayReady(i) /\ Announced(i)

\* A node knows the devices of its own cell and those it relayed a request of.
AppOk(n, a) ==
  \A i \in Devices :
    /\ a.imsiIab[i] \in {"unset", KindOf(i)}
    /\ i \in a.requested \/ a.imsiRnti[i] = None
         \/ (a.imsiRnti[i] = i /\ n = Parent[i] /\ i \in a.localImsi)
    /\ a.localRbid[i] \in IABs \cup {None}

AppsConsistent == \A n \in Nodes : AppOk(n, app[n])

IInv == Shapes /\ Messages /\ CellsKnown /\ BearersInOrder /\ AppsConsistent

-----------------------------------------------------------------------------
(***************************************************************************)
(* The handlers of an application, as functions of its maps.               *)
(***************************************************************************)
Grows(a, b) ==
  /\ a.localImsi \subseteq b.localImsi
  /\ \A i \in Devices : a.imsiIab[i] # "unset" => b.imsiIab[i] # "unset"

\* The first hop of a request.
LEMMA InitialUeMessageKeeps ==
  ASSUME NEW n \in Nodes, NEW a \in AppStates, AppOk(n, a),
         NEW i \in Devices, Parent[i] = n
  PROVE  LET b == DoInitialUeMessage(a, i)
         IN  b \in AppStates /\ AppOk(n, b) /\ Grows(a, b)
BY NodesAssumption DEF AppStates, AppOk, Grows, DoInitialUeMessage

\* A further hop of a request, behind the IAB node c.
LEMMA RelayKeeps ==
  ASSUME NEW n \in Nodes, NEW a \in AppStates, AppOk(n, a),
         NEW c \in IABs, NEW m \in RelayMsgs
  PROVE  LET b == RelayInitialUeMessage(a, c, m)
         IN  b \in AppStates /\ AppOk(n, b) /\ Grows(a, b)
<1> DEFINE b == RelayInitialUeMessage(a, c, m)
<1>1. m.imsi \in Devices /\ m.parents \subseteq Devices /\ c \in Devices
  BY DEF RelayMsgs, Devices
<1>2. b \in AppStates
  BY <1>1 DEF AppStates, RelayInitialUeMessage
<1>3. AppOk(n, b) /\ Grows(a, b)
  BY <1>1 DEF AppStates, AppOk, Grows, RelayInitialUeMessage
<1>4. QED
  BY <1>2, <1>3

\* A further hop of an answer.
LEMMA ForwardKeeps ==
  ASSUME NEW n \in Nodes, NEW a \in AppStates, AppOk(n, a), NEW i \in Devices
  PROVE  LET b == ForwardIabS1apReply(a, i)
         IN  b \in AppStates /\ AppOk(n, b) /\ Grows(a, b)
<1> DEFINE b == ForwardIabS1apReply(a, i)
<1>1. b \in AppStates
  BY DEF AppStates, ForwardIabS1apReply, KindOf
<1>2. AppOk(n, b) /\ Grows(a, b)
  BY DEF AppStates, AppOk, Grows, ForwardIabS1apReply, KindOf
<1>3. QED
  BY <1>1, <1>2

\* The last hop of an answer.
LEMMA SetupKeeps ==
  ASSUME NEW n \in Nodes, NEW a \in AppStates, AppOk(n, a), NEW i \in Devices
  PROVE  LET b == DoInitialContextSetupRequest(a, i)
         IN  b \in AppStates /\ AppOk(n, b) /\ Grows(a, b) /\ b.imsiIab[i] # "unset"
<1> DEFINE b == DoInitialContextSetupRequest(a, i)
<1>1. b \in AppStates
  BY DEF AppStates, DoInitialContextSetupRequest, KindOf
<1>2. AppOk(n, b) /\ Grows(a, b) /\ b.imsiIab[i] # "unset"
  BY DEF AppStates, AppOk, Grows, DoInitialContextSetupRequest, KindOf
<1>3. QED
  BY <1>1, <1>2

\* A handler of node n that keeps the shape of its maps.
LEMMA AppStep ==
  ASSUME Shapes, AppsConsistent, NEW n \in Nodes, NEW b \in AppStates,
         AppOk(n, b), Grows(app[n], b), app' = [app EXCEPT ![n] = b]
  PROVE  /\ app' \in [Nodes -> AppStates]
         /\ AppsConsistent'
         /\ \A i \in Devices : Announced(i) => Announced(i)'
<1>1. app' \in [Nodes -> AppStates]
  BY DEF Shapes
<1>2. AppsConsistent'
  BY DEF Shapes, AppsConsistent, AppOk
<1>3. \A i \in Devices : Announced(i) => Announced(i)'
  BY ParentAssumption DEF Shapes, Announced, Grows
<1>4. QED
  BY <1>1, <1>2, <1>3

-----------------------------------------------------------------------------
(***************************************************************************)
(* Messages.                                                               *)
(***************************************************************************)

\* What may be on its way stays so as devices get their bearers.
LEMMA MessageSetsGrow ==
  ASSUME drb \subseteq drb', bearer \subseteq bearer'
  PROVE  /\ Requests \subseteq Requests'
         /\ Answers \subseteq Answers'
         /\ \A c : Buffered(c) \subseteq Buffered(c)'
         /\ \A c : Uplink(c) \subseteq Uplink(c)'
         /\ \A c : Downlink(c) \subseteq Downlink(c)'
BY DEF Requests, Answers, Buffered, Uplink, Downlink, RelayReady

LEMMA MessagesStay ==
  ASSUME Messages, drb \subseteq drb', bearer \subseteq bearer'
  PROVE  /\ \A c \in IABs : buffer[c] \in Seq(Buffered(c)')
         /\ \A c \in Devices : up[c] \in Seq(Uplink(c)')
         /\ \A c \in Devices : down[c] \in Seq(Downlink(c)')
         /\ s1apUp \in Seq(Requests')
         /\ s1apDown \in Seq(Answers')
BY MessageSetsGrow, SeqMonotonic DEF Messages

\* What the messages look like.
LEMMA MessageTypes ==
  /\ \A m \in UpMsgs : m.type = "InitialUeMessage" => m \in RelayMsgs
  /\ RelayMsgs \subseteq UpMsgs
  /\ \A m \in RelayMsgs : m.type = "InitialUeMessage"
  /\ \A m \in DownMsgs : m.type = "InitialContextSetupRequest" => m.imsi \in Devices
<1>1. \A m \in UpMsgs : m.type = "InitialUeMessage" => m \in RelayMsgs
  BY DEF UpMsgs, Rrc
<1>2. RelayMsgs \subseteq UpMsgs
  BY DEF UpMsgs
<1>3. \A m \in RelayMsgs : m.type = "InitialUeMessage"
  BY DEF RelayMsgs
<1>4. \A m \in DownMsgs : m.type = "InitialContextSetupRequest" => m.imsi \in Devices
  BY DEF DownMsgs, Rrc, InitialContextSetupRequest
<1>5. QED
  BY <1>1, <1>2, <1>3, <1>4

\* Messages that a handler makes.
LEMMA NewMessages ==
  /\ \A c \in Devices : /\ Rrc("SetupCompleted") \in Uplink(c)
                       /\ Rrc("ReconfigurationCompleted") \in Uplink(c)
                       /\ Rrc("Setup") \in Downlink(c)
  /\ \A c \in bearer : Rrc("Reconfiguration") \in Downlink(c)
  /\ \A i \in Devices : \A S \in SUBSET IABs :
       /\ InitialUeMessage(i, S) \in RelayMsgs
       /\ InitialUeMessage(i, S).imsi = i
  /\ \A c \in IABs : \A i \in Devices :
       RelayReady(i) => InitialContextSetupRequest(i) \in Downlink(c)
<1>1. \A c \in Devices : /\ Rrc("SetupCompleted") \in Uplink(c)
                       /\ Rrc("ReconfigurationCompleted") \in Uplink(c)
  BY DEF Uplink, UpMsgs, Rrc
<1>2. \A c \in Devices : Rrc("Setup") \in Downlink(c)
  BY DEF Downlink, DownMsgs, Rrc
<1>3. \A c \in bearer : Rrc("Reconfiguration") \in Downlink(c)
  BY DEF Downlink, DownMsgs, Rrc
<1>4. \A i \in Devices : \A S \in SUBSET IABs :
        /\ InitialUeMessage(i, S) \in RelayMsgs
        /\ InitialUeMessage(i, S).imsi = i
  BY DEF RelayMsgs, InitialUeMessage
<1>5. \A c \in IABs : \A i \in Devices :
        RelayReady(i) => InitialContextSetupRequest(i) \in Downlink(c)
  BY DEF Downlink, DownMsgs, InitialContextSetupRequest
<1>6. QED
  BY <1>1, <1>2, <1>3, <1>4, <1>5

-----------------------------------------------------------------------------
(***************************************************************************)
(* The MME finds a wired cell, or one it does not know yet.                *)
(***************************************************************************)
LEMMA WiredCellFound ==
  ASSUME NEW cells \in [Devices -> Nodes \cup {None}], NEW n \in Nodes,
         \A i \in Devices : cells[i] \in {None, Parent[i]}
  PROVE  /\ WiredCell(cells, n) \in Donors \cup {None}
         /\ WiredCell(cells, n) \in CellsUp(cells, n)
<1> DEFINE C == CellsUp(cells, n)
           All == Nodes \cup {None}
           Closed(S) == n \in S /\ \A c \in S \cap IABs : cells[c] \in S
<1>1. C = {x \in All : \A S \in SUBSET All : Closed(S) => x \in S}
  BY DEF CellsUp
<1>2. n \in C
  BY <1>1
<1>3. ASSUME NEW c \in C \cap IABs PROVE cells[c] \in C
  <2>1. cells[c] \in All
    BY DEF Devices
  <2>2. \A S \in SUBSET All : Closed(S) => cells[c] \in S
    BY <1>1, <1>3
  <2>3. QED
    BY <1>1, <2>1, <2>2
<1>4. \E d \in C : d \notin IABs
  <2> SUFFICES ASSUME C \subseteq IABs PROVE FALSE
    OBVIOUS
  <2>1. PICK c \in C : Parent[c] \notin C
    BY <1>2, ParentAssumption
  <2>2. cells[c] \in C /\ cells[c] # None
    BY <1>3, <2>1, NodesAssumption DEF Nodes
  <2>3. cells[c] = Parent[c]
    BY <2>2 DEF Devices
  <2>4. QED
    BY <2>1, <2>2, <2>3
<1>5. WiredCell(cells, n) \in C /\ WiredCell(cells, n) \notin IABs
  BY <1>4 DEF WiredCell
<1>6. QED
  BY <1>1, <1>5 DEF Nodes

\* How many IAB nodes a scheduler is told of.
LEMMA NumChildrenNat ==
  ASSUME NEW a, NEW rnti
  PROVE  NumChildren(a, rnti) \in Nat
BY NodesAssumption, FS_Subset, FS_CardinalityType DEF NumChildren
-----------------------------------------------------------------------------
(***************************************************************************)
(* Init, and one lemma per action.                                         *)
(***************************************************************************)
LEMMA InitInv == Init => IInv
<1> SUFFICES ASSUME Init PROVE IInv
  OBVIOUS
<1>1. EmptyApp \in AppStates
  BY DEF AppStates, EmptyApp
<1>2. Shapes
  BY <1>1 DEF Init, Shapes, UeStates, Faults
<1>3. Messages
  BY EmptySeq DEF Init, Messages
<1>4. CellsKnown
  BY DEF Init, CellsKnown
<1>5. BearersInOrder
  BY DEF Init, BearersInOrder
<1>6. AppsConsistent
  BY DEF Init, AppsConsistent, AppOk, EmptyApp
<1>7. QED
  BY <1>2, <1>3, <1>4, <1>5, <1>6 DEF IInv

\* What goes to the backhaul is kept, sent, or lost.
LEMMA SendToBackhaulKeeps ==
  ASSUME Shapes, Messages, NEW n \in IABs, NEW m \in Buffered(n),
         NEW links \in [Devices -> Seq(UpMsgs)],
         \A c \in Devices : links[c] \in Seq(Uplink(c)),
         SendToBackhaul(n, m, links)
  PROVE  /\ buffer' \in [IABs -> Seq(RelayMsgs)]
         /\ \A c \in IABs : buffer'[c] \in Seq(Buffered(c))
         /\ up' \in [Devices -> Seq(UpMsgs)]
         /\ \A c \in Devices : up'[c] \in Seq(Uplink(c))
         /\ lost' \subseteq Devices
<1>1. n \in Devices /\ m \in RelayMsgs /\ m \in UpMsgs /\ m.imsi \in Devices
  BY MessageTypes DEF Buffered, Devices, RelayMsgs
<1>2. CASE nas[n] = "OFF"
  <2>1. buffer' = [buffer EXCEPT ![n] = Append(@, m)] /\ up' = links /\ lost' = lost
    BY <1>2 DEF SendToBackhaul
  <2>2. QED
    BY <1>1, <2>1 DEF Messages, Shapes
<1>3. CASE nas[n] # "OFF" /\ n \in drb
  <2>1. up' = [links EXCEPT ![n] = Append(@, m)] /\ buffer' = buffer /\ lost' = lost
    BY <1>3 DEF SendToBackhaul
  <2>2. m \in Uplink(n)
    BY <1>1, <1>3 DEF Uplink, Buffered, Requests, RelayReady
  <2>3. QED
    BY <1>1, <2>1, <2>2 DEF Messages, Shapes
<1>4. CASE nas[n] # "OFF" /\ n \notin drb
  <2>1. lost' = lost \cup {m.imsi} /\ up' = links /\ buffer' = buffer
    BY <1>4 DEF SendToBackhaul
  <2>2. QED
    BY <1>1, <2>1 DEF Messages, Shapes
<1>5. QED
  BY <1>2, <1>3, <1>4

LEMMA ConnectionRequestKeeps ==
  ASSUME IInv, NEW i \in Devices, RecvRrcConnectionRequest(i)
  PROVE  IInv'
<1> DEFINE n == Parent[i]
           b == DoInitialUeMessage(app[n], i)
<1> USE DEF IInv
<1>1. n \in Nodes
  BY ParentAssumption
<1>2. b \in AppStates /\ AppOk(n, b) /\ Grows(app[n], b)
  BY <1>1, InitialUeMessageKeeps DEF Shapes, AppsConsistent
<1>3. /\ app' \in [Nodes -> AppStates]
      /\ AppsConsistent'
      /\ \A j \in Devices : Announced(j) => Announced(j)'
  BY <1>1, <1>2, AppStep DEF RecvRrcConnectionRequest
<1>4. UNCHANGED <<drb, bearer, pending, s1apDown, cellId>>
  BY DEF RecvRrcConnectionRequest, ueVars, coreVars
<1>5. /\ down' \in [Devices -> Seq(DownMsgs)]
      /\ \A c \in Devices : down'[c] \in Seq(Downlink(c))
  BY NewMessages DEF RecvRrcConnectionRequest, Messages, Downlink
<1>6. /\ buffer' \in [IABs -> Seq(RelayMsgs)]
      /\ \A c \in IABs : buffer'[c] \in Seq(Buffered(c))
      /\ up' \in [Devices -> Seq(UpMsgs)]
      /\ \A c \in Devices : up'[c] \in Seq(Uplink(c))
      /\ s1apUp' \in Seq(Requests)
      /\ lost' \subseteq Devices
  <2>1. CASE n \in Donors
    <3>1. InitialUeMessage(i, {}) \in Requests
      BY <2>1, NewMessages DEF Requests, RelayReady
    <3>2. s1apUp' = Append(s1apUp, InitialUeMessage(i, {})) /\ UNCHANGED <<buffer, up, lost>>
      BY <2>1 DEF RecvRrcConnectionRequest
    <3>3. QED
      BY <3>1, <3>2 DEF Messages, Shapes
  <2>2. CASE n \notin Donors
    <3>1. n \in IABs
      BY <1>1, <2>2 DEF Nodes
    <3>2. InitialUeMessage(i, {n}) \in Buffered(n)
      BY <3>1, NewMessages DEF Buffered
    <3>3. SendToBackhaul(n, InitialUeMessage(i, {n}), up) /\ s1apUp' = s1apUp
      BY <2>2 DEF RecvRrcConnectionRequest
    <3>4. up \in [Devices -> Seq(UpMsgs)] /\ \A c \in Devices : up[c] \in Seq(Uplink(c))
      BY DEF Messages
    <3>5. QED
      BY <3>1, <3>2, <3>3, <3>4, SendToBackhaulKeeps DEF Messages
  <2>3. QED
    BY <2>1, <2>2
<1>7. Messages'
  BY <1>4, <1>5, <1>6 DEF Messages, Requests, Answers, Buffered, Uplink, Downlink, RelayReady
<1>8. Shapes'
  BY <1>3, <1>4, <1>6 DEF RecvRrcConnectionRequest, Shapes, UeStates, ueVars, coreVars
<1>9. CellsKnown' /\ BearersInOrder'
  BY <1>3, <1>4 DEF CellsKnown, BearersInOrder, RelayReady, Shapes
<1>10. QED
  BY <1>3, <1>7, <1>8, <1>9

\* What reaches the parent's RRC: a bearer that had to wait is configured now.
LEMMA ConnectedKeeps ==
  ASSUME IInv, NEW i \in Devices, NEW type, RecvUp(i, type), SwitchToConnectedNormally(i),
         numIab' \in [IABs -> Nat],
         UNCHANGED <<bearer, ueVars, buffer, app, s1apUp, coreVars, lost, fault>>
  PROVE  IInv'
<1> USE DEF IInv
<1>1. UNCHANGED <<drb, bearer, buffer, app, s1apUp, s1apDown, cellId>>
  BY DEF ueVars, coreVars
<1>2. /\ up' \in [Devices -> Seq(UpMsgs)]
      /\ \A c \in Devices : up'[c] \in Seq(Uplink(c))
  BY DEF RecvUp, Messages
<1>3. /\ down' \in [Devices -> Seq(DownMsgs)]
      /\ \A c \in Devices : down'[c] \in Seq(Downlink(c))
      /\ ueMgr' \in [Devices -> UeStates]
  <2>1. CASE i \in pending
    <3>1. /\ ueMgr' = [ueMgr EXCEPT ![i] = "CONNECTION_RECONFIGURATION"]
          /\ down' = [down EXCEPT ![i] = Append(@, Rrc("Reconfiguration"))]
      BY <2>1 DEF SwitchToConnectedNormally
    <3>2. Rrc("Reconfiguration") \in Downlink(i) /\ Rrc("Reconfiguration") \in DownMsgs
      BY <2>1, NewMessages DEF BearersInOrder, Downlink
    <3>3. QED
      BY <3>1, <3>2 DEF Messages, Shapes, UeStates
  <2>2. CASE i \notin pending
    BY <2>2 DEF SwitchToConnectedNormally, Messages, Shapes, UeStates
  <2>3. QED
    BY <2>1, <2>2
<1>4. pending' \subseteq pending
  BY DEF SwitchToConnectedNormally
<1>5. Messages'
  BY <1>1, <1>2, <1>3 DEF Messages, Requests, Answers, Buffered, Uplink, Downlink, RelayReady
<1>6. Shapes'
  BY <1>1, <1>3, <1>4 DEF Shapes, ueVars, coreVars
<1>7. CellsKnown' /\ BearersInOrder' /\ AppsConsistent'
  BY <1>1, <1>4 DEF CellsKnown, BearersInOrder, AppsConsistent, AppOk, RelayReady, Announced
<1>8. QED
  BY <1>5, <1>6, <1>7

LEMMA SetupCompletedKeeps ==
  ASSUME IInv, NEW i \in Devices, RecvRrcConnectionSetupCompleted(i)
  PROVE  IInv'
<1>1. numIab' \in [IABs -> Nat]
  BY DEF RecvRrcConnectionSetupCompleted, IInv, Shapes
<1>2. QED
  BY <1>1, ConnectedKeeps DEF RecvRrcConnectionSetupCompleted

LEMMA ReconfigurationCompletedKeeps ==
  ASSUME IInv, NEW i \in Devices, RecvRrcConnectionReconfigurationCompleted(i)
  PROVE  IInv'
<1>1. numIab' \in [IABs -> Nat]
  BY DEF RecvRrcConnectionReconfigurationCompleted, IInv, Shapes
<1>2. QED
  BY <1>1, ConnectedKeeps DEF RecvRrcConnectionReconfigurationCompleted

LEMMA ConnectionSetupKeeps ==
  ASSUME IInv, NEW i \in Devices, RecvRrcConnectionSetup(i)
  PROVE  IInv'
<1> USE DEF IInv
<1>1. UNCHANGED <<drb, bearer, pending, buffer, app, s1apUp, s1apDown, cellId>>
  BY DEF RecvRrcConnectionSetup, enbVars, coreVars
<1>2. /\ up' \in [Devices -> Seq(UpMsgs)]
      /\ \A c \in Devices : up'[c] \in Seq(Uplink(c))
  BY NewMessages DEF RecvRrcConnectionSetup, Messages, Uplink
<1>3. /\ down' \in [Devices -> Seq(DownMsgs)]
      /\ \A c \in Devices : down'[c] \in Seq(Downlink(c))
  BY DEF RecvRrcConnectionSetup, RecvDown, Messages
<1>4. Messages'
  BY <1>1, <1>2, <1>3 DEF Messages, Requests, Answers, Buffered, Uplink, Downlink, RelayReady
<1>5. Shapes'
  BY DEF RecvRrcConnectionSetup, Shapes, enbVars, coreVars
<1>6. CellsKnown' /\ BearersInOrder' /\ AppsConsistent'
  BY <1>1 DEF CellsKnown, BearersInOrder, AppsConsistent, AppOk, RelayReady, Announced
<1>7. QED
  BY <1>4, <1>5, <1>6

\* The device has its bearer, and sends what its NAS kept.
LEMMA ReconfigurationKeeps ==
  ASSUME IInv, NEW i \in Devices, RecvRrcConnectionReconfiguration(i)
  PROVE  IInv'
<1> USE DEF IInv
<1>1. /\ UNCHANGED <<bearer, pending, buffer, app, s1apUp, s1apDown, cellId>>
      /\ drb' = drb \cup {i}
  BY DEF RecvRrcConnectionReconfiguration, enbVars, coreVars
<1>2. i \in bearer
  <2>1. down[i] # << >> /\ Head(down[i]).type = "Reconfiguration"
    BY DEF RecvRrcConnectionReconfiguration, RecvDown
  <2>2. Head(down[i]) \in Downlink(i)
    BY <2>1 DEF Messages
  <2>3. QED
    BY <2>1, <2>2 DEF Downlink
<1>3. /\ \A c \in IABs : buffer[c] \in Seq(Buffered(c)')
      /\ \A c \in Devices : up[c] \in Seq(Uplink(c)')
      /\ \A c \in Devices : down[c] \in Seq(Downlink(c)')
      /\ s1apUp \in Seq(Requests')
      /\ s1apDown \in Seq(Answers')
  BY <1>1, MessagesStay
<1>4. Kept(i) \in Seq(Uplink(i)')
  <2>1. CASE i \in IABs
    <3>1. Buffered(i)' \subseteq Uplink(i)'
      BY <1>1, <2>1, MessageTypes DEF Buffered, Uplink, Requests, RelayReady
    <3>2. QED
      BY <1>3, <2>1, <3>1, SeqMonotonic DEF Kept
  <2>2. CASE i \notin IABs
    BY <2>2, EmptySeq DEF Kept
  <2>3. QED
    BY <2>1, <2>2
<1>5. Rrc("ReconfigurationCompleted") \in Uplink(i)'
  BY DEF Uplink, UpMsgs, Rrc
<1>6. (up[i] \o Kept(i)) \o <<Rrc("ReconfigurationCompleted")>> \in Seq(Uplink(i)')
  <2>1. up[i] \o Kept(i) \in Seq(Uplink(i)')
    BY <1>3, <1>4, ConcatProperties
  <2>2. <<Rrc("ReconfigurationCompleted")>> \in Seq(Uplink(i)')
    BY <1>5
  <2>3. QED
    BY <2>1, <2>2, ConcatProperties
<1>7. /\ up' \in [Devices -> Seq(UpMsgs)]
      /\ \A c \in Devices : up'[c] \in Seq(Uplink(c)')
  <2> DEFINE new == (up[i] \o Kept(i)) \o <<Rrc("ReconfigurationCompleted")>>
  <2>1. up' = [up EXCEPT ![i] = new]
    BY DEF RecvRrcConnectionReconfiguration
  <2>2. Uplink(i)' \subseteq UpMsgs
    BY DEF Uplink
  <2>3. new \in Seq(UpMsgs)
    BY <1>6, <2>2, SeqMonotonic
  <2> HIDE DEF new
  <2>4. \A c \in Devices : up'[c] \in Seq(Uplink(c)')
    BY <1>3, <1>6, <2>1 DEF Messages, new
  <2>5. QED
    BY <2>1, <2>3, <2>4 DEF Messages
<1>8. /\ down' \in [Devices -> Seq(DownMsgs)]
      /\ \A c \in Devices : down'[c] \in Seq(Downlink(c)')
  BY <1>3 DEF RecvRrcConnectionReconfiguration, RecvDown, Messages
<1>9. Messages'
  BY <1>1, <1>3, <1>7, <1>8 DEF Messages
<1>10. Shapes'
  BY DEF RecvRrcConnectionReconfiguration, Shapes, enbVars, coreVars
<1>11. CellsKnown' /\ BearersInOrder' /\ AppsConsistent'
  BY <1>1, <1>2 DEF CellsKnown, BearersInOrder, AppsConsistent, AppOk, RelayReady, Announced
<1>12. QED
  BY <1>9, <1>10, <1>11

\* The program stops: nothing but the reason changes.
LEMMA StopKeeps ==
  ASSUME IInv, fault' \in Faults,
         UNCHANGED <<enbVars, ueVars, buffer, up, down, app, s1apUp, coreVars, lost>>
  PROVE  IInv'
BY DEF IInv, Shapes, Messages, CellsKnown, BearersInOrder, AppsConsistent, AppOk, Announced,
       Requests, Answers, Buffered, Uplink, Downlink, RelayReady, enbVars, ueVars, coreVars

\* A request on its way up: taken for data, sent to the MME, or relayed further.
LEMMA RelayedRequestKeeps ==
  ASSUME IInv, NEW c \in IABs, RecvFromLteSocket(c)
  PROVE  IInv'
<1> DEFINE n == Parent[c]
           m == Head(up[c])
           links == [up EXCEPT ![c] = Tail(@)]
           b == RelayInitialUeMessage(app[n], c, m)
<1> USE DEF IInv
<1>1. c \in Devices /\ n \in Nodes
  BY ParentAssumption DEF Devices
<1>2. up[c] # << >> /\ m.type = "InitialUeMessage"
  BY DEF RecvFromLteSocket
<1>3. m \in Uplink(c)
  BY <1>1, <1>2 DEF Messages
<1>4. m \in Requests /\ m \in RelayMsgs /\ m.imsi \in Devices
  BY <1>2, <1>3 DEF Uplink, Requests, RelayMsgs
<1>5. /\ links \in [Devices -> Seq(UpMsgs)]
      /\ \A x \in Devices : links[x] \in Seq(Uplink(x))
  BY <1>1, <1>2 DEF Messages
<1>6. AddParent(n, m) \in Requests /\ (n \in IABs => AddParent(n, m) \in Buffered(n))
  BY <1>4 DEF AddParent, Requests, RelayMsgs, Buffered, RelayReady
<1>7. b \in AppStates /\ AppOk(n, b) /\ Grows(app[n], b)
  BY <1>1, <1>4, RelayKeeps DEF Shapes, AppsConsistent
<1> HIDE DEF n, m, links, b
<1>8. CASE n \in IABs /\ c \notin app[n].localImsi
  <2>1. Stop("unknown_rnti")
    BY <1>8 DEF RecvFromLteSocket, n
  <2>2. QED
    BY <2>1, StopKeeps DEF Stop, Faults
<1>9. CASE ~(n \in IABs /\ c \notin app[n].localImsi)
  <2>1. PICK related \in IabRelated(n, c) :
               IF ~related
                 THEN /\ up' = links
                      /\ lost' = lost \cup {m.imsi}
                      /\ UNCHANGED <<app, s1apUp, buffer>>
               ELSE IF n \in Donors
                 THEN /\ app' = [app EXCEPT ![n] = b]
                      /\ up' = links
                      /\ s1apUp' = Append(s1apUp, AddParent(n, m))
                      /\ UNCHANGED <<buffer, lost>>
                 ELSE /\ app' = [app EXCEPT ![n] = b]
                      /\ SendToBackhaul(n, AddParent(n, m), links)
                      /\ UNCHANGED s1apUp
    BY <1>9 DEF RecvFromLteSocket, n, m, links, b
  <2>2. UNCHANGED <<enbVars, ueVars, down, coreVars, fault>>
    BY <1>9 DEF RecvFromLteSocket, n
  <2>3. UNCHANGED <<drb, bearer, pending, down, s1apDown, cellId>>
    BY <2>2 DEF enbVars, ueVars, coreVars
  <2>4. /\ app' \in [Nodes -> AppStates]
        /\ AppsConsistent'
        /\ \A j \in Devices : Announced(j) => Announced(j)'
    <3>1. CASE app' = app
      BY <3>1 DEF Shapes, AppsConsistent, AppOk, Announced
    <3>2. CASE app' = [app EXCEPT ![n] = b]
      BY <1>1, <1>7, <3>2, AppStep
    <3>3. QED
      BY <2>1, <3>1, <3>2
  <2>5. /\ buffer' \in [IABs -> Seq(RelayMsgs)]
        /\ \A x \in IABs : buffer'[x] \in Seq(Buffered(x))
        /\ up' \in [Devices -> Seq(UpMsgs)]
        /\ \A x \in Devices : up'[x] \in Seq(Uplink(x))
        /\ s1apUp' \in Seq(Requests)
        /\ lost' \subseteq Devices
    <3>1. CASE ~related
      BY <1>4, <1>5, <2>1, <3>1 DEF Messages, Shapes
    <3>2. CASE related /\ n \in Donors
      <4>1. /\ up' = links
            /\ s1apUp' = Append(s1apUp, AddParent(n, m))
            /\ UNCHANGED <<buffer, lost>>
        BY <2>1, <3>2
      <4>2. s1apUp' \in Seq(Requests)
        BY <1>6, <4>1 DEF Messages
      <4>3. QED
        BY <1>5, <4>1, <4>2 DEF Messages, Shapes
    <3>3. CASE related /\ n \notin Donors
      <4>1. n \in IABs
        BY <1>1, <3>3 DEF Nodes
      <4>2. SendToBackhaul(n, AddParent(n, m), links) /\ s1apUp' = s1apUp
        BY <2>1, <3>3
      <4>3. s1apUp' \in Seq(Requests)
        BY <4>2 DEF Messages
      <4>4. QED
        BY <1>5, <1>6, <4>1, <4>2, <4>3, SendToBackhaulKeeps
    <3>4. QED
      BY <3>1, <3>2, <3>3
  <2>6. Messages'
    BY <2>3, <2>5 DEF Messages, Requests, Answers, Buffered, Uplink, Downlink, RelayReady
  <2>7. Shapes'
    BY <2>2, <2>4, <2>5 DEF Shapes, enbVars, ueVars, coreVars
  <2>8. CellsKnown' /\ BearersInOrder'
    BY <2>3, <2>4 DEF CellsKnown, BearersInOrder, RelayReady, Shapes
  <2>9. QED
    BY <2>4, <2>6, <2>7, <2>8
<1>10. QED
  BY <1>8, <1>9

\* The MME opens a session at the wired donor.
LEMMA MmeKeeps ==
  ASSUME IInv, MmeInitialUeMessage
  PROVE  IInv'
<1> DEFINE i == Head(s1apUp).imsi
           cells == [cellId EXCEPT ![i] = Parent[i]]
           wired == WiredCell(cells, Parent[i])
<1> USE DEF IInv
<1>1. Head(s1apUp) \in Requests /\ Tail(s1apUp) \in Seq(Requests)
  BY HeadTailProperties DEF MmeInitialUeMessage, Messages
<1>2. i \in Devices /\ RelayReady(i) /\ Parent[i] \in Nodes
  BY <1>1, ParentAssumption DEF Requests, RelayMsgs
<1>3. /\ cells \in [Devices -> Nodes \cup {None}]
      /\ \A j \in Devices : cells[j] \in {None, Parent[j]}
  BY <1>2 DEF CellsKnown
<1>4. wired \in Donors \cup {None}
  BY <1>2, <1>3, WiredCellFound
<1> HIDE DEF i, cells, wired
<1>5. CASE wired = None
  <2>1. Stop("unknown_cell")
    BY <1>5 DEF MmeInitialUeMessage, i, cells, wired
  <2>2. QED
    BY <2>1, StopKeeps DEF Stop, Faults
<1>6. CASE wired # None
  <2>1. /\ s1apUp' = Tail(s1apUp)
        /\ cellId' = cells
        /\ enbAddr' = [enbAddr EXCEPT ![i] = wired]
        /\ s1apDown' = Append(s1apDown, [imsi |-> i, enb |-> wired])
        /\ UNCHANGED <<enbVars, ueVars, buffer, up, down, app, lost, fault>>
    BY <1>6 DEF MmeInitialUeMessage, i, cells, wired
  <2>2. UNCHANGED <<drb, bearer, pending, buffer, up, down, app>>
    BY <2>1 DEF enbVars, ueVars
  <2>3. [imsi |-> i, enb |-> wired] \in Answers
    BY <1>2, <1>4, <1>6 DEF Answers
  <2>4. Messages'
    BY <1>1, <2>1, <2>2, <2>3
       DEF Messages, Requests, Answers, Buffered, Uplink, Downlink, RelayReady
  <2>5. Shapes'
    BY <1>4, <2>1 DEF Shapes, enbVars, ueVars
  <2>6. CellsKnown' /\ BearersInOrder' /\ AppsConsistent'
    BY <1>3, <2>1, <2>2 DEF CellsKnown, BearersInOrder, AppsConsistent, AppOk, RelayReady, Announced
  <2>7. QED
    BY <2>4, <2>5, <2>6
<1>7. QED
  BY <1>5, <1>6

\* An answer for device i, which node n takes from `links' and relays, or sets
\* up the bearer for.
LEMMA AnswerKeeps ==
  ASSUME IInv, NEW n \in Nodes, NEW i \in Devices, RelayReady(i),
         NEW links \in [Devices -> Seq(DownMsgs)],
         \A c \in Devices : links[c] \in Seq(Downlink(c)),
         RecvInitialContextSetupRequest(n, i, links),
         UNCHANGED <<ueVars, buffer, up, s1apUp, cellId, enbAddr, lost>>,
         s1apDown' \in Seq(Answers)
  PROVE  IInv'
<1> DEFINE a == app[n]
           rnti == a.imsiRnti[i]
           relayed == ForwardIabS1apReply(a, i)
           ready == DoInitialContextSetupRequest(a, i)
           unknown == rnti = None \/ (i \in a.requested
                                       /\ (a.localRbid[i] = None \/ rnti \notin a.heard))
<1> USE DEF IInv
<1>1. a \in AppStates /\ AppOk(n, a)
  BY DEF Shapes, AppsConsistent
<1>2. rnti \in Devices \cup {None} /\ a.localRbid[i] \in IABs \cup {None}
  BY <1>1 DEF AppStates, AppOk
<1>3. relayed \in AppStates /\ AppOk(n, relayed) /\ Grows(a, relayed)
  BY <1>1, ForwardKeeps
<1>4. /\ ready \in AppStates /\ AppOk(n, ready) /\ Grows(a, ready)
      /\ ready.imsiIab[i] # "unset"
  BY <1>1, SetupKeeps
<1>5. i \notin a.requested /\ rnti # None =>
        rnti = i /\ n = Parent[i] /\ i \in a.localImsi
  BY <1>1 DEF AppOk
<1> HIDE DEF a, rnti, relayed, ready, unknown
<1>6. UNCHANGED <<drb, buffer, up, s1apUp, cellId>>
  BY DEF ueVars
<1>7. /\ nas' = nas /\ enbAddr' = enbAddr /\ lost' = lost
  BY DEF ueVars
<1>8. CASE unknown
  <2>1. fault' = "unknown_imsi" /\ down' = links /\ UNCHANGED <<enbVars, app>>
    BY <1>8 DEF RecvInitialContextSetupRequest, unknown, rnti, a
  <2>2. UNCHANGED <<bearer, pending>>
    BY <2>1 DEF enbVars
  <2>3. Messages'
    BY <1>6, <2>1, <2>2 DEF Messages, Requests, Answers, Buffered, Uplink, Downlink, RelayReady
  <2>4. Shapes'
    BY <1>6, <1>7, <2>1 DEF Shapes, enbVars, Faults
  <2>5. CellsKnown' /\ BearersInOrder' /\ AppsConsistent'
    BY <1>6, <2>1, <2>2 DEF CellsKnown, BearersInOrder, AppsConsistent, AppOk, RelayReady, Announced
  <2>6. QED
    BY <2>3, <2>4, <2>5
<1>9. CASE ~unknown /\ i \in a.requested
  <2>1. /\ app' = [app EXCEPT ![n] = relayed]
        /\ numIab' = [numIab EXCEPT ![rnti] = NumChildren(relayed, rnti)]
        /\ down' = [links EXCEPT ![a.localRbid[i]] = Append(@, InitialContextSetupRequest(i))]
        /\ UNCHANGED <<ueMgr, pending, bearer, fault>>
    BY <1>9 DEF RecvInitialContextSetupRequest, unknown, rnti, a, relayed
  <2>2. a.localRbid[i] \in IABs
    BY <1>2, <1>9 DEF unknown
  <2>3. InitialContextSetupRequest(i) \in Downlink(a.localRbid[i])
    BY <2>2, NewMessages
  <2>4. /\ down' \in [Devices -> Seq(DownMsgs)]
        /\ \A c \in Devices : down'[c] \in Seq(Downlink(c))
    BY <2>1, <2>2, <2>3 DEF Devices, Downlink
  <2>5. /\ app' \in [Nodes -> AppStates]
        /\ AppsConsistent'
        /\ \A j \in Devices : Announced(j) => Announced(j)'
    BY <1>3, <2>1, AppStep DEF a
  <2>6. numIab' \in [IABs -> Nat]
    BY <2>1, NumChildrenNat DEF Shapes
  <2>7. Messages'
    BY <1>6, <2>1, <2>4 DEF Messages, Requests, Answers, Buffered, Uplink, Downlink, RelayReady
  <2>8. Shapes'
    BY <1>6, <1>7, <2>1, <2>5, <2>6 DEF Shapes
  <2>9. CellsKnown' /\ BearersInOrder'
    BY <1>6, <2>1, <2>5 DEF CellsKnown, BearersInOrder, RelayReady, Shapes
  <2>10. QED
    BY <2>5, <2>7, <2>8, <2>9
<1>10. CASE ~unknown /\ i \notin a.requested
  <2>1. rnti = i /\ n = Parent[i] /\ i \in a.localImsi
    BY <1>5, <1>10 DEF unknown
  <2>2. /\ app' = [app EXCEPT ![n] = ready]
        /\ SetupDataRadioBearer(i, links)
        /\ UNCHANGED <<numIab, fault>>
    BY <1>10, <2>1 DEF RecvInitialContextSetupRequest, unknown, rnti, a, ready
  <2>3. /\ app' \in [Nodes -> AppStates]
        /\ AppsConsistent'
        /\ \A j \in Devices : Announced(j) => Announced(j)'
    BY <1>4, <2>2, AppStep DEF a
  <2>4. Announced(i)'
    BY <1>4, <2>1, <2>2 DEF Announced, Grows, Shapes, a
  <2>5. bearer' = bearer \cup {i} /\ pending' \in SUBSET (pending \cup {i})
    BY <2>2 DEF SetupDataRadioBearer
  <2>6. /\ \A c \in IABs : buffer[c] \in Seq(Buffered(c)')
        /\ \A c \in Devices : up[c] \in Seq(Uplink(c)')
        /\ s1apUp \in Seq(Requests')
    BY <1>6, <2>5, MessagesStay
  <2>7. \A c \in Devices : links[c] \in Seq(Downlink(c)')
    BY <1>6, <2>5, MessageSetsGrow, SeqMonotonic
  <2>8. /\ down' \in [Devices -> Seq(DownMsgs)]
        /\ \A c \in Devices : down'[c] \in Seq(Downlink(c)')
        /\ ueMgr' \in [Devices -> UeStates]
    <3>1. Rrc("Reconfiguration") \in Downlink(i)' /\ Rrc("Reconfiguration") \in DownMsgs
      BY <2>5 DEF Downlink, DownMsgs, Rrc
    <3>2. CASE i \notin bearer /\ ueMgr[i] = "CONNECTED_NORMALLY"
      <4>1. /\ ueMgr' = [ueMgr EXCEPT ![i] = "CONNECTION_RECONFIGURATION"]
            /\ down' = [links EXCEPT ![i] = Append(@, Rrc("Reconfiguration"))]
        BY <2>2, <3>2 DEF SetupDataRadioBearer
      <4>2. QED
        BY <2>7, <3>1, <4>1 DEF Shapes, UeStates
    <3>3. CASE ~(i \notin bearer /\ ueMgr[i] = "CONNECTED_NORMALLY")
      BY <2>2, <2>7, <3>3 DEF SetupDataRadioBearer, Shapes
    <3>4. QED
      BY <3>2, <3>3
  <2>9. s1apDown' \in Seq(Answers')
    BY <1>6, <2>5, MessageSetsGrow, SeqMonotonic
  <2>10. Messages'
    BY <1>6, <2>6, <2>8, <2>9 DEF Messages
  <2>11. Shapes'
    BY <1>6, <1>7, <2>2, <2>3, <2>5, <2>8 DEF Shapes
  <2>12. CellsKnown' /\ BearersInOrder'
    BY <1>6, <2>3, <2>4, <2>5 DEF CellsKnown, BearersInOrder, RelayReady, Shapes
  <2>13. QED
    BY <2>3, <2>10, <2>11, <2>12
<1>11. QED
  BY <1>8, <1>9, <1>10

LEMMA DonorAnswerKeeps ==
  ASSUME IInv, DonorRecvS1ap
  PROVE  IInv'
<1> DEFINE m == Head(s1apDown)
<1>1. m \in Answers /\ Tail(s1apDown) \in Seq(Answers)
  BY HeadTailProperties DEF DonorRecvS1ap, IInv, Messages
<1>2. m.enb \in Nodes /\ m.imsi \in Devices /\ RelayReady(m.imsi)
  BY <1>1 DEF Answers, Nodes
<1>3. /\ down \in [Devices -> Seq(DownMsgs)]
      /\ \A c \in Devices : down[c] \in Seq(Downlink(c))
  BY DEF IInv, Messages
<1>4. /\ RecvInitialContextSetupRequest(m.enb, m.imsi, down)
      /\ s1apDown' = Tail(s1apDown)
      /\ UNCHANGED <<ueVars, buffer, up, s1apUp, cellId, enbAddr, lost>>
  BY DEF DonorRecvS1ap
<1> HIDE DEF m
<1>5. QED
  BY <1>1, <1>2, <1>3, <1>4, AnswerKeeps

LEMMA RelayedAnswerKeeps ==
  ASSUME IInv, NEW c \in IABs, IabRecvS1ap(c)
  PROVE  IInv'
<1> DEFINE m == Head(down[c])
           links == [down EXCEPT ![c] = Tail(@)]
<1>1. c \in Devices /\ c \in Nodes
  BY DEF Devices, Nodes
<1>2. down[c] # << >> /\ m.type = "InitialContextSetupRequest"
  BY DEF IabRecvS1ap
<1>3. m \in Downlink(c) /\ Tail(down[c]) \in Seq(Downlink(c))
  BY <1>1, <1>2, HeadTailProperties DEF IInv, Messages
<1>4. m.imsi \in Devices /\ RelayReady(m.imsi)
  BY <1>2, <1>3, MessageTypes DEF Downlink
<1>5. /\ links \in [Devices -> Seq(DownMsgs)]
      /\ \A x \in Devices : links[x] \in Seq(Downlink(x))
  BY <1>1, <1>2, <1>3 DEF IInv, Messages
<1>6. /\ RecvInitialContextSetupRequest(c, m.imsi, links)
      /\ UNCHANGED <<ueVars, buffer, up, s1apUp, coreVars, lost>>
  BY DEF IabRecvS1ap
<1>7. s1apDown' \in Seq(Answers) /\ UNCHANGED <<cellId, enbAddr>>
  BY <1>6 DEF IInv, Messages, coreVars
<1> HIDE DEF m, links
<1>8. QED
  BY <1>1, <1>4, <1>5, <1>6, <1>7, AnswerKeeps

-----------------------------------------------------------------------------
(***************************************************************************)
(* Theorems.                                                               *)
(***************************************************************************)
LEMMA StepInv == IInv /\ [Next]_vars => IInv'
<1> SUFFICES ASSUME IInv, [Next]_vars PROVE IInv'
  OBVIOUS
<1>1. CASE \E i \in Devices : RrcStep(i)
  <2>1. PICK i \in Devices : RrcStep(i)
    BY <1>1
  <2>2. CASE RecvRrcConnectionRequest(i)
    BY <2>2, ConnectionRequestKeeps
  <2>3. CASE RecvRrcConnectionSetup(i)
    BY <2>3, ConnectionSetupKeeps
  <2>4. CASE RecvRrcConnectionSetupCompleted(i)
    BY <2>4, SetupCompletedKeeps
  <2>5. CASE RecvRrcConnectionReconfiguration(i)
    BY <2>5, ReconfigurationKeeps
  <2>6. CASE RecvRrcConnectionReconfigurationCompleted(i)
    BY <2>6, ReconfigurationCompletedKeeps
  <2>7. QED
    BY <2>1, <2>2, <2>3, <2>4, <2>5, <2>6 DEF RrcStep
<1>2. CASE \E c \in IABs : RelayStep(c)
  BY <1>2, RelayedRequestKeeps, RelayedAnswerKeeps DEF RelayStep
<1>3. CASE MmeInitialUeMessage
  BY <1>3, MmeKeeps
<1>4. CASE DonorRecvS1ap
  BY <1>4, DonorAnswerKeeps
<1>5. CASE UNCHANGED vars
  BY <1>5, StopKeeps DEF vars, IInv, Shapes
<1>6. QED
  BY <1>1, <1>2, <1>3, <1>4, <1>5 DEF Next

\* Requests, answers and bearers follow each other down the tree: no request is
\* relayed by, and no answer reaches, a relay that has no bearer itself.
THEOREM Inductive == Spec => []IInv
BY InitInv, StepInv, PTL DEF Spec

LEMMA TypeFollows == IInv => TypeOK
<1> SUFFICES ASSUME IInv PROVE TypeOK
  OBVIOUS
<1>1. s1apUp \in Seq(RelayMsgs)
  BY SeqMonotonic DEF IInv, Messages, Requests
<1>2. s1apDown \in Seq([imsi : Devices, enb : Donors])
  <2>1. Answers \subseteq [imsi : Devices, enb : Donors]
    BY DEF Answers
  <2>2. QED
    BY <2>1, SeqMonotonic DEF IInv, Messages
<1>3. QED
  BY <1>1, <1>2 DEF IInv, Shapes, Messages, CellsKnown, TypeOK

\* Every variable keeps its shape in every forest of cells; in particular the
\* MME's search for the donor (EpcMmeApplication::DoInitialUeMessage) never ends
\* at an IAB node, and the SGW's tunnels lead to wired donors.
THEOREM TypeCorrect == Spec => []TypeOK
BY Inductive, TypeFollows, PTL

LEMMA ClassifiedFollows == IInv => UplinkClassified
<1> SUFFICES ASSUME IInv, NEW c \in IABs, NEW k \in DOMAIN up[c],
                    up[c][k].type = "InitialUeMessage"
             PROVE  IabRelated(Parent[c], c) = {TRUE}
  BY DEF UplinkClassified
<1>1. c \in Devices /\ Parent[c] \in Nodes
  BY ParentAssumption DEF Devices
<1>2. up[c] \in Seq(Uplink(c))
  BY <1>1 DEF IInv, Messages
<1>3. up[c][k] \in Uplink(c)
  BY <1>2, ElementOfSeq, LenProperties
<1>4. c \in bearer
  BY <1>3 DEF Uplink, IInv, BearersInOrder
<1>5. Announced(c) /\ app[Parent[c]].imsiIab[c] = "iab"
  BY <1>1, <1>4 DEF IInv, BearersInOrder, AppsConsistent, AppOk, Announced, KindOf
<1>6. QED
  BY <1>5 DEF IabRelated, Announced

\* RecvFromLteSocket never reads the flag of an IAB node behind the end of the
\* map: the parent knows the node as one before it can send the first packet.
THEOREM UplinkRecognised == Spec => []UplinkClassified
BY Inductive, ClassifiedFollows, PTL

LEMMA TreeStep == IInv /\ [Next]_vars => [Tree!TreeNext]_drb
<1> SUFFICES ASSUME IInv, [Next]_vars, drb' # drb
             PROVE  Tree!TreeNext
  OBVIOUS
<1>1. PICK i \in Devices : RecvRrcConnectionReconfiguration(i)
  BY DEF Next, RrcStep, RelayStep, vars, ueVars, coreVars, Stop,
         RecvRrcConnectionRequest, RecvRrcConnectionSetup, RecvRrcConnectionSetupCompleted,
         RecvRrcConnectionReconfigurationCompleted, RecvFromLteSocket, IabRecvS1ap,
         MmeInitialUeMessage, DonorRecvS1ap
<1>2. drb' = drb \cup {i} /\ i \notin drb
  BY <1>1 DEF RecvRrcConnectionReconfiguration
<1>3. IInv' /\ bearer' = bearer
  BY <1>1, ReconfigurationKeeps DEF RecvRrcConnectionReconfiguration, enbVars
<1>4. i \in bearer
  BY <1>2, <1>3 DEF IInv, BearersInOrder
<1>5. Parent[i] \in Donors \cup drb
  BY <1>4 DEF IInv, BearersInOrder, RelayReady
<1>6. QED
  BY <1>2, <1>5 DEF Tree!TreeNext, Tree!Attach, Tree!Devices, Devices

\* The attach procedure implements IabTree in every forest and every order of
\* connections: bearers come from the donors outwards, each once, for good.
THEOREM TreeBuilt == Spec => BuildsTree
<1>1. Init => Tree!TreeInit
  BY DEF Init, Tree!TreeInit
<1>2. IInv /\ [Next]_vars => [Tree!TreeNext]_drb
  BY TreeStep
<1>3. QED
  BY <1>1, <1>2, Inductive, PTL DEF Spec, BuildsTree, Tree!TreeSpec

\* Whoever has a bearer is reached: so has every relay above it.
THEOREM TreeConnected == Spec => []Tree!Connected
<1>1. IInv => Tree!Connected
  BY DEF IInv, BearersInOrder, RelayReady, Tree!Connected
<1>2. QED
  BY <1>1, Inductive, PTL
=============================================================================
