------------------------------ MODULE IabAttach ------------------------------
(***************************************************************************)
(* Attachment of IAB nodes and UEs to a tree of cells:                     *)
(*                                                                         *)
(*   - the RRC connection setup and the first reconfiguration, on both     *)
(*     sides (lte-enb-rrc.cc, lte-ue-rrc.cc);                              *)
(*   - the NAS of an IAB node, which is the backhaul socket of its         *)
(*     EpcIabApplication (epc-ue-nas.cc);                                  *)
(*   - the EpcIabApplication of every IAB node, the EpcEnbApplication of   *)
(*     every donor, and the EpcS1apEnb of both, which relay the            *)
(*     InitialUeMessage of a device up to the MME and its answer, the      *)
(*     InitialContextSetupRequest, down again;                             *)
(*   - the MME's search for the wired donor, and the SGW's session.        *)
(*                                                                         *)
(* An IMSI, the RNTI its device has in its parent's cell, its one bearer   *)
(* and the TEID of that bearer are all named after the device; a cell is   *)
(* named after its node.  What a node sends itself through its local S1-AP *)
(* socket takes no time and is part of the action that sends it.           *)
(*                                                                         *)
(* Operators whose comment begins with "Fault:" are single mistakes in the *)
(* handler that follows; Next never uses them.                             *)
(***************************************************************************)
EXTENDS Integers, Sequences, FiniteSets

CONSTANTS
  Donors,  \* wired gNBs
  IABs,    \* IAB nodes
  UEs,     \* UEs
  Parent,  \* cell each device attaches to
  None     \* no entry

Devices == IABs \cup UEs
Nodes   == Donors \cup IABs

ASSUME NodesAssumption ==
  /\ IABs \cap Donors = {} /\ IABs \cap UEs = {} /\ UEs \cap Donors = {}
  /\ None \notin Nodes \cup UEs
  /\ IsFiniteSet(Devices)
\* The cells form a forest: no set of relays has only each other for parents.
ASSUME ParentAssumption ==
  /\ Parent \in [Devices -> Nodes]
  /\ \A S \in SUBSET IABs : S # {} => \E c \in S : Parent[c] \notin S

VARIABLES
  ueMgr,     \* UeManager of each device: its state
  pending,   \* m_pendingRrcConnectionReconfiguration: of these devices
  bearer,    \* devices whose UeManager has the bearer in m_drbMap
  numIab,    \* IAB nodes the scheduler was told are behind each IAB node
  nas,       \* EpcUeNas of each device: its state
  drb,       \* devices that have the bearer themselves (m_drbMap, m_bid2DrbidMap)
  buffer,    \* m_bufferReceivedNasOff of each IAB node
  up, down,  \* what is on the radio link between each device and its parent
  app,       \* EpcEnbApplication or EpcIabApplication of each node
  s1apUp,    \* S1-AP messages to the MME
  s1apDown,  \* S1-AP messages from the MME
  cellId,    \* the MME's UeInfo: cell of each IMSI
  enbAddr,   \* the SGW's UeInfo: donor that each IMSI's tunnel leads to
  lost,      \* devices whose InitialUeMessage was lost (history)
  fault      \* why the program stopped ("none": it runs)

enbVars  == <<ueMgr, pending, bearer, numIab>>
ueVars   == <<nas, drb>>
coreVars == <<s1apDown, cellId, enbAddr>>
vars == <<enbVars, ueVars, buffer, up, down, app, s1apUp, coreVars, lost, fault>>

UeStates == {"INITIAL_RANDOM_ACCESS", "CONNECTION_SETUP", "CONNECTED_NORMALLY",
             "CONNECTION_RECONFIGURATION"}
Faults   == {"none", "unknown_rnti", "unknown_imsi", "unknown_cell"}

Rrc(t) == [type |-> t, imsi |-> None, parents |-> {}]
InitialUeMessage(i, ps) == [type |-> "InitialUeMessage", imsi |-> i, parents |-> ps]
InitialContextSetupRequest(i) ==
  [type |-> "InitialContextSetupRequest", imsi |-> i, parents |-> {}]

RelayMsgs == [type : {"InitialUeMessage"}, imsi : Devices, parents : SUBSET IABs]
UpMsgs    == RelayMsgs \cup {Rrc(t) : t \in {"SetupCompleted", "ReconfigurationCompleted"}}
DownMsgs  == {Rrc(t) : t \in {"Setup", "Reconfiguration"}}
               \cup {InitialContextSetupRequest(i) : i \in Devices}

-----------------------------------------------------------------------------
(***************************************************************************)
(* The state of one application together with its EpcS1apEnb, as a record  *)
(* of their maps, and its handlers as functions of that record.            *)
(***************************************************************************)
AppStates ==
  [imsiRnti  : [Devices -> Devices \cup {None}],   \* m_imsiRntiMap
   localImsi : SUBSET Devices,                     \* m_rntiLocalImsiMap
   imsiIab   : [Devices -> {"unset", "iab", "ue"}],\* m_imsiIabMap
   localRbid : [Devices -> Devices \cup {None}],   \* m_imsiLocalRbidMap
   teidRbid  : [Devices -> Devices \cup {None}],   \* m_teidRbidMap
   remote    : SUBSET Devices,                     \* m_teidRemoteMap
   heard     : SUBSET Devices,                     \* keys of m_rntiImsiChildrenMap
   children  : SUBSET (Devices \X Devices),        \* m_rntiImsiChildrenMap
   requested : SUBSET Devices]                     \* m_remoteImsiRequestMap

KindOf(i) == IF i \in IABs THEN "iab" ELSE "ue"

EmptyApp ==
  [imsiRnti  |-> [i \in Devices |-> None],
   localImsi |-> {},
   imsiIab   |-> [i \in Devices |-> "unset"],
   localRbid |-> [i \in Devices |-> None],
   teidRbid  |-> [i \in Devices |-> None],
   remote    |-> {},
   heard     |-> {},
   children  |-> {},
   requested |-> {}]

DoInitialUeMessage(a, i) ==
  [a EXCEPT !.imsiRnti[i] = i, !.localImsi = @ \cup {i}]

\* Fault: forgets the bearer that the answer must take.
RelayWithoutBearer(a, rnti, m) ==
  [a EXCEPT !.heard = @ \cup {rnti}, !.children = @ \cup ({rnti} \X m.parents),
            !.imsiRnti[m.imsi] = rnti, !.requested = @ \cup {m.imsi}]

\* Fault: keeps the list of IAB nodes that came first.
RelayFirstParentsOnly(a, rnti, m) ==
  [a EXCEPT !.heard            = @ \cup {rnti},
            !.children         = IF rnti \in a.heard THEN @ ELSE {rnti} \X m.parents,
            !.imsiRnti[m.imsi] = rnti, !.localRbid[m.imsi] = rnti,
            !.requested        = @ \cup {m.imsi}]

\* An InitialUeMessage received from the IAB node with this RNTI: which bearer
\* leads to its sender, and which IAB nodes are on the way.
RelayInitialUeMessage(a, rnti, m) ==
  [a EXCEPT !.heard            = @ \cup {rnti},
            !.children         = @ \cup ({rnti} \X m.parents),
            !.imsiRnti[m.imsi] = rnti,
            !.localRbid[m.imsi] = rnti,
            !.requested        = @ \cup {m.imsi}]

\* Fault: installs the TEID of the relayed bearer, but not that it is remote.
ForwardAsLocal(a, i) ==
  [a EXCEPT !.imsiIab[i] = KindOf(i), !.teidRbid[i] = a.localRbid[i]]

\* DoForwardIabS1apReply.  Only the IMSI itself is pruned from the children.
ForwardIabS1apReply(a, i) ==
  [a EXCEPT !.imsiIab[i]  = KindOf(i),
            !.children    = IF i \in IABs THEN @ ELSE @ \ {<<a.imsiRnti[i], i>>},
            !.teidRbid[i] = a.localRbid[i],
            !.remote      = @ \cup {i}]

\* Fault: leaves it to later to say whether the device is an IAB node.
SetupWithoutKind(a, i) == [a EXCEPT !.teidRbid[i] = a.imsiRnti[i]]

DoInitialContextSetupRequest(a, i) ==
  [a EXCEPT !.imsiIab[i]  = IF @ = "unset" THEN KindOf(i) ELSE @,
            !.teidRbid[i] = a.imsiRnti[i]]

NumChildren(a, rnti) == Cardinality({c \in Devices : <<rnti, c>> \in a.children})

-----------------------------------------------------------------------------
Running == fault = "none"

\* An assertion fails: nothing happens any more.
Stop(reason) ==
  /\ fault' = reason
  /\ UNCHANGED <<enbVars, ueVars, buffer, up, down, app, s1apUp, coreVars, lost>>

(***************************************************************************)
(* The backhaul socket of IAB node n: EpcUeNas::Send and LteUeRrc::        *)
(* DoSendData.  Before the connection the NAS keeps the packet; with a     *)
(* connection, but no bearer yet, Bid2Drbid finds none and the packet is   *)
(* gone.  `links' is what the handler has left on the radio links before.  *)
(***************************************************************************)
SendToBackhaul(n, m, links) ==
  IF nas[n] = "OFF"
    THEN buffer' = [buffer EXCEPT ![n] = Append(@, m)] /\ up' = links /\ UNCHANGED lost
  ELSE IF n \in drb
    THEN up' = [links EXCEPT ![n] = Append(@, m)] /\ UNCHANGED <<buffer, lost>>
    ELSE lost' = lost \cup {m.imsi} /\ up' = links /\ UNCHANGED buffer

-----------------------------------------------------------------------------
(***************************************************************************)
(* RRC of the parent's cell.                                               *)
(***************************************************************************)

\* A device connects: its IMSI is announced to the MME, and the connection is
\* set up.  Donors send to the MME, IAB nodes through their backhaul.
RecvRrcConnectionRequest(i) ==
  LET n == Parent[i]
  IN  /\ Running
      /\ ueMgr[i] = "INITIAL_RANDOM_ACCESS"
      /\ ueMgr' = [ueMgr EXCEPT ![i] = "CONNECTION_SETUP"]
      /\ app' = [app EXCEPT ![n] = DoInitialUeMessage(@, i)]
      /\ down' = [down EXCEPT ![i] = Append(@, Rrc("Setup"))]
      /\ IF n \in Donors
           THEN /\ s1apUp' = Append(s1apUp, InitialUeMessage(i, {}))
                /\ UNCHANGED <<buffer, up, lost>>
           ELSE /\ SendToBackhaul(n, InitialUeMessage(i, {n}), up)
                /\ UNCHANGED s1apUp
      /\ UNCHANGED <<pending, bearer, numIab, ueVars, coreVars, fault>>

RecvUp(i, type) ==
  /\ Running
  /\ up[i] # << >> /\ Head(up[i]).type = type
  /\ up' = [up EXCEPT ![i] = Tail(@)]

\* A reconfiguration that had to wait for the connection is sent now.
SwitchToConnectedNormally(i) ==
  /\ IF i \in pending
       THEN /\ ueMgr' = [ueMgr EXCEPT ![i] = "CONNECTION_RECONFIGURATION"]
            /\ down' = [down EXCEPT ![i] = Append(@, Rrc("Reconfiguration"))]
       ELSE /\ ueMgr' = [ueMgr EXCEPT ![i] = "CONNECTED_NORMALLY"]
            /\ UNCHANGED down
  /\ pending' = pending \ {i}

RecvRrcConnectionSetupCompleted(i) ==
  /\ RecvUp(i, "SetupCompleted")
  /\ SwitchToConnectedNormally(i)
  /\ UNCHANGED <<bearer, numIab, ueVars, buffer, app, s1apUp, coreVars, lost, fault>>

\* The first reconfiguration of an IAB node also tells the scheduler of it.
RecvRrcConnectionReconfigurationCompleted(i) ==
  /\ RecvUp(i, "ReconfigurationCompleted")
  /\ SwitchToConnectedNormally(i)
  /\ numIab' = IF i \in IABs THEN [numIab EXCEPT ![i] = 1] ELSE numIab
  /\ UNCHANGED <<bearer, ueVars, buffer, app, s1apUp, coreVars, lost, fault>>

\* Fault: a reconfiguration that cannot be sent yet is never sent.
SetupOnlyIfConnected(i, links) ==
  /\ bearer' = bearer \cup {i}
  /\ UNCHANGED pending
  /\ IF i \in bearer \/ ueMgr[i] # "CONNECTED_NORMALLY"
       THEN down' = links /\ UNCHANGED ueMgr
       ELSE /\ ueMgr' = [ueMgr EXCEPT ![i] = "CONNECTION_RECONFIGURATION"]
            /\ down' = [links EXCEPT ![i] = Append(@, Rrc("Reconfiguration"))]

\* A bearer that is there already is left alone.
SetupDataRadioBearer(i, links) ==
  /\ bearer' = bearer \cup {i}
  /\ IF i \in bearer
       THEN down' = links /\ UNCHANGED <<ueMgr, pending>>
     ELSE IF ueMgr[i] = "CONNECTED_NORMALLY"
       THEN /\ ueMgr' = [ueMgr EXCEPT ![i] = "CONNECTION_RECONFIGURATION"]
            /\ down' = [links EXCEPT ![i] = Append(@, Rrc("Reconfiguration"))]
            /\ UNCHANGED pending
       ELSE /\ pending' = pending \cup {i}
            /\ down' = links
            /\ UNCHANGED ueMgr

-----------------------------------------------------------------------------
(***************************************************************************)
(* RRC and NAS of the device.                                              *)
(***************************************************************************)

RecvDown(i, type) ==
  /\ Running
  /\ down[i] # << >> /\ Head(down[i]).type = type
  /\ down' = [down EXCEPT ![i] = Tail(@)]

\* Fault: takes the connection for the bearer.
SetupWithBearer(i) ==
  /\ RecvDown(i, "Setup")
  /\ nas' = [nas EXCEPT ![i] = "ACTIVE"]
  /\ drb' = drb \cup {i}
  /\ up' = [up EXCEPT ![i] = Append(@, Rrc("SetupCompleted"))]
  /\ UNCHANGED <<enbVars, buffer, app, s1apUp, coreVars, lost, fault>>

RecvRrcConnectionSetup(i) ==
  /\ RecvDown(i, "Setup")
  /\ nas' = [nas EXCEPT ![i] = "ACTIVE"]
  /\ up' = [up EXCEPT ![i] = Append(@, Rrc("SetupCompleted"))]
  /\ UNCHANGED <<enbVars, drb, buffer, app, s1apUp, coreVars, lost, fault>>

\* NotifyBearerSetup: what the NAS kept is sent, and stays in its list.
Kept(i) == IF i \in IABs THEN buffer[i] ELSE << >>

RecvRrcConnectionReconfiguration(i) ==
  /\ RecvDown(i, "Reconfiguration")
  /\ drb' = drb \cup {i}
  /\ up' = [up EXCEPT ![i] = (@ \o Kept(i)) \o <<Rrc("ReconfigurationCompleted")>>]
  /\ UNCHANGED <<enbVars, nas, buffer, app, s1apUp, coreVars, lost, fault>>

-----------------------------------------------------------------------------
(***************************************************************************)
(* S1-AP between the nodes of the tree.                                    *)
(***************************************************************************)

\* The header that node n passes on: an IAB node adds its IMSI.
AddParent(n, m) == IF n \in IABs THEN [m EXCEPT !.parents = @ \cup {n}] ELSE m

\* What RecvFromLteSocket makes of a packet from device c: is it IAB traffic?
\* The flag of a device without an entry is read behind the end of the map.
IabRelated(n, c) ==
  IF c \notin app[n].localImsi THEN {FALSE}
  ELSE IF app[n].imsiIab[c] = "unset" THEN BOOLEAN
  ELSE {app[n].imsiIab[c] = "iab"}

\* The parent of IAB node c relays an InitialUeMessage towards the MME.  Taken
\* for data, the message is lost; a donor drops what comes from an RNTI it does
\* not know, an IAB node stops the program.
RecvFromLteSocket(c) ==
  LET n == Parent[c]
      m == Head(up[c])
      links == [up EXCEPT ![c] = Tail(@)]
  IN  /\ Running
      /\ up[c] # << >> /\ m.type = "InitialUeMessage"
      /\ IF n \in IABs /\ c \notin app[n].localImsi
           THEN Stop("unknown_rnti")
           ELSE /\ \E related \in IabRelated(n, c) :
                     IF ~related
                       THEN /\ up' = links
                            /\ lost' = lost \cup {m.imsi}
                            /\ UNCHANGED <<app, s1apUp, buffer>>
                     ELSE IF n \in Donors
                       THEN /\ app' = [app EXCEPT ![n] = RelayInitialUeMessage(@, c, m)]
                            /\ up' = links
                            /\ s1apUp' = Append(s1apUp, AddParent(n, m))
                            /\ UNCHANGED <<buffer, lost>>
                       ELSE /\ app' = [app EXCEPT ![n] = RelayInitialUeMessage(@, c, m)]
                            /\ SendToBackhaul(n, AddParent(n, m), links)
                            /\ UNCHANGED s1apUp
                /\ UNCHANGED <<enbVars, ueVars, down, coreVars, fault>>

\* The cells from n to the donor, as the MME knows them (its while loop): the
\* smallest set that has n and the cell of each of its IAB nodes.
CellsUp(cells, n) ==
  {x \in Nodes \cup {None} :
     \A S \in SUBSET (Nodes \cup {None}) :
       (n \in S /\ \A c \in S \cap IABs : cells[c] \in S) => x \in S}

\* Fault: looks one cell up only.
OneCellUp(cells, n) == IF n \in IABs THEN cells[n] ELSE n

WiredCell(cells, n) == CHOOSE d \in CellsUp(cells, n) : d \notin IABs

\* MME and SGW: the tunnel of a new session leads to the wired donor, and the
\* answer goes there.
MmeInitialUeMessage ==
  LET i     == Head(s1apUp).imsi
      cells == [cellId EXCEPT ![i] = Parent[i]]
      wired == WiredCell(cells, Parent[i])
  IN  /\ Running
      /\ s1apUp # << >>
      /\ IF wired = None
           THEN Stop("unknown_cell")
           ELSE /\ s1apUp' = Tail(s1apUp)
                /\ cellId' = cells
                /\ enbAddr' = [enbAddr EXCEPT ![i] = wired]
                /\ s1apDown' = Append(s1apDown, [imsi |-> i, enb |-> wired])
                /\ UNCHANGED <<enbVars, ueVars, buffer, up, down, app, lost, fault>>

\* Node n receives the answer for device i, where links is what that leaves on
\* the radio links.  A node that relayed the request relays the answer, and
\* tells the scheduler how many IAB nodes are behind the bearer; the first hop
\* sets up the bearer.
RecvInitialContextSetupRequest(n, i, links) ==
  LET a    == app[n]
      rnti == a.imsiRnti[i]
      relayed == ForwardIabS1apReply(a, i)
  IN  IF rnti = None \/ (i \in a.requested /\ (a.localRbid[i] = None \/ rnti \notin a.heard))
        THEN /\ fault' = "unknown_imsi"
             /\ down' = links
             /\ UNCHANGED <<enbVars, app>>
      ELSE IF i \in a.requested
        THEN /\ app' = [app EXCEPT ![n] = relayed]
             /\ numIab' = [numIab EXCEPT ![rnti] = NumChildren(relayed, rnti)]
             /\ down' = [links EXCEPT ![a.localRbid[i]] =
                                        Append(@, InitialContextSetupRequest(i))]
             /\ UNCHANGED <<ueMgr, pending, bearer, fault>>
        ELSE /\ app' = [app EXCEPT ![n] = DoInitialContextSetupRequest(@, i)]
             /\ SetupDataRadioBearer(rnti, links)
             /\ UNCHANGED <<numIab, fault>>

DonorRecvS1ap ==
  LET m == Head(s1apDown)
  IN  /\ Running
      /\ s1apDown # << >>
      /\ RecvInitialContextSetupRequest(m.enb, m.imsi, down)
      /\ s1apDown' = Tail(s1apDown)
      /\ UNCHANGED <<ueVars, buffer, up, s1apUp, cellId, enbAddr, lost>>

\* What an IAB node receives from its parent with the type S1AP goes to its own
\* EpcS1apEnb: the answer for itself came to its parent.
IabRecvS1ap(c) ==
  LET m == Head(down[c])
  IN  /\ Running
      /\ down[c] # << >> /\ m.type = "InitialContextSetupRequest"
      /\ RecvInitialContextSetupRequest(c, m.imsi, [down EXCEPT ![c] = Tail(@)])
      /\ UNCHANGED <<ueVars, buffer, up, s1apUp, coreVars, lost>>

-----------------------------------------------------------------------------
Init ==
  /\ ueMgr = [i \in Devices |-> "INITIAL_RANDOM_ACCESS"]
  /\ pending = {} /\ bearer = {} /\ drb = {} /\ lost = {}
  /\ numIab = [c \in IABs |-> 0]
  /\ nas = [i \in Devices |-> "OFF"]
  /\ buffer = [c \in IABs |-> << >>]
  /\ up = [i \in Devices |-> << >>] /\ down = [i \in Devices |-> << >>]
  /\ app = [n \in Nodes |-> EmptyApp]
  /\ s1apUp = << >> /\ s1apDown = << >>
  /\ cellId = [i \in Devices |-> None]
  /\ enbAddr = [i \in Devices |-> None]
  /\ fault = "none"

RrcStep(i) ==
  \/ RecvRrcConnectionRequest(i)
  \/ RecvRrcConnectionSetup(i)
  \/ RecvRrcConnectionSetupCompleted(i)
  \/ RecvRrcConnectionReconfiguration(i)
  \/ RecvRrcConnectionReconfigurationCompleted(i)

RelayStep(c) == RecvFromLteSocket(c) \/ IabRecvS1ap(c)

Next ==
  \/ \E i \in Devices : RrcStep(i)
  \/ \E c \in IABs : RelayStep(c)
  \/ MmeInitialUeMessage
  \/ DonorRecvS1ap

Spec == Init /\ [][Next]_vars

\* Every device is told to connect at the start and its random access ends;
\* the radio links and the core lose nothing.
FairSpec ==
  /\ Spec
  /\ \A i \in Devices : WF_vars(RrcStep(i))
  /\ \A c \in IABs : WF_vars(RelayStep(c))
  /\ WF_vars(MmeInitialUeMessage) /\ WF_vars(DonorRecvS1ap)

-----------------------------------------------------------------------------
(***************************************************************************)
(* Properties.                                                             *)
(***************************************************************************)

\* Every variable has values the program can give it; in particular the MME
\* answers to wired donors only.
TypeOK ==
  /\ ueMgr \in [Devices -> UeStates]
  /\ pending \subseteq Devices /\ bearer \subseteq Devices
  /\ drb \subseteq Devices /\ lost \subseteq Devices
  /\ numIab \in [IABs -> Nat]
  /\ nas \in [Devices -> {"OFF", "ACTIVE"}]
  /\ buffer \in [IABs -> Seq(RelayMsgs)]
  /\ up \in [Devices -> Seq(UpMsgs)]
  /\ down \in [Devices -> Seq(DownMsgs)]
  /\ app \in [Nodes -> AppStates]
  /\ s1apUp \in Seq(RelayMsgs)
  /\ s1apDown \in Seq([imsi : Devices, enb : Donors])
  /\ cellId \in [Devices -> Nodes \cup {None}]
  /\ enbAddr \in [Devices -> Donors \cup {None}]
  /\ fault \in Faults

\* No assertion of the EPC applications or the MME fails ("Unknown IMSI/RNTI
\* association", "IMSI not found", "RNTI not found", "Unrecognized imsi", and the
\* MME's search for the donor), in whatever order devices connect.
NoProtocolAbort == fault = "none"

\* Whenever IAB traffic is on a backhaul link, RecvFromLteSocket at its parent
\* recognises it: the flag is there before the first packet.
UplinkClassified ==
  \A c \in IABs : \A k \in DOMAIN up[c] :
    up[c][k].type = "InitialUeMessage" => IabRelated(Parent[c], c) = {TRUE}

\* A TEID is installed from the donor down: a node that has it gets it from the
\* node that the SGW or its parent sends it to, which knows it as remote; and a
\* device with a bearer is at the end of such a path.
DownlinkPath ==
  \A i \in Devices :
    /\ \A n \in Nodes : app[n].teidRbid[i] # None =>
         IF n \in Donors THEN enbAddr[i] = n
         ELSE app[Parent[n]].teidRbid[i] = n /\ i \in app[Parent[n]].remote
    /\ i \in drb =>
         app[Parent[i]].teidRbid[i] = i /\ i \notin app[Parent[i]].remote

Quiet ==
  /\ s1apUp = << >> /\ s1apDown = << >>
  /\ \A i \in Devices : up[i] = << >> /\ down[i] = << >>

\* IAB nodes on the paths of the devices attached through c, c included.
RelaysBehind(c) ==
  {b \in IABs : c \in CellsUp(Parent, b) /\ \E i \in drb : Parent[i] = b}

\* Once nothing is in flight, the scheduler of the parent's cell has been told of
\* each relay behind an IAB node, at least of the node itself
\* (NotifyNumIabPerRnti, and the reconfiguration that sets it to one).
ChildrenCounted ==
  Quiet => \A c \in IABs \cap drb :
             numIab[c] = IF RelaysBehind(c) = {} THEN 1 ELSE Cardinality(RelaysBehind(c))

\* The attach procedure builds the tree of IabTree from the donors outwards.
Tree == INSTANCE IabTree WITH attached <- drb
BuildsTree == Tree!TreeSpec

\* A device is attached in the end, unless its InitialUeMessage, or that of a
\* relay before it, was lost for want of a bearer.
AttachedUnlessLost ==
  \A i \in Devices :
    <>(i \in drb \/ (({i} \cup CellsUp(Parent, Parent[i])) \cap lost # {}))

\* "the packet could be sent later!" (EpcIabApplication::SendToS1uSocket): what
\* the backhaul does not take now it sends once its bearer is there, so that
\* every device is attached in the end.
SentLater == \A i \in Devices : <>(i \in drb)
=============================================================================
