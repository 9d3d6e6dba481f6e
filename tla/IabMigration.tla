---------------------------- MODULE IabMigration ----------------------------
(***************************************************************************)
(* Inter-donor handover of an IAB-MT (the backhaul side of a relay) along  *)
(* a chain of satellite donors, and the migration of the UEs reached       *)
(* through it:                                                             *)
(*                                                                         *)
(*   - the scenario's trigger and its HandoverStart / EndOk / EndError     *)
(*     trace callbacks (scratch/ntn-iab-tcp-dash.cc);                      *)
(*   - the UE side and the eNB side of the RRC handover, with the X2 and   *)
(*     radio messages between them (lte-ue-rrc.cc, lte-enb-rrc.cc);        *)
(*   - the EpcEnbApplication of every donor: TEID, RNTI and IMSI maps,     *)
(*     and the export / import / release of descendants;                   *)
(*   - the MME and the SGW/PGW, reached over S1-AP.                        *)
(*                                                                         *)
(* Operators whose comment begins with "Fault:" are single mistakes in the *)
(* handler that follows; they take its place when the properties are       *)
(* tested, and Next never uses them.                                       *)
(*                                                                         *)
(* Every handler of the simulator is one action.  A handler that only      *)
(* sends leaves a message behind; the delay of that message is the         *)
(* interleaving.  All S1-AP links have the same constant delay, so the two *)
(* S1-AP directions are FIFO as a whole.                                   *)
(***************************************************************************)
EXTENDS Integers, Sequences, FiniteSets

CONSTANTS
  NumDonors,    \* donors of the constellation; handover k goes from k to k+1
  RntiOf,       \* RNTI that AddUe gives the IAB-MT at each donor
  Descendants,  \* IMSIs reached through the IAB-MT
  NestedIabs,   \* those of them that are IAB nodes themselves
  Flows,        \* TEIDs of the descendants' bearers, in the order of std::map
  Owner,        \* IMSI that owns each TEID
  MT,           \* IMSI of the IAB-MT
  MtFlow,       \* TEID of the IAB-MT's own bearer
  ExecDelay,    \* TRUE iff g_hoExecDelay > 0: the migration is deferred
  RaMayFail,    \* TRUE iff random access to the target may fail
  Spacing       \* how wide hoTime spaces the triggers.  "settled": the last
                \* handover has left nothing in flight; "any": not at all

Donors   == 1 .. NumDonors
Imsis    == Descendants \cup {MT}
AllFlows == Flows \cup {MtFlow}

ASSUME NumDonorsAssumption == NumDonors \in Nat /\ NumDonors >= 1
ASSUME RntiAssumption == RntiOf \in [Donors -> Nat \ {0}]
ASSUME ImsiAssumption ==
  MT \notin Descendants /\ NestedIabs \subseteq Descendants /\ IsFiniteSet(NestedIabs)
ASSUME FlowAssumption ==
  /\ Flows \subseteq Nat /\ IsFiniteSet(Flows) /\ Flows # {} /\ MtFlow \notin Flows
  /\ Owner \in [Flows -> Descendants]
ASSUME ModeAssumption ==
  ExecDelay \in BOOLEAN /\ RaMayFail \in BOOLEAN /\ Spacing \in {"settled", "any"}

VARIABLES
  mt,        \* the IAB-MT's backhaul RRC and its random access
  ueMgr,     \* the IAB-MT's UeManager at each donor
  queued,    \* m_queuedHandoverRequestCellId of that UeManager (0: none)
  postponed, \* donors where m_pendingRrcConnectionReconfiguration is set
  numIab,    \* nested-IAB children the scheduler of each donor was told of
  x2,        \* X2 messages in flight
  air,       \* RRC messages in flight between the IAB-MT and the donors
  app,       \* EpcEnbApplication of each donor
  sgw,       \* donor the SGW tunnels each IMSI's downlink to (m_enbAddr)
  s1apUp,    \* S1-AP messages to the MME
  s1apDown,  \* S1-AP messages from the MME
  ho,        \* the scenario's globals and its schedule of triggers
  deferred,  \* migrations put off by g_hoExecDelay, in schedule order
  uplink,    \* one uplink packet of a descendant, relayed by the IAB-MT
  fault      \* why the program stopped ("none": it runs)

rrcVars  == <<ueMgr, queued, postponed, numIab>>
netVars  == <<x2, air, s1apUp, s1apDown>>
scenVars == <<ho, deferred>>
vars == <<mt, rrcVars, netVars, app, sgw, scenVars, uplink, fault>>

UeStates == {"none", "CONNECTED_NORMALLY", "CONNECTION_RECONFIGURATION",
             "HANDOVER_PREPARATION", "HANDOVER_LEAVING", "HANDOVER_JOINING",
             "HANDOVER_PATH_SWITCH"}

Faults == {"none", "overlap_abort", "rrc_state", "unknown_imsi", "no_coordinator"}

X2Msgs  == [type : {"HO_REQ", "HO_ACK", "UE_CTX_RELEASE"}, src : Donors, tgt : Donors]

\* RrcConnectionReconfiguration with mobility control info ("HO_CMD") and
\* without ("RECONF", tgt = src), and RrcConnectionReconfigurationCompleted.
AirMsgs == [type : {"HO_CMD", "RECONF", "COMPLETE"}, src : Donors, tgt : Donors]

(***************************************************************************)
(* The state of one EpcEnbApplication, as a record of its maps.  RNTI 0    *)
(* stands for "no entry".  The IAB-MT has one backhaul bearer, so a radio  *)
(* bearer (RNTI, BID) is its RNTI.  m_teidRemoteImsiMap is Owner           *)
(* restricted to `remote': the two maps are written and erased together.   *)
(***************************************************************************)
AppStates ==
  [imsiRnti  : [Imsis -> Nat],                    \* m_imsiRntiMap
   localRnti : SUBSET Nat,                        \* m_rntiLocalImsiMap, to MT
   iabFlag   : [Imsis -> {"unset", "iab", "ue"}], \* m_imsiIabMap
   rbid      : [AllFlows -> Nat],                 \* m_teidRbidMap
   remote    : SUBSET Flows,                      \* m_teidRemoteMap
   localTeid : SUBSET AllFlows,                   \* m_rbidTeidMap of the MT
   migrated  : SUBSET Imsis]                      \* m_migratedDescendantImsi

KindOf(i) == IF i = MT \/ i \in NestedIabs THEN "iab" ELSE "ue"

EmptyApp ==
  [imsiRnti  |-> [i \in Imsis |-> 0],
   localRnti |-> {},
   iabFlag   |-> [i \in Imsis |-> "unset"],
   rbid      |-> [f \in AllFlows |-> 0],
   remote    |-> {},
   localTeid |-> {},
   migrated  |-> {}]

\* The first donor once the relay and all its descendants have attached.
AttachedApp(rnti) ==
  [EmptyApp EXCEPT !.imsiRnti  = [i \in Imsis |-> rnti],
                   !.localRnti = {rnti},
                   !.iabFlag   = [i \in Imsis |-> KindOf(i)],
                   !.rbid      = [f \in AllFlows |-> rnti],
                   !.remote    = Flows,
                   !.localTeid = {MtFlow}]

-----------------------------------------------------------------------------
(***************************************************************************)
(* EpcEnbApplication: each handler as a function of the maps.              *)
(***************************************************************************)

DoPathSwitchRequest(a, rnti) ==
  [a EXCEPT !.imsiRnti[MT] = rnti,
            !.localRnti    = @ \cup {rnti},
            !.localTeid    = @ \cup {MtFlow},
            !.rbid[MtFlow] = rnti]

DoUeContextRelease(a) ==
  [a EXCEPT !.rbid      = [f \in AllFlows |-> IF f \in a.localTeid THEN 0 ELSE @[f]],
            !.localTeid = {}]

\* Fault: looks for the descendants among the nested IAB nodes only.
ExportNestedIabsOnly(a, iabMtRnti) ==
  {f \in a.remote : a.rbid[f] = iabMtRnti /\ Owner[f] \in NestedIabs}

\* Relayed TEIDs whose bearer is the IAB-MT's.
ExportIabDescendants(a, iabMtRnti) == {f \in a.remote : a.rbid[f] = iabMtRnti}

ImsisOf(ctx) == {Owner[f] : f \in ctx}

\* Fault: the descendants' acknowledgements are not suppressed.
ImportWithoutSuppression(a, newRnti, ctx, nested) ==
  [a EXCEPT
     !.localRnti = @ \cup {newRnti},
     !.iabFlag   = [i \in Imsis |-> IF i \in ImsisOf(nested) \cup {MT} THEN "iab"
                                   ELSE IF i \in ImsisOf(ctx) THEN "ue" ELSE @[i]],
     !.imsiRnti  = [i \in Imsis |-> IF i \in ImsisOf(ctx) \cup {MT} THEN newRnti ELSE @[i]],
     !.rbid      = [f \in AllFlows |-> IF f \in ctx THEN newRnti ELSE @[f]],
     !.remote    = @ \cup ctx]

\* Fault: the IAB-MT itself is not classified at the target.
ImportWithoutMtFlag(a, newRnti, ctx, nested) ==
  [ImportWithoutSuppression(a, newRnti, ctx, nested) EXCEPT
     !.iabFlag  = [i \in Imsis |-> IF i = MT THEN a.iabFlag[MT] ELSE @[i]],
     !.migrated = @ \cup ImsisOf(ctx)]

\* `nested' are the flows of ctx whose isIab is set.
ImportIabDescendants(a, newRnti, ctx, nested) ==
  [a EXCEPT
     !.localRnti = @ \cup {newRnti},
     !.iabFlag   = [i \in Imsis |-> IF i \in ImsisOf(nested) \cup {MT} THEN "iab"
                                   ELSE IF i \in ImsisOf(ctx) THEN "ue" ELSE @[i]],
     !.imsiRnti  = [i \in Imsis |-> IF i \in ImsisOf(ctx) \cup {MT} THEN newRnti ELSE @[i]],
     !.rbid      = [f \in AllFlows |-> IF f \in ctx THEN newRnti ELSE @[f]],
     !.remote    = @ \cup ctx,
     !.migrated  = @ \cup ImsisOf(ctx)]

\* Fault: the bearers are erased, the relayed TEIDs stay.
ReleaseBearersOnly(a, ctx) ==
  [a EXCEPT
     !.rbid     = [f \in AllFlows |-> IF f \in ctx THEN 0 ELSE @[f]],
     !.imsiRnti = [i \in Imsis |-> IF i \in ImsisOf(ctx) THEN 0 ELSE @[i]]]

ReleaseIabDescendants(a, ctx) ==
  [a EXCEPT
     !.rbid     = [f \in AllFlows |-> IF f \in ctx THEN 0 ELSE @[f]],
     !.remote   = @ \ ctx,
     !.imsiRnti = [i \in Imsis |-> IF i \in ImsisOf(ctx) THEN 0 ELSE @[i]]]

S1apMsg(d, i) == [donor |-> d, imsi |-> i]

\* The vector that ExportIabDescendants fills, in the order of the TEIDs.
InTeidOrder(ctx) ==
  {order \in [1 .. Cardinality(ctx) -> ctx] :
     \A i, j \in 1 .. Cardinality(ctx) : i < j => order[i] < order[j]}

-----------------------------------------------------------------------------
(***************************************************************************)
(* Initial state: attached to the first donor, with every descendant.      *)
(***************************************************************************)
Init ==
  /\ mt = [state |-> "CONNECTED_NORMALLY", cell |-> 1, rnti |-> RntiOf[1], ra |-> "idle"]
  /\ ueMgr = [d \in Donors |-> IF d = 1 THEN "CONNECTED_NORMALLY" ELSE "none"]
  /\ queued = [d \in Donors |-> 0]
  /\ postponed = {}
  /\ numIab = [d \in Donors |-> IF d = 1 THEN Cardinality(NestedIabs) ELSE 0]
  /\ x2 = {} /\ air = {}
  /\ s1apUp = <<>> /\ s1apDown = <<>>
  /\ app = [d \in Donors |-> IF d = 1 THEN AttachedApp(RntiOf[1]) ELSE EmptyApp]
  /\ sgw = [i \in Imsis |-> 1]
  /\ ho = [next |-> 1, pending |-> FALSE, src |-> 1, tgt |-> 1, oldRnti |-> 0]
  /\ deferred = <<>>
  /\ uplink = [st |-> "idle", donor |-> 1, rnti |-> 0]
  /\ fault = "none"

Running == fault = "none"

\* NS_FATAL_ERROR, NS_ABORT, NS_ASSERT: the program stops here.
Abort(reason) ==
  /\ fault' = reason
  /\ UNCHANGED <<mt, rrcVars, netVars, app, sgw, scenVars, uplink>>

HasUeManager(d, rnti) == ueMgr[d] # "none" /\ rnti = RntiOf[d]

Settled ==
  /\ x2 = {} /\ air = {} /\ s1apUp = <<>> /\ s1apDown = <<>> /\ deferred = <<>>
  /\ mt.ra # "running"

-----------------------------------------------------------------------------
(***************************************************************************)
(* The scenario: trigger and trace callbacks.                              *)
(***************************************************************************)
\* Fault: the loop that schedules the triggers runs once too often.
DueOnceTooOften ==
  /\ ho.next <= NumDonors
  /\ Spacing = "settled" => Settled

Due ==
  /\ ho.next < NumDonors
  /\ Spacing = "settled" => Settled

Captured == [next |-> ho.next + 1, pending |-> TRUE,
             src |-> ho.next, tgt |-> ho.next + 1, oldRnti |-> mt.rnti]

\* UeManager::PrepareHandover in CONNECTED_NORMALLY.
StartHandover(d, cellId) ==
  /\ x2' = x2 \cup {[type |-> "HO_REQ", src |-> d, tgt |-> cellId]}
  /\ ueMgr' = [ueMgr EXCEPT ![d] = "HANDOVER_PREPARATION"]

\* States in which PrepareHandover queues the trigger for later.
Busy == {"CONNECTION_RECONFIGURATION", "HANDOVER_JOINING"}

PrepareHandover(d, cellId) ==
  \/ /\ ueMgr[d] = "CONNECTED_NORMALLY"
     /\ StartHandover(d, cellId)
     /\ UNCHANGED queued
  \/ /\ ueMgr[d] \in Busy
     /\ queued' = [queued EXCEPT ![d] = cellId]
     /\ UNCHANGED <<x2, ueMgr>>

CanPrepareHandover(d) == ueMgr[d] \in Busy \cup {"CONNECTED_NORMALLY"}

\* No UeManager at the source: the handover is reported and skipped.
SkipHandover ==
  /\ Running /\ Due
  /\ ~HasUeManager(ho.next, mt.rnti)
  /\ ho' = [ho EXCEPT !.next = @ + 1]
  /\ UNCHANGED <<mt, rrcVars, netVars, app, sgw, deferred, uplink, fault>>

TriggerIabBackhaulHandover ==
  /\ Running /\ Due
  /\ HasUeManager(ho.next, mt.rnti)
  /\ \/ /\ ho.pending
        /\ Abort("overlap_abort")
     \/ /\ ~ho.pending
        /\ ~CanPrepareHandover(ho.next)
        /\ Abort("rrc_state")
     \/ /\ ~ho.pending
        /\ ho' = Captured
        /\ PrepareHandover(ho.next, ho.next + 1)
        /\ UNCHANGED <<mt, postponed, numIab, air, s1apUp, s1apDown, app, sgw, deferred,
                       uplink, fault>>

\* m is the tuple that the handover left in the globals, with the new RNTI.
MigrateIabDescendants(m) ==
  LET ctx    == ExportIabDescendants(app[m.src], m.oldRnti)
      nested == {f \in ctx : app[m.src].iabFlag[Owner[f]] = "iab"}
  IN
  /\ app' = [app EXCEPT ![m.src] = ReleaseIabDescendants(@, ctx),
                        ![m.tgt] = ImportIabDescendants(@, m.newRnti, ctx, nested)]
  /\ \E order \in InTeidOrder(ctx) :
       s1apUp' = s1apUp \o [k \in DOMAIN order |-> S1apMsg(m.tgt, Owner[order[k]])]
  /\ numIab' = IF HasUeManager(m.tgt, m.newRnti)
                 THEN [numIab EXCEPT ![m.tgt] = Cardinality(nested)]
                 ELSE numIab

Migration == [src |-> ho.src, tgt |-> ho.tgt, oldRnti |-> ho.oldRnti, newRnti |-> mt.rnti]

IabHandoverEndOk ==
  /\ IF ExecDelay
     THEN deferred' = Append(deferred, Migration) /\ UNCHANGED <<app, s1apUp, numIab>>
     ELSE MigrateIabDescendants(Migration) /\ UNCHANGED deferred
  /\ ho' = [ho EXCEPT !.pending = FALSE]

\* Fault: the deferred event reads the globals when it runs.
DeferredMigrationFromGlobals ==
  /\ Running /\ deferred # <<>>
  /\ MigrateIabDescendants(Migration)
  /\ deferred' = Tail(deferred)
  /\ UNCHANGED <<mt, ueMgr, queued, postponed, x2, air, s1apDown, sgw, ho, uplink, fault>>

\* The event that IabHandoverEndOk scheduled g_hoExecDelay later.
DeferredMigration ==
  /\ Running /\ deferred # <<>>
  /\ MigrateIabDescendants(Head(deferred))
  /\ deferred' = Tail(deferred)
  /\ UNCHANGED <<mt, ueMgr, queued, postponed, x2, air, s1apDown, sgw, ho, uplink, fault>>

-----------------------------------------------------------------------------
(***************************************************************************)
(* RRC: the X2 handover procedure at the donors and at the IAB-MT.         *)
(***************************************************************************)

\* LteEnbRrc::DoRecvHandoverRequest at the target.  SetupDataRadioBearer asks
\* for a reconfiguration, which HANDOVER_JOINING postpones.
RecvHandoverRequest ==
  /\ Running
  /\ \E m \in x2 :
       /\ m.type = "HO_REQ"
       /\ ueMgr' = [ueMgr EXCEPT ![m.tgt] = "HANDOVER_JOINING"]
       /\ postponed' = postponed \cup {m.tgt}
       /\ x2' = (x2 \ {m}) \cup {[m EXCEPT !.type = "HO_ACK"]}
  /\ UNCHANGED <<mt, queued, numIab, air, s1apUp, s1apDown, app, sgw, scenVars, uplink, fault>>

\* UeManager::RecvHandoverRequestAck at the source.
RecvHandoverRequestAck ==
  /\ Running
  /\ \E m \in x2 :
       /\ m.type = "HO_ACK"
       /\ ueMgr' = [ueMgr EXCEPT ![m.src] = "HANDOVER_LEAVING"]
       /\ x2' = x2 \ {m}
       /\ air' = air \cup {[m EXCEPT !.type = "HO_CMD"]}
  /\ UNCHANGED <<mt, queued, postponed, numIab, s1apUp, s1apDown, app, sgw, scenVars, uplink, fault>>

\* The handover command at the IAB-MT, with IabHandoverStart, which retunes
\* its PHY to the target so that the random access it starts can complete.
RecvHandoverCommand ==
  /\ Running
  /\ \E m \in air :
       /\ m.type = "HO_CMD" /\ mt.state = "CONNECTED_NORMALLY"
       /\ mt' = [state |-> "CONNECTED_HANDOVER", cell |-> m.tgt,
                 rnti |-> RntiOf[m.tgt], ra |-> "running"]
       /\ air' = air \ {m}
  /\ UNCHANGED <<rrcVars, x2, s1apUp, s1apDown, app, sgw, scenVars, uplink, fault>>

\* A reconfiguration without mobility control info is applied and answered.
RecvRrcConnectionReconfiguration ==
  /\ Running
  /\ \E m \in air :
       /\ m.type = "RECONF" /\ mt.state = "CONNECTED_NORMALLY"
       /\ air' = (air \ {m}) \cup {[m EXCEPT !.type = "COMPLETE"]}
  /\ UNCHANGED <<mt, rrcVars, x2, s1apUp, s1apDown, app, sgw, scenVars, uplink, fault>>

RandomAccessSuccessful ==
  /\ Running
  /\ mt.ra = "running" /\ mt.state = "CONNECTED_HANDOVER"
  /\ air' = air \cup {[type |-> "COMPLETE", src |-> ho.src, tgt |-> mt.cell]}
  /\ mt' = [mt EXCEPT !.state = "CONNECTED_NORMALLY", !.ra = "idle"]
  /\ IabHandoverEndOk
  /\ UNCHANGED <<ueMgr, queued, postponed, x2, s1apDown, sgw, uplink, fault>>

\* Preambles exhausted: IabHandoverEndError only clears g_hoPending, and the
\* RRC stays in CONNECTED_HANDOVER.
RandomAccessFailed ==
  /\ Running /\ RaMayFail
  /\ mt.ra = "running" /\ mt.state = "CONNECTED_HANDOVER"
  /\ mt' = [mt EXCEPT !.ra = "failed"]
  /\ ho' = [ho EXCEPT !.pending = FALSE]
  /\ UNCHANGED <<rrcVars, netVars, app, sgw, deferred, uplink, fault>>

\* HANDOVER_JOINING ends: path switch of the IAB-MT's own bearer.
RecvHandoverCompleted ==
  /\ Running
  /\ \E m \in air :
       /\ m.type = "COMPLETE" /\ ueMgr[m.tgt] = "HANDOVER_JOINING"
       /\ air' = air \ {m}
       /\ ueMgr' = [ueMgr EXCEPT ![m.tgt] = "HANDOVER_PATH_SWITCH"]
       /\ app' = [app EXCEPT ![m.tgt] = DoPathSwitchRequest(@, RntiOf[m.tgt])]
       /\ s1apUp' = Append(s1apUp, S1apMsg(m.tgt, MT))
  /\ UNCHANGED <<mt, queued, postponed, numIab, x2, s1apDown, sgw, scenVars, uplink, fault>>

\* UeManager::SwitchToState (CONNECTED_NORMALLY) sends a reconfiguration that
\* was postponed.  `kept' is what else is in the air.
SwitchToConnectedNormally(d, kept) ==
  IF d \in postponed
  THEN /\ ueMgr' = [ueMgr EXCEPT ![d] = "CONNECTION_RECONFIGURATION"]
       /\ air' = kept \cup {[type |-> "RECONF", src |-> d, tgt |-> d]}
       /\ postponed' = postponed \ {d}
  ELSE /\ ueMgr' = [ueMgr EXCEPT ![d] = "CONNECTED_NORMALLY"]
       /\ air' = kept
       /\ UNCHANGED postponed

\* Fault: a trigger queued meanwhile is forgotten.
CompletedForgetsQueued ==
  /\ Running
  /\ \E m \in air :
       /\ m.type = "COMPLETE" /\ ueMgr[m.tgt] = "CONNECTION_RECONFIGURATION"
       /\ SwitchToConnectedNormally(m.tgt, air \ {m})
  /\ UNCHANGED <<mt, queued, numIab, x2, s1apUp, s1apDown, app, sgw, scenVars, uplink, fault>>

\* CONNECTION_RECONFIGURATION ends, and a queued trigger is executed (one
\* more reconfiguration postponed would leave it queued).
RecvRrcConnectionReconfigurationCompleted ==
  /\ Running
  /\ \E m \in air :
       /\ m.type = "COMPLETE" /\ ueMgr[m.tgt] = "CONNECTION_RECONFIGURATION"
       /\ IF queued[m.tgt] = 0 \/ m.tgt \in postponed
          THEN SwitchToConnectedNormally(m.tgt, air \ {m}) /\ UNCHANGED x2
          ELSE /\ StartHandover(m.tgt, queued[m.tgt])
               /\ air' = air \ {m}
               /\ UNCHANGED postponed
  /\ UNCHANGED <<mt, queued, numIab, s1apUp, s1apDown, app, sgw, scenVars, uplink, fault>>

\* RemoveUe at the source, with the S1 context release it calls.
RemoveUe(d) ==
  /\ ueMgr' = [ueMgr EXCEPT ![d] = "none"]
  /\ app' = [app EXCEPT ![d] = DoUeContextRelease(@)]

RecvUeContextRelease ==
  /\ Running
  /\ \E m \in x2 :
       /\ m.type = "UE_CTX_RELEASE" /\ ueMgr[m.src] = "HANDOVER_LEAVING"
       /\ x2' = x2 \ {m}
       /\ RemoveUe(m.src)
  /\ UNCHANGED <<mt, queued, postponed, numIab, air, s1apUp, s1apDown, sgw, scenVars, uplink, fault>>

\* The timers of a handover whose random access failed.
HandoverLeavingTimeout ==
  /\ Running /\ mt.ra = "failed"
  /\ \E d \in Donors : ueMgr[d] = "HANDOVER_LEAVING" /\ RemoveUe(d)
  /\ UNCHANGED <<mt, queued, postponed, numIab, netVars, sgw, scenVars, uplink, fault>>

\* A mmWave donor has no coordinator (m_lteCellId is 0), so the notification
\* that precedes the scheduled RemoveUe finds no X2 interface.
HandoverJoiningTimeout ==
  /\ Running /\ mt.ra = "failed"
  /\ \E d \in Donors : ueMgr[d] = "HANDOVER_JOINING"
  /\ Abort("no_coordinator")

-----------------------------------------------------------------------------
(***************************************************************************)
(* MME with SGW, and the acknowledgement at the donor.                     *)
(***************************************************************************)

\* Fault: requests overtake each other on the way to the MME.
MmePathSwitchReordered ==
  /\ Running /\ s1apUp # <<>>
  /\ LET last == s1apUp[Len(s1apUp)] IN
       /\ sgw' = [sgw EXCEPT ![last.imsi] = last.donor]
       /\ s1apDown' = Append(s1apDown, last)
  /\ s1apUp' = SubSeq(s1apUp, 1, Len(s1apUp) - 1)
  /\ UNCHANGED <<mt, rrcVars, x2, air, app, scenVars, uplink, fault>>

\* EpcMmeApplication::DoPathSwitchRequest, which re-points the SGW and
\* answers the donor it has just recorded, all in one event.
MmePathSwitchRequest ==
  /\ Running /\ s1apUp # <<>>
  /\ sgw' = [sgw EXCEPT ![Head(s1apUp).imsi] = Head(s1apUp).donor]
  /\ s1apDown' = Append(s1apDown, Head(s1apUp))
  /\ s1apUp' = Tail(s1apUp)
  /\ UNCHANGED <<mt, rrcVars, x2, air, app, scenVars, uplink, fault>>

\* UeManager::SendUeContextRelease.
SendUeContextRelease(d) ==
  /\ x2' = x2 \cup {[type |-> "UE_CTX_RELEASE", src |-> d - 1, tgt |-> d]}
  /\ SwitchToConnectedNormally(d, air)

DoPathSwitchRequestAcknowledge ==
  LET d    == Head(s1apDown).donor
      imsi == Head(s1apDown).imsi
      rnti == app[d].imsiRnti[imsi]
  IN
  /\ Running /\ s1apDown # <<>>
  /\ IF imsi \in app[d].migrated
     THEN s1apDown' = Tail(s1apDown) /\ UNCHANGED <<ueMgr, postponed, x2, air, fault>>
     ELSE IF rnti = 0
     THEN fault' = "unknown_imsi" /\ UNCHANGED <<ueMgr, postponed, x2, air, s1apDown>>
     ELSE IF ~HasUeManager(d, rnti)
     THEN s1apDown' = Tail(s1apDown) /\ UNCHANGED <<ueMgr, postponed, x2, air, fault>>
     ELSE IF ueMgr[d] # "HANDOVER_PATH_SWITCH"
     THEN fault' = "rrc_state" /\ UNCHANGED <<ueMgr, postponed, x2, air, s1apDown>>
     ELSE s1apDown' = Tail(s1apDown) /\ SendUeContextRelease(d) /\ UNCHANGED fault
  /\ UNCHANGED <<mt, queued, numIab, s1apUp, app, sgw, scenVars, uplink>>

-----------------------------------------------------------------------------
(***************************************************************************)
(* One uplink packet of a descendant, and its classification at the donor. *)
(***************************************************************************)
SendUplink ==
  /\ Running
  /\ mt.state = "CONNECTED_NORMALLY" /\ uplink.st # "air"
  /\ uplink' = [st |-> "air", donor |-> mt.cell, rnti |-> mt.rnti]
  /\ UNCHANGED <<mt, rrcVars, netVars, app, sgw, scenVars, fault>>

\* m_imsiIabMap.find(imsiLocal) is dereferenced unchecked: with no entry the
\* flag is whatever lies behind the map's header, and the relayed packet may
\* be sent as if it were the IAB-MT's own data ("garbled").
RelayVerdicts(a, rnti) ==
  IF rnti \notin a.localRnti THEN {"dropped"}
  ELSE IF a.iabFlag[MT] = "iab" THEN {"relayed"}
  ELSE IF a.iabFlag[MT] = "ue" THEN {"garbled"}
  ELSE {"relayed", "garbled"}

RecvFromLteSocket ==
  /\ Running /\ uplink.st = "air"
  /\ \E verdict \in IF HasUeManager(uplink.donor, uplink.rnti)
                     THEN RelayVerdicts(app[uplink.donor], uplink.rnti)
                     ELSE {"dropped"} :
       uplink' = [uplink EXCEPT !.st = verdict]
  /\ UNCHANGED <<mt, rrcVars, netVars, app, sgw, scenVars, fault>>

-----------------------------------------------------------------------------
Handlers ==
  \/ DeferredMigration
  \/ RecvHandoverRequest
  \/ RecvHandoverRequestAck
  \/ RecvHandoverCommand
  \/ RecvRrcConnectionReconfiguration
  \/ RandomAccessSuccessful
  \/ RecvHandoverCompleted
  \/ RecvRrcConnectionReconfigurationCompleted
  \/ RecvUeContextRelease
  \/ MmePathSwitchRequest
  \/ DoPathSwitchRequestAcknowledge

Environment ==
  \/ SkipHandover
  \/ TriggerIabBackhaulHandover
  \/ RandomAccessFailed
  \/ HandoverLeavingTimeout
  \/ HandoverJoiningTimeout
  \/ SendUplink
  \/ RecvFromLteSocket

Next == Handlers \/ Environment

Spec == Init /\ [][Next]_vars

\* Every event the simulator has scheduled, and every packet on a link that
\* loses nothing, is eventually processed.  Triggers, failures and traffic
\* are not promised.
FairSpec ==
  /\ Spec
  /\ WF_vars(DeferredMigration)
  /\ WF_vars(RecvHandoverRequest)
  /\ WF_vars(RecvHandoverRequestAck)
  /\ WF_vars(RecvHandoverCommand)
  /\ WF_vars(RecvRrcConnectionReconfiguration)
  /\ WF_vars(RandomAccessSuccessful)
  /\ WF_vars(RecvHandoverCompleted)
  /\ WF_vars(RecvRrcConnectionReconfigurationCompleted)
  /\ WF_vars(RecvUeContextRelease)
  /\ WF_vars(MmePathSwitchRequest)
  /\ WF_vars(DoPathSwitchRequestAcknowledge)

-----------------------------------------------------------------------------
(***************************************************************************)
(* Properties.                                                             *)
(***************************************************************************)
MtStates     == [state : {"CONNECTED_NORMALLY", "CONNECTED_HANDOVER"}, cell : Donors,
                 rnti : Nat \ {0}, ra : {"idle", "running", "failed"}]
HoStates     == [next : Donors, pending : BOOLEAN, src : Donors, tgt : Donors, oldRnti : Nat]
UplinkStates == [st : {"idle", "air", "relayed", "dropped", "garbled"},
                 donor : Donors, rnti : Nat]
Migrations   == [src : Donors, tgt : Donors, oldRnti : Nat, newRnti : Nat]
S1apMsgs     == [donor : Donors, imsi : Imsis]

\* Every variable keeps the shape the code gives it.
TypeOK ==
  /\ mt \in MtStates
  /\ ueMgr \in [Donors -> UeStates]
  /\ queued \in [Donors -> 0 .. NumDonors]
  /\ postponed \subseteq Donors
  /\ numIab \in [Donors -> Nat]
  /\ x2 \subseteq X2Msgs
  /\ air \subseteq AirMsgs
  /\ app \in [Donors -> AppStates]
  /\ sgw \in [Imsis -> Donors]
  /\ s1apUp \in Seq(S1apMsgs)
  /\ s1apDown \in Seq(S1apMsgs)
  /\ ho \in HoStates
  /\ deferred \in Seq(Migrations)
  /\ uplink \in UplinkStates
  /\ fault \in Faults

HasRelay(d, f) == f \in app[d].remote /\ app[d].rbid[f] = RntiOf[d]

\* Export, import and release, however triggers, path switches and deferred
\* migrations interleave, neither lose nor duplicate relay state: exactly one
\* donor relays the descendants, all of them, on the IAB-MT's bearer there,
\* and every other donor has forgotten them.
RelayExactlyOnce ==
  \E h \in Donors :
    \A f \in Flows :
      /\ HasRelay(h, f)
      /\ \A d \in Donors \ {h} : f \notin app[d].remote /\ app[d].rbid[f] = 0

\* The source's context of the IAB-MT is released only after the SGW has
\* re-pointed the IAB-MT's own bearer, whatever acknowledgements of its
\* descendants arrive before.
ReleaseAfterRepoint ==
  \A m \in x2 : m.type = "UE_CTX_RELEASE" => sgw[MT] >= m.tgt

\* With triggers spaced wider than a handover no assertion of the handlers
\* fails, even after a failed random access.
NoProtocolAbort == fault \notin {"overlap_abort", "rrc_state", "unknown_imsi"}

\* A relayed uplink packet is never sent as the IAB-MT's own data.
UplinkNotGarbled == uplink.st # "garbled"

\* A downlink packet of f follows the SGW's tunnel, the donor's bearer and
\* its UeManager, which while leaving forwards over X2 to the next donor.
Reachable(f) ==
  LET d == sgw[Owner[f]] IN
  /\ HasUeManager(d, app[d].rbid[f])
  /\ f \in app[d].remote
  /\ mt.state = "CONNECTED_NORMALLY"
  /\ IF ueMgr[d] = "HANDOVER_LEAVING"
     THEN mt.cell = d + 1
     ELSE mt.cell = d /\ mt.rnti = RntiOf[d]

\* Once nothing is in flight, a handover that did not fail has left one
\* UeManager, serving the IAB-MT, with every descendant reachable through it,
\* its uplink recognised, and the scheduler told of the nested IAB nodes.
SettledService ==
  Running /\ Settled /\ mt.ra = "idle" =>
    /\ \A d \in Donors : ueMgr[d] = IF d = mt.cell THEN "CONNECTED_NORMALLY" ELSE "none"
    /\ \A f \in Flows : Reachable(f)
    /\ RelayVerdicts(app[mt.cell], mt.rnti) = {"relayed"}
    /\ numIab[mt.cell] = Cardinality(NestedIabs)

\* Comment in RecvFromLteSocket: once the path switch is requested, traffic
\* relayed by the IAB-MT resumes.
ResumesAfterPathSwitch ==
  \A d \in Donors :
    app[d].rbid[MtFlow] # 0 /\ ueMgr[d] # "none"
      => RelayVerdicts(app[d], RntiOf[d]) = {"relayed"}

\* A trigger that finds the UeManager busy is queued; however that interleaves
\* with the completion at the IAB-MT, the path switch and the reconfiguration
\* after the release, it is executed, and g_hoPending does not stay true,
\* unless a handover fails or the program stops.
HandoverCompletes == ho.pending ~> ~ho.pending \/ mt.ra = "failed" \/ ~Running

\* Attribute text of HandoverJoiningTimeoutDuration: the UE context of a
\* handover that does not complete in time is destroyed (not the program).
JoiningTimeoutDestroysContext == fault # "no_coordinator"

\* No descendant is cut off for good by a chain of handovers, wherever the
\* deferred migrations fall, unless a handover fails or the program stops.
DownlinkRestored ==
  \A f \in Flows : []<>(Reachable(f) \/ mt.ra = "failed" \/ ~Running)

-----------------------------------------------------------------------------
(***************************************************************************)
(* Refinement of IabRelay.  A handover that has not ended left the         *)
(* previous donor of the chain.                                            *)
(***************************************************************************)
Serving == IF mt.state = "CONNECTED_NORMALLY" THEN mt.cell ELSE mt.cell - 1
Home    == CHOOSE h \in Donors : Flows \subseteq app[h].remote

Relay == INSTANCE IabRelay WITH serving <- Serving, home <- Home, tunnel <- sgw

\* Whatever the spacing of the triggers, the delay of the migration and the
\* fate of random access, relay state and tunnels follow the IAB-MT in order.
RelayRefined == Relay!RelaySpec
=============================================================================
