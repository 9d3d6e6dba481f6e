------------------------- MODULE IabMigrationProofs -------------------------
(***************************************************************************)
(* Theorems about IabMigration, for every chain of donors, every set of    *)
(* descendants and flows, every allocation of RNTIs, every delay of the    *)
(* migration and every spacing of the triggers.                            *)
(***************************************************************************)
EXTENDS IabMigration, FiniteSetTheorems, TLAPS

-----------------------------------------------------------------------------
(***************************************************************************)
(* The inductive invariant.                                                *)
(*                                                                         *)
(* The relay state is as many donors behind the IAB-MT as there are        *)
(* migrations still deferred; those migrations are the missing steps of    *)
(* the chain, in order.                                                    *)
(***************************************************************************)
Holder == Serving - Len(deferred)

RelayAt(h) ==
  \A f \in Flows :
    /\ HasRelay(h, f)
    /\ \A d \in Donors \ {h} : f \notin app[d].remote /\ app[d].rbid[f] = 0

\* The tuple of a handover from donor d to the next one.
Hop(d) == [src |-> d, tgt |-> d + 1, oldRnti |-> RntiOf[d], newRnti |-> RntiOf[d + 1]]

RelayHeld == Holder \in Donors /\ RelayAt(Holder)

DeferredChain ==
  /\ \A k \in 1 .. Len(deferred) : deferred[k] = Hop(Holder + k - 1)
  /\ ~ExecDelay => deferred = <<>>

\* An eNB context removed with its bearers takes none of the relayed ones.
LocalBearers == \A d \in Donors : app[d].localTeid \subseteq {MtFlow}

MtConsistent ==
  /\ mt.rnti = RntiOf[mt.cell]
  /\ mt.state = "CONNECTED_NORMALLY" => mt.ra = "idle"
  /\ mt.state = "CONNECTED_HANDOVER" => mt.cell > 1 /\ mt.ra # "idle"

\* What g_hoPending protects: the tuple in the globals is the handover's.
TupleOf(d) ==
  /\ ho.pending
  /\ ho.src = d /\ ho.tgt = d + 1 /\ ho.oldRnti = RntiOf[d]

\* The message m of a handover that has not reached the IAB-MT yet.
Underway(m) ==
  /\ mt.state = "CONNECTED_NORMALLY"
  /\ m.src = mt.cell /\ m.tgt = mt.cell + 1
  /\ TupleOf(m.src)

X2Consistent ==
  \A m \in x2 :
    /\ m.type = "HO_REQ" =>
         Underway(m) /\ ueMgr[m.src] = "HANDOVER_PREPARATION" /\ ueMgr[m.tgt] = "none"
    /\ m.type = "HO_ACK" =>
         Underway(m) /\ ueMgr[m.src] = "HANDOVER_PREPARATION"
                     /\ ueMgr[m.tgt] = "HANDOVER_JOINING"
    /\ m.type = "UE_CTX_RELEASE" => m.src < mt.cell

AirConsistent ==
  \A m \in air :
    /\ m.type = "HO_CMD" =>
         Underway(m) /\ ueMgr[m.src] = "HANDOVER_LEAVING"
                     /\ ueMgr[m.tgt] = "HANDOVER_JOINING"
    /\ m.type = "RECONF" =>
         /\ mt.state = "CONNECTED_NORMALLY"
         /\ m.tgt = mt.cell /\ m.src = m.tgt
         /\ ueMgr[m.tgt] = "CONNECTION_RECONFIGURATION"
         /\ \A n \in air : n = m
    /\ m.type = "COMPLETE" =>
         /\ mt.state = "CONNECTED_NORMALLY"
         /\ m.tgt = mt.cell
         /\ \/ m.src = mt.cell - 1 /\ ueMgr[m.tgt] = "HANDOVER_JOINING"
            \/ m.src = m.tgt /\ ueMgr[m.tgt] = "CONNECTION_RECONFIGURATION"

RandomAccessConsistent ==
  mt.ra = "running" => TupleOf(mt.cell - 1) /\ ueMgr[mt.cell] = "HANDOVER_JOINING"

ManagersConsistent ==
  \A d \in Donors :
    /\ ueMgr[d] \in {"CONNECTED_NORMALLY", "CONNECTION_RECONFIGURATION",
                    "HANDOVER_PREPARATION", "HANDOVER_PATH_SWITCH"}
         => d = mt.cell /\ mt.state = "CONNECTED_NORMALLY"
    /\ ueMgr[d] = "HANDOVER_PREPARATION" => TupleOf(d)
    /\ ueMgr[d] = "HANDOVER_LEAVING" /\ d = mt.cell => TupleOf(d)
    /\ ueMgr[d] = "HANDOVER_PATH_SWITCH" => d > 1
    /\ ueMgr[d] = "HANDOVER_LEAVING" => d <= mt.cell
    /\ ueMgr[d] = "HANDOVER_JOINING" =>
         /\ d > 1
         /\ \/ d = mt.cell
            \/ /\ d = mt.cell + 1
               /\ mt.state = "CONNECTED_NORMALLY"
               /\ ueMgr[mt.cell] \in {"HANDOVER_PREPARATION", "HANDOVER_LEAVING"}

\* A queued trigger belongs to the handover in the globals, and the context
\* that holds it does not become idle without executing it.
QueuedConsistent ==
  \A d \in Donors :
    /\ queued[d] # 0 => d <= mt.cell /\ ueMgr[d] # "CONNECTED_NORMALLY"
    /\ queued[d] # 0 /\ ueMgr[d] \in Busy \cup {"HANDOVER_PATH_SWITCH"}
         => d = mt.cell /\ queued[d] = d + 1 /\ TupleOf(d)
    /\ ueMgr[d] \in {"HANDOVER_JOINING", "HANDOVER_PATH_SWITCH"} => d \in postponed

HandoverInv ==
  /\ MtConsistent
  /\ X2Consistent
  /\ AirConsistent
  /\ RandomAccessConsistent
  /\ ManagersConsistent
  /\ QueuedConsistent

IInv ==
  /\ TypeOK
  /\ HandoverInv
  /\ LocalBearers
  /\ DeferredChain
  /\ RelayHeld

-----------------------------------------------------------------------------
(***************************************************************************)
(* The handlers of EpcEnbApplication keep the shape of its maps.           *)
(***************************************************************************)
\* DoPathSwitchRequest writes RNTIs and local bearers only where the maps have them.
LEMMA PathSwitchType ==
  ASSUME NEW a \in AppStates, NEW r \in Nat
  PROVE  DoPathSwitchRequest(a, r) \in AppStates
BY DEF DoPathSwitchRequest, AppStates, Imsis, AllFlows

\* DoUeContextRelease erases bearers.
LEMMA ContextReleaseType ==
  ASSUME NEW a \in AppStates
  PROVE  DoUeContextRelease(a) \in AppStates
BY DEF DoUeContextRelease, AppStates

\* ExportIabDescendants finds relayed TEIDs, and nothing else.
LEMMA ExportType ==
  ASSUME NEW a \in AppStates, NEW r \in Nat
  PROVE  ExportIabDescendants(a, r) \in SUBSET Flows
BY DEF ExportIabDescendants, AppStates

\* The IMSIs of an exported vector are those of known descendants.
LEMMA ImsisOfType ==
  ASSUME NEW ctx \in SUBSET Flows
  PROVE  ImsisOf(ctx) \subseteq Imsis
BY FlowAssumption DEF ImsisOf, Imsis

\* ImportIabDescendants keeps the shape of the target's maps.
LEMMA ImportType ==
  ASSUME NEW a \in AppStates, NEW r \in Nat,
         NEW ctx \in SUBSET Flows, NEW nested \in SUBSET Flows
  PROVE  ImportIabDescendants(a, r, ctx, nested) \in AppStates
<1>1. ImsisOf(ctx) \subseteq Imsis
  BY ImsisOfType
<1> QED
  BY <1>1 DEF ImportIabDescendants, AppStates, AllFlows

\* ReleaseIabDescendants keeps the shape of the source's maps.
LEMMA ReleaseType ==
  ASSUME NEW a \in AppStates, NEW ctx \in SUBSET Flows
  PROVE  ReleaseIabDescendants(a, ctx) \in AppStates
BY DEF ReleaseIabDescendants, AppStates, AllFlows

\* The maps after attachment have the shape of the type invariant.
LEMMA AttachedType ==
  /\ EmptyApp \in AppStates
  /\ \A r \in Nat : AttachedApp(r) \in AppStates
BY DEF EmptyApp, AttachedApp, AppStates, Imsis, AllFlows, KindOf

-----------------------------------------------------------------------------
(***************************************************************************)
(* One migration.                                                          *)
(***************************************************************************)
\* The number of nested IAB nodes told to the scheduler is a number.
LEMMA SubsetCardinality ==
  ASSUME NEW S \in SUBSET Flows
  PROVE  IsFiniteSet(S) /\ Cardinality(S) \in Nat
BY FlowAssumption, FS_Subset, FS_CardinalityType

\* Path switch messages of one import.
LEMMA PathSwitchMsgsType ==
  ASSUME NEW ctx \in SUBSET Flows, NEW order \in InTeidOrder(ctx), NEW d \in Donors
  PROVE  [k \in DOMAIN order |-> S1apMsg(d, Owner[order[k]])] \in Seq(S1apMsgs)
<1>1. Cardinality(ctx) \in Nat /\ order \in [1 .. Cardinality(ctx) -> ctx]
  BY SubsetCardinality DEF InTeidOrder
<1>2. \A k \in 1 .. Cardinality(ctx) : S1apMsg(d, Owner[order[k]]) \in S1apMsgs
  BY <1>1, FlowAssumption DEF S1apMsg, S1apMsgs, Imsis
<1> QED
  BY <1>1, <1>2

\* A whole MigrateIabDescendants keeps types: maps, messages to the MME, counts.
LEMMA MigrateType ==
  ASSUME TypeOK, NEW m \in Migrations, m.src # m.tgt, MigrateIabDescendants(m)
  PROVE  /\ app' \in [Donors -> AppStates]
         /\ numIab' \in [Donors -> Nat]
         /\ s1apUp' \in Seq(S1apMsgs)
<1> DEFINE ctx    == ExportIabDescendants(app[m.src], m.oldRnti)
           nested == {f \in ctx : app[m.src].iabFlag[Owner[f]] = "iab"}
<1>1. /\ m.src \in Donors /\ m.tgt \in Donors /\ m.oldRnti \in Nat /\ m.newRnti \in Nat
      /\ app[m.src] \in AppStates /\ app[m.tgt] \in AppStates
  BY DEF Migrations, TypeOK
<1>2. ctx \in SUBSET Flows
  BY <1>1, ExportType
<1>3. nested \in SUBSET Flows
  BY <1>2
<1>4. /\ ReleaseIabDescendants(app[m.src], ctx) \in AppStates
      /\ ImportIabDescendants(app[m.tgt], m.newRnti, ctx, nested) \in AppStates
  BY <1>1, <1>2, <1>3, ReleaseType, ImportType
<1>5. app' = [app EXCEPT ![m.src] = ReleaseIabDescendants(app[m.src], ctx),
                         ![m.tgt] = ImportIabDescendants(app[m.tgt], m.newRnti, ctx, nested)]
  BY DEF MigrateIabDescendants, TypeOK
<1>6. app' \in [Donors -> AppStates]
  BY <1>1, <1>4, <1>5 DEF TypeOK
<1>7. Cardinality(nested) \in Nat
  BY <1>3, SubsetCardinality
<1>8. numIab' \in [Donors -> Nat]
  BY <1>1, <1>7 DEF MigrateIabDescendants, TypeOK
<1>9. PICK order \in InTeidOrder(ctx) :
        s1apUp' = s1apUp \o [k \in DOMAIN order |-> S1apMsg(m.tgt, Owner[order[k]])]
  BY DEF MigrateIabDescendants
<1>10. \A msgs \in Seq(S1apMsgs) : s1apUp \o msgs \in Seq(S1apMsgs)
  BY DEF TypeOK
<1>11. [k \in DOMAIN order |-> S1apMsg(m.tgt, Owner[order[k]])] \in Seq(S1apMsgs)
  BY <1>1, <1>2, PathSwitchMsgsType
<1>12. s1apUp' \in Seq(S1apMsgs)
  BY <1>9, <1>10, <1>11
<1> QED
  BY <1>6, <1>8, <1>12

\* A migration moves all the relay state one donor on.
LEMMA MigrateRelay ==
  ASSUME TypeOK, LocalBearers, NEW d \in Donors, d + 1 \in Donors,
         RelayAt(d), MigrateIabDescendants(Hop(d))
  PROVE  RelayAt(d + 1)' /\ LocalBearers'
<1> DEFINE ctx    == ExportIabDescendants(app[d], RntiOf[d])
           nested == {f \in ctx : app[d].iabFlag[Owner[f]] = "iab"}
           source == ReleaseIabDescendants(app[d], ctx)
           target == ImportIabDescendants(app[d + 1], RntiOf[d + 1], ctx, nested)
<1>1. d # d + 1 /\ app \in [Donors -> AppStates]
  BY DEF Donors, TypeOK
<1>2. ctx = Flows
  BY <1>1 DEF AppStates, RelayAt, HasRelay, ExportIabDescendants
<1>3. app' = [app EXCEPT ![d] = source, ![d + 1] = target]
  BY <1>1 DEF MigrateIabDescendants, Hop
<1>4. /\ app'[d] = source /\ app'[d + 1] = target
      /\ \A e \in Donors \ {d, d + 1} : app'[e] = app[e]
  BY <1>1, <1>3
<1>5. \A f \in Flows : f \notin source.remote /\ source.rbid[f] = 0
  BY <1>1, <1>2 DEF ReleaseIabDescendants, AppStates, AllFlows
<1>6. \A f \in Flows : f \in target.remote /\ target.rbid[f] = RntiOf[d + 1]
  BY <1>1, <1>2 DEF ImportIabDescendants, AppStates, AllFlows
<1>7. /\ source.localTeid = app[d].localTeid
      /\ target.localTeid = app[d + 1].localTeid
  BY <1>1 DEF ImportIabDescendants, ReleaseIabDescendants, AppStates
<1>8. RelayAt(d + 1)'
  <2> SUFFICES ASSUME NEW f \in Flows
               PROVE  /\ f \in app'[d + 1].remote /\ app'[d + 1].rbid[f] = RntiOf[d + 1]
                      /\ \A e \in Donors \ {d + 1} :
                           f \notin app'[e].remote /\ app'[e].rbid[f] = 0
    BY DEF RelayAt, HasRelay
  <2> QED
    BY <1>4, <1>5, <1>6 DEF RelayAt
<1>9. LocalBearers'
  BY <1>4, <1>7 DEF LocalBearers
<1> QED
  BY <1>8, <1>9

\* Changes of one donor's maps that touch no relayed bearer.
LEMMA RelayKept ==
  ASSUME NEW h \in Donors, RelayAt(h),
         \A d \in Donors : app'[d].remote = app[d].remote
                           /\ \A f \in Flows : app'[d].rbid[f] = app[d].rbid[f]
  PROVE  RelayAt(h)'
BY DEF RelayAt, HasRelay

-----------------------------------------------------------------------------
(***************************************************************************)
(* Types.                                                                  *)
(***************************************************************************)
\* The head and the tail of a queue of S1-AP messages or of migrations.
LEMMA HeadTail ==
  ASSUME NEW S, NEW s \in Seq(S), s # <<>>
  PROVE  /\ Len(s) \in Nat \ {0}
         /\ Head(s) = s[1] /\ Head(s) \in S
         /\ Tail(s) \in Seq(S)
OBVIOUS

\* The attached relay satisfies the type invariant.
LEMMA InitType == Init => TypeOK
<1> SUFFICES ASSUME Init PROVE TypeOK
  OBVIOUS
<1>1. 1 \in Donors /\ RntiOf[1] \in Nat \ {0} /\ NumDonors \in Nat
  BY NumDonorsAssumption, RntiAssumption DEF Donors
<1>2. Cardinality(NestedIabs) \in Nat
  BY ImsiAssumption, FS_CardinalityType
<1>3. numIab \in [Donors -> Nat] /\ app \in [Donors -> AppStates]
  BY <1>1, <1>2, AttachedType DEF Init
<1>4. s1apUp \in Seq(S1apMsgs) /\ s1apDown \in Seq(S1apMsgs) /\ deferred \in Seq(Migrations)
  BY DEF Init
<1>5. /\ queued \in [Donors -> 0 .. NumDonors]
      /\ ueMgr \in [Donors -> UeStates]
      /\ postponed \subseteq Donors
      /\ sgw \in [Imsis -> Donors]
  BY <1>1 DEF Init, UeStates
<1>6. mt \in MtStates /\ ho \in HoStates /\ uplink \in UplinkStates
  BY <1>1 DEF Init, MtStates, HoStates, UplinkStates
<1>7. x2 \subseteq X2Msgs /\ air \subseteq AirMsgs /\ fault \in Faults
  BY DEF Init, Faults
<1> QED
  BY <1>3, <1>4, <1>5, <1>6, <1>7 DEF TypeOK

\* SwitchToState keeps the shape of what it writes.
LEMMA SwitchType ==
  ASSUME NEW d \in Donors, NEW kept \in SUBSET AirMsgs,
         ueMgr \in [Donors -> UeStates], postponed \in SUBSET Donors,
         SwitchToConnectedNormally(d, kept)
  PROVE  /\ ueMgr' \in [Donors -> UeStates]
         /\ air' \subseteq AirMsgs
         /\ postponed' \subseteq Donors
<1>1. [type |-> "RECONF", src |-> d, tgt |-> d] \in AirMsgs
  BY DEF AirMsgs
<1> QED
  BY <1>1 DEF SwitchToConnectedNormally, UeStates

\* Every handler preserves the type invariant.  The procedure's invariant is
\* needed where a handler adds one to a donor or looks up the donor before.
LEMMA TypeStep == TypeOK /\ HandoverInv /\ DeferredChain /\ RelayHeld /\ [Next]_vars => TypeOK'
<1> SUFFICES ASSUME TypeOK, HandoverInv, DeferredChain, RelayHeld, [Next]_vars
             PROVE  TypeOK'
  OBVIOUS
<1>1. CASE SkipHandover
  <2>1. ho \in HoStates /\ NumDonors \in Nat
    BY NumDonorsAssumption DEF TypeOK
  <2>2. ho' \in HoStates
    BY <1>1, <2>1 DEF SkipHandover, Due, HoStates, Donors
  <2> QED
    BY <1>1, <2>2 DEF SkipHandover, TypeOK, rrcVars, netVars
<1>2. CASE TriggerIabBackhaulHandover
  <2>1. ho \in HoStates /\ NumDonors \in Nat
    BY NumDonorsAssumption DEF TypeOK
  <2>2. ho.next \in Donors /\ ho.next + 1 \in Donors /\ ho.next + 1 \in 0 .. NumDonors
    BY <1>2, <2>1 DEF TriggerIabBackhaulHandover, Due, HoStates, Donors
  <2>3. CASE \E r \in {"overlap_abort", "rrc_state"} : Abort(r)
    <3>1. fault' \in Faults
      BY <2>3 DEF Abort, Faults
    <3> QED
      BY <2>3, <3>1 DEF Abort, TypeOK, rrcVars, netVars, scenVars
  <2>4. CASE /\ ho' = Captured
             /\ PrepareHandover(ho.next, ho.next + 1)
             /\ UNCHANGED <<mt, postponed, numIab, air, s1apUp, s1apDown, app, sgw, deferred,
                            uplink, fault>>
    <3>1. mt.rnti \in Nat
      BY DEF TypeOK, MtStates
    <3>2. ho' \in HoStates
      BY <2>2, <2>4, <3>1 DEF Captured, HoStates
    <3>3. [type |-> "HO_REQ", src |-> ho.next, tgt |-> ho.next + 1] \in X2Msgs
      BY <2>2 DEF X2Msgs
    <3>4. x2' \subseteq X2Msgs
      BY <2>4, <3>3 DEF PrepareHandover, StartHandover, TypeOK
    <3>5. ueMgr' \in [Donors -> UeStates]
      BY <2>4 DEF PrepareHandover, StartHandover, TypeOK, UeStates
    <3>6. queued' \in [Donors -> 0 .. NumDonors]
      BY <2>2, <2>4 DEF PrepareHandover, TypeOK
    <3> QED
      BY <2>4, <3>2, <3>4, <3>5, <3>6 DEF TypeOK
  <2> QED
    BY <1>2, <2>3, <2>4 DEF TriggerIabBackhaulHandover
<1>3. CASE DeferredMigration
  <2>1. deferred \in Seq(Migrations) /\ deferred # <<>>
    BY <1>3 DEF DeferredMigration, TypeOK
  <2>2. /\ Len(deferred) \in Nat \ {0} /\ Head(deferred) = deferred[1]
        /\ Head(deferred) \in Migrations /\ Tail(deferred) \in Seq(Migrations)
    BY <2>1, HeadTail
  <2>3. Head(deferred) = Hop(Holder)
    BY <2>2 DEF DeferredChain, RelayHeld, Donors
  <2>4. Head(deferred).src # Head(deferred).tgt
    BY <2>3 DEF Hop, RelayHeld, Donors
  <2>5. /\ app' \in [Donors -> AppStates]
        /\ numIab' \in [Donors -> Nat]
        /\ s1apUp' \in Seq(S1apMsgs)
    BY <1>3, <2>2, <2>4, MigrateType DEF DeferredMigration
  <2> QED
    BY <1>3, <2>2, <2>5 DEF DeferredMigration, TypeOK
<1>4. CASE RecvHandoverRequest
  <2> PICK m \in x2 : /\ ueMgr' = [ueMgr EXCEPT ![m.tgt] = "HANDOVER_JOINING"]
                      /\ x2' = (x2 \ {m}) \cup {[m EXCEPT !.type = "HO_ACK"]}
                      /\ postponed' = postponed \cup {m.tgt}
    BY <1>4 DEF RecvHandoverRequest
  <2>1. [m EXCEPT !.type = "HO_ACK"] \in X2Msgs /\ m.tgt \in Donors
    BY DEF TypeOK, X2Msgs
  <2>2. ueMgr' \in [Donors -> UeStates]
    BY DEF TypeOK, UeStates
  <2> QED
    BY <1>4, <2>1, <2>2 DEF RecvHandoverRequest, TypeOK, scenVars
<1>5. CASE RecvHandoverRequestAck
  <2> PICK m \in x2 : /\ ueMgr' = [ueMgr EXCEPT ![m.src] = "HANDOVER_LEAVING"]
                      /\ x2' = x2 \ {m}
                      /\ air' = air \cup {[m EXCEPT !.type = "HO_CMD"]}
    BY <1>5 DEF RecvHandoverRequestAck
  <2>1. [m EXCEPT !.type = "HO_CMD"] \in AirMsgs
    BY DEF TypeOK, X2Msgs, AirMsgs
  <2>2. ueMgr' \in [Donors -> UeStates]
    BY DEF TypeOK, UeStates
  <2> QED
    BY <1>5, <2>1, <2>2 DEF RecvHandoverRequestAck, TypeOK, scenVars
<1>6. CASE RecvHandoverCommand
  <2>1. mt' \in MtStates /\ air' \subseteq AirMsgs
    BY <1>6, RntiAssumption
    DEF RecvHandoverCommand, TypeOK, AirMsgs, MtStates
  <2> QED
    BY <1>6, <2>1 DEF RecvHandoverCommand, TypeOK, rrcVars, scenVars
<1>7. CASE RandomAccessSuccessful
  <2>1. Migration \in Migrations /\ Migration.src # Migration.tgt
    BY <1>7 DEF RandomAccessSuccessful, Migration, Migrations, TypeOK, HoStates, MtStates,
                HandoverInv, RandomAccessConsistent, TupleOf, Donors
  <2>2. ExecDelay => /\ deferred' = Append(deferred, Migration)
                     /\ UNCHANGED <<app, s1apUp, numIab>>
    BY <1>7 DEF RandomAccessSuccessful, IabHandoverEndOk
  <2>3. ~ExecDelay => MigrateIabDescendants(Migration) /\ deferred' = deferred
    BY <1>7 DEF RandomAccessSuccessful, IabHandoverEndOk
  <2>4. /\ app' \in [Donors -> AppStates]
        /\ numIab' \in [Donors -> Nat]
        /\ s1apUp' \in Seq(S1apMsgs)
        /\ deferred' \in Seq(Migrations)
    <3>1. CASE ExecDelay
      <4>1. deferred \in Seq(Migrations)
        BY DEF TypeOK
      <4>2. deferred' \in Seq(Migrations)
        BY <2>1, <2>2, <3>1, <4>1
      <4> QED
        BY <2>2, <3>1, <4>2 DEF TypeOK
    <3>2. CASE ~ExecDelay
      <4>1. /\ app' \in [Donors -> AppStates]
            /\ numIab' \in [Donors -> Nat]
            /\ s1apUp' \in Seq(S1apMsgs)
        BY <2>1, <2>3, <3>2, MigrateType
      <4> QED
        BY <2>3, <3>2, <4>1 DEF TypeOK
    <3> QED
      BY <3>1, <3>2
  <2>5. ho' \in HoStates /\ mt' \in MtStates
    BY <1>7 DEF RandomAccessSuccessful, IabHandoverEndOk, TypeOK, HoStates, MtStates
  <2>6. air' \subseteq AirMsgs
    BY <1>7 DEF RandomAccessSuccessful, TypeOK, HoStates, MtStates, AirMsgs
  <2> QED
    BY <1>7, <2>4, <2>5, <2>6 DEF RandomAccessSuccessful, TypeOK
<1>8. CASE RandomAccessFailed
  <2>1. ho' \in HoStates /\ mt' \in MtStates
    BY <1>8 DEF RandomAccessFailed, TypeOK, HoStates, MtStates
  <2> QED
    BY <1>8, <2>1 DEF RandomAccessFailed, TypeOK, rrcVars, netVars
<1>9. CASE RecvHandoverCompleted
  <2> PICK m \in air :
        /\ air' = air \ {m}
        /\ ueMgr' = [ueMgr EXCEPT ![m.tgt] = "HANDOVER_PATH_SWITCH"]
        /\ app' = [app EXCEPT ![m.tgt] = DoPathSwitchRequest(@, RntiOf[m.tgt])]
        /\ s1apUp' = Append(s1apUp, S1apMsg(m.tgt, MT))
    BY <1>9 DEF RecvHandoverCompleted
  <2>1. m.tgt \in Donors /\ RntiOf[m.tgt] \in Nat /\ app[m.tgt] \in AppStates
    BY RntiAssumption DEF TypeOK, AirMsgs
  <2>2. DoPathSwitchRequest(app[m.tgt], RntiOf[m.tgt]) \in AppStates
    BY <2>1, PathSwitchType
  <2>3. app' \in [Donors -> AppStates]
    BY <2>1, <2>2 DEF TypeOK
  <2>4. S1apMsg(m.tgt, MT) \in S1apMsgs
    BY <2>1 DEF S1apMsg, S1apMsgs, Imsis
  <2>5. s1apUp' \in Seq(S1apMsgs) /\ ueMgr' \in [Donors -> UeStates]
    BY <2>1, <2>4 DEF TypeOK, UeStates
  <2> QED
    BY <1>9, <2>3, <2>5 DEF RecvHandoverCompleted, TypeOK, scenVars
<1>10. CASE RecvUeContextRelease
  <2> PICK m \in x2 : x2' = x2 \ {m} /\ RemoveUe(m.src)
    BY <1>10 DEF RecvUeContextRelease
  <2>1. m.src \in Donors
    BY DEF TypeOK, X2Msgs
  <2>2. app' \in [Donors -> AppStates] /\ ueMgr' \in [Donors -> UeStates]
    BY <2>1, ContextReleaseType DEF RemoveUe, TypeOK, UeStates
  <2> QED
    BY <1>10, <2>2 DEF RecvUeContextRelease, TypeOK, scenVars
<1>11. CASE HandoverLeavingTimeout
  <2> PICK d \in Donors : RemoveUe(d)
    BY <1>11 DEF HandoverLeavingTimeout
  <2>1. app' \in [Donors -> AppStates] /\ ueMgr' \in [Donors -> UeStates]
    BY ContextReleaseType DEF RemoveUe, TypeOK, UeStates
  <2> QED
    BY <1>11, <2>1 DEF HandoverLeavingTimeout, TypeOK, netVars, scenVars
<1>12. CASE HandoverJoiningTimeout
  <2>1. fault' \in Faults
    BY <1>12 DEF HandoverJoiningTimeout, Abort, Faults
  <2> QED
    BY <1>12, <2>1 DEF HandoverJoiningTimeout, Abort, TypeOK, rrcVars, netVars, scenVars
<1>13. CASE MmePathSwitchRequest
  <2>1. s1apUp \in Seq(S1apMsgs) /\ s1apUp # <<>> /\ s1apDown \in Seq(S1apMsgs)
    BY <1>13 DEF MmePathSwitchRequest, TypeOK
  <2>2. Head(s1apUp) \in S1apMsgs /\ Tail(s1apUp) \in Seq(S1apMsgs)
    BY <2>1, HeadTail
  <2>3. sgw' \in [Imsis -> Donors]
    BY <1>13, <2>2 DEF MmePathSwitchRequest, TypeOK, S1apMsgs
  <2>4. s1apDown' \in Seq(S1apMsgs)
    BY <1>13, <2>1, <2>2 DEF MmePathSwitchRequest
  <2> QED
    BY <1>13, <2>2, <2>3, <2>4 DEF MmePathSwitchRequest, TypeOK, rrcVars, scenVars
<1>14. CASE DoPathSwitchRequestAcknowledge
  <2>1. s1apDown \in Seq(S1apMsgs) /\ s1apDown # <<>>
    BY <1>14 DEF DoPathSwitchRequestAcknowledge, TypeOK
  <2>2. Tail(s1apDown) \in Seq(S1apMsgs) /\ Head(s1apDown) \in S1apMsgs
    BY <2>1, HeadTail
  <2>3. Head(s1apDown).donor \in Donors
    BY <2>2 DEF S1apMsgs
  <2>4. \A d \in Donors : ueMgr[d] = "HANDOVER_PATH_SWITCH" => d - 1 \in Donors
    BY NumDonorsAssumption DEF HandoverInv, ManagersConsistent, Donors
  <2>5. s1apDown' \in Seq(S1apMsgs) /\ fault' \in Faults
    BY <1>14, <2>1, <2>2 DEF DoPathSwitchRequestAcknowledge, TypeOK, Faults
  <2>6. CASE UNCHANGED <<ueMgr, postponed, x2, air>>
    BY <1>14, <2>5, <2>6 DEF DoPathSwitchRequestAcknowledge, TypeOK, scenVars
  <2>7. CASE /\ SendUeContextRelease(Head(s1apDown).donor)
             /\ ueMgr[Head(s1apDown).donor] = "HANDOVER_PATH_SWITCH"
    <3>1. x2' \subseteq X2Msgs
      BY <2>3, <2>4, <2>7 DEF SendUeContextRelease, TypeOK, X2Msgs
    <3>2. SwitchToConnectedNormally(Head(s1apDown).donor, air)
      BY <2>7 DEF SendUeContextRelease
    <3>3. ueMgr' \in [Donors -> UeStates] /\ air' \subseteq AirMsgs /\ postponed' \subseteq Donors
      BY <2>3, <3>2, SwitchType DEF TypeOK
    <3> QED
      BY <1>14, <2>5, <3>1, <3>3 DEF DoPathSwitchRequestAcknowledge, TypeOK, scenVars
  <2> QED
    BY <1>14, <2>6, <2>7 DEF DoPathSwitchRequestAcknowledge
<1>15. CASE SendUplink
  <2>1. uplink' \in UplinkStates
    BY <1>15 DEF SendUplink, TypeOK, MtStates, UplinkStates
  <2> QED
    BY <1>15, <2>1 DEF SendUplink, TypeOK, rrcVars, netVars, scenVars
<1>16. CASE RecvFromLteSocket
  <2>1. uplink' \in UplinkStates
    BY <1>16 DEF RecvFromLteSocket, RelayVerdicts, TypeOK, UplinkStates
  <2> QED
    BY <1>16, <2>1 DEF RecvFromLteSocket, TypeOK, rrcVars, netVars, scenVars
<1>17. CASE UNCHANGED vars
  BY <1>17 DEF vars, TypeOK, rrcVars, netVars, scenVars
<1>18. CASE RecvRrcConnectionReconfiguration
  <2>1. air' \subseteq AirMsgs
    BY <1>18 DEF RecvRrcConnectionReconfiguration, TypeOK, AirMsgs
  <2> QED
    BY <1>18, <2>1 DEF RecvRrcConnectionReconfiguration, TypeOK, rrcVars, scenVars
<1>19. CASE RecvRrcConnectionReconfigurationCompleted
  <2> PICK m \in air :
        IF queued[m.tgt] = 0 \/ m.tgt \in postponed
        THEN SwitchToConnectedNormally(m.tgt, air \ {m}) /\ UNCHANGED x2
        ELSE /\ StartHandover(m.tgt, queued[m.tgt])
             /\ air' = air \ {m}
             /\ UNCHANGED postponed
    BY <1>19 DEF RecvRrcConnectionReconfigurationCompleted
  <2>1. m.tgt \in Donors /\ air \subseteq AirMsgs /\ queued[m.tgt] \in 0 .. NumDonors
    BY DEF TypeOK, AirMsgs
  <2>2. /\ ueMgr' \in [Donors -> UeStates] /\ x2' \subseteq X2Msgs
        /\ air' \subseteq AirMsgs /\ postponed' \subseteq Donors
    <3>1. CASE queued[m.tgt] = 0 \/ m.tgt \in postponed
      <4>1. SwitchToConnectedNormally(m.tgt, air \ {m}) /\ x2' = x2
        BY <3>1
      <4>2. air \ {m} \subseteq AirMsgs
        BY <2>1
      <4> QED
        BY <2>1, <4>1, <4>2, SwitchType DEF TypeOK
    <3>2. CASE ~(queued[m.tgt] = 0 \/ m.tgt \in postponed)
      <4>1. StartHandover(m.tgt, queued[m.tgt]) /\ air' = air \ {m} /\ postponed' = postponed
        BY <3>2
      <4>2. queued[m.tgt] \in Donors
        BY <2>1, <3>2, NumDonorsAssumption DEF Donors
      <4>3. [type |-> "HO_REQ", src |-> m.tgt, tgt |-> queued[m.tgt]] \in X2Msgs
        BY <2>1, <4>2 DEF X2Msgs
      <4> QED
        BY <2>1, <4>1, <4>3 DEF StartHandover, TypeOK, UeStates
    <3> QED
      BY <3>1, <3>2
  <2> QED
    BY <1>19, <2>2 DEF RecvRrcConnectionReconfigurationCompleted, TypeOK, scenVars
<1> QED
  BY <1>1, <1>2, <1>3, <1>4, <1>5, <1>6, <1>7, <1>8, <1>9, <1>10, <1>11, <1>12, <1>13,
     <1>14, <1>15, <1>16, <1>17, <1>18, <1>19 DEF Next, Handlers, Environment

-----------------------------------------------------------------------------
(***************************************************************************)
(* The handover procedure.                                                 *)
(***************************************************************************)
\* Two messages of one kind between the same donors are the same message.
LEMMA SameMessage ==
  /\ \A m, n \in X2Msgs : m.type = n.type /\ m.src = n.src /\ m.tgt = n.tgt => m = n
  /\ \A m, n \in AirMsgs : m.type = n.type /\ m.src = n.src /\ m.tgt = n.tgt => m = n
BY DEF X2Msgs, AirMsgs

\* No handover is under way at first.
LEMMA InitHandover == Init => HandoverInv
BY DEF Init, HandoverInv, MtConsistent, X2Consistent, AirConsistent,
       RandomAccessConsistent, ManagersConsistent, QueuedConsistent

\* Steps of which the procedure sees nothing.
LEMMA HandoverKept ==
  ASSUME HandoverInv, UNCHANGED <<mt, ueMgr, queued, postponed, x2, air>>,
         ho'.pending = ho.pending /\ ho'.src = ho.src
           /\ ho'.tgt = ho.tgt /\ ho'.oldRnti = ho.oldRnti
  PROVE  HandoverInv'
BY DEF HandoverInv, MtConsistent, X2Consistent, AirConsistent, RandomAccessConsistent,
       ManagersConsistent, QueuedConsistent, Underway, TupleOf

\* Triggers are queued only for the handover in the globals, and taken when
\* the reconfiguration after the release has been answered.
LEMMA QueuedStep == TypeOK /\ HandoverInv /\ [Next]_vars => QueuedConsistent'
<1> SUFFICES ASSUME TypeOK, HandoverInv, [Next]_vars
             PROVE  QueuedConsistent'
  OBVIOUS
<1> USE DEF HandoverInv
<1>0. \A d \in Donors : d \in Int /\ mt.cell \in Int
  BY DEF TypeOK, MtStates, Donors
<1>1. CASE SkipHandover
  BY <1>1, HandoverKept DEF SkipHandover, TypeOK, HoStates, rrcVars, netVars
<1>2. CASE TriggerIabBackhaulHandover
  <2>1. CASE \E r \in {"overlap_abort", "rrc_state"} : Abort(r)
    BY <2>1, HandoverKept DEF Abort, rrcVars, netVars, scenVars
  <2>2. CASE /\ ~ho.pending
             /\ ho' = Captured
             /\ PrepareHandover(ho.next, ho.next + 1)
             /\ UNCHANGED <<mt, postponed>>
    <3>1. /\ ho.next \in Donors
          /\ mt.rnti = RntiOf[ho.next]
      BY <1>2 DEF TriggerIabBackhaulHandover, HasUeManager, TypeOK, HoStates
    <3>2. \A d \in Donors : ~TupleOf(d)
      BY <2>2 DEF TupleOf
    <3> PICK h \in Donors : h = ho.next
      BY <3>1
    <3>3. TupleOf(h)'
      BY <2>2, <3>1 DEF TupleOf, Captured
    <3>4. \A d \in Donors : queued[d] # 0 => ueMgr[d] \notin Busy \cup {"HANDOVER_PATH_SWITCH"}
      BY <3>2 DEF QueuedConsistent
    <3>5. CASE ueMgr[h] = "CONNECTED_NORMALLY"
      <4>1. /\ ueMgr' = [ueMgr EXCEPT ![h] = "HANDOVER_PREPARATION"]
            /\ queued' = queued
        BY <2>2, <3>5 DEF PrepareHandover, StartHandover, Busy
      <4> QED
        BY <2>2, <3>1, <3>4, <4>1 DEF QueuedConsistent, TypeOK, Busy
    <3>6. CASE ueMgr[h] \in Busy
      <4>1. ueMgr' = ueMgr /\ queued' = [queued EXCEPT ![h] = h + 1]
        BY <2>2, <3>6 DEF PrepareHandover, Busy
      <4>2. h = mt.cell
        BY <3>1, <3>2, <3>6, <1>0 DEF ManagersConsistent, Busy, TypeOK, MtStates
      <4>3. \A d \in Donors : d # h => queued'[d] = queued[d]
        BY <3>1, <4>1 DEF TypeOK
      <4>4. queued'[h] = h + 1
        BY <3>1, <4>1 DEF TypeOK
      <4>5. ueMgr[h] # "CONNECTED_NORMALLY"
        BY <3>6 DEF Busy
      <4> QED
        BY <1>0, <2>2, <3>1, <3>3, <3>4, <4>1, <4>2, <4>3, <4>4, <4>5 DEF QueuedConsistent, TupleOf
    <3> QED
      BY <2>2, <3>5, <3>6 DEF PrepareHandover
  <2> QED
    BY <1>2, <2>1, <2>2 DEF TriggerIabBackhaulHandover
<1>3. CASE DeferredMigration
  BY <1>3, HandoverKept DEF DeferredMigration
<1>4. CASE RecvHandoverRequest
  <2> PICK m \in x2 : /\ m.type = "HO_REQ"
                      /\ ueMgr' = [ueMgr EXCEPT ![m.tgt] = "HANDOVER_JOINING"]
                      /\ postponed' = postponed \cup {m.tgt}
    BY <1>4 DEF RecvHandoverRequest
  <2>1. /\ m.tgt \in Donors /\ m.tgt = mt.cell + 1
        /\ UNCHANGED <<mt, ho, queued>>
    BY <1>4 DEF RecvHandoverRequest, X2Consistent, Underway, TypeOK, X2Msgs, scenVars
  <2>2. queued[m.tgt] = 0
    BY <1>0, <2>1 DEF QueuedConsistent
  <2> QED
    BY <2>1, <2>2 DEF QueuedConsistent, TupleOf, TypeOK, Busy
<1>5. CASE RecvHandoverRequestAck
  <2> PICK m \in x2 : ueMgr' = [ueMgr EXCEPT ![m.src] = "HANDOVER_LEAVING"]
    BY <1>5 DEF RecvHandoverRequestAck
  <2>1. UNCHANGED <<mt, ho, queued, postponed>>
    BY <1>5 DEF RecvHandoverRequestAck, scenVars
  <2> QED
    BY <2>1 DEF QueuedConsistent, TupleOf, TypeOK, Busy
<1>6. CASE RecvHandoverCommand
  <2> PICK m \in air :
        /\ m.type = "HO_CMD"
        /\ mt' = [state |-> "CONNECTED_HANDOVER", cell |-> m.tgt,
                  rnti |-> RntiOf[m.tgt], ra |-> "running"]
    BY <1>6 DEF RecvHandoverCommand
  <2>1. /\ mt'.cell = mt.cell + 1
        /\ m.src = mt.cell /\ TupleOf(mt.cell) /\ ueMgr[mt.cell] = "HANDOVER_LEAVING"
        /\ UNCHANGED <<ueMgr, queued, postponed, ho>>
    BY <1>6 DEF RecvHandoverCommand, AirConsistent, Underway, scenVars, rrcVars
  <2>2. \A d \in Donors : queued[d] # 0 => ueMgr[d] \notin Busy \cup {"HANDOVER_PATH_SWITCH"}
    BY <2>1 DEF QueuedConsistent, Busy
  <2> QED
    BY <1>0, <2>1, <2>2 DEF QueuedConsistent
<1>7. CASE RandomAccessSuccessful \/ RandomAccessFailed
  <2>1. /\ mt.ra = "running"
        /\ mt'.cell = mt.cell
        /\ UNCHANGED <<ueMgr, queued, postponed>>
    BY <1>7 DEF RandomAccessSuccessful, RandomAccessFailed, rrcVars, TypeOK, MtStates
  <2>2. TupleOf(mt.cell - 1)
    BY <2>1 DEF RandomAccessConsistent
  <2>3. \A d \in Donors : queued[d] # 0 => ueMgr[d] \notin Busy \cup {"HANDOVER_PATH_SWITCH"}
    BY <1>0, <2>2 DEF QueuedConsistent, TupleOf
  <2> QED
    BY <2>1, <2>3 DEF QueuedConsistent
<1>8. CASE RecvHandoverCompleted
  <2> PICK m \in air : /\ ueMgr[m.tgt] = "HANDOVER_JOINING"
                       /\ ueMgr' = [ueMgr EXCEPT ![m.tgt] = "HANDOVER_PATH_SWITCH"]
    BY <1>8 DEF RecvHandoverCompleted
  <2>1. UNCHANGED <<mt, ho, queued, postponed>> /\ m.tgt \in Donors
    BY <1>8 DEF RecvHandoverCompleted, scenVars, TypeOK, AirMsgs
  <2> QED
    BY <2>1 DEF QueuedConsistent, TupleOf, TypeOK, Busy
<1>9. ASSUME NEW d \in Donors, ueMgr' = [ueMgr EXCEPT ![d] = "none"],
             UNCHANGED <<mt, ho, queued, postponed>>
      PROVE  QueuedConsistent'
  BY <1>9 DEF QueuedConsistent, TupleOf, TypeOK, Busy
<1>10. CASE RecvUeContextRelease
  BY <1>9, <1>10 DEF RecvUeContextRelease, RemoveUe, TypeOK, X2Msgs, scenVars
<1>11. CASE HandoverLeavingTimeout
  BY <1>9, <1>11 DEF HandoverLeavingTimeout, RemoveUe, scenVars
<1>12. CASE HandoverJoiningTimeout
  BY <1>12, HandoverKept DEF HandoverJoiningTimeout, Abort, rrcVars, netVars, scenVars
<1>13. CASE MmePathSwitchRequest
  BY <1>13, HandoverKept DEF MmePathSwitchRequest, rrcVars, scenVars
<1>14. CASE DoPathSwitchRequestAcknowledge
  <2> DEFINE e == Head(s1apDown).donor
  <2>1. CASE UNCHANGED <<ueMgr, postponed, x2, air>>
    BY <1>14, <2>1, HandoverKept DEF DoPathSwitchRequestAcknowledge, scenVars
  <2>2. CASE SendUeContextRelease(e) /\ ueMgr[e] = "HANDOVER_PATH_SWITCH"
    <3>1. e \in Donors
      <4>1. s1apDown \in Seq(S1apMsgs) /\ s1apDown # <<>>
        BY <1>14 DEF DoPathSwitchRequestAcknowledge, TypeOK
      <4>2. Head(s1apDown) \in S1apMsgs
        BY <4>1, HeadTail
      <4> QED
        BY <4>2 DEF S1apMsgs
    <3> HIDE DEF e
    <3>2. UNCHANGED <<mt, ho, queued>>
      BY <1>14 DEF DoPathSwitchRequestAcknowledge, scenVars
    <3>3. e \in postponed
      BY <2>2, <3>1 DEF QueuedConsistent
    <3>4. /\ ueMgr' = [ueMgr EXCEPT ![e] = "CONNECTION_RECONFIGURATION"]
          /\ postponed' = postponed \ {e}
      BY <2>2, <3>3 DEF SendUeContextRelease, SwitchToConnectedNormally
    <3> QED
      BY <2>2, <3>1, <3>2, <3>4 DEF QueuedConsistent, TupleOf, TypeOK, Busy
  <2> QED
    BY <1>14, <2>1, <2>2 DEF DoPathSwitchRequestAcknowledge
<1>15. CASE SendUplink
  BY <1>15, HandoverKept DEF SendUplink, rrcVars, netVars, scenVars
<1>16. CASE RecvFromLteSocket
  BY <1>16, HandoverKept DEF RecvFromLteSocket, rrcVars, netVars, scenVars
<1>17. CASE UNCHANGED vars
  BY <1>17, HandoverKept DEF vars, rrcVars, netVars, scenVars
<1>18. CASE RecvRrcConnectionReconfiguration
  <2>1. UNCHANGED <<mt, ueMgr, queued, postponed, ho>>
    BY <1>18 DEF RecvRrcConnectionReconfiguration, rrcVars, scenVars
  <2> QED
    BY <2>1 DEF QueuedConsistent, TupleOf
<1>19. CASE RecvRrcConnectionReconfigurationCompleted
  <2> PICK m \in air :
        /\ ueMgr[m.tgt] = "CONNECTION_RECONFIGURATION"
        /\ IF queued[m.tgt] = 0 \/ m.tgt \in postponed
           THEN SwitchToConnectedNormally(m.tgt, air \ {m}) /\ UNCHANGED x2
           ELSE /\ StartHandover(m.tgt, queued[m.tgt])
                /\ air' = air \ {m}
                /\ UNCHANGED postponed
    BY <1>19 DEF RecvRrcConnectionReconfigurationCompleted
  <2>1. UNCHANGED <<mt, ho, queued>> /\ m.tgt \in Donors
    BY <1>19 DEF RecvRrcConnectionReconfigurationCompleted, scenVars, TypeOK, AirMsgs
  <2>2. CASE m.tgt \in postponed
    <3>1. /\ ueMgr' = [ueMgr EXCEPT ![m.tgt] = "CONNECTION_RECONFIGURATION"]
          /\ postponed' = postponed \ {m.tgt}
      BY <2>2 DEF SwitchToConnectedNormally
    <3> QED
      BY <2>1, <3>1 DEF QueuedConsistent, TupleOf, TypeOK, Busy
  <2>3. CASE m.tgt \notin postponed /\ queued[m.tgt] = 0
    <3>1. ueMgr' = [ueMgr EXCEPT ![m.tgt] = "CONNECTED_NORMALLY"] /\ postponed' = postponed
      BY <2>3 DEF SwitchToConnectedNormally
    <3> QED
      BY <2>1, <2>3, <3>1 DEF QueuedConsistent, TupleOf, TypeOK, Busy
  <2>4. CASE m.tgt \notin postponed /\ queued[m.tgt] # 0
    <3>1. ueMgr' = [ueMgr EXCEPT ![m.tgt] = "HANDOVER_PREPARATION"] /\ postponed' = postponed
      BY <2>4 DEF StartHandover
    <3> QED
      BY <2>1, <3>1 DEF QueuedConsistent, TupleOf, TypeOK, Busy
  <2> QED
    BY <2>2, <2>3, <2>4
<1> QED
  BY <1>1, <1>2, <1>3, <1>4, <1>5, <1>6, <1>7, <1>8, <1>10, <1>11, <1>12, <1>13,
     <1>14, <1>15, <1>16, <1>17, <1>18, <1>19 DEF Next, Handlers, Environment

\* The X2 handover keeps UE, donors, messages and the scenario's globals in
\* step, handler by handler; g_hoPending is what keeps a second one out.
LEMMA HandoverStep == TypeOK /\ HandoverInv /\ [Next]_vars => HandoverInv'
<1> SUFFICES ASSUME TypeOK, HandoverInv, [Next]_vars
             PROVE  (/\ MtConsistent
                     /\ X2Consistent
                     /\ AirConsistent
                     /\ RandomAccessConsistent
                     /\ ManagersConsistent)'
  BY QueuedStep DEF HandoverInv
<1> USE DEF HandoverInv
<1>1. CASE SkipHandover
  BY <1>1, HandoverKept DEF SkipHandover, TypeOK, HoStates, rrcVars, netVars
<1>2. CASE TriggerIabBackhaulHandover
  <2>1. CASE \E r \in {"overlap_abort", "rrc_state"} : Abort(r)
    BY <2>1, HandoverKept DEF Abort, rrcVars, netVars, scenVars
  <2>2. CASE /\ ~ho.pending
             /\ ho' = Captured
             /\ PrepareHandover(ho.next, ho.next + 1)
             /\ UNCHANGED <<mt, air>>
    <3>1. /\ ho.next \in Donors /\ ho.next + 1 \in Donors
          /\ mt.rnti = RntiOf[ho.next]
          /\ ho.next \in Int
      <4>1. ho.next \in Donors /\ ho.next < NumDonors /\ mt.rnti = RntiOf[ho.next]
        BY <1>2 DEF TriggerIabBackhaulHandover, Due, HasUeManager, TypeOK, HoStates
      <4> QED
        BY <4>1, NumDonorsAssumption DEF Donors
    <3>2. /\ ~\E m \in x2 : m.type \in {"HO_REQ", "HO_ACK"}
          /\ ~\E m \in air : m.type = "HO_CMD"
          /\ mt.ra # "running"
      BY <2>2 DEF X2Consistent, AirConsistent, RandomAccessConsistent, Underway, TupleOf
    <3>3. CASE ueMgr[ho.next] = "CONNECTED_NORMALLY"
      <4>1. /\ x2' = x2 \cup {[type |-> "HO_REQ", src |-> ho.next, tgt |-> ho.next + 1]}
            /\ ueMgr' = [ueMgr EXCEPT ![ho.next] = "HANDOVER_PREPARATION"]
        BY <2>2, <3>3 DEF PrepareHandover, StartHandover, Busy
      <4>2. mt.cell = ho.next /\ mt.state = "CONNECTED_NORMALLY"
        BY <3>1, <3>3 DEF ManagersConsistent
      <4>3. ueMgr[ho.next + 1] = "none"
        <5>1. ueMgr[ho.next + 1] \in UeStates
          BY <3>1 DEF TypeOK
        <5> QED
          BY <3>1, <3>3, <4>2, <5>1 DEF ManagersConsistent, UeStates
      <4>4. MtConsistent'
        BY <2>2 DEF MtConsistent
      <4>5. X2Consistent'
        BY <2>2, <3>1, <3>2, <4>1, <4>2, <4>3
        DEF X2Consistent, Underway, TupleOf, Captured, TypeOK, X2Msgs
      <4>6. AirConsistent'
        BY <2>2, <3>2, <3>3, <4>1, <4>2 DEF AirConsistent, TypeOK, AirMsgs
      <4>7. RandomAccessConsistent'
        BY <2>2, <3>2 DEF RandomAccessConsistent
      <4>8. ManagersConsistent'
        BY <2>2, <3>1, <3>3, <4>1, <4>2
        DEF ManagersConsistent, TupleOf, Captured, TypeOK, UeStates
      <4> QED
        BY <4>4, <4>5, <4>6, <4>7, <4>8
    <3>4. CASE ueMgr[ho.next] \in Busy
      <4>1. UNCHANGED <<x2, ueMgr>>
        BY <2>2, <3>4 DEF PrepareHandover, Busy
      <4> QED
        BY <2>2, <3>2, <4>1
        DEF MtConsistent, X2Consistent, AirConsistent, RandomAccessConsistent,
            ManagersConsistent, TupleOf, TypeOK, X2Msgs, AirMsgs
    <3> QED
      BY <2>2, <3>3, <3>4 DEF PrepareHandover
  <2> QED
    BY <1>2, <2>1, <2>2 DEF TriggerIabBackhaulHandover
<1>3. CASE DeferredMigration
  BY <1>3, HandoverKept DEF DeferredMigration
<1>4. CASE RecvHandoverRequest
  <2> PICK m \in x2 : /\ m.type = "HO_REQ"
                      /\ ueMgr' = [ueMgr EXCEPT ![m.tgt] = "HANDOVER_JOINING"]
                      /\ x2' = (x2 \ {m}) \cup {[m EXCEPT !.type = "HO_ACK"]}
    BY <1>4 DEF RecvHandoverRequest
  <2>1. /\ m.src \in Donors /\ m.tgt \in Donors
        /\ Underway(m) /\ ueMgr[m.src] = "HANDOVER_PREPARATION" /\ ueMgr[m.tgt] = "none"
        /\ UNCHANGED <<mt, ho, air>>
    BY <1>4 DEF RecvHandoverRequest, X2Consistent, TypeOK, X2Msgs, scenVars
  <2>2. \A n \in x2 : n.type = "HO_REQ" => n = m
    BY <2>1, SameMessage DEF X2Consistent, Underway, TypeOK
  <2>3. MtConsistent' /\ RandomAccessConsistent'
    BY <2>1 DEF MtConsistent, RandomAccessConsistent, Underway, TupleOf
  <2>4. X2Consistent'
    BY <2>1, <2>2 DEF X2Consistent, Underway, TupleOf, TypeOK, X2Msgs, Donors
  <2>5. AirConsistent'
    BY <2>1 DEF AirConsistent, Underway, TupleOf, TypeOK, AirMsgs, Donors
  <2>6. ManagersConsistent'
    BY <2>1 DEF ManagersConsistent, Underway, TupleOf, TypeOK, Donors, MtStates
  <2> QED
    BY <2>3, <2>4, <2>5, <2>6
<1>5. CASE RecvHandoverRequestAck
  <2> PICK m \in x2 : /\ m.type = "HO_ACK"
                      /\ ueMgr' = [ueMgr EXCEPT ![m.src] = "HANDOVER_LEAVING"]
                      /\ x2' = x2 \ {m}
                      /\ air' = air \cup {[m EXCEPT !.type = "HO_CMD"]}
    BY <1>5 DEF RecvHandoverRequestAck
  <2>1. /\ m.src \in Donors /\ m.tgt \in Donors
        /\ Underway(m) /\ ueMgr[m.src] = "HANDOVER_PREPARATION"
        /\ ueMgr[m.tgt] = "HANDOVER_JOINING"
        /\ UNCHANGED <<mt, ho>>
    BY <1>5 DEF RecvHandoverRequestAck, X2Consistent, TypeOK, X2Msgs, scenVars
  <2>2. \A n \in x2 : n.type = "HO_ACK" => n = m
    BY <2>1, SameMessage DEF X2Consistent, Underway, TypeOK
  <2>3. MtConsistent' /\ RandomAccessConsistent'
    BY <2>1 DEF MtConsistent, RandomAccessConsistent, Underway
  <2>4. X2Consistent'
    BY <2>1, <2>2 DEF X2Consistent, Underway, TupleOf, TypeOK, X2Msgs, Donors
  <2>5. AirConsistent'
    BY <2>1 DEF AirConsistent, Underway, TupleOf, TypeOK, X2Msgs, AirMsgs, Donors
  <2>6. ManagersConsistent'
    BY <2>1 DEF ManagersConsistent, Underway, TupleOf, TypeOK, Donors, MtStates
  <2> QED
    BY <2>3, <2>4, <2>5, <2>6
<1>6. CASE RecvHandoverCommand
  <2> PICK m \in air :
        /\ m.type = "HO_CMD"
        /\ mt' = [state |-> "CONNECTED_HANDOVER", cell |-> m.tgt,
                  rnti |-> RntiOf[m.tgt], ra |-> "running"]
        /\ air' = air \ {m}
    BY <1>6 DEF RecvHandoverCommand
  <2>1. /\ m.src \in Donors /\ m.tgt \in Donors
        /\ Underway(m) /\ ueMgr[m.src] = "HANDOVER_LEAVING"
        /\ ueMgr[m.tgt] = "HANDOVER_JOINING"
        /\ UNCHANGED <<x2, ueMgr, ho>>
    BY <1>6 DEF RecvHandoverCommand, AirConsistent, TypeOK, AirMsgs,
                scenVars, rrcVars
  <2>2. \A n \in air : n = m
    <3>1. \A n \in air : n.type = "HO_CMD"
      BY <2>1 DEF AirConsistent, Underway, TypeOK, AirMsgs
    <3> QED
      BY <2>1, <3>1, SameMessage DEF AirConsistent, Underway, TypeOK
  <2>3. \A n \in x2 : n.type = "UE_CTX_RELEASE"
    BY <2>1 DEF X2Consistent, Underway, TypeOK, X2Msgs
  <2>4. MtConsistent' /\ RandomAccessConsistent'
    BY <2>1 DEF MtConsistent, RandomAccessConsistent, Underway, TupleOf, Donors
  <2>5. X2Consistent'
    BY <2>1, <2>3 DEF X2Consistent, Underway, TypeOK, X2Msgs, Donors
  <2>6. AirConsistent'
    BY <2>2 DEF AirConsistent
  <2>7. ManagersConsistent'
    BY <2>1 DEF ManagersConsistent, Underway, TupleOf, TypeOK, Donors, MtStates
  <2> QED
    BY <2>4, <2>5, <2>6, <2>7
<1>7. CASE RandomAccessSuccessful
  <2>1. /\ mt.ra = "running" /\ mt.state = "CONNECTED_HANDOVER"
        /\ air' = air \cup {[type |-> "COMPLETE", src |-> ho.src, tgt |-> mt.cell]}
        /\ mt' = [mt EXCEPT !.state = "CONNECTED_NORMALLY", !.ra = "idle"]
        /\ UNCHANGED <<ueMgr, x2>>
    BY <1>7 DEF RandomAccessSuccessful
  <2>2. /\ mt'.state = "CONNECTED_NORMALLY" /\ mt'.ra = "idle"
        /\ mt'.cell = mt.cell /\ mt'.rnti = mt.rnti
        /\ mt.cell \in Donors
    BY <2>1 DEF TypeOK, MtStates
  <2>3. ho.src = mt.cell - 1 /\ ueMgr[mt.cell] = "HANDOVER_JOINING"
    BY <2>1 DEF RandomAccessConsistent, TupleOf
  <2>4. /\ \A n \in x2 : n.type = "UE_CTX_RELEASE"
        /\ air = {}
    BY <2>1 DEF X2Consistent, AirConsistent, Underway, TypeOK, X2Msgs, AirMsgs
  <2>5. MtConsistent' /\ RandomAccessConsistent'
    BY <2>2 DEF MtConsistent, RandomAccessConsistent
  <2>6. X2Consistent'
    BY <2>1, <2>2, <2>4 DEF X2Consistent
  <2>7. AirConsistent'
    BY <2>1, <2>2, <2>3, <2>4 DEF AirConsistent
  <2>8. ManagersConsistent'
    BY <2>1, <2>2, <2>3 DEF ManagersConsistent, TupleOf
  <2> QED
    BY <2>5, <2>6, <2>7, <2>8
<1>8. CASE RandomAccessFailed
  <2>1. /\ mt.state = "CONNECTED_HANDOVER"
        /\ mt' = [mt EXCEPT !.ra = "failed"]
        /\ UNCHANGED <<ueMgr, x2, air>>
    BY <1>8 DEF RandomAccessFailed, netVars, rrcVars
  <2>2. /\ mt'.state = mt.state /\ mt'.ra = "failed"
        /\ mt'.cell = mt.cell /\ mt'.rnti = mt.rnti
    BY <2>1 DEF TypeOK, MtStates
  <2>3. \A n \in x2 : n.type = "UE_CTX_RELEASE"
    BY <2>1 DEF X2Consistent, Underway, TypeOK, X2Msgs
  <2>4. air = {}
    BY <2>1 DEF AirConsistent, Underway, TypeOK, AirMsgs
  <2>5. ueMgr[mt.cell] = "HANDOVER_JOINING"
    BY <1>8 DEF RandomAccessFailed, RandomAccessConsistent
  <2>6. ManagersConsistent'
    BY <2>1, <2>2, <2>5 DEF ManagersConsistent
  <2> QED
    BY <2>1, <2>2, <2>3, <2>4, <2>6
    DEF MtConsistent, X2Consistent, AirConsistent, RandomAccessConsistent
<1>9. CASE RecvHandoverCompleted
  <2> PICK m \in air :
        /\ m.type = "COMPLETE"
        /\ air' = air \ {m}
        /\ ueMgr[m.tgt] = "HANDOVER_JOINING"
        /\ ueMgr' = [ueMgr EXCEPT ![m.tgt] = "HANDOVER_PATH_SWITCH"]
    BY <1>9 DEF RecvHandoverCompleted
  <2>1. /\ mt.state = "CONNECTED_NORMALLY"
        /\ m.tgt \in Donors /\ m.tgt = mt.cell
        /\ ueMgr[m.tgt] = "HANDOVER_JOINING"
        /\ UNCHANGED <<mt, x2, ho>>
    BY <1>9 DEF RecvHandoverCompleted, AirConsistent, TypeOK, AirMsgs,
                scenVars
  <2>2. \A n \in air : n = m
    <3>1. \A n \in air : n.type = "COMPLETE"
      BY <2>1 DEF AirConsistent, Underway, TypeOK, AirMsgs
    <3> QED
      BY <2>1, <3>1, SameMessage DEF AirConsistent, TypeOK
  <2>3. \A n \in x2 : n.type = "UE_CTX_RELEASE"
    BY <2>1 DEF X2Consistent, Underway, TypeOK, X2Msgs
  <2>4. MtConsistent' /\ RandomAccessConsistent'
    BY <2>1 DEF MtConsistent, RandomAccessConsistent
  <2>5. X2Consistent'
    BY <2>1, <2>3 DEF X2Consistent
  <2>6. AirConsistent'
    BY <2>2 DEF AirConsistent
  <2>7. ManagersConsistent'
    BY <2>1 DEF ManagersConsistent, TupleOf, TypeOK, Donors, MtStates
  <2> QED
    BY <2>4, <2>5, <2>6, <2>7
<1>10. CASE RecvUeContextRelease
  <2> PICK m \in x2 : /\ m.type = "UE_CTX_RELEASE"
                      /\ ueMgr[m.src] = "HANDOVER_LEAVING"
                      /\ x2' = x2 \ {m}
                      /\ ueMgr' = [ueMgr EXCEPT ![m.src] = "none"]
    BY <1>10 DEF RecvUeContextRelease, RemoveUe
  <2>1. /\ m.src \in Donors /\ m.src < mt.cell
        /\ mt.cell \in Donors
        /\ UNCHANGED <<mt, air, ho>>
    BY <1>10 DEF RecvUeContextRelease, X2Consistent, TypeOK, X2Msgs, MtStates, scenVars
  <2>2. MtConsistent' /\ RandomAccessConsistent'
    BY <2>1 DEF MtConsistent, RandomAccessConsistent, TupleOf, TypeOK, Donors
  <2>3. X2Consistent'
    BY <2>1 DEF X2Consistent, Underway, TupleOf, TypeOK, X2Msgs, Donors
  <2>4. AirConsistent'
    BY <2>1 DEF AirConsistent, Underway, TupleOf, TypeOK, AirMsgs, Donors
  <2>5. ManagersConsistent'
    BY <2>1 DEF ManagersConsistent, TupleOf, TypeOK, Donors
  <2> QED
    BY <2>2, <2>3, <2>4, <2>5
<1>11. CASE HandoverLeavingTimeout
  <2> PICK d \in Donors : /\ ueMgr[d] = "HANDOVER_LEAVING"
                          /\ ueMgr' = [ueMgr EXCEPT ![d] = "none"]
    BY <1>11 DEF HandoverLeavingTimeout, RemoveUe
  <2>1. /\ mt.ra = "failed"
        /\ UNCHANGED <<mt, x2, air, ho>>
    BY <1>11 DEF HandoverLeavingTimeout, netVars, scenVars
  <2>2. mt.state = "CONNECTED_HANDOVER"
    BY <2>1 DEF MtConsistent, TypeOK, MtStates
  <2>3. \A n \in x2 : n.type = "UE_CTX_RELEASE"
    BY <2>2 DEF X2Consistent, Underway, TypeOK, X2Msgs
  <2>4. air = {}
    BY <2>2 DEF AirConsistent, Underway, TypeOK, AirMsgs
  <2>5. ManagersConsistent'
    BY <2>1, <2>2 DEF ManagersConsistent, TupleOf, TypeOK
  <2> QED
    BY <2>1, <2>3, <2>4, <2>5
    DEF MtConsistent, X2Consistent, AirConsistent, RandomAccessConsistent
<1>12. CASE HandoverJoiningTimeout
  BY <1>12, HandoverKept DEF HandoverJoiningTimeout, Abort, rrcVars, netVars, scenVars
<1>13. CASE MmePathSwitchRequest
  BY <1>13, HandoverKept DEF MmePathSwitchRequest, rrcVars, scenVars
<1>14. CASE DoPathSwitchRequestAcknowledge
  <2> DEFINE d == Head(s1apDown).donor
  <2>1. CASE UNCHANGED <<ueMgr, postponed, x2, air>>
    BY <1>14, <2>1, HandoverKept DEF DoPathSwitchRequestAcknowledge, scenVars
  <2>2. CASE SendUeContextRelease(d) /\ ueMgr[d] = "HANDOVER_PATH_SWITCH"
    <3>1. d \in Donors
      <4>1. s1apDown \in Seq(S1apMsgs) /\ s1apDown # <<>>
        BY <1>14 DEF DoPathSwitchRequestAcknowledge, TypeOK
      <4>2. Head(s1apDown) \in S1apMsgs
        BY <4>1, HeadTail
      <4> QED
        BY <4>2 DEF S1apMsgs
    <3> HIDE DEF d
    <3>2. /\ ueMgr' = [ueMgr EXCEPT ![d] = "CONNECTION_RECONFIGURATION"]
          /\ x2' = x2 \cup {[type |-> "UE_CTX_RELEASE", src |-> d - 1, tgt |-> d]}
          /\ air' = air \cup {[type |-> "RECONF", src |-> d, tgt |-> d]}
          /\ UNCHANGED <<mt, ho>>
      <4>1. d \in postponed
        BY <2>2, <3>1 DEF QueuedConsistent
      <4> QED
        BY <1>14, <2>2, <4>1
        DEF DoPathSwitchRequestAcknowledge, SendUeContextRelease, SwitchToConnectedNormally,
            scenVars
    <3>3. d = mt.cell /\ mt.state = "CONNECTED_NORMALLY"
      BY <2>2, <3>1 DEF ManagersConsistent
    <3>4. \A n \in x2 : n.type = "UE_CTX_RELEASE"
      BY <2>2, <3>3 DEF X2Consistent, Underway, TypeOK, X2Msgs
    <3>5. air = {}
      BY <2>2, <3>3 DEF AirConsistent, Underway, TypeOK, AirMsgs
    <3>6. X2Consistent'
      BY <3>1, <3>2, <3>3, <3>4 DEF X2Consistent, Donors
    <3>7. ManagersConsistent'
      BY <2>2, <3>1, <3>2, <3>3 DEF ManagersConsistent, TupleOf, TypeOK, Donors
    <3>8. AirConsistent'
      BY <3>1, <3>2, <3>3, <3>5 DEF AirConsistent, TypeOK
    <3>9. MtConsistent' /\ RandomAccessConsistent'
      BY <2>2, <3>2, <3>3 DEF MtConsistent, RandomAccessConsistent
    <3> QED
      BY <3>6, <3>7, <3>8, <3>9
  <2> QED
    BY <1>14, <2>1, <2>2 DEF DoPathSwitchRequestAcknowledge
<1>15. CASE SendUplink
  BY <1>15, HandoverKept DEF SendUplink, rrcVars, netVars, scenVars
<1>16. CASE RecvFromLteSocket
  BY <1>16, HandoverKept DEF RecvFromLteSocket, rrcVars, netVars, scenVars
<1>17. CASE UNCHANGED vars
  BY <1>17, HandoverKept DEF vars, rrcVars, netVars, scenVars
<1>18. CASE RecvRrcConnectionReconfiguration
  <2> PICK m \in air : /\ m.type = "RECONF"
                       /\ air' = (air \ {m}) \cup {[m EXCEPT !.type = "COMPLETE"]}
    BY <1>18 DEF RecvRrcConnectionReconfiguration
  <2>1. /\ mt.state = "CONNECTED_NORMALLY"
        /\ m.tgt = mt.cell /\ m.src = m.tgt
        /\ ueMgr[m.tgt] = "CONNECTION_RECONFIGURATION"
        /\ \A n \in air : n = m
        /\ UNCHANGED <<mt, ueMgr, x2, ho>>
    BY <1>18 DEF RecvRrcConnectionReconfiguration, AirConsistent, TypeOK, AirMsgs, rrcVars,
                 scenVars
  <2>2. air' = {[m EXCEPT !.type = "COMPLETE"]} /\ m \in AirMsgs
    BY <2>1 DEF TypeOK
  <2>3. AirConsistent'
    BY <2>1, <2>2 DEF AirConsistent, AirMsgs
  <2> QED
    BY <2>1, <2>3
    DEF MtConsistent, X2Consistent, RandomAccessConsistent, ManagersConsistent, Underway, TupleOf
<1>19. CASE RecvRrcConnectionReconfigurationCompleted
  <2> PICK m \in air :
        /\ m.type = "COMPLETE" /\ ueMgr[m.tgt] = "CONNECTION_RECONFIGURATION"
        /\ IF queued[m.tgt] = 0 \/ m.tgt \in postponed
           THEN SwitchToConnectedNormally(m.tgt, air \ {m}) /\ UNCHANGED x2
           ELSE /\ StartHandover(m.tgt, queued[m.tgt])
                /\ air' = air \ {m}
                /\ UNCHANGED postponed
    BY <1>19 DEF RecvRrcConnectionReconfigurationCompleted
  <2>1. /\ mt.state = "CONNECTED_NORMALLY"
        /\ m.tgt \in Donors /\ m.tgt = mt.cell /\ m.src = m.tgt
        /\ m.tgt \in Int
    BY DEF AirConsistent, TypeOK, AirMsgs, Donors
  <2>2. \A n \in air : n = m
    <3>1. \A n \in air : n.type = "COMPLETE" /\ n.src = m.tgt /\ n.tgt = m.tgt
      BY <2>1 DEF AirConsistent, Underway, TypeOK, AirMsgs
    <3> QED
      BY <2>1, <3>1, SameMessage DEF TypeOK
  <2>3. \A n \in x2 : n.type = "UE_CTX_RELEASE"
    BY <2>1 DEF X2Consistent, Underway, TypeOK, X2Msgs
  <2>4. UNCHANGED <<mt, ho>> /\ air \ {m} = {}
    BY <1>19, <2>2 DEF RecvRrcConnectionReconfigurationCompleted, scenVars
  <2>5. MtConsistent' /\ RandomAccessConsistent'
    BY <2>1, <2>4 DEF MtConsistent, RandomAccessConsistent
  <2>6. CASE queued[m.tgt] = 0 \/ m.tgt \in postponed
    <3>1. SwitchToConnectedNormally(m.tgt, {}) /\ x2' = x2
      BY <2>4, <2>6
    <3>2. X2Consistent'
      BY <2>3, <2>4, <3>1 DEF X2Consistent
    <3>3. CASE m.tgt \in postponed
      <4>1. /\ ueMgr' = [ueMgr EXCEPT ![m.tgt] = "CONNECTION_RECONFIGURATION"]
            /\ air' = {[type |-> "RECONF", src |-> m.tgt, tgt |-> m.tgt]}
        BY <3>1, <3>3 DEF SwitchToConnectedNormally
      <4>2. ueMgr' = ueMgr
        BY <2>1, <4>1 DEF TypeOK
      <4>3. AirConsistent'
        BY <2>1, <2>4, <4>1, <4>2 DEF AirConsistent
      <4>4. ManagersConsistent'
        BY <2>4, <4>2 DEF ManagersConsistent, TupleOf
      <4> QED
        BY <2>5, <3>2, <4>3, <4>4
    <3>4. CASE m.tgt \notin postponed
      <4>1. ueMgr' = [ueMgr EXCEPT ![m.tgt] = "CONNECTED_NORMALLY"] /\ air' = {}
        BY <3>1, <3>4 DEF SwitchToConnectedNormally
      <4>2. AirConsistent'
        BY <4>1 DEF AirConsistent
      <4>3. ManagersConsistent'
        BY <2>1, <2>4, <4>1 DEF ManagersConsistent, TupleOf, TypeOK
      <4> QED
        BY <2>5, <3>2, <4>2, <4>3
    <3> QED
      BY <3>3, <3>4
  <2>7. CASE ~(queued[m.tgt] = 0 \/ m.tgt \in postponed)
    <3>1. /\ x2' = x2 \cup {[type |-> "HO_REQ", src |-> m.tgt, tgt |-> queued[m.tgt]]}
          /\ ueMgr' = [ueMgr EXCEPT ![m.tgt] = "HANDOVER_PREPARATION"]
          /\ air' = {}
      BY <2>4, <2>7 DEF StartHandover
    <3>2. queued[m.tgt] = m.tgt + 1 /\ TupleOf(m.tgt)
      BY <2>1, <2>7 DEF QueuedConsistent, Busy
    <3>3. m.tgt + 1 \in Donors
      <4>1. queued[m.tgt] \in 0 .. NumDonors
        BY <2>1 DEF TypeOK
      <4> QED
        BY <2>1, <3>2, <4>1, NumDonorsAssumption DEF Donors
    <3>4. ueMgr[m.tgt + 1] = "none"
      <4>1. ueMgr[m.tgt + 1] \in UeStates
        BY <3>3 DEF TypeOK
      <4> QED
        BY <2>1, <3>3, <4>1 DEF ManagersConsistent, UeStates
    <3>5. X2Consistent'
      BY <2>1, <2>3, <2>4, <3>1, <3>2, <3>3, <3>4
      DEF X2Consistent, Underway, TupleOf, TypeOK
    <3>6. AirConsistent'
      BY <3>1 DEF AirConsistent
    <3>7. ManagersConsistent'
      BY <2>1, <2>4, <3>1, <3>2 DEF ManagersConsistent, TupleOf, TypeOK
    <3> QED
      BY <2>5, <3>5, <3>6, <3>7
  <2> QED
    BY <2>6, <2>7
<1> QED
  BY <1>1, <1>2, <1>3, <1>4, <1>5, <1>6, <1>7, <1>8, <1>9, <1>10, <1>11, <1>12, <1>13,
     <1>14, <1>15, <1>16, <1>17, <1>18, <1>19 DEF Next, Handlers, Environment

-----------------------------------------------------------------------------
(***************************************************************************)
(* The relay state.                                                        *)
(***************************************************************************)
\* At first the relay state is at the first donor, on the IAB-MT's bearer.
LEMMA InitRelay == Init => LocalBearers /\ DeferredChain /\ RelayHeld
<1> SUFFICES ASSUME Init PROVE LocalBearers /\ DeferredChain /\ RelayHeld
  OBVIOUS
<1>1. 1 \in Donors
  BY NumDonorsAssumption DEF Donors
<1>2. Holder = 1 /\ deferred = <<>>
  BY DEF Init, Holder, Serving
<1>3. /\ app[1].remote = Flows /\ app[1].localTeid = {MtFlow}
      /\ \A f \in Flows : app[1].rbid[f] = RntiOf[1]
  BY <1>1 DEF Init, AttachedApp, EmptyApp, AllFlows
<1>4. \A d \in Donors \ {1} :
        /\ app[d].remote = {} /\ app[d].localTeid = {}
        /\ \A f \in Flows : app[d].rbid[f] = 0
  BY DEF Init, EmptyApp, AllFlows
<1> QED
  BY <1>1, <1>2, <1>3, <1>4 DEF LocalBearers, DeferredChain, RelayHeld, RelayAt, HasRelay

\* Steps that neither end a handover nor migrate.
LEMMA ChainKept ==
  ASSUME DeferredChain, RelayHeld, deferred' = deferred, Serving' = Serving,
         \A d \in Donors : app'[d].remote = app[d].remote
                           /\ \A f \in Flows : app'[d].rbid[f] = app[d].rbid[f]
  PROVE  DeferredChain' /\ RelayHeld'
<1>1. Holder' = Holder
  BY DEF Holder
<1>2. DeferredChain'
  BY <1>1 DEF DeferredChain
<1>3. RelayAt(Holder)'
  BY <1>1 DEF RelayHeld, RelayAt, HasRelay
<1> QED
  BY <1>1, <1>2, <1>3 DEF RelayHeld

\* Every handler keeps the relay state at the donor that the deferred
\* migrations lead away from; only a migration moves it, to the next donor.
LEMMA RelayStep == IInv /\ [Next]_vars => (LocalBearers /\ DeferredChain /\ RelayHeld)'
<1> SUFFICES ASSUME TypeOK, HandoverInv, LocalBearers, DeferredChain, RelayHeld, [Next]_vars
             PROVE  (LocalBearers /\ DeferredChain /\ RelayHeld)'
  BY DEF IInv
<1>1. ASSUME UNCHANGED <<mt, app, deferred>>
      PROVE  (LocalBearers /\ DeferredChain /\ RelayHeld)'
  BY <1>1, ChainKept DEF LocalBearers, Serving
<1>2. CASE DeferredMigration
  <2>1. deferred \in Seq(Migrations) /\ deferred # <<>> /\ deferred' = Tail(deferred)
    BY <1>2 DEF DeferredMigration, TypeOK
  <2>2. /\ Len(deferred) \in Nat \ {0} /\ Head(deferred) = deferred[1]
        /\ Len(deferred') = Len(deferred) - 1
        /\ \A k \in 1 .. Len(deferred') : deferred'[k] = deferred[k + 1]
    BY <2>1
  <2>3. Serving \in Donors /\ Holder \in Donors /\ Holder = Serving - Len(deferred)
    <3>1. mt.cell \in Donors
      BY DEF TypeOK, MtStates
    <3> QED
      BY <3>1, NumDonorsAssumption
      DEF Serving, Holder, RelayHeld, HandoverInv, MtConsistent, TypeOK, MtStates, Donors
  <2>4. Serving' = Serving
    BY <1>2 DEF DeferredMigration, Serving
  <2>5. Holder' = Holder + 1 /\ Holder + 1 \in Donors
    BY <2>2, <2>3, <2>4, NumDonorsAssumption DEF Holder, Donors
  <2>6. Head(deferred) = Hop(Holder)
    BY <2>2, <2>3 DEF DeferredChain, Donors
  <2> PICK h \in Donors : h = Holder
    BY <2>3
  <2>7. RelayAt(h + 1)' /\ LocalBearers'
    <3>1. RelayAt(h) /\ MigrateIabDescendants(Hop(h)) /\ h + 1 \in Donors
      BY <1>2, <2>5, <2>6 DEF DeferredMigration, RelayHeld
    <3> QED
      BY <3>1, MigrateRelay
  <2>8. DeferredChain'
    <3>1. ExecDelay
      BY <2>1 DEF DeferredChain
    <3>2. ASSUME NEW k \in 1 .. Len(deferred')
          PROVE  deferred'[k] = Hop(Holder' + k - 1)
      <4>1. deferred[k + 1] = Hop(Holder + (k + 1) - 1)
        BY <2>2 DEF DeferredChain
      <4>2. Holder + (k + 1) - 1 = Holder' + k - 1
        BY <2>2, <2>3, <2>5 DEF Donors
      <4> QED
        BY <2>2, <4>1, <4>2
    <3> QED
      BY <3>1, <3>2 DEF DeferredChain
  <2>9. RelayHeld'
    BY <2>5, <2>7 DEF RelayHeld, RelayAt, HasRelay
  <2> QED
    BY <2>7, <2>8, <2>9
<1>3. CASE RandomAccessSuccessful
  <2> PICK h \in Donors : h = Holder
    BY DEF RelayHeld
  <2>1. /\ mt.cell \in Donors /\ mt.cell - 1 \in Donors
        /\ mt.rnti = RntiOf[mt.cell]
        /\ ho.src = mt.cell - 1 /\ ho.tgt = mt.cell /\ ho.oldRnti = RntiOf[mt.cell - 1]
        /\ Serving = mt.cell - 1
    BY <1>3, NumDonorsAssumption
    DEF RandomAccessSuccessful, HandoverInv, MtConsistent, RandomAccessConsistent, TupleOf,
        Serving, TypeOK, MtStates, Donors
  <2>2. Serving' = Serving + 1
    BY <1>3, <2>1 DEF RandomAccessSuccessful, Serving, TypeOK, MtStates, Donors
  <2>3. Migration = Hop(Serving)
    BY <2>1 DEF Migration, Hop, Donors
  <2>4. deferred \in Seq(Migrations) /\ Len(deferred) \in Nat
    BY DEF TypeOK
  <2>5. CASE ExecDelay
    <3>1. deferred' = Append(deferred, Migration) /\ app' = app
      BY <1>3, <2>5 DEF RandomAccessSuccessful, IabHandoverEndOk
    <3>2. /\ Len(deferred') = Len(deferred) + 1
          /\ \A k \in 1 .. Len(deferred) : deferred'[k] = deferred[k]
          /\ deferred'[Len(deferred) + 1] = Migration
      BY <2>4, <3>1
    <3>3. Holder' = Holder /\ Serving = Holder + Len(deferred)
      BY <2>1, <2>2, <2>4, <3>2 DEF Holder, Donors
    <3>4. ASSUME NEW k \in 1 .. Len(deferred')
          PROVE  deferred'[k] = Hop(Holder + k - 1)
      <4>1. CASE k \in 1 .. Len(deferred)
        BY <3>2, <4>1 DEF DeferredChain
      <4>2. CASE k = Len(deferred) + 1
        <5>1. Holder + k - 1 = Serving
          BY <2>1, <2>4, <3>3, <4>2 DEF Donors
        <5> QED
          BY <2>3, <3>2, <4>2, <5>1
      <4> QED
        BY <2>4, <3>2, <4>1, <4>2
    <3>5. DeferredChain'
      BY <2>5, <3>3, <3>4 DEF DeferredChain
    <3>6. LocalBearers' /\ RelayHeld'
      BY <3>1, <3>3 DEF LocalBearers, RelayHeld, RelayAt, HasRelay
    <3> QED
      BY <3>5, <3>6
  <2>6. CASE ~ExecDelay
    <3>1. MigrateIabDescendants(Migration) /\ deferred' = deferred
      BY <1>3, <2>6 DEF RandomAccessSuccessful, IabHandoverEndOk
    <3>2. deferred = <<>> /\ h = Serving /\ Holder' = h + 1 /\ h + 1 \in Donors
      BY <2>1, <2>2, <2>6, <3>1 DEF DeferredChain, Holder, Donors
    <3>3. RelayAt(h + 1)' /\ LocalBearers'
      <4>1. RelayAt(h) /\ MigrateIabDescendants(Hop(h))
        BY <2>3, <3>1, <3>2 DEF RelayHeld
      <4> QED
        BY <3>2, <4>1, MigrateRelay
    <3>4. DeferredChain'
      BY <3>1, <3>2 DEF DeferredChain
    <3>5. RelayHeld'
      BY <3>2, <3>3 DEF RelayHeld, RelayAt, HasRelay
    <3> QED
      BY <3>3, <3>4, <3>5
  <2> QED
    BY <2>5, <2>6
<1>4. CASE RecvHandoverCommand
  <2>1. Serving' = Serving
    BY <1>4 DEF RecvHandoverCommand, HandoverInv, AirConsistent, Underway,
                Serving, TypeOK, AirMsgs, MtStates, Donors
  <2> QED
    BY <1>4, <2>1, ChainKept DEF RecvHandoverCommand, LocalBearers, scenVars
<1>5. CASE RandomAccessFailed
  <2>1. Serving' = Serving
    BY <1>5 DEF RandomAccessFailed, Serving, TypeOK, MtStates
  <2> QED
    BY <1>5, <2>1, ChainKept DEF RandomAccessFailed, LocalBearers
<1>6. CASE RecvHandoverCompleted
  <2> PICK e \in Donors :
        /\ app' = [app EXCEPT ![e] = DoPathSwitchRequest(@, RntiOf[e])]
        /\ UNCHANGED <<mt, deferred>>
    BY <1>6 DEF RecvHandoverCompleted, TypeOK, AirMsgs, scenVars
  <2>1. app \in [Donors -> AppStates] /\ MtFlow \notin Flows
    BY FlowAssumption DEF TypeOK
  <2>2. \A d \in Donors :
          /\ app'[d].remote = app[d].remote
          /\ \A f \in Flows : app'[d].rbid[f] = app[d].rbid[f]
          /\ app'[d].localTeid \subseteq app[d].localTeid \cup {MtFlow}
    BY <2>1 DEF DoPathSwitchRequest, AppStates, AllFlows
  <2> QED
    BY <2>2, ChainKept DEF LocalBearers, Serving
<1>7. ASSUME NEW e \in Donors, RemoveUe(e), UNCHANGED <<mt, deferred>>
      PROVE  (LocalBearers /\ DeferredChain /\ RelayHeld)'
  <2>1. app \in [Donors -> AppStates] /\ MtFlow \notin Flows
    BY FlowAssumption DEF TypeOK
  <2>2. app' = [app EXCEPT ![e] = DoUeContextRelease(@)]
    BY <1>7 DEF RemoveUe
  <2>3. \A d \in Donors :
          /\ app'[d].remote = app[d].remote
          /\ \A f \in Flows : app'[d].rbid[f] = app[d].rbid[f]
          /\ app'[d].localTeid \subseteq app[d].localTeid
    BY <2>1, <2>2 DEF LocalBearers, DoUeContextRelease, AppStates, AllFlows
  <2> QED
    BY <1>7, <2>3, ChainKept DEF LocalBearers, Serving
<1>8. CASE RecvUeContextRelease
  BY <1>7, <1>8 DEF RecvUeContextRelease, TypeOK, X2Msgs, scenVars
<1>9. CASE HandoverLeavingTimeout
  BY <1>7, <1>9 DEF HandoverLeavingTimeout, scenVars
<1>10. CASE \/ SkipHandover \/ RecvHandoverRequest \/ RecvHandoverRequestAck
            \/ HandoverJoiningTimeout \/ MmePathSwitchRequest
            \/ DoPathSwitchRequestAcknowledge \/ SendUplink \/ RecvFromLteSocket
            \/ RecvRrcConnectionReconfiguration
            \/ RecvRrcConnectionReconfigurationCompleted
            \/ UNCHANGED vars
  BY <1>1, <1>10
  DEF SkipHandover, RecvHandoverRequest, RecvHandoverRequestAck, HandoverJoiningTimeout, Abort,
      MmePathSwitchRequest, DoPathSwitchRequestAcknowledge, SendUplink, RecvFromLteSocket,
      RecvRrcConnectionReconfiguration, RecvRrcConnectionReconfigurationCompleted,
      vars, scenVars
<1>11. CASE TriggerIabBackhaulHandover
  BY <1>1, <1>11 DEF TriggerIabBackhaulHandover, Abort, scenVars
<1> QED
  BY <1>2, <1>3, <1>4, <1>5, <1>6, <1>8, <1>9, <1>10, <1>11 DEF Next, Handlers, Environment

-----------------------------------------------------------------------------
(***************************************************************************)
(* Queues of S1-AP messages.                                               *)
(***************************************************************************)
NoneFor(q, i) == \A k \in 1 .. Len(q) : q[k].imsi # i

OnlyOne(q, m) ==
  \E k \in 1 .. Len(q) : q[k] = m /\ \A j \in 1 .. Len(q) : q[j].imsi = m.imsi => j = k

\* What remains of a queue, and what joins it, element by element.
LEMMA TailParts ==
  ASSUME NEW S, NEW q \in Seq(S), q # <<>>
  PROVE  /\ Len(q) \in Nat \ {0} /\ Len(Tail(q)) = Len(q) - 1
         /\ Head(q) = q[1] /\ Head(q) \in S /\ Tail(q) \in Seq(S)
         /\ \A k \in 1 .. Len(Tail(q)) : Tail(q)[k] = q[k + 1] /\ k + 1 \in 2 .. Len(q)
         /\ \A k \in 2 .. Len(q) : Tail(q)[k - 1] = q[k] /\ k - 1 \in 1 .. Len(Tail(q))
OBVIOUS

LEMMA ConcatParts ==
  ASSUME NEW S, NEW q \in Seq(S), NEW r \in Seq(S)
  PROVE  /\ Len(q) \in Nat /\ Len(r) \in Nat /\ Len(q \o r) = Len(q) + Len(r)
         /\ q \o r \in Seq(S)
         /\ \A k \in 1 .. Len(q) : (q \o r)[k] = q[k]
         /\ \A k \in 1 .. Len(r) : (q \o r)[Len(q) + k] = r[k]
OBVIOUS

LEMMA AppendParts ==
  ASSUME NEW S, NEW q \in Seq(S), NEW m \in S
  PROVE  /\ Len(q) \in Nat /\ Len(Append(q, m)) = Len(q) + 1
         /\ Append(q, m) \in Seq(S)
         /\ \A k \in 1 .. Len(q) : Append(q, m)[k] = q[k]
         /\ Append(q, m)[Len(q) + 1] = m
OBVIOUS

\* Messages of a queue that gets longer by r are its own or those of r.
LEMMA FromConcat ==
  ASSUME NEW S, NEW q \in Seq(S), NEW r \in Seq(S), NEW k \in 1 .. Len(q \o r)
  PROVE  \/ k \in 1 .. Len(q) /\ (q \o r)[k] = q[k]
         \/ k - Len(q) \in 1 .. Len(r) /\ (q \o r)[k] = r[k - Len(q)]
OBVIOUS

LEMMA NoneTail ==
  ASSUME NEW q \in Seq(S1apMsgs), q # <<>>, NEW i, NoneFor(q, i)
  PROVE  NoneFor(Tail(q), i)
<1>1. \A k \in 1 .. Len(Tail(q)) : Tail(q)[k] = q[k + 1] /\ k + 1 \in 2 .. Len(q)
  BY TailParts
<1>2. \A k \in 2 .. Len(q) : k \in 1 .. Len(q)
  BY TailParts
<1> QED BY <1>1, <1>2 DEF NoneFor

LEMMA OnlyHead ==
  ASSUME NEW q \in Seq(S1apMsgs), q # <<>>, NEW m, OnlyOne(q, m), Head(q).imsi = m.imsi
  PROVE  Head(q) = m /\ NoneFor(Tail(q), m.imsi)
<1>1. PICK k \in 1 .. Len(q) : q[k] = m /\ \A j \in 1 .. Len(q) : q[j].imsi = m.imsi => j = k
  BY DEF OnlyOne
<1>2. /\ Len(q) \in Nat \ {0} /\ Head(q) = q[1]
      /\ \A j \in 1 .. Len(Tail(q)) : Tail(q)[j] = q[j + 1] /\ j + 1 \in 2 .. Len(q)
  BY TailParts
<1>3. k = 1
  BY <1>1, <1>2
<1>4. \A j \in 2 .. Len(q) : q[j].imsi # m.imsi
  BY <1>1, <1>2, <1>3
<1> QED BY <1>1, <1>2, <1>3, <1>4 DEF NoneFor

LEMMA OnlyTail ==
  ASSUME NEW q \in Seq(S1apMsgs), q # <<>>, NEW m, OnlyOne(q, m), Head(q).imsi # m.imsi
  PROVE  OnlyOne(Tail(q), m)
<1>1. PICK k \in 1 .. Len(q) : q[k] = m /\ \A j \in 1 .. Len(q) : q[j].imsi = m.imsi => j = k
  BY DEF OnlyOne
<1>2. /\ Len(q) \in Nat \ {0} /\ Head(q) = q[1]
      /\ \A j \in 1 .. Len(Tail(q)) : Tail(q)[j] = q[j + 1] /\ j + 1 \in 2 .. Len(q)
      /\ \A j \in 2 .. Len(q) : Tail(q)[j - 1] = q[j] /\ j - 1 \in 1 .. Len(Tail(q))
  BY TailParts
<1>3. k \in 2 .. Len(q)
  BY <1>1, <1>2
<1>4. k - 1 \in 1 .. Len(Tail(q)) /\ Tail(q)[k - 1] = m
  BY <1>1, <1>2, <1>3
<1>5. ASSUME NEW j \in 1 .. Len(Tail(q)), Tail(q)[j].imsi = m.imsi PROVE j = k - 1
  <2>1. q[j + 1].imsi = m.imsi /\ j + 1 \in 1 .. Len(q)
    BY <1>2, <1>5
  <2> QED BY <1>1, <2>1
<1> QED BY <1>4, <1>5 DEF OnlyOne

LEMMA NoneConcat ==
  ASSUME NEW q \in Seq(S1apMsgs), NEW r \in Seq(S1apMsgs), NEW i,
         NoneFor(q, i), NoneFor(r, i)
  PROVE  NoneFor(q \o r, i)
BY FromConcat DEF NoneFor

LEMMA OnlyConcat ==
  ASSUME NEW q \in Seq(S1apMsgs), NEW r \in Seq(S1apMsgs), NEW m,
         OnlyOne(q, m), NoneFor(r, m.imsi)
  PROVE  OnlyOne(q \o r, m)
<1>1. PICK k \in 1 .. Len(q) : q[k] = m /\ \A j \in 1 .. Len(q) : q[j].imsi = m.imsi => j = k
  BY DEF OnlyOne
<1>2. k \in 1 .. Len(q \o r) /\ (q \o r)[k] = m
  BY <1>1, ConcatParts
<1>3. \A j \in 1 .. Len(q \o r) : (q \o r)[j].imsi = m.imsi => j = k
  BY <1>1, FromConcat DEF NoneFor
<1> QED BY <1>2, <1>3 DEF OnlyOne

LEMMA NoneAppend ==
  ASSUME NEW q \in Seq(S1apMsgs), NEW m \in S1apMsgs, NEW i, NoneFor(q, i), m.imsi # i
  PROVE  NoneFor(Append(q, m), i)
<1>1. ASSUME NEW k \in 1 .. Len(Append(q, m)) PROVE Append(q, m)[k].imsi # i
  <2>1. k \in 1 .. Len(q) \/ k = Len(q) + 1
    BY AppendParts
  <2> QED BY <2>1, AppendParts DEF NoneFor
<1> QED BY <1>1 DEF NoneFor

LEMMA OnlyAppend ==
  ASSUME NEW q \in Seq(S1apMsgs), NEW m \in S1apMsgs, NoneFor(q, m.imsi)
  PROVE  OnlyOne(Append(q, m), m)
<1>1. /\ Len(q) + 1 \in 1 .. Len(Append(q, m)) /\ Append(q, m)[Len(q) + 1] = m
  BY AppendParts
<1>2. ASSUME NEW j \in 1 .. Len(Append(q, m)), Append(q, m)[j].imsi = m.imsi
      PROVE  j = Len(q) + 1
  <2>1. j \in 1 .. Len(q) \/ j = Len(q) + 1
    BY AppendParts
  <2> QED BY <1>2, <2>1, AppendParts DEF NoneFor
<1> QED BY <1>1, <1>2 DEF OnlyOne

LEMMA OnlyAppendOther ==
  ASSUME NEW q \in Seq(S1apMsgs), NEW m, NEW n \in S1apMsgs, OnlyOne(q, m), n.imsi # m.imsi
  PROVE  OnlyOne(Append(q, n), m)
<1>1. PICK k \in 1 .. Len(q) : q[k] = m /\ \A j \in 1 .. Len(q) : q[j].imsi = m.imsi => j = k
  BY DEF OnlyOne
<1>2. k \in 1 .. Len(Append(q, n)) /\ Append(q, n)[k] = m
  BY <1>1, AppendParts
<1>3. ASSUME NEW j \in 1 .. Len(Append(q, n)), Append(q, n)[j].imsi = m.imsi
      PROVE  j = k
  <2>1. j \in 1 .. Len(q) \/ j = Len(q) + 1
    BY AppendParts
  <2> QED BY <1>1, <1>3, <2>1, AppendParts
<1> QED BY <1>2, <1>3 DEF OnlyOne

-----------------------------------------------------------------------------
(***************************************************************************)
(* What a migration does.                                                  *)
(***************************************************************************)
NestedFlows == {f \in Flows : Owner[f] \in NestedIabs}

\* Every element of a finite set occurs in the order of its TEIDs.
LEMMA OrderComplete ==
  ASSUME NEW ctx \in SUBSET Flows, NEW order \in InTeidOrder(ctx), NEW f \in ctx
  PROVE  \E k \in 1 .. Cardinality(ctx) : order[k] = f
<1>1. IsFiniteSet(ctx) /\ ctx \subseteq Nat
  BY FlowAssumption, FS_Subset
<1>2. PICK n \in Nat : n = Cardinality(ctx)
  BY <1>1, FS_CardinalityType
<1>3. order \in [1 .. n -> ctx] /\ \A i, j \in 1 .. n : i < j => order[i] < order[j]
  BY <1>2 DEF InTeidOrder
<1>4. ASSUME NEW i \in 1 .. n, NEW j \in 1 .. n, i # j PROVE order[i] # order[j]
  <2>1. order[i] \in Nat /\ order[j] \in Nat
    BY <1>1, <1>3
  <2>2. i < j \/ j < i
    BY <1>4
  <2>3. order[i] < order[j] \/ order[j] < order[i]
    BY <1>3, <2>2
  <2> QED BY <2>1, <2>3
<1>5. order \in Injection(1 .. n, ctx)
  BY <1>3, <1>4 DEF Injection, IsInjective
<1>6. IsFiniteSet(1 .. n) /\ Cardinality(1 .. n) = n
  <2>1. PICK a \in Int : a = 1
    OBVIOUS
  <2>2. n \in Int
    BY <1>2
  <2>3. IsFiniteSet(a .. n) /\ Cardinality(a .. n) = IF a > n THEN 0 ELSE n - a + 1
    BY <2>1, <2>2, FS_Interval
  <2> QED BY <1>2, <2>1, <2>3
<1>7. order \in Surjection(1 .. n, ctx)
  BY <1>1, <1>2, <1>5, <1>6, FS_Injection
<1> QED BY <1>2, <1>7 DEF Surjection

\* The messages that a migration to donor d leaves behind: a request for every
\* flow, at the new donor, whose acknowledgement is suppressed there.
Requests(r, d) ==
  /\ r \in Seq(S1apMsgs)
  /\ \A k \in 1 .. Len(r) : r[k].donor = d /\ r[k].imsi \in ImsisOf(Flows)
  /\ \A f \in Flows : \E k \in 1 .. Len(r) : r[k] = S1apMsg(d, Owner[f])

\* A migration from donor d to the next one.
MigratedFrom(d) ==
  /\ d + 1 \in Donors
  /\ \E r : Requests(r, d + 1) /\ s1apUp' = s1apUp \o r
  /\ \A e \in Donors : app[e].migrated \subseteq app'[e].migrated
  /\ ImsisOf(Flows) \subseteq app'[d + 1].migrated
  /\ \A e \in Donors : app'[e].migrated \subseteq app[e].migrated \cup Descendants
  /\ \A e \in Donors : app'[e].imsiRnti[MT] \in {app[e].imsiRnti[MT], RntiOf[e]}
  /\ \A e \in Donors \ {d + 1} :
       app'[e].iabFlag = app[e].iabFlag /\ app'[e].localRnti = app[e].localRnti
  /\ app'[d + 1].iabFlag[MT] = "iab" /\ RntiOf[d + 1] \in app'[d + 1].localRnti
  /\ \A f \in Flows : app'[d + 1].iabFlag[Owner[f]] =
                        IF app[d].iabFlag[Owner[f]] = "iab" THEN "iab" ELSE "ue"
  /\ numIab' = IF ueMgr[d + 1] # "none"
                 THEN [numIab EXCEPT ![d + 1] =
                         Cardinality({f \in Flows : app[d].iabFlag[Owner[f]] = "iab"})]
                 ELSE numIab

LEMMA OwnerImsi ==
  /\ \A f \in Flows : Owner[f] \in Descendants /\ Owner[f] \in Imsis
  /\ ImsisOf(Flows) \subseteq Descendants
  /\ MT \notin Descendants /\ MT \in Imsis /\ Descendants \subseteq Imsis
BY FlowAssumption, ImsiAssumption DEF ImsisOf, Imsis

LEMMA MigrateEffects ==
  ASSUME TypeOK, NEW d \in Donors, d + 1 \in Donors, RelayAt(d),
         MigrateIabDescendants(Hop(d))
  PROVE  MigratedFrom(d)
<1> DEFINE ctx    == ExportIabDescendants(app[d], RntiOf[d])
           nested == {f \in ctx : app[d].iabFlag[Owner[f]] = "iab"}
           source == ReleaseIabDescendants(app[d], ctx)
           target == ImportIabDescendants(app[d + 1], RntiOf[d + 1], ctx, nested)
<1>1. d # d + 1 /\ app \in [Donors -> AppStates]
  BY DEF Donors, TypeOK
<1>2. ctx = Flows
  BY <1>1 DEF AppStates, RelayAt, HasRelay, ExportIabDescendants
<1>3. /\ app' = [app EXCEPT ![d] = source, ![d + 1] = target]
      /\ \E order \in InTeidOrder(ctx) :
           s1apUp' = s1apUp \o [k \in DOMAIN order |-> S1apMsg(d + 1, Owner[order[k]])]
      /\ numIab' = IF HasUeManager(d + 1, RntiOf[d + 1])
                     THEN [numIab EXCEPT ![d + 1] = Cardinality(nested)]
                     ELSE numIab
  BY <1>1 DEF MigrateIabDescendants, Hop
<1>4. /\ app'[d] = source /\ app'[d + 1] = target
      /\ \A e \in Donors \ {d, d + 1} : app'[e] = app[e]
  BY <1>1, <1>3
<1>5. /\ source.migrated = app[d].migrated /\ source.iabFlag = app[d].iabFlag
      /\ source.localRnti = app[d].localRnti /\ source.imsiRnti[MT] = app[d].imsiRnti[MT]
  <2>1. MT \notin ImsisOf(ctx)
    BY <1>2, OwnerImsi
  <2>2. app[d] \in AppStates
    BY <1>1
  <2> HIDE DEF ctx
  <2> QED BY <2>1, <2>2, OwnerImsi DEF ReleaseIabDescendants, AppStates
<1>6. /\ target.migrated = app[d + 1].migrated \cup ImsisOf(Flows)
      /\ target.localRnti = app[d + 1].localRnti \cup {RntiOf[d + 1]}
      /\ target.iabFlag = [i \in Imsis |-> IF i \in ImsisOf(nested) \cup {MT} THEN "iab"
                             ELSE IF i \in ImsisOf(Flows) THEN "ue" ELSE app[d + 1].iabFlag[i]]
      /\ target.imsiRnti[MT] = RntiOf[d + 1]
  <2>1. app[d + 1] \in AppStates
    BY <1>1
  <2>2. PICK nest : nest = nested
    OBVIOUS
  <2> HIDE DEF ctx, nested
  <2> QED BY <1>2, <2>1, <2>2, OwnerImsi DEF ImportIabDescendants, AppStates
<1>7. \E r : Requests(r, d + 1) /\ s1apUp' = s1apUp \o r
  <2>1. PICK order \in InTeidOrder(Flows) :
          s1apUp' = s1apUp \o [k \in DOMAIN order |-> S1apMsg(d + 1, Owner[order[k]])]
    BY <1>2, <1>3
  <2>2. PICK n \in Nat : n = Cardinality(Flows)
    BY FlowAssumption, FS_CardinalityType
  <2>3. order \in [1 .. n -> Flows]
    BY <2>2 DEF InTeidOrder
  <2>4. PICK r : r = [k \in 1 .. n |-> S1apMsg(d + 1, Owner[order[k]])]
    OBVIOUS
  <2>5. s1apUp' = s1apUp \o r
    BY <2>1, <2>3, <2>4
  <2>6. \A k \in 1 .. n : S1apMsg(d + 1, Owner[order[k]]) \in S1apMsgs
    BY <2>3, OwnerImsi DEF S1apMsg, S1apMsgs
  <2>7. r \in [1 .. n -> S1apMsgs]
    BY <2>4, <2>6
  <2>8. r \in Seq(S1apMsgs) /\ Len(r) = n
    BY <2>7
  <2>9. \A k \in 1 .. n : r[k].donor = d + 1 /\ r[k].imsi \in ImsisOf(Flows)
    BY <2>3, <2>4 DEF S1apMsg, ImsisOf
  <2>10. ASSUME NEW f \in Flows PROVE \E k \in 1 .. n : r[k] = S1apMsg(d + 1, Owner[f])
    <3>1. PICK k \in 1 .. n : order[k] = f
      <4>1. Flows \in SUBSET Flows
        OBVIOUS
      <4> QED BY <2>2, <4>1, OrderComplete
    <3> QED BY <2>4, <3>1
  <2> QED BY <2>5, <2>8, <2>9, <2>10 DEF Requests
<1>8. \A f \in Flows : target.iabFlag[Owner[f]] =
                         IF app[d].iabFlag[Owner[f]] = "iab" THEN "iab" ELSE "ue"
  <2> TAKE f \in Flows
  <2>1. Owner[f] \in ImsisOf(Flows) /\ Owner[f] \in Imsis /\ Owner[f] # MT
    BY OwnerImsi DEF ImsisOf
  <2>2. Owner[f] \in ImsisOf(nested) <=> app[d].iabFlag[Owner[f]] = "iab"
    BY <1>2 DEF ImsisOf
  <2> HIDE DEF nested, target
  <2> QED BY <1>6, <2>1, <2>2
<1>9. HasUeManager(d + 1, RntiOf[d + 1]) <=> ueMgr[d + 1] # "none"
  BY DEF HasUeManager
<1>10. nested = {f \in Flows : app[d].iabFlag[Owner[f]] = "iab"}
  BY <1>2
<1>11. numIab' = IF ueMgr[d + 1] # "none"
                   THEN [numIab EXCEPT ![d + 1] =
                           Cardinality({f \in Flows : app[d].iabFlag[Owner[f]] = "iab"})]
                   ELSE numIab
  <2> HIDE DEF nested
  <2> QED BY <1>3, <1>9, <1>10
<1> HIDE DEF source, target, ctx, nested
<1>12. /\ \A e \in Donors : app[e].migrated \subseteq app'[e].migrated
       /\ ImsisOf(Flows) \subseteq app'[d + 1].migrated
       /\ \A e \in Donors : app'[e].migrated \subseteq app[e].migrated \cup Descendants
  BY <1>4, <1>5, <1>6, OwnerImsi
<1>13. \A e \in Donors : app'[e].imsiRnti[MT] \in {app[e].imsiRnti[MT], RntiOf[e]}
  BY <1>4, <1>5, <1>6
<1>14. \A e \in Donors \ {d + 1} :
         app'[e].iabFlag = app[e].iabFlag /\ app'[e].localRnti = app[e].localRnti
  BY <1>4, <1>5
<1>15. app'[d + 1].iabFlag[MT] = "iab" /\ RntiOf[d + 1] \in app'[d + 1].localRnti
  BY <1>4, <1>6, OwnerImsi
<1>16. \A f \in Flows : app'[d + 1].iabFlag[Owner[f]] =
                          IF app[d].iabFlag[Owner[f]] = "iab" THEN "iab" ELSE "ue"
  BY <1>4, <1>8
<1> QED BY <1>7, <1>11, <1>12, <1>13, <1>14, <1>15, <1>16 DEF MigratedFrom

-----------------------------------------------------------------------------
(***************************************************************************)
(* Where the relay state goes.                                             *)
(***************************************************************************)
\* The IAB-MT's cell, and the donor that still holds the relay state.
LEMMA Positions ==
  ASSUME IInv
  PROVE  /\ mt.cell \in Donors /\ Serving \in Donors /\ Holder \in Donors
         /\ Len(deferred) \in Nat /\ Holder <= Serving /\ Serving <= mt.cell
         /\ ~ExecDelay => Holder = Serving
         /\ mt.state = "CONNECTED_NORMALLY" => Serving = mt.cell
         /\ mt.state # "CONNECTED_NORMALLY" => mt.state = "CONNECTED_HANDOVER"
                                               /\ Serving = mt.cell - 1
         /\ Donors \subseteq Nat /\ \A d \in Donors : d >= 1 /\ d <= NumDonors
         /\ \A d \in Donors : RntiOf[d] \in Nat \ {0}
<1>1. mt \in MtStates /\ deferred \in Seq(Migrations)
  BY DEF IInv, TypeOK
<1>2. mt.cell \in Donors /\ mt.state \in {"CONNECTED_NORMALLY", "CONNECTED_HANDOVER"}
      /\ Len(deferred) \in Nat
  BY <1>1 DEF MtStates
<1>3. mt.state = "CONNECTED_HANDOVER" => mt.cell > 1
  BY DEF IInv, HandoverInv, MtConsistent
<1>4. Serving \in Donors /\ Serving <= mt.cell
  BY <1>2, <1>3, NumDonorsAssumption DEF Serving, Donors
<1>5. Holder \in Donors /\ Holder <= Serving
  BY <1>2, <1>4 DEF IInv, RelayHeld, Holder, Donors
<1>6. ~ExecDelay => Holder = Serving
  <2>1. ~ExecDelay => Len(deferred) = 0
    BY DEF IInv, DeferredChain
  <2> QED BY <1>4, <2>1 DEF Holder, Donors
<1>7. Donors \subseteq Nat /\ \A d \in Donors : d >= 1 /\ d <= NumDonors
  BY DEF Donors
<1>8. \A d \in Donors : RntiOf[d] \in Nat \ {0}
  BY RntiAssumption
<1> QED BY <1>2, <1>4, <1>5, <1>6, <1>7, <1>8 DEF Serving

\* A migration that was put off moves the relay state one donor on.
LEMMA DeferredPosition ==
  ASSUME IInv, DeferredMigration
  PROVE  MigratedFrom(Holder) /\ Holder' = Holder + 1 /\ Serving' = Serving
         /\ Holder' <= Serving /\ ExecDelay
<1>1. deferred \in Seq(Migrations) /\ deferred # <<>> /\ deferred' = Tail(deferred)
      /\ MigrateIabDescendants(Head(deferred)) /\ mt' = mt
  BY DEF DeferredMigration, IInv, TypeOK
<1>2. /\ Len(deferred) \in Nat \ {0} /\ Len(deferred') = Len(deferred) - 1
      /\ Head(deferred) = deferred[1] /\ 1 \in 1 .. Len(deferred)
  BY <1>1
<1>3. Serving' = Serving
  BY <1>1 DEF Serving
<1>4. PICK h \in Donors : h = Holder
  BY Positions
<1>5. Serving \in Donors /\ Donors \subseteq Nat
  BY Positions
<1>6. Holder' = h + 1 /\ h + 1 <= Serving /\ h + 1 \in Donors
  BY <1>2, <1>3, <1>4, <1>5, NumDonorsAssumption DEF Holder, Donors
<1>7. Head(deferred) = Hop(h)
  <2>1. deferred[1] = Hop(Holder + 1 - 1)
    BY <1>2 DEF IInv, DeferredChain
  <2>2. h + 1 - 1 = h
    BY <1>5
  <2> QED BY <1>2, <1>4, <2>1, <2>2
<1>8. RelayAt(h)
  BY <1>4 DEF IInv, RelayHeld
<1>9. MigratedFrom(h)
  BY <1>1, <1>6, <1>7, <1>8, MigrateEffects DEF IInv
<1>10. ExecDelay
  BY <1>1 DEF IInv, DeferredChain
<1> QED BY <1>3, <1>4, <1>6, <1>9, <1>10

\* The end of a handover moves the IAB-MT on, and its relay state unless the
\* migration is put off.
LEMMA EndPosition ==
  ASSUME IInv, RandomAccessSuccessful
  PROVE  /\ mt'.cell = mt.cell /\ mt'.state = "CONNECTED_NORMALLY" /\ Serving' = mt.cell
         /\ mt.state = "CONNECTED_HANDOVER" /\ mt.cell > 1 /\ Serving = mt.cell - 1
         /\ mt'.ra = "idle" /\ mt.ra = "running" /\ ueMgr[mt.cell] = "HANDOVER_JOINING"
         /\ \/ ExecDelay /\ Holder' = Holder /\ UNCHANGED <<app, s1apUp, numIab>>
            \/ ~ExecDelay /\ MigratedFrom(Holder) /\ Holder' = Holder + 1 /\ Holder' = mt.cell
<1>1. /\ mt' = [mt EXCEPT !.state = "CONNECTED_NORMALLY", !.ra = "idle"]
      /\ mt.ra = "running" /\ mt.state = "CONNECTED_HANDOVER" /\ IabHandoverEndOk
  BY DEF RandomAccessSuccessful
<1>2. mt \in MtStates /\ deferred \in Seq(Migrations)
  BY DEF IInv, TypeOK
<1>3. mt'.cell = mt.cell /\ mt'.state = "CONNECTED_NORMALLY" /\ mt'.ra = "idle"
      /\ mt'.rnti = mt.rnti
  BY <1>1, <1>2 DEF MtStates
<1>4. /\ mt.cell > 1 /\ mt.rnti = RntiOf[mt.cell] /\ TupleOf(mt.cell - 1)
      /\ ueMgr[mt.cell] = "HANDOVER_JOINING"
  BY <1>1 DEF IInv, HandoverInv, MtConsistent, RandomAccessConsistent
<1>5. Serving' = mt.cell /\ Serving = mt.cell - 1 /\ mt.cell \in Donors /\ Donors \subseteq Nat
  BY <1>1, <1>3, Positions DEF Serving
<1>6. CASE ExecDelay
  <2>1. deferred' = Append(deferred, Migration) /\ UNCHANGED <<app, s1apUp, numIab>>
    BY <1>1, <1>6 DEF IabHandoverEndOk
  <2>2. Len(deferred') = Len(deferred) + 1 /\ Len(deferred) \in Nat
    BY <1>2, <2>1
  <2>3. Holder' = Holder
    <3>1. PICK c \in Nat : c = mt.cell
      BY <1>5
    <3>2. PICK n \in Nat : n = Len(deferred)
      BY <2>2
    <3>3. Holder = (c - 1) - n /\ Holder' = c - (n + 1)
      BY <1>5, <2>2, <3>1, <3>2 DEF Holder
    <3> QED BY <3>3
  <2> QED BY <1>1, <1>3, <1>4, <1>5, <1>6, <2>1, <2>3
<1>7. CASE ~ExecDelay
  <2>1. MigrateIabDescendants(Migration) /\ deferred' = deferred
    BY <1>1, <1>7 DEF IabHandoverEndOk
  <2>2. PICK h \in Donors : h = Holder
    BY Positions
  <2>3. h = mt.cell - 1 /\ h + 1 = mt.cell
    <3>1. PICK c \in Nat : c = mt.cell
      BY <1>5
    <3>2. h = c - 1
      BY <1>5, <1>7, <2>2, <3>1, Positions
    <3> QED BY <3>1, <3>2
  <2>4. Len(deferred) \in Nat /\ Len(deferred') = Len(deferred)
    BY <1>2, <2>1
  <2>5. Holder' = h + 1
    BY <1>5, <2>2, <2>3, <2>4 DEF Holder
  <2>6. Migration = Hop(h)
    BY <1>3, <1>4, <2>3 DEF Migration, Hop, TupleOf
  <2>7. RelayAt(h)
    BY <2>2 DEF IInv, RelayHeld
  <2>8. MigratedFrom(h)
    BY <1>5, <2>1, <2>3, <2>6, <2>7, MigrateEffects DEF IInv
  <2> QED BY <1>1, <1>3, <1>4, <1>5, <1>7, <2>2, <2>3, <2>5, <2>8
<1> QED BY <1>6, <1>7

-----------------------------------------------------------------------------
(***************************************************************************)
(* The reconfiguration that follows the release of the source.             *)
(***************************************************************************)
\* The release of the source always finds the reconfiguration postponed.
LEMMA ReleaseEffects ==
  ASSUME IInv, NEW d \in Donors, ueMgr[d] = "HANDOVER_PATH_SWITCH", SendUeContextRelease(d)
  PROVE  /\ ueMgr' = [ueMgr EXCEPT ![d] = "CONNECTION_RECONFIGURATION"]
         /\ x2' = x2 \cup {[type |-> "UE_CTX_RELEASE", src |-> d - 1, tgt |-> d]}
         /\ air' = air \cup {[type |-> "RECONF", src |-> d, tgt |-> d]}
<1>1. d \in postponed
  BY DEF IInv, HandoverInv, QueuedConsistent
<1> QED BY <1>1 DEF SendUeContextRelease, SwitchToConnectedNormally

\* The completion of that reconfiguration makes the context idle, sends the
\* next reconfiguration, or starts the handover that was queued.
LEMMA CompletedEffects ==
  ASSUME IInv, RecvRrcConnectionReconfigurationCompleted
  PROVE  /\ mt.cell \in Donors /\ mt.state = "CONNECTED_NORMALLY"
         /\ ueMgr[mt.cell] = "CONNECTION_RECONFIGURATION"
         /\ UNCHANGED <<mt, queued, numIab, s1apUp, s1apDown, app, sgw, ho, deferred,
                        uplink, fault>>
         /\ \/ /\ ueMgr' = [ueMgr EXCEPT ![mt.cell] = "CONNECTION_RECONFIGURATION"]
               /\ x2' = x2
               /\ [type |-> "RECONF", src |-> mt.cell, tgt |-> mt.cell] \in air'
            \/ /\ ueMgr' = [ueMgr EXCEPT ![mt.cell] = "CONNECTED_NORMALLY"]
               /\ x2' = x2
            \/ /\ ueMgr' = [ueMgr EXCEPT ![mt.cell] = "HANDOVER_PREPARATION"]
               /\ x2' = x2 \cup {[type |-> "HO_REQ", src |-> mt.cell, tgt |-> queued[mt.cell]]}
<1>1. UNCHANGED <<mt, queued, numIab, s1apUp, s1apDown, app, sgw, ho, deferred, uplink, fault>>
  BY DEF RecvRrcConnectionReconfigurationCompleted, scenVars
<1>2. PICK m \in air :
        /\ m.type = "COMPLETE" /\ ueMgr[m.tgt] = "CONNECTION_RECONFIGURATION"
        /\ IF queued[m.tgt] = 0 \/ m.tgt \in postponed
           THEN SwitchToConnectedNormally(m.tgt, air \ {m}) /\ UNCHANGED x2
           ELSE /\ StartHandover(m.tgt, queued[m.tgt])
                /\ air' = air \ {m}
                /\ UNCHANGED postponed
  BY DEF RecvRrcConnectionReconfigurationCompleted
<1>3. m.tgt = mt.cell /\ mt.state = "CONNECTED_NORMALLY" /\ mt.cell \in Donors
  BY <1>2 DEF IInv, HandoverInv, AirConsistent, TypeOK, MtStates
<1>4. CASE SwitchToConnectedNormally(mt.cell, air \ {m}) /\ UNCHANGED x2
  BY <1>1, <1>2, <1>3, <1>4 DEF SwitchToConnectedNormally
<1>5. CASE StartHandover(mt.cell, queued[mt.cell])
  BY <1>1, <1>2, <1>3, <1>5 DEF StartHandover
<1> QED BY <1>2, <1>3, <1>4, <1>5

-----------------------------------------------------------------------------
(***************************************************************************)
(* The IAB-MT's own path switch.                                           *)
(***************************************************************************)
\* Nothing is under way about the IAB-MT.
NoMtMessage == NoneFor(s1apUp, MT) /\ NoneFor(s1apDown, MT)

\* States of a UeManager that wait for no path switch.
Quiet == {"CONNECTED_NORMALLY", "CONNECTION_RECONFIGURATION", "HANDOVER_PREPARATION",
          "HANDOVER_LEAVING"}

\* From the arrival at a donor to the acknowledgement of its path switch, the
\* state of the donor's UeManager says how far the path switch has come.
MtTunnel ==
  /\ ueMgr[mt.cell] # "none"
  /\ mt.state = "CONNECTED_HANDOVER" => ueMgr[mt.cell] = "HANDOVER_JOINING"
  /\ ueMgr[mt.cell] = "HANDOVER_JOINING" => sgw[MT] = mt.cell - 1 /\ NoMtMessage
  /\ ueMgr[mt.cell] \in Quiet => sgw[MT] = mt.cell /\ NoMtMessage
  /\ ueMgr[mt.cell] = "HANDOVER_PATH_SWITCH" =>
       \/ /\ sgw[MT] = mt.cell - 1
          /\ OnlyOne(s1apUp, S1apMsg(mt.cell, MT)) /\ NoneFor(s1apDown, MT)
       \/ /\ sgw[MT] = mt.cell
          /\ NoneFor(s1apUp, MT) /\ OnlyOne(s1apDown, S1apMsg(mt.cell, MT))

\* The acknowledgement finds the IAB-MT's RNTI, and is not suppressed.
PathSwitchKnown ==
  /\ ueMgr[mt.cell] = "HANDOVER_PATH_SWITCH" => app[mt.cell].imsiRnti[MT] = RntiOf[mt.cell]
  /\ \A d \in Donors : MT \notin app[d].migrated

\* Messages about descendants have acknowledgements that are suppressed.
SuppressedIn(q) ==
  \A k \in 1 .. Len(q) :
    q[k].imsi # MT => q[k].imsi \in ImsisOf(Flows) /\ q[k].imsi \in app[q[k].donor].migrated

Suppressed == SuppressedIn(s1apUp) /\ SuppressedIn(s1apDown)

TunnelInv == MtTunnel /\ PathSwitchKnown /\ Suppressed

LEMMA TunnelInit == Init => TunnelInv
<1> SUFFICES ASSUME Init PROVE TunnelInv
  OBVIOUS
<1>1. 1 \in Donors /\ MT \in Imsis
  BY NumDonorsAssumption, OwnerImsi DEF Donors
<1>2. mt.cell = 1 /\ mt.state = "CONNECTED_NORMALLY" /\ ueMgr[1] = "CONNECTED_NORMALLY"
      /\ sgw[MT] = 1 /\ s1apUp = <<>> /\ s1apDown = <<>>
  BY <1>1 DEF Init
<1>3. MtTunnel
  BY <1>2 DEF MtTunnel, NoMtMessage, NoneFor
<1>4. \A d \in Donors : app[d].migrated = {}
  BY DEF Init, AttachedApp, EmptyApp
<1>5. PathSwitchKnown
  BY <1>2, <1>4 DEF PathSwitchKnown
<1>6. Suppressed
  BY <1>2 DEF Suppressed, SuppressedIn
<1> QED BY <1>3, <1>5, <1>6 DEF TunnelInv

\* The S1-AP queues say the same of the IAB-MT as before.
SameMtMessages ==
  /\ NoneFor(s1apUp, MT) => NoneFor(s1apUp, MT)'
  /\ NoneFor(s1apDown, MT) => NoneFor(s1apDown, MT)'
  /\ OnlyOne(s1apUp, S1apMsg(mt.cell, MT)) => OnlyOne(s1apUp', S1apMsg(mt.cell, MT))
  /\ OnlyOne(s1apDown, S1apMsg(mt.cell, MT)) => OnlyOne(s1apDown', S1apMsg(mt.cell, MT))

LEMMA MtTunnelKept ==
  ASSUME MtTunnel, mt'.cell = mt.cell, ueMgr'[mt.cell] = ueMgr[mt.cell],
         mt'.state = "CONNECTED_HANDOVER" => mt.state = "CONNECTED_HANDOVER",
         sgw'[MT] = sgw[MT], SameMtMessages
  PROVE  MtTunnel'
BY DEF MtTunnel, NoMtMessage, SameMtMessages

\* A donor's UeManager changes state; the IAB-MT and the queues do not.
LEMMA MtTunnelPhase ==
  ASSUME MtTunnel, mt' = mt, sgw' = sgw, s1apUp' = s1apUp, s1apDown' = s1apDown,
         \/ ueMgr'[mt.cell] = ueMgr[mt.cell]
         \/ ueMgr[mt.cell] \in Quiet /\ ueMgr'[mt.cell] \in Quiet
  PROVE  MtTunnel'
<1>1. CASE ueMgr'[mt.cell] = ueMgr[mt.cell]
  BY <1>1, MtTunnelKept DEF SameMtMessages, NoneFor
<1>2. CASE ueMgr[mt.cell] \in Quiet /\ ueMgr'[mt.cell] \in Quiet
  BY <1>2 DEF MtTunnel, NoMtMessage, NoneFor, Quiet
<1> QED BY <1>1, <1>2

\* A migration changes nothing for the IAB-MT's own tunnel.
LEMMA MtTunnelMigrates ==
  ASSUME TypeOK, NEW d, MigratedFrom(d), s1apDown' = s1apDown
  PROVE  SameMtMessages
<1>1. PICK r : Requests(r, d + 1) /\ s1apUp' = s1apUp \o r
  BY DEF MigratedFrom
<1>2. r \in Seq(S1apMsgs) /\ NoneFor(r, MT)
  BY <1>1, OwnerImsi DEF Requests, NoneFor
<1>3. s1apUp \in Seq(S1apMsgs)
  BY DEF TypeOK
<1>4. PICK m : m = S1apMsg(mt.cell, MT)
  OBVIOUS
<1>5. m.imsi = MT
  BY <1>4 DEF S1apMsg
<1>6. NoneFor(s1apUp, MT) => NoneFor(s1apUp, MT)'
  BY <1>1, <1>2, <1>3, NoneConcat DEF NoneFor
<1>7. OnlyOne(s1apUp, m) => OnlyOne(s1apUp', m)
  BY <1>1, <1>2, <1>3, <1>5, OnlyConcat
<1>8. NoneFor(s1apDown, MT) => NoneFor(s1apDown, MT)'
  BY DEF NoneFor
<1> QED BY <1>4, <1>6, <1>7, <1>8 DEF SameMtMessages

LEMMA MtTunnelStep == IInv /\ TunnelInv /\ [Next]_vars => MtTunnel'
<1> SUFFICES ASSUME IInv, TunnelInv, [Next]_vars PROVE MtTunnel'
  OBVIOUS
<1>0. /\ MtTunnel /\ mt.cell \in Donors /\ Donors \subseteq Nat /\ MT \in Imsis
      /\ ueMgr \in [Donors -> UeStates] /\ sgw \in [Imsis -> Donors]
      /\ s1apUp \in Seq(S1apMsgs) /\ s1apDown \in Seq(S1apMsgs)
  BY Positions, OwnerImsi DEF TunnelInv, IInv, TypeOK
<1>1. CASE UNCHANGED <<mt, ueMgr, sgw, s1apUp, s1apDown>>
  BY <1>0, <1>1, MtTunnelPhase
<1>2. CASE TriggerIabBackhaulHandover
  <2>1. CASE UNCHANGED ueMgr
    <3>1. UNCHANGED <<mt, sgw, s1apUp, s1apDown>>
      BY <1>2 DEF TriggerIabBackhaulHandover, Abort, rrcVars, netVars
    <3> QED BY <1>1, <2>1, <3>1
  <2>2. CASE /\ ueMgr[ho.next] = "CONNECTED_NORMALLY"
             /\ ueMgr' = [ueMgr EXCEPT ![ho.next] = "HANDOVER_PREPARATION"]
             /\ UNCHANGED <<mt, sgw, s1apUp, s1apDown>>
    <3>1. ho.next \in Donors
      BY DEF IInv, TypeOK, HoStates
    <3>2. \/ ueMgr'[mt.cell] = ueMgr[mt.cell]
          \/ /\ ueMgr[mt.cell] = "CONNECTED_NORMALLY"
             /\ ueMgr'[mt.cell] = "HANDOVER_PREPARATION"
      BY <1>0, <2>2, <3>1
    <3> QED BY <1>0, <2>2, <3>2, MtTunnelPhase DEF Quiet
  <2> QED BY <1>2, <2>1, <2>2
          DEF TriggerIabBackhaulHandover, Abort, PrepareHandover, StartHandover, rrcVars, netVars
<1>3. CASE DeferredMigration
  <2>1. MigratedFrom(Holder) /\ UNCHANGED <<mt, ueMgr, sgw, s1apDown>>
    BY <1>3, DeferredPosition DEF DeferredMigration
  <2>2. PICK h : h = Holder
    OBVIOUS
  <2>3. SameMtMessages
    BY <2>1, <2>2, MtTunnelMigrates DEF IInv
  <2> QED BY <1>0, <2>1, <2>3, MtTunnelKept
<1>4. CASE RecvHandoverRequest
  <2>1. PICK m \in x2 : m.type = "HO_REQ" /\ ueMgr' = [ueMgr EXCEPT ![m.tgt] = "HANDOVER_JOINING"]
    BY <1>4 DEF RecvHandoverRequest
  <2>2. UNCHANGED <<mt, sgw, s1apUp, s1apDown>>
    BY <1>4 DEF RecvHandoverRequest
  <2>3. m.tgt = mt.cell + 1
    BY <2>1 DEF IInv, HandoverInv, X2Consistent, Underway
  <2>4. ueMgr'[mt.cell] = ueMgr[mt.cell]
    BY <1>0, <2>1, <2>3
  <2> QED BY <1>0, <2>2, <2>4, MtTunnelPhase
<1>5. CASE RecvHandoverRequestAck
  <2>1. PICK m \in x2 : m.type = "HO_ACK" /\ ueMgr' = [ueMgr EXCEPT ![m.src] = "HANDOVER_LEAVING"]
    BY <1>5 DEF RecvHandoverRequestAck
  <2>2. UNCHANGED <<mt, sgw, s1apUp, s1apDown>>
    BY <1>5 DEF RecvHandoverRequestAck
  <2>3. m.src = mt.cell /\ ueMgr[mt.cell] = "HANDOVER_PREPARATION"
    BY <2>1 DEF IInv, HandoverInv, X2Consistent, Underway
  <2>4. ueMgr'[mt.cell] = "HANDOVER_LEAVING"
    BY <1>0, <2>1, <2>3
  <2> QED BY <1>0, <2>2, <2>3, <2>4, MtTunnelPhase DEF Quiet
<1>6. CASE RecvHandoverCommand
  <2>1. PICK m \in air :
          /\ m.type = "HO_CMD" /\ mt.state = "CONNECTED_NORMALLY"
          /\ mt' = [state |-> "CONNECTED_HANDOVER", cell |-> m.tgt,
                    rnti |-> RntiOf[m.tgt], ra |-> "running"]
    BY <1>6 DEF RecvHandoverCommand
  <2>2. UNCHANGED <<ueMgr, sgw, s1apUp, s1apDown>>
    BY <1>6 DEF RecvHandoverCommand, rrcVars
  <2>3. m.tgt = mt.cell + 1 /\ ueMgr[mt.cell] = "HANDOVER_LEAVING"
        /\ ueMgr[m.tgt] = "HANDOVER_JOINING"
    BY <2>1 DEF IInv, HandoverInv, AirConsistent, Underway
  <2>4. mt'.cell = m.tgt /\ mt'.state = "CONNECTED_HANDOVER"
    BY <2>1
  <2>5. sgw[MT] = mt.cell /\ NoMtMessage
    BY <1>0, <2>3 DEF MtTunnel, Quiet
  <2>6. sgw'[MT] = mt'.cell - 1
    <3>1. PICK c \in Nat : c = mt.cell
      BY <1>0
    <3>2. mt'.cell = c + 1 /\ sgw'[MT] = c
      BY <2>2, <2>3, <2>4, <2>5, <3>1
    <3> QED BY <3>1, <3>2
  <2>7. NoMtMessage' /\ ueMgr'[mt'.cell] = "HANDOVER_JOINING"
    BY <2>2, <2>3, <2>4, <2>5 DEF NoMtMessage, NoneFor
  <2> QED BY <2>6, <2>7 DEF MtTunnel, Quiet
<1>7. CASE RandomAccessSuccessful
  <2>1. /\ mt'.cell = mt.cell /\ mt'.state = "CONNECTED_NORMALLY"
        /\ UNCHANGED <<ueMgr, sgw, s1apDown>>
        /\ s1apUp' = s1apUp \/ MigratedFrom(Holder)
    BY <1>7, EndPosition DEF RandomAccessSuccessful
  <2>2. PICK h : h = Holder
    OBVIOUS
  <2>3. CASE s1apUp' = s1apUp
    <3>1. SameMtMessages
      BY <2>1, <2>3 DEF SameMtMessages, NoneFor
    <3> QED BY <1>0, <2>1, <3>1, MtTunnelKept
  <2>4. CASE MigratedFrom(h)
    <3>1. SameMtMessages
      BY <2>1, <2>4, MtTunnelMigrates DEF IInv
    <3> QED BY <1>0, <2>1, <3>1, MtTunnelKept
  <2> QED BY <2>1, <2>2, <2>3, <2>4
<1>8. CASE RandomAccessFailed
  <2>1. mt'.cell = mt.cell /\ mt'.state = mt.state /\ UNCHANGED <<ueMgr, sgw, s1apUp, s1apDown>>
    BY <1>8 DEF RandomAccessFailed, rrcVars, netVars, IInv, TypeOK, MtStates
  <2>2. SameMtMessages
    BY <2>1 DEF SameMtMessages, NoneFor
  <2> QED BY <1>0, <2>1, <2>2, MtTunnelKept
<1>9. CASE RecvHandoverCompleted
  <2>1. PICK m \in air :
          /\ m.type = "COMPLETE" /\ ueMgr[m.tgt] = "HANDOVER_JOINING"
          /\ ueMgr' = [ueMgr EXCEPT ![m.tgt] = "HANDOVER_PATH_SWITCH"]
          /\ s1apUp' = Append(s1apUp, S1apMsg(m.tgt, MT))
    BY <1>9 DEF RecvHandoverCompleted
  <2>2. UNCHANGED <<mt, sgw, s1apDown>>
    BY <1>9 DEF RecvHandoverCompleted
  <2>3. m.tgt = mt.cell /\ mt.state = "CONNECTED_NORMALLY"
    BY <2>1 DEF IInv, HandoverInv, AirConsistent
  <2>4. sgw[MT] = mt.cell - 1 /\ NoMtMessage
    BY <1>0, <2>1, <2>3 DEF MtTunnel
  <2>5. ueMgr'[mt.cell] = "HANDOVER_PATH_SWITCH"
    BY <1>0, <2>1, <2>3
  <2>6. PICK n : n = S1apMsg(mt.cell, MT)
    OBVIOUS
  <2>7. n \in S1apMsgs /\ n.imsi = MT
    BY <1>0, <2>6 DEF S1apMsg, S1apMsgs
  <2>8. OnlyOne(s1apUp', n)
    BY <1>0, <2>1, <2>3, <2>4, <2>6, <2>7, OnlyAppend DEF NoMtMessage
  <2>9. NoneFor(s1apDown, MT)'
    BY <2>2, <2>4 DEF NoMtMessage, NoneFor
  <2> QED BY <2>2, <2>3, <2>4, <2>5, <2>6, <2>8, <2>9 DEF MtTunnel, Quiet
<1>10. CASE RecvUeContextRelease
  <2>1. PICK m \in x2 : m.type = "UE_CTX_RELEASE" /\ RemoveUe(m.src)
    BY <1>10 DEF RecvUeContextRelease
  <2>2. UNCHANGED <<mt, sgw, s1apUp, s1apDown>>
    BY <1>10 DEF RecvUeContextRelease
  <2>3. m.src < mt.cell
    BY <2>1 DEF IInv, HandoverInv, X2Consistent
  <2>4. m.src # mt.cell
    <3>1. PICK c \in Nat : c = mt.cell
      BY <1>0
    <3> QED BY <2>3, <3>1
  <2>5. ueMgr'[mt.cell] = ueMgr[mt.cell]
    BY <1>0, <2>1, <2>4 DEF RemoveUe
  <2> QED BY <1>0, <2>2, <2>5, MtTunnelPhase
<1>11. CASE HandoverLeavingTimeout
  <2>1. PICK d \in Donors : ueMgr[d] = "HANDOVER_LEAVING" /\ RemoveUe(d)
    BY <1>11 DEF HandoverLeavingTimeout
  <2>2. UNCHANGED <<mt, sgw, s1apUp, s1apDown>>
    BY <1>11 DEF HandoverLeavingTimeout, netVars
  <2>3. mt.state = "CONNECTED_HANDOVER"
    <3>1. mt.ra = "failed"
      BY <1>11 DEF HandoverLeavingTimeout
    <3> QED BY <3>1, Positions DEF IInv, HandoverInv, MtConsistent
  <2>4. ueMgr[mt.cell] = "HANDOVER_JOINING"
    BY <1>0, <2>3 DEF MtTunnel
  <2>5. ueMgr'[mt.cell] = ueMgr[mt.cell]
    BY <1>0, <2>1, <2>4 DEF RemoveUe
  <2> QED BY <1>0, <2>2, <2>5, MtTunnelPhase
<1>12. CASE MmePathSwitchRequest
  <2>1. /\ s1apUp # <<>>
        /\ sgw' = [sgw EXCEPT ![Head(s1apUp).imsi] = Head(s1apUp).donor]
        /\ s1apDown' = Append(s1apDown, Head(s1apUp)) /\ s1apUp' = Tail(s1apUp)
        /\ UNCHANGED <<mt, ueMgr>>
    BY <1>12 DEF MmePathSwitchRequest, rrcVars
  <2>2. PICK n : n = Head(s1apUp)
    OBVIOUS
  <2>3. n \in S1apMsgs
    BY <1>0, <2>1, <2>2, TailParts
  <2>4. n.imsi \in Imsis /\ n.donor \in Donors
    BY <2>3 DEF S1apMsgs
  <2>5. CASE n.imsi = MT
    <3>1. ~NoneFor(s1apUp, MT)
      <4>1. s1apUp[1].imsi = MT /\ 1 \in 1 .. Len(s1apUp)
        BY <1>0, <2>1, <2>2, <2>5, TailParts
      <4> QED BY <4>1 DEF NoneFor
    <3>2. ueMgr[mt.cell] \in UeStates
      BY <1>0
    <3>3. /\ ueMgr[mt.cell] = "HANDOVER_PATH_SWITCH"
          /\ OnlyOne(s1apUp, S1apMsg(mt.cell, MT)) /\ NoneFor(s1apDown, MT)
      BY <1>0, <3>1, <3>2 DEF MtTunnel, NoMtMessage, UeStates, Quiet
    <3>4. PICK m : m = S1apMsg(mt.cell, MT)
      OBVIOUS
    <3>5. m.imsi = MT /\ m.donor = mt.cell
      BY <3>4 DEF S1apMsg
    <3>6. n = m /\ NoneFor(Tail(s1apUp), MT)
      BY <1>0, <2>1, <2>2, <2>5, <3>3, <3>4, <3>5, OnlyHead
    <3>7. OnlyOne(s1apDown', m)
      BY <1>0, <2>1, <2>2, <2>3, <3>3, <3>5, <3>6, OnlyAppend
    <3>8. sgw'[MT] = mt.cell
      BY <1>0, <2>1, <2>2, <2>5, <3>5, <3>6
    <3>9. NoneFor(s1apUp, MT)'
      BY <2>1, <3>6 DEF NoneFor
    <3>10. mt.state # "CONNECTED_HANDOVER"
      BY <1>0, <3>3 DEF MtTunnel
    <3> QED BY <2>1, <3>3, <3>4, <3>7, <3>8, <3>9, <3>10 DEF MtTunnel, Quiet
  <2>6. CASE n.imsi # MT
    <3>1. sgw'[MT] = sgw[MT]
      BY <1>0, <2>1, <2>2, <2>4, <2>6
    <3>2. PICK m : m = S1apMsg(mt.cell, MT)
      OBVIOUS
    <3>3. m.imsi = MT
      BY <3>2 DEF S1apMsg
    <3>4. NoneFor(s1apUp, MT) => NoneFor(s1apUp, MT)'
      BY <1>0, <2>1, NoneTail DEF NoneFor
    <3>5. NoneFor(s1apDown, MT) => NoneFor(s1apDown, MT)'
      BY <1>0, <2>1, <2>2, <2>3, <2>6, NoneAppend DEF NoneFor
    <3>6. OnlyOne(s1apUp, m) => OnlyOne(s1apUp', m)
      BY <1>0, <2>1, <2>2, <2>6, <3>3, OnlyTail
    <3>7. OnlyOne(s1apDown, m) => OnlyOne(s1apDown', m)
      BY <1>0, <2>1, <2>2, <2>3, <2>6, <3>3, OnlyAppendOther
    <3>8. SameMtMessages
      BY <3>2, <3>4, <3>5, <3>6, <3>7 DEF SameMtMessages
    <3> QED BY <1>0, <2>1, <3>1, <3>8, MtTunnelKept
  <2> QED BY <2>5, <2>6
<1>13. CASE DoPathSwitchRequestAcknowledge
  <2>1. s1apDown # <<>> /\ UNCHANGED <<mt, sgw, s1apUp>>
    BY <1>13 DEF DoPathSwitchRequestAcknowledge
  <2>2. PICK n : n = Head(s1apDown)
    OBVIOUS
  <2>3. n \in S1apMsgs /\ n = s1apDown[1] /\ 1 \in 1 .. Len(s1apDown)
    BY <1>0, <2>1, <2>2, TailParts
  <2>4. CASE n.imsi # MT
    <3>1. n.imsi \in app[n.donor].migrated
      BY <2>3, <2>4 DEF TunnelInv, Suppressed, SuppressedIn
    <3>2. s1apDown' = Tail(s1apDown) /\ ueMgr' = ueMgr
      BY <1>13, <2>2, <3>1 DEF DoPathSwitchRequestAcknowledge
    <3>3. PICK m : m = S1apMsg(mt.cell, MT)
      OBVIOUS
    <3>4. m.imsi = MT
      BY <3>3 DEF S1apMsg
    <3>5. NoneFor(s1apDown, MT) => NoneFor(s1apDown, MT)'
      BY <1>0, <2>1, <3>2, NoneTail DEF NoneFor
    <3>6. OnlyOne(s1apDown, m) => OnlyOne(s1apDown', m)
      BY <1>0, <2>1, <2>2, <2>4, <3>2, <3>4, OnlyTail
    <3>7. SameMtMessages
      BY <2>1, <3>3, <3>5, <3>6 DEF SameMtMessages, NoneFor
    <3> QED BY <1>0, <2>1, <3>2, <3>7, MtTunnelKept
  <2>5. CASE n.imsi = MT
    <3>1. ~NoneFor(s1apDown, MT)
      BY <2>3, <2>5 DEF NoneFor
    <3>2. ueMgr[mt.cell] \in UeStates
      BY <1>0
    <3>3. /\ ueMgr[mt.cell] = "HANDOVER_PATH_SWITCH" /\ sgw[MT] = mt.cell
          /\ OnlyOne(s1apDown, S1apMsg(mt.cell, MT)) /\ NoneFor(s1apUp, MT)
      BY <1>0, <3>1, <3>2 DEF MtTunnel, NoMtMessage, UeStates, Quiet
    <3>4. PICK m : m = S1apMsg(mt.cell, MT)
      OBVIOUS
    <3>5. m.imsi = MT /\ m.donor = mt.cell
      BY <3>4 DEF S1apMsg
    <3>6. n = m /\ NoneFor(Tail(s1apDown), MT)
      BY <1>0, <2>1, <2>2, <2>5, <3>3, <3>4, <3>5, OnlyHead
    <3>7. /\ app[mt.cell].imsiRnti[MT] = RntiOf[mt.cell] /\ RntiOf[mt.cell] # 0
          /\ MT \notin app[mt.cell].migrated
      BY <1>0, <3>3, Positions DEF TunnelInv, PathSwitchKnown
    <3>8. HasUeManager(mt.cell, RntiOf[mt.cell])
      BY <3>3 DEF HasUeManager
    <3>9. s1apDown' = Tail(s1apDown) /\ SendUeContextRelease(mt.cell)
      BY <1>13, <2>2, <2>5, <3>3, <3>5, <3>6, <3>7, <3>8 DEF DoPathSwitchRequestAcknowledge
    <3>10. ueMgr'[mt.cell] = "CONNECTION_RECONFIGURATION"
      BY <1>0, <3>3, <3>9, ReleaseEffects
    <3>11. mt.state # "CONNECTED_HANDOVER"
      BY <1>0, <3>3 DEF MtTunnel
    <3>12. NoMtMessage'
      BY <2>1, <3>3, <3>6, <3>9 DEF NoMtMessage, NoneFor
    <3> QED BY <2>1, <3>3, <3>10, <3>11, <3>12 DEF MtTunnel, Quiet
  <2> QED BY <2>4, <2>5
<1>14. CASE SkipHandover \/ HandoverJoiningTimeout \/ SendUplink \/ RecvFromLteSocket
            \/ RecvRrcConnectionReconfiguration \/ UNCHANGED vars
  BY <1>1, <1>14
  DEF SkipHandover, HandoverJoiningTimeout, Abort, SendUplink, RecvFromLteSocket,
      RecvRrcConnectionReconfiguration, vars, rrcVars, netVars
<1>15. CASE RecvRrcConnectionReconfigurationCompleted
  <2>1. UNCHANGED <<mt, sgw, s1apUp, s1apDown>> /\ ueMgr[mt.cell] \in Quiet
    BY <1>15, CompletedEffects DEF Quiet
  <2>2. ueMgr'[mt.cell] \in Quiet
    BY <1>0, <1>15, CompletedEffects DEF Quiet
  <2> QED BY <1>0, <2>1, <2>2, MtTunnelPhase
<1> QED
  BY <1>2, <1>3, <1>4, <1>5, <1>6, <1>7, <1>8, <1>9, <1>10, <1>11, <1>12, <1>13, <1>14, <1>15
  DEF Next, Handlers, Environment

\* What all handlers but a migration leave of a donor's maps.
AppKept(e) ==
  /\ app'[e].migrated = app[e].migrated /\ app'[e].iabFlag = app[e].iabFlag
  /\ app[e].localRnti \subseteq app'[e].localRnti
  /\ app'[e].imsiRnti[MT] \in {app[e].imsiRnti[MT], RntiOf[e]}

RelayStays ==
  Holder' = Holder /\ numIab' = numIab /\ \A e \in Donors : AppKept(e)

RelayMoves ==
  /\ Holder' = Holder + 1 /\ MigratedFrom(Holder)
  /\ UNCHANGED <<sgw, s1apDown, ueMgr, x2>>

\* The relay state stays where it is, or a migration takes it to the next
\* donor; the IAB-MT stays with its donor, or goes to the next one.
LEMMA Movement ==
  ASSUME IInv, [Next]_vars
  PROVE  /\ RelayStays \/ RelayMoves
         /\ \/ Serving' = Serving
            \/ /\ Serving' = Serving + 1 /\ Serving < NumDonors
               /\ UNCHANGED <<sgw, s1apDown>>
               /\ \/ ExecDelay /\ RelayStays /\ s1apUp' = s1apUp
                  \/ ~ExecDelay /\ RelayMoves /\ Holder' = Serving'
<1>0. /\ mt.cell \in Donors /\ Donors \subseteq Nat /\ MT \in Imsis /\ MtFlow \in AllFlows
      /\ app \in [Donors -> AppStates] /\ MT \notin Descendants
  BY Positions, OwnerImsi DEF IInv, TypeOK, AllFlows
<1>1. ASSUME Serving' = Serving, UNCHANGED <<deferred, app, numIab>>
      PROVE  RelayStays
  BY <1>1 DEF RelayStays, Holder, AppKept
<1>2. ASSUME UNCHANGED <<mt, deferred, numIab>>, NEW d \in Donors,
             NEW a \in AppStates, app' = [app EXCEPT ![d] = a],
             a.migrated = app[d].migrated, a.iabFlag = app[d].iabFlag,
             app[d].localRnti \subseteq a.localRnti,
             a.imsiRnti[MT] \in {app[d].imsiRnti[MT], RntiOf[d]}
      PROVE  RelayStays /\ Serving' = Serving
  <2>1. Serving' = Serving /\ Holder' = Holder
    BY <1>2 DEF Serving, Holder
  <2>2. ASSUME NEW e \in Donors PROVE AppKept(e)
    BY <1>0, <1>2 DEF AppKept
  <2> QED BY <1>2, <2>1, <2>2 DEF RelayStays
<1>3. CASE UNCHANGED <<mt, deferred, app, numIab>>
  <2>1. Serving' = Serving
    BY <1>3 DEF Serving
  <2> QED BY <1>1, <1>3, <2>1
<1>4. CASE DeferredMigration
  <2>1. UNCHANGED <<sgw, s1apDown, ueMgr, x2>>
    BY <1>4 DEF DeferredMigration
  <2> QED BY <1>4, <2>1, DeferredPosition DEF RelayMoves
<1>5. CASE RandomAccessSuccessful
  <2>1. UNCHANGED <<sgw, s1apDown, ueMgr, x2>>
    BY <1>5 DEF RandomAccessSuccessful
  <2>2. /\ Serving' = mt.cell /\ Serving = mt.cell - 1
        /\ \/ ExecDelay /\ Holder' = Holder /\ UNCHANGED <<app, s1apUp, numIab>>
           \/ ~ExecDelay /\ MigratedFrom(Holder) /\ Holder' = Holder + 1 /\ Holder' = mt.cell
    BY <1>5, EndPosition
  <2>3. Serving' = Serving + 1 /\ Serving < NumDonors
    <3>1. PICK c \in Nat : c = mt.cell /\ c <= NumDonors /\ c >= 1
      BY Positions
    <3> QED BY <2>2, <3>1, NumDonorsAssumption
  <2>4. CASE ExecDelay /\ Holder' = Holder /\ UNCHANGED <<app, s1apUp, numIab>>
    <3>1. RelayStays
      BY <2>4 DEF RelayStays, AppKept
    <3> QED BY <2>1, <2>3, <2>4, <3>1
  <2>5. CASE ~ExecDelay /\ MigratedFrom(Holder) /\ Holder' = Holder + 1 /\ Holder' = mt.cell
    <3>1. RelayMoves
      BY <2>1, <2>5 DEF RelayMoves
    <3> QED BY <2>1, <2>2, <2>3, <2>5, <3>1
  <2> QED BY <2>2, <2>4, <2>5
<1>6. CASE RecvHandoverCommand
  <2>1. Serving' = Serving
    BY <1>6 DEF RecvHandoverCommand, IInv, HandoverInv, AirConsistent, Underway,
                Serving, TypeOK, AirMsgs, MtStates, Donors
  <2>2. UNCHANGED <<deferred, app, numIab>>
    BY <1>6 DEF RecvHandoverCommand, rrcVars, scenVars
  <2> QED BY <1>1, <2>1, <2>2
<1>7. CASE RandomAccessFailed
  <2>1. Serving' = Serving
    BY <1>7 DEF RandomAccessFailed, Serving, IInv, TypeOK, MtStates
  <2>2. UNCHANGED <<deferred, app, numIab>>
    BY <1>7 DEF RandomAccessFailed, rrcVars
  <2> QED BY <1>1, <2>1, <2>2
<1>8. CASE RecvHandoverCompleted
  <2>1. PICK m \in air : app' = [app EXCEPT ![m.tgt] = DoPathSwitchRequest(@, RntiOf[m.tgt])]
    BY <1>8 DEF RecvHandoverCompleted
  <2>2. UNCHANGED <<mt, deferred, numIab>>
    BY <1>8 DEF RecvHandoverCompleted, scenVars
  <2>3. PICK d \in Donors : d = m.tgt
    BY DEF IInv, TypeOK, AirMsgs
  <2>4. PICK a : a = DoPathSwitchRequest(app[d], RntiOf[d])
    OBVIOUS
  <2>5. app[d] \in AppStates /\ RntiOf[d] \in Nat
    BY <1>0, Positions
  <2>6. a \in AppStates
    BY <2>4, <2>5, PathSwitchType
  <2>7. /\ a.migrated = app[d].migrated /\ a.iabFlag = app[d].iabFlag
        /\ app[d].localRnti \subseteq a.localRnti /\ a.imsiRnti[MT] = RntiOf[d]
    BY <1>0, <2>4, <2>5 DEF DoPathSwitchRequest, AppStates
  <2>8. app' = [app EXCEPT ![d] = a]
    BY <1>0, <2>1, <2>3, <2>4
  <2> QED BY <1>2, <2>2, <2>6, <2>7, <2>8
<1>9. ASSUME NEW d \in Donors, RemoveUe(d), UNCHANGED <<mt, deferred, numIab>>
      PROVE  RelayStays /\ Serving' = Serving
  <2>1. PICK a : a = DoUeContextRelease(app[d])
    OBVIOUS
  <2>2. a \in AppStates
    BY <1>0, <2>1, ContextReleaseType
  <2>3. app[d] \in AppStates
    BY <1>0
  <2>4. /\ a.migrated = app[d].migrated /\ a.iabFlag = app[d].iabFlag
        /\ a.localRnti = app[d].localRnti /\ a.imsiRnti[MT] = app[d].imsiRnti[MT]
    BY <2>1, <2>3 DEF DoUeContextRelease, AppStates
  <2>5. app' = [app EXCEPT ![d] = a]
    BY <1>0, <1>9, <2>1 DEF RemoveUe
  <2> QED BY <1>2, <1>9, <2>2, <2>4, <2>5
<1>10. CASE RecvUeContextRelease
  <2>1. PICK m \in x2 : RemoveUe(m.src)
    BY <1>10 DEF RecvUeContextRelease
  <2>2. m.src \in Donors
    BY DEF IInv, TypeOK, X2Msgs
  <2>3. UNCHANGED <<mt, deferred, numIab>>
    BY <1>10 DEF RecvUeContextRelease, scenVars
  <2> QED BY <1>9, <2>1, <2>2, <2>3
<1>11. CASE HandoverLeavingTimeout
  <2>1. PICK d \in Donors : RemoveUe(d)
    BY <1>11 DEF HandoverLeavingTimeout
  <2>2. UNCHANGED <<mt, deferred, numIab>>
    BY <1>11 DEF HandoverLeavingTimeout, scenVars
  <2> QED BY <1>9, <2>1, <2>2
<1>12. CASE \/ SkipHandover \/ RecvHandoverRequest \/ RecvHandoverRequestAck
            \/ HandoverJoiningTimeout \/ MmePathSwitchRequest
            \/ RecvRrcConnectionReconfiguration \/ RecvRrcConnectionReconfigurationCompleted
            \/ DoPathSwitchRequestAcknowledge \/ SendUplink \/ RecvFromLteSocket
            \/ UNCHANGED vars
  BY <1>3, <1>12
  DEF SkipHandover, RecvHandoverRequest, RecvHandoverRequestAck, HandoverJoiningTimeout, Abort,
      MmePathSwitchRequest, DoPathSwitchRequestAcknowledge, SendUplink, RecvFromLteSocket,
      RecvRrcConnectionReconfiguration, RecvRrcConnectionReconfigurationCompleted,
      vars, rrcVars, scenVars
<1>13. CASE TriggerIabBackhaulHandover
  BY <1>3, <1>13 DEF TriggerIabBackhaulHandover, Abort, rrcVars, scenVars
<1> QED
  BY <1>4, <1>5, <1>6, <1>7, <1>8, <1>10, <1>11, <1>12, <1>13 DEF Next, Handlers, Environment

\* No donor ever forgets a suppression, and none is ever made for the IAB-MT.
LEMMA MigratedGrows ==
  ASSUME IInv, [Next]_vars, NEW e \in Donors
  PROVE  /\ app[e].migrated \subseteq app'[e].migrated
         /\ app'[e].migrated \subseteq app[e].migrated \cup Descendants
         /\ app'[e].imsiRnti[MT] \in {app[e].imsiRnti[MT], RntiOf[e]}
<1>1. CASE RelayStays
  BY <1>1 DEF RelayStays, AppKept
<1>2. CASE RelayMoves
  BY <1>2 DEF RelayMoves, MigratedFrom
<1> QED BY <1>1, <1>2, Movement

LEMMA PathSwitchKnownStep == IInv /\ TunnelInv /\ [Next]_vars => PathSwitchKnown'
<1> SUFFICES ASSUME IInv, TunnelInv, [Next]_vars PROVE PathSwitchKnown'
  OBVIOUS
<1>0. mt.cell \in Donors /\ MT \notin Descendants /\ MT \in Imsis
      /\ ueMgr \in [Donors -> UeStates] /\ app \in [Donors -> AppStates]
  BY Positions, OwnerImsi DEF IInv, TypeOK
<1>1. \A d \in Donors : MT \notin app'[d].migrated
  BY <1>0, MigratedGrows DEF TunnelInv, PathSwitchKnown
<1>2. ASSUME ueMgr'[mt'.cell] = "HANDOVER_PATH_SWITCH"
      PROVE  app'[mt'.cell].imsiRnti[MT] = RntiOf[mt'.cell]
  <2>1. CASE /\ mt'.cell = mt.cell /\ ueMgr[mt.cell] = "HANDOVER_PATH_SWITCH"
    BY <1>0, <2>1, MigratedGrows DEF TunnelInv, PathSwitchKnown
  <2>2. CASE RecvHandoverCompleted
    <3>1. PICK m \in air :
            /\ m.type = "COMPLETE" /\ ueMgr[m.tgt] = "HANDOVER_JOINING"
            /\ ueMgr' = [ueMgr EXCEPT ![m.tgt] = "HANDOVER_PATH_SWITCH"]
            /\ app' = [app EXCEPT ![m.tgt] = DoPathSwitchRequest(@, RntiOf[m.tgt])]
      BY <2>2 DEF RecvHandoverCompleted
    <3>2. mt' = mt
      BY <2>2 DEF RecvHandoverCompleted
    <3>3. m.tgt = mt.cell
      BY <3>1 DEF IInv, HandoverInv, AirConsistent
    <3>4. app'[mt.cell] = DoPathSwitchRequest(app[mt.cell], RntiOf[mt.cell])
      BY <1>0, <3>1, <3>3
    <3>5. app[mt.cell] \in AppStates
      BY <1>0
    <3>6. app'[mt.cell].imsiRnti[MT] = RntiOf[mt.cell]
      BY <1>0, <3>4, <3>5 DEF DoPathSwitchRequest, AppStates
    <3> QED BY <3>2, <3>6
  <2>3. CASE ~RecvHandoverCompleted
    <3>1. CASE RecvHandoverCommand
      <4>1. PICK m \in air : m.type = "HO_CMD" /\ mt'.cell = m.tgt
        BY <3>1 DEF RecvHandoverCommand
      <4>2. ueMgr' = ueMgr /\ ueMgr[m.tgt] = "HANDOVER_JOINING"
        BY <3>1, <4>1 DEF RecvHandoverCommand, rrcVars, IInv, HandoverInv,
                          AirConsistent
      <4> QED BY <1>2, <4>1, <4>2
    <3>2. CASE ~RecvHandoverCommand
      <4>1. mt'.cell = mt.cell
        <5>1. CASE UNCHANGED mt
          BY <5>1
        <5>2. CASE RandomAccessSuccessful
          BY <5>2, EndPosition
        <5>3. CASE RandomAccessFailed
          BY <5>3 DEF RandomAccessFailed, IInv, TypeOK, MtStates
        <5> QED
          BY <2>3, <3>2, <5>1, <5>2, <5>3
          DEF Next, Handlers, Environment, SkipHandover, RecvHandoverRequest,
              RecvHandoverRequestAck, HandoverJoiningTimeout, Abort, MmePathSwitchRequest,
              DoPathSwitchRequestAcknowledge, SendUplink, RecvFromLteSocket, vars,
              TriggerIabBackhaulHandover, DeferredMigration, RecvUeContextRelease,
              HandoverLeavingTimeout, RecvRrcConnectionReconfiguration,
              RecvRrcConnectionReconfigurationCompleted
      <4>2. ueMgr[mt.cell] = "HANDOVER_PATH_SWITCH"
        <5>1. CASE UNCHANGED ueMgr
          BY <1>2, <4>1, <5>1
        <5>2. ASSUME NEW d \in Donors, NEW st \in UeStates \ {"HANDOVER_PATH_SWITCH"},
                     ueMgr' = [ueMgr EXCEPT ![d] = st]
              PROVE  ueMgr[mt.cell] = "HANDOVER_PATH_SWITCH"
          BY <1>0, <1>2, <4>1, <5>2
        <5>3. CASE TriggerIabBackhaulHandover
          <6>1. ho.next \in Donors
            BY DEF IInv, TypeOK, HoStates
          <6> QED
            BY <5>1, <5>2, <5>3, <6>1
            DEF TriggerIabBackhaulHandover, Abort, PrepareHandover, StartHandover, rrcVars,
                UeStates
        <5>4. CASE RecvHandoverRequest
          BY <5>2, <5>4 DEF RecvHandoverRequest, IInv, TypeOK, X2Msgs, UeStates
        <5>5. CASE RecvHandoverRequestAck
          BY <5>2, <5>5 DEF RecvHandoverRequestAck, IInv, TypeOK, X2Msgs, UeStates
        <5>6. CASE RecvUeContextRelease
          BY <5>2, <5>6 DEF RecvUeContextRelease, RemoveUe, IInv, TypeOK, X2Msgs, UeStates
        <5>7. CASE HandoverLeavingTimeout
          BY <5>2, <5>7 DEF HandoverLeavingTimeout, RemoveUe, UeStates
        <5>8. CASE DoPathSwitchRequestAcknowledge
          <6>1. s1apDown \in Seq(S1apMsgs) /\ s1apDown # <<>>
            BY <5>8 DEF DoPathSwitchRequestAcknowledge, IInv, TypeOK
          <6>2. PICK n : n = Head(s1apDown)
            OBVIOUS
          <6>3. n \in S1apMsgs
            BY <6>1, <6>2, TailParts
          <6>4. n.donor \in Donors
            BY <6>3 DEF S1apMsgs
          <6> QED
            BY <5>1, <5>2, <5>8, <6>2, <6>4
            DEF DoPathSwitchRequestAcknowledge, SendUeContextRelease,
                SwitchToConnectedNormally, UeStates
        <5>9. CASE RecvRrcConnectionReconfigurationCompleted
          BY <5>2, <5>9, CompletedEffects DEF UeStates
        <5> QED
          BY <2>3, <3>2, <5>1, <5>3, <5>4, <5>5, <5>6, <5>7, <5>8, <5>9
          DEF Next, Handlers, Environment, SkipHandover, HandoverJoiningTimeout, Abort,
              MmePathSwitchRequest, SendUplink, RecvFromLteSocket, vars, rrcVars,
              DeferredMigration, RandomAccessSuccessful, RandomAccessFailed,
              RecvRrcConnectionReconfiguration
      <4> QED BY <2>1, <4>1, <4>2
    <3> QED BY <3>1, <3>2
  <2> QED BY <2>2, <2>3
<1> QED BY <1>1, <1>2 DEF PathSwitchKnown

\* What leaves the head of a queue leaves the rest suppressed.
LEMMA SuppressedTail ==
  ASSUME NEW q \in Seq(S1apMsgs), q # <<>>, SuppressedIn(q)
  PROVE  SuppressedIn(Tail(q))
<1>1. \A k \in 1 .. Len(Tail(q)) : Tail(q)[k] = q[k + 1] /\ k + 1 \in 1 .. Len(q)
  BY TailParts
<1> QED BY <1>1 DEF SuppressedIn

LEMMA SuppressedAppend ==
  ASSUME NEW q \in Seq(S1apMsgs), NEW m \in S1apMsgs, SuppressedIn(q),
         m.imsi # MT => m.imsi \in ImsisOf(Flows) /\ m.imsi \in app[m.donor].migrated
  PROVE  SuppressedIn(Append(q, m))
<1>1. ASSUME NEW k \in 1 .. Len(Append(q, m))
      PROVE  LET n == Append(q, m)[k] IN
             n.imsi # MT => n.imsi \in ImsisOf(Flows) /\ n.imsi \in app[n.donor].migrated
  <2>1. k \in 1 .. Len(q) \/ k = Len(q) + 1
    BY AppendParts
  <2> QED BY <2>1, AppendParts DEF SuppressedIn
<1> QED BY <1>1 DEF SuppressedIn

\* A suppression outlives every step.
LEMMA SuppressedLater ==
  ASSUME IInv, [Next]_vars, NEW q \in Seq(S1apMsgs), SuppressedIn(q)
  PROVE  \A k \in 1 .. Len(q) :
           q[k].imsi # MT => q[k].imsi \in ImsisOf(Flows) /\ q[k].imsi \in app'[q[k].donor].migrated
<1> SUFFICES ASSUME NEW k \in 1 .. Len(q), q[k].imsi # MT
             PROVE  q[k].imsi \in ImsisOf(Flows) /\ q[k].imsi \in app'[q[k].donor].migrated
  OBVIOUS
<1>1. PICK n \in S1apMsgs : n = q[k]
  OBVIOUS
<1>2. n.donor \in Donors
  BY DEF S1apMsgs
<1>3. n.imsi \in ImsisOf(Flows) /\ n.imsi \in app[n.donor].migrated
  BY <1>1 DEF SuppressedIn
<1> QED BY <1>1, <1>2, <1>3, MigratedGrows

\* How the two queues, the SGW's tunnels and the relay state change together.
MmeStep ==
  /\ s1apUp # <<>> /\ s1apUp' = Tail(s1apUp)
  /\ s1apDown' = Append(s1apDown, Head(s1apUp))
  /\ sgw' = [sgw EXCEPT ![Head(s1apUp).imsi] = Head(s1apUp).donor]
  /\ RelayStays
  /\ UNCHANGED <<mt, ueMgr, app, deferred>>

QueueSteps ==
  \/ RelayStays /\ UNCHANGED <<s1apUp, s1apDown, sgw>>
  \/ /\ RelayStays /\ UNCHANGED <<s1apDown, sgw>>
     /\ s1apUp' = Append(s1apUp, S1apMsg(mt.cell, MT))
  \/ /\ RelayMoves /\ UNCHANGED <<s1apDown, sgw>>
     /\ \E r : Requests(r, Holder + 1) /\ s1apUp' = s1apUp \o r
  \/ MmeStep
  \/ /\ RelayStays /\ UNCHANGED <<s1apUp, sgw>>
     /\ s1apDown # <<>> /\ s1apDown' = Tail(s1apDown)

LEMMA QueueStep ==
  ASSUME IInv, [Next]_vars
  PROVE  QueueSteps
<1>1. CASE RelayMoves
  BY <1>1 DEF RelayMoves, MigratedFrom, QueueSteps
<1>2. CASE RelayStays /\ UNCHANGED <<s1apUp, s1apDown, sgw>>
  BY <1>2 DEF QueueSteps
<1>3. CASE RelayStays
  <2>1. CASE MmePathSwitchRequest
    BY <1>3, <2>1 DEF MmePathSwitchRequest, MmeStep, QueueSteps, rrcVars, scenVars
  <2>2. CASE DeferredMigration \/ RandomAccessSuccessful
    <3>1. UNCHANGED <<s1apDown, sgw>>
      BY <2>2 DEF DeferredMigration, RandomAccessSuccessful
    <3>2. PICK h \in Nat : h = Holder
      BY Positions
    <3>3. UNCHANGED s1apUp
      BY <1>3, <2>2, <3>2, DeferredPosition, EndPosition DEF RelayStays
    <3> QED BY <1>2, <1>3, <3>1, <3>3
  <2>3. CASE RecvHandoverCompleted
    <3>1. PICK m \in air : m.type = "COMPLETE" /\ s1apUp' = Append(s1apUp, S1apMsg(m.tgt, MT))
      BY <2>3 DEF RecvHandoverCompleted
    <3>2. UNCHANGED <<s1apDown, sgw>>
      BY <2>3 DEF RecvHandoverCompleted
    <3>3. m.tgt = mt.cell
      BY <3>1 DEF IInv, HandoverInv, AirConsistent
    <3> QED BY <1>3, <3>1, <3>2, <3>3 DEF QueueSteps
  <2>4. CASE DoPathSwitchRequestAcknowledge
    <3>1. s1apDown # <<>> /\ (s1apDown' = s1apDown \/ s1apDown' = Tail(s1apDown))
          /\ UNCHANGED <<s1apUp, sgw>>
      BY <2>4 DEF DoPathSwitchRequestAcknowledge
    <3> QED BY <1>3, <3>1 DEF QueueSteps
  <2> QED
    BY <1>2, <1>3, <2>1, <2>2, <2>3, <2>4
    DEF Next, Handlers, Environment, SkipHandover, TriggerIabBackhaulHandover, Abort,
        RecvHandoverRequest, RecvHandoverRequestAck, RecvHandoverCommand,
        RecvRrcConnectionReconfiguration, RecvRrcConnectionReconfigurationCompleted,
        RandomAccessFailed, RecvUeContextRelease, HandoverLeavingTimeout,
        HandoverJoiningTimeout, SendUplink, RecvFromLteSocket, vars, rrcVars, netVars
<1> QED BY <1>1, <1>3, Movement

LEMMA SuppressedStep == IInv /\ TunnelInv /\ [Next]_vars => Suppressed'
<1> SUFFICES ASSUME IInv, TunnelInv, [Next]_vars PROVE Suppressed'
  OBVIOUS
<1>0. /\ s1apUp \in Seq(S1apMsgs) /\ s1apDown \in Seq(S1apMsgs) /\ mt.cell \in Donors
      /\ MT \in Imsis /\ SuppressedIn(s1apUp) /\ SuppressedIn(s1apDown)
  BY Positions, OwnerImsi DEF IInv, TypeOK, TunnelInv, Suppressed
<1>1. ASSUME NEW q \in Seq(S1apMsgs), SuppressedIn(q),
             (s1apUp' = q \/ s1apDown' = q)
      PROVE  (s1apUp' = q => SuppressedIn(s1apUp)') /\ (s1apDown' = q => SuppressedIn(s1apDown)')
  BY <1>1, SuppressedLater DEF SuppressedIn
<1>2. CASE s1apUp' = s1apUp /\ s1apDown' = s1apDown
  BY <1>0, <1>1, <1>2 DEF Suppressed
<1>3. CASE s1apUp' = Append(s1apUp, S1apMsg(mt.cell, MT)) /\ s1apDown' = s1apDown
  <2>1. PICK m : m = S1apMsg(mt.cell, MT)
    OBVIOUS
  <2>2. m \in S1apMsgs /\ m.imsi = MT
    BY <1>0, <2>1 DEF S1apMsg, S1apMsgs
  <2>3. SuppressedIn(Append(s1apUp, m)) /\ Append(s1apUp, m) \in Seq(S1apMsgs)
    BY <1>0, <2>2, SuppressedAppend, AppendParts
  <2> QED BY <1>0, <1>1, <1>3, <2>1, <2>3 DEF Suppressed
<1>4. CASE (\E r : Requests(r, Holder + 1) /\ s1apUp' = s1apUp \o r) /\ s1apDown' = s1apDown
           /\ RelayMoves
  <2>1. PICK r : Requests(r, Holder + 1) /\ s1apUp' = s1apUp \o r
    BY <1>4
  <2>2. PICK h \in Nat : h = Holder
    BY Positions
  <2>3. ImsisOf(Flows) \subseteq app'[h + 1].migrated
    BY <1>4, <2>2 DEF RelayMoves, MigratedFrom
  <2>4. ASSUME NEW k \in 1 .. Len(s1apUp \o r)
        PROVE  LET n == (s1apUp \o r)[k] IN
               n.imsi # MT => n.imsi \in ImsisOf(Flows) /\ n.imsi \in app'[n.donor].migrated
    <3>1. CASE k \in 1 .. Len(s1apUp) /\ (s1apUp \o r)[k] = s1apUp[k]
      BY <1>0, <3>1, SuppressedLater
    <3>2. CASE k - Len(s1apUp) \in 1 .. Len(r) /\ (s1apUp \o r)[k] = r[k - Len(s1apUp)]
      BY <2>1, <2>2, <2>3, <3>2 DEF Requests
    <3>3. r \in Seq(S1apMsgs)
      BY <2>1 DEF Requests
    <3> QED BY <1>0, <3>1, <3>2, <3>3, FromConcat
  <2>5. SuppressedIn(s1apUp)'
    BY <2>1, <2>4 DEF SuppressedIn
  <2> QED BY <1>0, <1>1, <1>4, <2>5 DEF Suppressed
<1>5. CASE s1apUp # <<>> /\ s1apUp' = Tail(s1apUp) /\ s1apDown' = Append(s1apDown, Head(s1apUp))
  <2>1. PICK n : n = Head(s1apUp)
    OBVIOUS
  <2>2. n \in S1apMsgs /\ n = s1apUp[1] /\ 1 \in 1 .. Len(s1apUp) /\ Tail(s1apUp) \in Seq(S1apMsgs)
    BY <1>0, <1>5, <2>1, TailParts
  <2>3. n.imsi # MT => n.imsi \in ImsisOf(Flows) /\ n.imsi \in app[n.donor].migrated
    BY <1>0, <2>2 DEF SuppressedIn
  <2>4. SuppressedIn(Tail(s1apUp))
    BY <1>0, <1>5, SuppressedTail
  <2>5. SuppressedIn(Append(s1apDown, n)) /\ Append(s1apDown, n) \in Seq(S1apMsgs)
    BY <1>0, <2>2, <2>3, SuppressedAppend, AppendParts
  <2> QED BY <1>1, <1>5, <2>1, <2>2, <2>4, <2>5 DEF Suppressed
<1>6. CASE s1apDown # <<>> /\ s1apDown' = Tail(s1apDown) /\ s1apUp' = s1apUp
  <2>1. SuppressedIn(Tail(s1apDown)) /\ Tail(s1apDown) \in Seq(S1apMsgs)
    BY <1>0, <1>6, SuppressedTail, TailParts
  <2> QED BY <1>0, <1>1, <1>6, <2>1 DEF Suppressed
<1> QED BY <1>2, <1>3, <1>4, <1>5, <1>6, QueueStep DEF QueueSteps, MmeStep

-----------------------------------------------------------------------------
(***************************************************************************)
(* The descendants' tunnels.                                               *)
(***************************************************************************)
\* The path switches of descendant i that the MME has not processed are at
\* donors between its tunnel and the relay state, in order, none missing.
Follows(i) ==
  /\ sgw[i] <= Holder
  /\ \A k \in 1 .. Len(s1apUp) :
       s1apUp[k].imsi = i => sgw[i] <= s1apUp[k].donor /\ s1apUp[k].donor <= Holder
  /\ \A j, k \in 1 .. Len(s1apUp) :
       j < k /\ s1apUp[j].imsi = i /\ s1apUp[k].imsi = i => s1apUp[j].donor <= s1apUp[k].donor
  /\ i \in ImsisOf(Flows) =>
       \A e \in Donors :
         sgw[i] < e /\ e <= Holder => \E k \in 1 .. Len(s1apUp) : s1apUp[k] = S1apMsg(e, i)

DescendantTunnels == \A i \in Descendants : Follows(i)

\* Only what concerns i in the queue matters.
LEMMA FollowsKept ==
  ASSUME NEW i, Follows(i), UNCHANGED <<s1apUp, sgw>>, Holder' = Holder
  PROVE  Follows(i)'
BY DEF Follows

LEMMA FollowsAppend ==
  ASSUME IInv, NEW i \in Descendants, Follows(i), sgw' = sgw, Holder' = Holder,
         s1apUp' = Append(s1apUp, S1apMsg(mt.cell, MT))
  PROVE  Follows(i)'
<1>1. PICK m : m = S1apMsg(mt.cell, MT)
  OBVIOUS
<1>2. m \in S1apMsgs /\ m.imsi # i
  BY <1>1, Positions, OwnerImsi DEF S1apMsg, S1apMsgs
<1>3. s1apUp \in Seq(S1apMsgs)
  BY DEF IInv, TypeOK
<1>4. /\ Len(s1apUp) \in Nat /\ Len(s1apUp') = Len(s1apUp) + 1
      /\ \A k \in 1 .. Len(s1apUp) : s1apUp'[k] = s1apUp[k]
      /\ s1apUp'[Len(s1apUp) + 1] = m
  BY <1>1, <1>2, <1>3, AppendParts
<1>5. \A k \in 1 .. Len(s1apUp') : s1apUp'[k].imsi = i => k \in 1 .. Len(s1apUp)
  BY <1>2, <1>4
<1>6. \A k \in 1 .. Len(s1apUp) : k \in 1 .. Len(s1apUp')
  BY <1>4
<1> QED BY <1>4, <1>5, <1>6 DEF Follows

LEMMA FollowsMigration ==
  ASSUME IInv, NEW i \in Descendants, Follows(i), sgw' = sgw, Holder' = Holder + 1,
         NEW r, Requests(r, Holder + 1), s1apUp' = s1apUp \o r
  PROVE  Follows(i)'
<1>1. PICK h \in Nat : h = Holder
  BY Positions
<1>2. s1apUp \in Seq(S1apMsgs) /\ r \in Seq(S1apMsgs)
  BY DEF IInv, TypeOK, Requests
<1>3. /\ Len(s1apUp) \in Nat /\ Len(r) \in Nat /\ Len(s1apUp') = Len(s1apUp) + Len(r)
      /\ \A k \in 1 .. Len(s1apUp) : s1apUp'[k] = s1apUp[k]
      /\ \A k \in 1 .. Len(r) : s1apUp'[Len(s1apUp) + k] = r[k]
  BY <1>2, ConcatParts
<1>4. ASSUME NEW k \in 1 .. Len(s1apUp')
      PROVE  \/ k \in 1 .. Len(s1apUp) /\ s1apUp'[k] = s1apUp[k]
             \/ k > Len(s1apUp) /\ s1apUp'[k].donor = h + 1
  <2>1. CASE k - Len(s1apUp) \in 1 .. Len(r) /\ s1apUp'[k] = r[k - Len(s1apUp)]
    BY <1>1, <1>3, <2>1 DEF Requests
  <2> QED BY <1>2, <2>1, FromConcat
<1>5. PICK t \in Nat : t = sgw[i]
  BY OwnerImsi, Positions DEF IInv, TypeOK
<1>6. /\ t <= h
      /\ \A k \in 1 .. Len(s1apUp) :
           s1apUp[k].imsi = i => t <= s1apUp[k].donor /\ s1apUp[k].donor <= h
      /\ \A k \in 1 .. Len(s1apUp) : s1apUp[k].donor \in Nat
  <2>1. t <= h
    BY <1>1, <1>5 DEF Follows
  <2>2. \A k \in 1 .. Len(s1apUp) :
          s1apUp[k].imsi = i => t <= s1apUp[k].donor /\ s1apUp[k].donor <= h
    BY <1>1, <1>5 DEF Follows
  <2>3. ASSUME NEW k \in 1 .. Len(s1apUp) PROVE s1apUp[k].donor \in Nat
    <3>1. PICK n \in S1apMsgs : n = s1apUp[k]
      BY <1>2
    <3> QED BY <3>1, Positions DEF S1apMsgs
  <2> QED BY <2>1, <2>2, <2>3
<1>7. ASSUME NEW k \in 1 .. Len(s1apUp'), s1apUp'[k].imsi = i
      PROVE  t <= s1apUp'[k].donor /\ s1apUp'[k].donor <= h + 1
  BY <1>4, <1>6, <1>7
<1>8. ASSUME NEW j \in 1 .. Len(s1apUp'), NEW k \in 1 .. Len(s1apUp'), j < k,
             s1apUp'[j].imsi = i, s1apUp'[k].imsi = i
      PROVE  s1apUp'[j].donor <= s1apUp'[k].donor
  <2>1. CASE k \in 1 .. Len(s1apUp) /\ s1apUp'[k] = s1apUp[k]
    <3>1. j \in 1 .. Len(s1apUp) /\ s1apUp'[j] = s1apUp[j]
      BY <1>3, <1>8, <2>1
    <3> QED BY <1>8, <2>1, <3>1 DEF Follows
  <2>2. CASE s1apUp'[k].donor = h + 1
    BY <1>7, <1>8, <2>2
  <2> QED BY <1>4, <2>1, <2>2
<1>9. ASSUME i \in ImsisOf(Flows), NEW e \in Donors, t < e, e <= h + 1
      PROVE  \E k \in 1 .. Len(s1apUp') : s1apUp'[k] = S1apMsg(e, i)
  <2>1. CASE e <= h
    <3>1. PICK k \in 1 .. Len(s1apUp) : s1apUp[k] = S1apMsg(e, i)
      BY <1>1, <1>5, <1>9, <2>1 DEF Follows
    <3>2. k \in 1 .. Len(s1apUp')
      BY <1>3
    <3> QED BY <1>3, <3>1, <3>2
  <2>2. CASE e = h + 1
    <3>1. PICK f \in Flows : Owner[f] = i
      BY <1>9 DEF ImsisOf
    <3>2. PICK k \in 1 .. Len(r) : r[k] = S1apMsg(h + 1, i)
      BY <1>1, <3>1 DEF Requests
    <3>3. Len(s1apUp) + k \in 1 .. Len(s1apUp')
      BY <1>3
    <3> QED BY <1>3, <2>2, <3>2, <3>3
  <2>3. e \in Nat
    BY Positions
  <2> QED BY <1>9, <2>1, <2>2, <2>3
<1> QED BY <1>1, <1>5, <1>6, <1>7, <1>8, <1>9 DEF Follows

\* The MME takes the next path switch of i one donor on, or finds it done.
LEMMA FollowsHead ==
  ASSUME IInv, NEW i \in Descendants, Follows(i), s1apUp # <<>>, Head(s1apUp).imsi = i
  PROVE  /\ sgw[i] <= Head(s1apUp).donor /\ Head(s1apUp).donor <= Holder
         /\ i \in ImsisOf(Flows) => Head(s1apUp).donor \in {sgw[i], sgw[i] + 1}
<1>1. PICK n : n = Head(s1apUp)
  OBVIOUS
<1>2. s1apUp \in Seq(S1apMsgs)
  BY DEF IInv, TypeOK
<1>3. n \in S1apMsgs /\ n = s1apUp[1] /\ 1 \in 1 .. Len(s1apUp) /\ Len(s1apUp) \in Nat
  BY <1>1, <1>2, TailParts
<1>4. PICK t \in Nat, h \in Nat, d \in Nat : t = sgw[i] /\ h = Holder /\ d = n.donor
  BY <1>3, OwnerImsi, Positions DEF IInv, TypeOK, S1apMsgs
<1>5. t <= d /\ d <= h
  BY <1>1, <1>3, <1>4 DEF Follows
<1>6. ASSUME i \in ImsisOf(Flows), d > t + 1 PROVE FALSE
  <2>1. PICK e \in Nat : e = t + 1
    OBVIOUS
  <2>2. e \in Donors
    <3>1. h \in Donors /\ t \in Donors
      BY <1>4, OwnerImsi, Positions DEF IInv, TypeOK
    <3> QED BY <1>5, <1>6, <2>1, <3>1, NumDonorsAssumption DEF Donors
  <2>3. PICK k \in 1 .. Len(s1apUp) : s1apUp[k] = S1apMsg(e, i)
    <3>1. t < e /\ e <= h
      BY <1>5, <1>6, <2>1
    <3> QED BY <1>4, <1>6, <2>2, <3>1 DEF Follows
  <2>4. s1apUp[k].donor = e /\ s1apUp[k].imsi = i
    BY <2>3 DEF S1apMsg
  <2>5. k # 1 /\ 1 < k
    BY <1>3, <1>4, <1>6, <2>1, <2>4
  <2>6. s1apUp[1].donor <= s1apUp[k].donor
    BY <1>1, <1>3, <2>4, <2>5 DEF Follows
  <2> QED BY <1>3, <1>4, <1>6, <2>1, <2>4, <2>6
<1> QED BY <1>1, <1>4, <1>5, <1>6

LEMMA FollowsMme ==
  ASSUME IInv, NEW i \in Descendants, Follows(i), MmeStep
  PROVE  Follows(i)'
<1>1. PICK n : n = Head(s1apUp)
  OBVIOUS
<1>2. /\ s1apUp \in Seq(S1apMsgs) /\ s1apUp # <<>> /\ s1apUp' = Tail(s1apUp)
      /\ sgw' = [sgw EXCEPT ![n.imsi] = n.donor] /\ sgw \in [Imsis -> Donors]
      /\ Holder' = Holder /\ i \in Imsis
  BY <1>1, OwnerImsi DEF IInv, TypeOK, MmeStep, RelayStays
<1>3. /\ Len(s1apUp) \in Nat \ {0} /\ n = s1apUp[1] /\ n \in S1apMsgs
      /\ \A k \in 1 .. Len(s1apUp') : s1apUp'[k] = s1apUp[k + 1] /\ k + 1 \in 2 .. Len(s1apUp)
      /\ \A k \in 2 .. Len(s1apUp) : s1apUp'[k - 1] = s1apUp[k] /\ k - 1 \in 1 .. Len(s1apUp')
  BY <1>1, <1>2, TailParts
<1>4. PICK t \in Nat, h \in Nat, d \in Nat : t = sgw[i] /\ h = Holder /\ d = n.donor
  BY <1>2, <1>3, Positions DEF S1apMsgs
<1>5. \A k \in 2 .. Len(s1apUp) : k \in 1 .. Len(s1apUp) /\ 1 < k
  BY <1>3
<1>6. \A j, k \in 1 .. Len(s1apUp') :
        j < k /\ s1apUp'[j].imsi = i /\ s1apUp'[k].imsi = i => s1apUp'[j].donor <= s1apUp'[k].donor
  <2> SUFFICES ASSUME NEW j \in 1 .. Len(s1apUp'), NEW k \in 1 .. Len(s1apUp'),
                      j < k, s1apUp'[j].imsi = i, s1apUp'[k].imsi = i
               PROVE  s1apUp'[j].donor <= s1apUp'[k].donor
    OBVIOUS
  <2>1. PICK a \in 1 .. Len(s1apUp), b \in 1 .. Len(s1apUp) : a = j + 1 /\ b = k + 1
    BY <1>3, <1>5
  <2>2. a < b /\ s1apUp'[j] = s1apUp[a] /\ s1apUp'[k] = s1apUp[b]
    BY <1>3, <2>1
  <2> QED BY <2>2 DEF Follows
<1>7. CASE n.imsi = i
  <2>1. sgw'[i] = d /\ t <= d /\ d <= h
    BY <1>1, <1>2, <1>4, <1>7, FollowsHead
  <2>2. ASSUME NEW k \in 1 .. Len(s1apUp'), s1apUp'[k].imsi = i
        PROVE  d <= s1apUp'[k].donor /\ s1apUp'[k].donor <= h
    <3>1. PICK b \in 1 .. Len(s1apUp) : b = k + 1 /\ 1 < b /\ s1apUp'[k] = s1apUp[b]
      BY <1>3, <1>5
    <3>2. 1 \in 1 .. Len(s1apUp)
      BY <1>3
    <3> QED BY <1>3, <1>4, <1>7, <2>2, <3>1, <3>2 DEF Follows
  <2>3. ASSUME i \in ImsisOf(Flows), NEW e \in Donors, d < e, e <= h
        PROVE  \E k \in 1 .. Len(s1apUp') : s1apUp'[k] = S1apMsg(e, i)
    <3>1. e \in Nat /\ t < e
      BY <2>1, <2>3, Positions
    <3>2. PICK b \in 1 .. Len(s1apUp) : s1apUp[b] = S1apMsg(e, i)
      BY <1>4, <2>3, <3>1 DEF Follows
    <3>3. b # 1
      BY <1>3, <1>4, <2>3, <3>1, <3>2 DEF S1apMsg
    <3>4. b \in 2 .. Len(s1apUp)
      BY <1>3, <3>3
    <3> QED BY <1>3, <3>2, <3>4
  <2> QED BY <1>2, <1>4, <1>6, <2>1, <2>2, <2>3 DEF Follows
<1>8. CASE n.imsi # i
  <2>1. sgw'[i] = t
    BY <1>2, <1>4, <1>8
  <2>2. ASSUME NEW k \in 1 .. Len(s1apUp'), s1apUp'[k].imsi = i
        PROVE  t <= s1apUp'[k].donor /\ s1apUp'[k].donor <= h
    <3>1. PICK b \in 1 .. Len(s1apUp) : s1apUp'[k] = s1apUp[b]
      BY <1>3, <1>5
    <3> QED BY <1>4, <2>2, <3>1 DEF Follows
  <2>3. ASSUME i \in ImsisOf(Flows), NEW e \in Donors, t < e, e <= h
        PROVE  \E k \in 1 .. Len(s1apUp') : s1apUp'[k] = S1apMsg(e, i)
    <3>2. PICK b \in 1 .. Len(s1apUp) : s1apUp[b] = S1apMsg(e, i)
      BY <1>4, <2>3 DEF Follows
    <3>3. b # 1
      BY <1>3, <1>8, <3>2 DEF S1apMsg
    <3>4. b \in 2 .. Len(s1apUp)
      BY <1>3, <3>3
    <3> QED BY <1>3, <3>2, <3>4
  <2> QED BY <1>2, <1>4, <1>6, <2>1, <2>2, <2>3 DEF Follows
<1> QED BY <1>7, <1>8

LEMMA DescendantTunnelsStep == IInv /\ DescendantTunnels /\ [Next]_vars => DescendantTunnels'
<1> SUFFICES ASSUME IInv, DescendantTunnels, [Next]_vars, NEW i \in Descendants
             PROVE  Follows(i)'
  BY DEF DescendantTunnels
<1>0. Follows(i)
  BY DEF DescendantTunnels
<1>1. CASE RelayStays /\ UNCHANGED <<s1apUp, s1apDown, sgw>>
  BY <1>0, <1>1, FollowsKept DEF RelayStays
<1>2. CASE /\ RelayStays /\ UNCHANGED <<s1apDown, sgw>>
           /\ s1apUp' = Append(s1apUp, S1apMsg(mt.cell, MT))
  BY <1>0, <1>2, FollowsAppend DEF RelayStays
<1>3. CASE /\ RelayMoves /\ UNCHANGED <<s1apDown, sgw>>
           /\ \E r : Requests(r, Holder + 1) /\ s1apUp' = s1apUp \o r
  BY <1>0, <1>3, FollowsMigration DEF RelayMoves
<1>4. CASE MmeStep
  BY <1>0, <1>4, FollowsMme
<1>5. CASE /\ RelayStays /\ UNCHANGED <<s1apUp, sgw>>
           /\ s1apDown # <<>> /\ s1apDown' = Tail(s1apDown)
  BY <1>0, <1>5, FollowsKept DEF RelayStays
<1> QED BY <1>1, <1>2, <1>3, <1>4, <1>5, QueueStep DEF QueueSteps

LEMMA DescendantTunnelsInit == Init => DescendantTunnels
<1> SUFFICES ASSUME Init, NEW i \in Descendants PROVE Follows(i)
  BY DEF DescendantTunnels
<1>1. sgw[i] = 1 /\ s1apUp = <<>> /\ Holder = 1
  BY OwnerImsi DEF Init, Holder, Serving
<1>2. Len(s1apUp) = 0
  BY <1>1
<1>3. \A e \in Donors : ~(1 < e /\ e <= 1)
  BY DEF Donors
<1> QED BY <1>1, <1>2, <1>3 DEF Follows

-----------------------------------------------------------------------------
(***************************************************************************)
(* Refinement of IabRelay.                                                 *)
(***************************************************************************)
\* The donor that has the flows in m_teidRemoteMap is the one that IabRelay
\* calls the home of the relay state.
LEMMA HomeIsHolder == IInv => Home = Holder
<1> SUFFICES ASSUME IInv PROVE Home = Holder
  OBVIOUS
<1>1. PICK h \in Donors : h = Holder /\ RelayAt(h)
  BY DEF IInv, RelayHeld
<1>2. Flows \subseteq app[h].remote
  BY <1>1 DEF RelayAt, HasRelay
<1>3. ASSUME NEW e \in Donors, Flows \subseteq app[e].remote PROVE e = h
  BY <1>1, <1>3, FlowAssumption DEF RelayAt
<1>4. Home \in Donors /\ Flows \subseteq app[Home].remote
  BY <1>2 DEF Home
<1> QED BY <1>1, <1>3, <1>4

\* A path switch at the MME re-points one tunnel, one donor on, or none.
LEMMA MmeRefines ==
  ASSUME IInv, TunnelInv, DescendantTunnels, MmeStep
  PROVE  \/ sgw' = sgw
         \/ \E i \in Imsis : /\ sgw[i] < (IF i = MT THEN Serving ELSE Holder)
                             /\ sgw' = [sgw EXCEPT ![i] = sgw[i] + 1]
<1>0. /\ s1apUp \in Seq(S1apMsgs) /\ sgw \in [Imsis -> Donors] /\ s1apUp # <<>>
      /\ mt.cell \in Donors /\ Donors \subseteq Nat /\ ueMgr \in [Donors -> UeStates]
  BY Positions DEF IInv, TypeOK, MmeStep
<1>1. PICK n : n = Head(s1apUp)
  OBVIOUS
<1>2. n \in S1apMsgs /\ n = s1apUp[1] /\ 1 \in 1 .. Len(s1apUp)
  BY <1>0, <1>1, TailParts
<1>3. n.imsi \in Imsis /\ n.donor \in Donors /\ sgw' = [sgw EXCEPT ![n.imsi] = n.donor]
  BY <1>1, <1>2 DEF S1apMsgs, MmeStep
<1>4. CASE n.imsi = MT
  <2>1. ~NoneFor(s1apUp, MT)
    BY <1>2, <1>4 DEF NoneFor
  <2>2. ueMgr[mt.cell] \in UeStates
    BY <1>0
  <2>3. /\ ueMgr[mt.cell] = "HANDOVER_PATH_SWITCH" /\ sgw[MT] = mt.cell - 1
        /\ OnlyOne(s1apUp, S1apMsg(mt.cell, MT))
    BY <2>1, <2>2 DEF TunnelInv, MtTunnel, NoMtMessage, UeStates, Quiet
  <2>4. \E m : m = S1apMsg(mt.cell, MT) /\ m.imsi = MT /\ m.donor = mt.cell
    <3>1. PICK m : m = S1apMsg(mt.cell, MT)
      OBVIOUS
    <3>2. m.imsi = MT /\ m.donor = mt.cell
      BY <3>1 DEF S1apMsg
    <3> QED BY <3>1, <3>2
  <2>5. PICK m : m = S1apMsg(mt.cell, MT) /\ m.imsi = MT /\ m.donor = mt.cell
    BY <2>4
  <2>6. PICK c \in Nat : c = mt.cell
    BY <1>0
  <2>10. n = m
    BY <1>0, <1>1, <1>4, <2>3, <2>5, OnlyHead
  <2>7. Serving = mt.cell
    BY <2>3, Positions DEF TunnelInv, MtTunnel
  <2>8. sgw[MT] < Serving /\ n.donor = sgw[MT] + 1
    BY <2>3, <2>5, <2>6, <2>7, <2>10
  <2> QED BY <1>3, <1>4, <2>8
<1>5. CASE n.imsi # MT
  <2>1. PICK i \in Descendants : i = n.imsi
    BY <1>3, <1>5 DEF Imsis
  <2>2. i \in ImsisOf(Flows) /\ i # MT
    BY <1>2, <1>5, <2>1 DEF TunnelInv, Suppressed, SuppressedIn
  <2>3. Follows(i)
    BY DEF DescendantTunnels
  <2>4. sgw[i] <= n.donor /\ n.donor <= Holder /\ n.donor \in {sgw[i], sgw[i] + 1}
    BY <1>0, <1>1, <2>1, <2>2, <2>3, FollowsHead
  <2>5. CASE n.donor = sgw[i]
    BY <1>0, <1>3, <2>1, <2>5
  <2>6. CASE n.donor = sgw[i] + 1
    <3>1. PICK t \in Nat, h \in Nat : t = sgw[i] /\ h = Holder
      BY <1>0, <1>3, <2>1, Positions
    <3>2. sgw[i] < Holder
      BY <2>4, <2>6, <3>1
    <3> QED BY <1>3, <2>1, <2>2, <2>6, <3>2
  <2> QED BY <2>4, <2>5, <2>6
<1> QED BY <1>4, <1>5

LEMMA RefinesRelayStep ==
  ASSUME IInv, IInv', TunnelInv, DescendantTunnels, [Next]_vars,
         Home = Holder, Home' = Holder'
  PROVE  [Relay!RelayNext]_(Relay!relayVars)
<1>1. PICK h \in Nat, s \in Nat : h = Holder /\ s = Serving
  BY Positions
<1>2. ASSUME Serving' = Serving, Holder' = Holder, sgw' = sgw
      PROVE  UNCHANGED Relay!relayVars
  BY <1>2 DEF Relay!relayVars
<1>3. CASE MmeStep
  <2>1. Serving' = Serving /\ Holder' = Holder
    BY <1>3 DEF MmeStep, RelayStays, Serving
  <2>2. CASE sgw' = sgw
    BY <1>2, <2>1, <2>2
  <2>3. ASSUME NEW i \in Imsis, sgw[i] < (IF i = MT THEN Serving ELSE Holder),
               sgw' = [sgw EXCEPT ![i] = sgw[i] + 1]
        PROVE  Relay!RelayNext
    BY <2>1, <2>3 DEF Relay!RelayNext, Relay!Repoint, Imsis
  <2> QED BY <1>3, <2>2, <2>3, MmeRefines
<1>4. CASE ~MmeStep
  <2>1. sgw' = sgw
    BY <1>4, QueueStep DEF QueueSteps
  <2>2. CASE Serving' = Serving /\ RelayStays
    BY <1>2, <2>1, <2>2 DEF RelayStays
  <2>3. CASE Serving' = Serving /\ RelayMoves
    <3>1. Holder' = h + 1
      BY <1>1, <2>3 DEF RelayMoves
    <3>2. Len(deferred') \in Nat
      BY DEF IInv, TypeOK
    <3>3. Holder' <= s
      BY <1>1, <2>3, <3>2 DEF Holder
    <3>4. h < s
      BY <1>1, <3>1, <3>3
    <3> QED BY <1>1, <2>1, <2>3, <3>1, <3>4 DEF Relay!RelayNext, Relay!MoveRelay
  <2>4. CASE /\ Serving' = Serving + 1 /\ Serving < NumDonors
             /\ \/ ExecDelay /\ RelayStays /\ s1apUp' = s1apUp
                \/ ~ExecDelay /\ RelayMoves /\ Holder' = Serving'
    <3>1. Holder' = Holder \/ (Holder = Serving /\ Holder' = Serving')
      BY <2>4, Positions DEF RelayStays
    <3> QED BY <2>1, <2>4, <3>1 DEF Relay!RelayNext, Relay!Reparent
  <2> QED BY <2>2, <2>3, <2>4, Movement
<1> QED BY <1>3, <1>4

LEMMA RefinesRelayInit == Init /\ Home = Holder => Relay!RelayInit
<1> SUFFICES ASSUME Init, Home = Holder PROVE Relay!RelayInit
  OBVIOUS
<1>1. Serving = 1 /\ Holder = 1 /\ sgw = [i \in Imsis |-> 1]
  BY DEF Init, Serving, Holder
<1> QED BY <1>1 DEF Relay!RelayInit, Imsis

-----------------------------------------------------------------------------
(***************************************************************************)
(* Acknowledgements and releases.                                          *)
(***************************************************************************)
\* An acknowledgement either is a descendant's, and is suppressed, or ends
\* the path switch of the IAB-MT at its own donor, after the SGW's.
LEMMA AckEffects ==
  ASSUME IInv, TunnelInv, DoPathSwitchRequestAcknowledge
  PROVE  /\ fault' = fault
         /\ \/ UNCHANGED <<ueMgr, postponed, x2, air>>
            \/ /\ ueMgr[mt.cell] = "HANDOVER_PATH_SWITCH" /\ sgw[MT] = mt.cell
               /\ SendUeContextRelease(mt.cell)
<1>0. /\ s1apDown \in Seq(S1apMsgs) /\ s1apDown # <<>> /\ mt.cell \in Donors
      /\ ueMgr \in [Donors -> UeStates]
  BY Positions DEF IInv, TypeOK, DoPathSwitchRequestAcknowledge
<1>1. PICK n : n = Head(s1apDown)
  OBVIOUS
<1>2. n \in S1apMsgs /\ n = s1apDown[1] /\ 1 \in 1 .. Len(s1apDown)
  BY <1>0, <1>1, TailParts
<1>3. CASE n.imsi # MT
  <2>1. n.imsi \in app[n.donor].migrated
    BY <1>2, <1>3 DEF TunnelInv, Suppressed, SuppressedIn
  <2> QED BY <1>1, <2>1 DEF DoPathSwitchRequestAcknowledge
<1>4. CASE n.imsi = MT
  <2>1. ~NoneFor(s1apDown, MT)
    BY <1>2, <1>4 DEF NoneFor
  <2>2. ueMgr[mt.cell] \in UeStates
    BY <1>0
  <2>3. /\ ueMgr[mt.cell] = "HANDOVER_PATH_SWITCH" /\ sgw[MT] = mt.cell
        /\ OnlyOne(s1apDown, S1apMsg(mt.cell, MT))
    BY <2>1, <2>2 DEF TunnelInv, MtTunnel, NoMtMessage, UeStates, Quiet
  <2>4. PICK m : m = S1apMsg(mt.cell, MT)
    OBVIOUS
  <2>5. m.imsi = MT /\ m.donor = mt.cell
    BY <2>4 DEF S1apMsg
  <2>6. n = m
    BY <1>0, <1>1, <1>4, <2>3, <2>4, <2>5, OnlyHead
  <2>7. /\ app[mt.cell].imsiRnti[MT] = RntiOf[mt.cell] /\ RntiOf[mt.cell] # 0
        /\ MT \notin app[mt.cell].migrated
    BY <1>0, <2>3, Positions DEF TunnelInv, PathSwitchKnown
  <2>8. HasUeManager(mt.cell, RntiOf[mt.cell])
    BY <2>3 DEF HasUeManager
  <2>9. SendUeContextRelease(mt.cell) /\ fault' = fault
    BY <1>1, <1>4, <2>3, <2>5, <2>6, <2>7, <2>8 DEF DoPathSwitchRequestAcknowledge
  <2> QED BY <2>3, <2>9
<1> QED BY <1>3, <1>4

\* The SGW never points the IAB-MT's tunnel backwards.
LEMMA MtTunnelForward ==
  ASSUME IInv, TunnelInv, DescendantTunnels, [Next]_vars
  PROVE  sgw'[MT] >= sgw[MT]
<1>1. sgw \in [Imsis -> Donors] /\ sgw[MT] \in Nat /\ MT \in Imsis
  BY Positions, OwnerImsi DEF IInv, TypeOK
<1>2. CASE MmeStep
  <2>1. CASE sgw' = sgw
    BY <1>1, <2>1
  <2>2. ASSUME NEW i \in Imsis, sgw' = [sgw EXCEPT ![i] = sgw[i] + 1]
        PROVE  sgw'[MT] >= sgw[MT]
    BY <1>1, <2>2
  <2> QED BY <1>2, <2>1, <2>2, MmeRefines
<1>3. CASE sgw' = sgw
  BY <1>1, <1>3
<1> QED BY <1>2, <1>3, QueueStep DEF QueueSteps

\* Only an acknowledgement at the IAB-MT's donor sends a release.
LEMMA Releases ==
  ASSUME IInv, TunnelInv, [Next]_vars, NEW m \in x2', m.type = "UE_CTX_RELEASE", m \notin x2
  PROVE  m.tgt = mt.cell /\ sgw[MT] = mt.cell
<1>1. CASE DoPathSwitchRequestAcknowledge
  <2>1. SendUeContextRelease(mt.cell) /\ sgw[MT] = mt.cell
    BY <1>1, AckEffects
  <2> QED BY <2>1 DEF SendUeContextRelease
<1>2. CASE TriggerIabBackhaulHandover
  BY <1>2 DEF TriggerIabBackhaulHandover, Abort, PrepareHandover, StartHandover, netVars
<1>3. CASE RecvHandoverRequest
  <2>1. PICK n \in x2 : x2' = (x2 \ {n}) \cup {[n EXCEPT !.type = "HO_ACK"]}
    BY <1>3 DEF RecvHandoverRequest
  <2>2. n \in X2Msgs
    BY DEF IInv, TypeOK
  <2> QED BY <2>1, <2>2 DEF X2Msgs
<1>4. CASE RecvHandoverRequestAck \/ RecvUeContextRelease
  BY <1>4 DEF RecvHandoverRequestAck, RecvUeContextRelease
<1>5. CASE RecvRrcConnectionReconfigurationCompleted
  BY <1>5, CompletedEffects
<1> QED
  BY <1>1, <1>2, <1>3, <1>4, <1>5
  DEF Next, Handlers, Environment, SkipHandover, DeferredMigration, RandomAccessSuccessful,
      RecvHandoverCommand, RecvRrcConnectionReconfiguration, RandomAccessFailed, HandoverLeavingTimeout,
      RecvHandoverCompleted, MmePathSwitchRequest,
      HandoverJoiningTimeout, Abort, SendUplink, RecvFromLteSocket, vars, netVars

LEMMA ReleaseStep ==
  IInv /\ TunnelInv /\ DescendantTunnels /\ ReleaseAfterRepoint /\ IInv' /\ [Next]_vars
    => ReleaseAfterRepoint'
<1> SUFFICES ASSUME IInv, TunnelInv, DescendantTunnels, ReleaseAfterRepoint, IInv', [Next]_vars,
                    NEW m \in x2', m.type = "UE_CTX_RELEASE"
             PROVE  sgw'[MT] >= m.tgt
  BY DEF ReleaseAfterRepoint
<1>1. sgw[MT] \in Nat /\ sgw'[MT] \in Nat /\ m.tgt \in Nat
  BY OwnerImsi, Positions DEF IInv, TypeOK, X2Msgs
<1>2. sgw[MT] >= m.tgt
  <2>1. CASE m \in x2
    BY <2>1 DEF ReleaseAfterRepoint
  <2>2. CASE m \notin x2
    BY <1>1, <2>2, Releases
  <2> QED BY <2>1, <2>2
<1> QED BY <1>1, <1>2, MtTunnelForward

\* What the SGW, the MME and the donors agree on about the tunnels.
TunnelsInv == IInv /\ TunnelInv /\ DescendantTunnels /\ ReleaseAfterRepoint

LEMMA TunnelsStep == TunnelsInv /\ [Next]_vars => TunnelsInv'
<1> SUFFICES ASSUME TunnelsInv, [Next]_vars PROVE TunnelsInv'
  OBVIOUS
<1>1. IInv'
  BY TypeStep, HandoverStep, RelayStep DEF IInv, TunnelsInv
<1>2. TunnelInv'
  BY MtTunnelStep, PathSwitchKnownStep, SuppressedStep DEF TunnelInv, TunnelsInv
<1>3. DescendantTunnels'
  BY DescendantTunnelsStep DEF TunnelsInv
<1>4. ReleaseAfterRepoint'
  BY <1>1, ReleaseStep DEF TunnelsInv
<1> QED BY <1>1, <1>2, <1>3, <1>4 DEF TunnelsInv

LEMMA TunnelsInit == Init => TunnelsInv
BY InitType, InitHandover, InitRelay, TunnelInit, DescendantTunnelsInit
DEF IInv, TunnelsInv, ReleaseAfterRepoint, Init

LEMMA TunnelsInvariant == Spec => []TunnelsInv
BY TunnelsInit, TunnelsStep, PTL DEF Spec

-----------------------------------------------------------------------------
(***************************************************************************)
(* No handover is left half-way: every transient state of a UeManager has  *)
(* the message that will end it.                                           *)
(***************************************************************************)
ReleaseMsg(d)  == [type |-> "UE_CTX_RELEASE", src |-> d, tgt |-> d + 1]
CompleteMsg(d) == [type |-> "COMPLETE", src |-> d - 1, tgt |-> d]

Preparing == \E m \in x2 : m.type \in {"HO_REQ", "HO_ACK"}
Ordered   == \E m \in air : m.type = "HO_CMD"
Adjusting == \E m \in air : m.type \in {"RECONF", "COMPLETE"}

OldReleased ==
  \A d \in Donors :
    d < mt.cell /\ ueMgr[d] = "HANDOVER_LEAVING" =>
      \/ ReleaseMsg(d) \in x2
      \/ d = mt.cell - 1 /\ ueMgr[mt.cell] \in {"HANDOVER_JOINING", "HANDOVER_PATH_SWITCH"}

CurrentServed ==
  /\ mt.state = "CONNECTED_NORMALLY" /\ ueMgr[mt.cell] = "HANDOVER_JOINING"
       => CompleteMsg(mt.cell) \in air
  /\ ueMgr[mt.cell] = "HANDOVER_PREPARATION" => Preparing
  /\ ueMgr[mt.cell] = "HANDOVER_LEAVING" => Ordered
  /\ ueMgr[mt.cell] = "CONNECTION_RECONFIGURATION" => Adjusting

NoneStranded == OldReleased /\ CurrentServed

LEMMA NoneStrandedInit == Init => NoneStranded
<1> SUFFICES ASSUME Init PROVE NoneStranded
  OBVIOUS
<1>1. mt.cell = 1 /\ 1 \in Donors /\ ueMgr[1] = "CONNECTED_NORMALLY"
  BY NumDonorsAssumption DEF Init, Donors
<1>2. \A d \in Donors : ~(d < 1)
  BY DEF Donors
<1> QED BY <1>1, <1>2 DEF NoneStranded, OldReleased, CurrentServed

LEMMA NoneStrandedKept ==
  ASSUME NoneStranded, mt'.cell = mt.cell, mt'.state = mt.state, ueMgr' = ueMgr,
         x2 \subseteq x2', air \subseteq air'
  PROVE  NoneStranded'
<1>1. OldReleased'
  BY DEF NoneStranded, OldReleased
<1>2. Preparing => Preparing'
  BY DEF Preparing
<1>3. Ordered => Ordered'
  BY DEF Ordered
<1>4. Adjusting => Adjusting'
  BY DEF Adjusting
<1>5. CurrentServed'
  BY <1>2, <1>3, <1>4 DEF NoneStranded, CurrentServed
<1> QED BY <1>1, <1>5 DEF NoneStranded

LEMMA NoneStrandedStep == IInv /\ TunnelInv /\ NoneStranded /\ [Next]_vars => NoneStranded'
<1> SUFFICES ASSUME IInv, TunnelInv, NoneStranded, [Next]_vars PROVE NoneStranded'
  OBVIOUS
<1>0. /\ mt.cell \in Donors /\ Donors \subseteq Nat /\ ueMgr \in [Donors -> UeStates]
      /\ x2 \subseteq X2Msgs /\ air \subseteq AirMsgs /\ mt \in MtStates
  BY Positions DEF IInv, TypeOK
<1> DEFINE c == mt.cell
<1>c. c \in Nat /\ c \in Donors
  BY <1>0
<1>1. CASE UNCHANGED <<mt, ueMgr, x2, air>>
  BY <1>1, NoneStrandedKept
<1>2. CASE TriggerIabBackhaulHandover
  <2>1. CASE UNCHANGED <<ueMgr, x2>>
    <3>1. UNCHANGED <<mt, air>>
      BY <1>2 DEF TriggerIabBackhaulHandover, Abort, rrcVars, netVars
    <3> QED BY <1>1, <2>1, <3>1
  <2>2. CASE /\ ueMgr[ho.next] = "CONNECTED_NORMALLY"
             /\ ueMgr' = [ueMgr EXCEPT ![ho.next] = "HANDOVER_PREPARATION"]
             /\ x2' = x2 \cup {[type |-> "HO_REQ", src |-> ho.next, tgt |-> ho.next + 1]}
             /\ UNCHANGED <<mt, air>>
    <3>1. ho.next \in Donors
      BY DEF IInv, TypeOK, HoStates
    <3>2. ho.next = c
      BY <2>2, <3>1 DEF IInv, HandoverInv, ManagersConsistent
    <3>7. \A d \in Donors : d < c => ueMgr'[d] = ueMgr[d]
      BY <1>c, <1>0, <2>2, <3>2
    <3>3. OldReleased'
      <4> SUFFICES ASSUME NEW d \in Donors, d < c, ueMgr'[d] = "HANDOVER_LEAVING"
                   PROVE  ReleaseMsg(d) \in x2'
        BY <2>2 DEF OldReleased
      <4>1. ueMgr[d] = "HANDOVER_LEAVING" /\ ueMgr[c] = "CONNECTED_NORMALLY"
        BY <2>2, <3>2, <3>7
      <4>2. ReleaseMsg(d) \in x2
        BY <4>1 DEF NoneStranded, OldReleased
      <4> QED BY <2>2, <4>2
    <3>4. Preparing'
      <4>1. PICK n : n = [type |-> "HO_REQ", src |-> ho.next, tgt |-> ho.next + 1]
        OBVIOUS
      <4>2. n \in x2' /\ n.type = "HO_REQ"
        BY <2>2, <4>1
      <4> QED BY <4>2 DEF Preparing
    <3>5. ueMgr'[mt'.cell] = "HANDOVER_PREPARATION"
      BY <1>0, <2>2, <3>2
    <3>6. CurrentServed'
      BY <3>4, <3>5 DEF CurrentServed
    <3> QED BY <3>3, <3>6 DEF NoneStranded
  <2> QED BY <1>2, <2>1, <2>2
          DEF TriggerIabBackhaulHandover, Abort, PrepareHandover, StartHandover, rrcVars, netVars
<1>3. CASE DeferredMigration
  BY <1>1, <1>3 DEF DeferredMigration
<1>4. CASE RecvHandoverRequest
  <2>1. PICK m \in x2 : /\ m.type = "HO_REQ"
                        /\ ueMgr' = [ueMgr EXCEPT ![m.tgt] = "HANDOVER_JOINING"]
                        /\ x2' = (x2 \ {m}) \cup {[m EXCEPT !.type = "HO_ACK"]}
    BY <1>4 DEF RecvHandoverRequest
  <2>2. UNCHANGED <<mt, air>>
    BY <1>4 DEF RecvHandoverRequest
  <2>3. m.tgt = c + 1 /\ ueMgr[c] = "HANDOVER_PREPARATION" /\ m \in X2Msgs
    BY <1>0, <2>1 DEF IInv, HandoverInv, X2Consistent, Underway
  <2>4. \A d \in Donors : d <= c => ueMgr'[d] = ueMgr[d]
    BY <1>0, <1>c, <2>1, <2>3
  <2>5. \A d \in Donors : ReleaseMsg(d) \in x2 => ReleaseMsg(d) \in x2'
    BY <2>1 DEF ReleaseMsg
  <2>6. OldReleased'
    <3> SUFFICES ASSUME NEW d \in Donors, d < c, ueMgr'[d] = "HANDOVER_LEAVING"
                 PROVE  \/ ReleaseMsg(d) \in x2'
                        \/ d = c - 1 /\ ueMgr'[c] \in {"HANDOVER_JOINING", "HANDOVER_PATH_SWITCH"}
      BY <2>2 DEF OldReleased
    <3>1. ueMgr[d] = "HANDOVER_LEAVING" /\ ueMgr'[c] = ueMgr[c]
      BY <1>0, <1>c, <2>4
    <3> QED BY <2>5, <3>1 DEF NoneStranded, OldReleased
  <2>7. Preparing'
    <3>1. PICK n : n = [m EXCEPT !.type = "HO_ACK"]
      OBVIOUS
    <3>2. n \in x2' /\ n.type = "HO_ACK"
      BY <2>1, <2>3, <3>1 DEF X2Msgs
    <3> QED BY <3>2 DEF Preparing
  <2>8. CurrentServed'
    BY <1>0, <1>c, <2>2, <2>3, <2>4, <2>7 DEF CurrentServed
  <2> QED BY <2>6, <2>8 DEF NoneStranded
<1>5. CASE RecvHandoverRequestAck
  <2>1. PICK m \in x2 : /\ m.type = "HO_ACK"
                        /\ ueMgr' = [ueMgr EXCEPT ![m.src] = "HANDOVER_LEAVING"]
                        /\ x2' = x2 \ {m}
                        /\ air' = air \cup {[m EXCEPT !.type = "HO_CMD"]}
    BY <1>5 DEF RecvHandoverRequestAck
  <2>2. UNCHANGED mt
    BY <1>5 DEF RecvHandoverRequestAck
  <2>3. m.src = c /\ ueMgr[c] = "HANDOVER_PREPARATION" /\ m \in X2Msgs
    BY <1>0, <2>1 DEF IInv, HandoverInv, X2Consistent, Underway
  <2>4. ueMgr'[c] = "HANDOVER_LEAVING" /\ \A d \in Donors : d < c => ueMgr'[d] = ueMgr[d]
    BY <1>0, <1>c, <2>1, <2>3
  <2>5. \A d \in Donors : ReleaseMsg(d) \in x2 => ReleaseMsg(d) \in x2'
    BY <2>1 DEF ReleaseMsg
  <2>6. OldReleased'
    BY <2>2, <2>3, <2>4, <2>5 DEF NoneStranded, OldReleased
  <2>7. Ordered'
    <3>1. PICK n : n = [m EXCEPT !.type = "HO_CMD"]
      OBVIOUS
    <3>2. n \in air' /\ n.type = "HO_CMD"
      BY <2>1, <2>3, <3>1 DEF X2Msgs
    <3> QED BY <3>2 DEF Ordered
  <2>8. CurrentServed'
    BY <2>2, <2>4, <2>7 DEF CurrentServed
  <2> QED BY <2>6, <2>8 DEF NoneStranded
<1>6. CASE RecvHandoverCommand
  <2>1. PICK m \in air : m.type = "HO_CMD" /\ mt'.cell = m.tgt /\ mt'.state = "CONNECTED_HANDOVER"
    BY <1>6 DEF RecvHandoverCommand
  <2>2. UNCHANGED <<ueMgr, x2>>
    BY <1>6 DEF RecvHandoverCommand, rrcVars
  <2>3. m.tgt = c + 1 /\ ueMgr[c] = "HANDOVER_LEAVING" /\ ueMgr[c + 1] = "HANDOVER_JOINING"
    BY <2>1 DEF IInv, HandoverInv, AirConsistent, Underway
  <2>4. mt'.cell = c + 1
    BY <2>1, <2>3
  <2>5. OldReleased'
    <3>0. PICK b \in Nat : b = mt.cell
      BY <1>0
    <3> SUFFICES ASSUME NEW d \in Donors, d < mt'.cell, ueMgr'[d] = "HANDOVER_LEAVING"
                 PROVE  ReleaseMsg(d) \in x2' \/ d = mt'.cell - 1
      <4>1. ueMgr'[mt'.cell] = "HANDOVER_JOINING"
        BY <2>2, <2>3, <2>4
      <4> QED BY <4>1 DEF OldReleased
    <3>4. d < b + 1 /\ ueMgr[d] = "HANDOVER_LEAVING" /\ mt'.cell = b + 1
      BY <2>2, <2>4, <3>0
    <3>1. CASE d = b
      BY <3>0, <3>1, <3>4
    <3>2. CASE d < b
      BY <2>2, <2>3, <3>0, <3>2, <3>4 DEF NoneStranded, OldReleased
    <3>3. d \in Nat
      BY <1>0
    <3> QED BY <3>0, <3>1, <3>2, <3>3, <3>4
  <2>6. CurrentServed'
    BY <2>1, <2>2, <2>3, <2>4 DEF CurrentServed
  <2> QED BY <2>5, <2>6 DEF NoneStranded
<1>7. CASE RandomAccessSuccessful
  <2>1. mt'.cell = c /\ mt'.state = "CONNECTED_NORMALLY" /\ UNCHANGED <<ueMgr, x2>>
    BY <1>7, EndPosition DEF RandomAccessSuccessful
  <2>2. air' = air \cup {[type |-> "COMPLETE", src |-> ho.src, tgt |-> c]} /\ mt.ra = "running"
    BY <1>7 DEF RandomAccessSuccessful
  <2>3. ho.src = c - 1 /\ ueMgr[c] = "HANDOVER_JOINING"
    BY <2>2 DEF IInv, HandoverInv, RandomAccessConsistent, TupleOf
  <2>4. CompleteMsg(c) \in air'
    BY <2>2, <2>3 DEF CompleteMsg
  <2>5. OldReleased'
    BY <2>1 DEF NoneStranded, OldReleased
  <2>6. CurrentServed'
    BY <2>1, <2>3, <2>4 DEF CurrentServed
  <2> QED BY <2>5, <2>6 DEF NoneStranded
<1>8. CASE RandomAccessFailed
  <2>1. mt'.cell = mt.cell /\ mt'.state = mt.state /\ UNCHANGED <<ueMgr, x2, air>>
    BY <1>0, <1>8 DEF RandomAccessFailed, rrcVars, netVars, MtStates
  <2> QED BY <2>1, NoneStrandedKept
<1>9. CASE RecvHandoverCompleted
  <2>1. PICK m \in air : /\ m.type = "COMPLETE" /\ ueMgr[m.tgt] = "HANDOVER_JOINING"
                         /\ ueMgr' = [ueMgr EXCEPT ![m.tgt] = "HANDOVER_PATH_SWITCH"]
    BY <1>9 DEF RecvHandoverCompleted
  <2>2. UNCHANGED <<mt, x2>>
    BY <1>9 DEF RecvHandoverCompleted
  <2>3. m.tgt = c
    BY <2>1 DEF IInv, HandoverInv, AirConsistent
  <2>4. ueMgr'[c] = "HANDOVER_PATH_SWITCH" /\ \A d \in Donors : d < c => ueMgr'[d] = ueMgr[d]
    BY <1>0, <1>c, <2>1, <2>3
  <2>5. OldReleased'
    BY <2>1, <2>2, <2>3, <2>4 DEF NoneStranded, OldReleased
  <2>6. CurrentServed'
    BY <2>2, <2>4 DEF CurrentServed
  <2> QED BY <2>5, <2>6 DEF NoneStranded
<1>10. CASE RecvUeContextRelease
  <2>1. PICK m \in x2 : /\ m.type = "UE_CTX_RELEASE" /\ x2' = x2 \ {m}
                        /\ ueMgr' = [ueMgr EXCEPT ![m.src] = "none"]
    BY <1>10 DEF RecvUeContextRelease, RemoveUe
  <2>2. UNCHANGED <<mt, air>>
    BY <1>10 DEF RecvUeContextRelease
  <2>3. m.src < c /\ m.src \in Donors
    BY <1>0, <2>1 DEF IInv, HandoverInv, X2Consistent, X2Msgs
  <2>4. ueMgr'[c] = ueMgr[c]
    <3>1. m.src # c
      BY <1>0, <1>c, <2>3
    <3> QED BY <1>0, <2>1, <3>1
  <2>5. OldReleased'
    <3> SUFFICES ASSUME NEW d \in Donors, d < c, ueMgr'[d] = "HANDOVER_LEAVING"
                 PROVE  \/ ReleaseMsg(d) \in x2'
                        \/ d = c - 1 /\ ueMgr'[c] \in {"HANDOVER_JOINING", "HANDOVER_PATH_SWITCH"}
      BY <2>2 DEF OldReleased
    <3>1. d # m.src /\ ueMgr[d] = "HANDOVER_LEAVING"
      BY <1>0, <2>1, <2>3
    <3>2. m # ReleaseMsg(d)
      BY <3>1 DEF ReleaseMsg
    <3> QED BY <2>1, <2>4, <3>1, <3>2 DEF NoneStranded, OldReleased
  <2>6. Preparing => Preparing'
    BY <2>1 DEF Preparing
  <2>7. Ordered' = Ordered /\ Adjusting' = Adjusting
    BY <2>2 DEF Ordered, Adjusting
  <2>8. CurrentServed'
    BY <2>2, <2>4, <2>6, <2>7 DEF NoneStranded, CurrentServed
  <2> QED BY <2>5, <2>8 DEF NoneStranded
<1>11. CASE HandoverLeavingTimeout
  <2>1. PICK d \in Donors : ueMgr[d] = "HANDOVER_LEAVING" /\ ueMgr' = [ueMgr EXCEPT ![d] = "none"]
    BY <1>11 DEF HandoverLeavingTimeout, RemoveUe
  <2>2. UNCHANGED <<mt, x2, air>> /\ mt.ra = "failed"
    BY <1>11 DEF HandoverLeavingTimeout, netVars
  <2>3. mt.state = "CONNECTED_HANDOVER"
    BY <2>2, Positions DEF IInv, HandoverInv, MtConsistent
  <2>4. ueMgr[c] = "HANDOVER_JOINING"
    BY <2>3 DEF TunnelInv, MtTunnel
  <2>5. ueMgr'[c] = ueMgr[c]
    BY <1>0, <2>1, <2>4
  <2>6. \A e \in Donors : ueMgr'[e] = "HANDOVER_LEAVING" => ueMgr[e] = "HANDOVER_LEAVING"
    BY <1>0, <2>1
  <2>7. OldReleased'
    BY <2>2, <2>5, <2>6 DEF NoneStranded, OldReleased
  <2>8. CurrentServed'
    BY <2>2, <2>3, <2>4, <2>5 DEF CurrentServed
  <2> QED BY <2>7, <2>8 DEF NoneStranded
<1>12. CASE DoPathSwitchRequestAcknowledge
  <2>1. UNCHANGED mt
    BY <1>12 DEF DoPathSwitchRequestAcknowledge
  <2>2. CASE UNCHANGED <<ueMgr, x2, air>>
    BY <1>1, <2>1, <2>2
  <2>3. CASE ueMgr[mt.cell] = "HANDOVER_PATH_SWITCH" /\ SendUeContextRelease(mt.cell)
    <3>1. /\ ueMgr' = [ueMgr EXCEPT ![c] = "CONNECTION_RECONFIGURATION"]
          /\ x2' = x2 \cup {[type |-> "UE_CTX_RELEASE", src |-> c - 1, tgt |-> c]}
          /\ air' = air \cup {[type |-> "RECONF", src |-> c, tgt |-> c]}
      BY <1>c, <2>3, ReleaseEffects
    <3>2. ueMgr'[c] = "CONNECTION_RECONFIGURATION"
      BY <1>0, <3>1
    <3>3. OldReleased'
      <4> SUFFICES ASSUME NEW d \in Donors, d < c, ueMgr'[d] = "HANDOVER_LEAVING"
                   PROVE  ReleaseMsg(d) \in x2'
        BY <2>1 DEF OldReleased
      <4>1. ueMgr[d] = "HANDOVER_LEAVING"
        BY <1>0, <1>c, <3>1
      <4>2. CASE d = c - 1
        <5>1. d + 1 = c
          BY <1>0, <1>c, <4>2
        <5> QED BY <3>1, <4>2, <5>1 DEF ReleaseMsg
      <4>3. CASE ReleaseMsg(d) \in x2
        BY <3>1, <4>3
      <4> QED BY <4>1, <4>2, <4>3 DEF NoneStranded, OldReleased
    <3>4. Adjusting'
      <4>1. PICK n : n = [type |-> "RECONF", src |-> c, tgt |-> c]
        OBVIOUS
      <4>2. n \in air' /\ n.type = "RECONF"
        BY <3>1, <4>1
      <4> QED BY <4>2 DEF Adjusting
    <3>5. CurrentServed'
      BY <2>1, <3>2, <3>4 DEF CurrentServed
    <3> QED BY <3>3, <3>5 DEF NoneStranded
  <2> QED BY <1>12, <2>2, <2>3, AckEffects
<1>13. CASE SkipHandover \/ MmePathSwitchRequest \/ HandoverJoiningTimeout \/ SendUplink
            \/ RecvFromLteSocket \/ UNCHANGED vars
  BY <1>1, <1>13
  DEF SkipHandover, MmePathSwitchRequest, HandoverJoiningTimeout, Abort, SendUplink,
      RecvFromLteSocket, vars, rrcVars, netVars
<1>14. CASE RecvRrcConnectionReconfiguration
  <2>1. PICK m \in air : /\ m.type = "RECONF"
                        /\ air' = (air \ {m}) \cup {[m EXCEPT !.type = "COMPLETE"]}
    BY <1>14 DEF RecvRrcConnectionReconfiguration
  <2>2. UNCHANGED <<mt, ueMgr, x2>>
    BY <1>14 DEF RecvRrcConnectionReconfiguration, rrcVars
  <2>3. ueMgr[c] = "CONNECTION_RECONFIGURATION" /\ m \in AirMsgs
    BY <1>0, <2>1 DEF IInv, HandoverInv, AirConsistent
  <2>4. Adjusting'
    <3>1. PICK n : n = [m EXCEPT !.type = "COMPLETE"]
      OBVIOUS
    <3>2. n \in air' /\ n.type = "COMPLETE"
      BY <2>1, <2>3, <3>1 DEF AirMsgs
    <3> QED BY <3>2 DEF Adjusting
  <2>5. OldReleased' /\ CurrentServed'
    BY <2>2, <2>3, <2>4 DEF NoneStranded, OldReleased, CurrentServed
  <2> QED BY <2>5 DEF NoneStranded
<1>15. CASE RecvRrcConnectionReconfigurationCompleted
  <2>1. mt' = mt /\ ueMgr[c] = "CONNECTION_RECONFIGURATION" /\ x2 \subseteq x2'
    BY <1>15, CompletedEffects
  <2>2. PICK st \in {"CONNECTION_RECONFIGURATION", "CONNECTED_NORMALLY", "HANDOVER_PREPARATION"} :
          /\ ueMgr' = [ueMgr EXCEPT ![c] = st]
          /\ st = "CONNECTION_RECONFIGURATION" =>
               [type |-> "RECONF", src |-> c, tgt |-> c] \in air'
          /\ st = "HANDOVER_PREPARATION" =>
               x2' = x2 \cup {[type |-> "HO_REQ", src |-> c, tgt |-> queued[c]]}
    BY <1>15, CompletedEffects
  <2>3. ueMgr'[c] = st /\ \A d \in Donors : d < c => ueMgr'[d] = ueMgr[d]
    BY <1>0, <1>c, <2>2
  <2>4. OldReleased'
    BY <2>1, <2>3 DEF NoneStranded, OldReleased
  <2>5. st = "CONNECTION_RECONFIGURATION" => Adjusting'
    <3>1. PICK n : n = [type |-> "RECONF", src |-> c, tgt |-> c]
      OBVIOUS
    <3>2. n.type = "RECONF"
      BY <3>1
    <3> QED BY <2>2, <3>1, <3>2 DEF Adjusting
  <2>6. st = "HANDOVER_PREPARATION" => Preparing'
    <3>1. PICK n : n = [type |-> "HO_REQ", src |-> c, tgt |-> queued[c]]
      OBVIOUS
    <3>2. n.type = "HO_REQ"
      BY <3>1
    <3> QED BY <2>2, <3>1, <3>2 DEF Preparing
  <2>7. CurrentServed'
    BY <2>1, <2>3, <2>5, <2>6 DEF CurrentServed
  <2> QED BY <2>4, <2>7 DEF NoneStranded
<1> QED
  BY <1>2, <1>3, <1>4, <1>5, <1>6, <1>7, <1>8, <1>9, <1>10, <1>11, <1>12, <1>13, <1>14, <1>15
  DEF Next, Handlers, Environment

-----------------------------------------------------------------------------
(***************************************************************************)
(* What the donors know of the relay.                                      *)
(***************************************************************************)
\* The donors that have held the relay state recognise the IAB-MT's uplink,
\* and the one that holds it knows which descendants are IAB nodes.
Recognised ==
  /\ \A d \in Donors :
       d <= Holder => app[d].iabFlag[MT] = "iab" /\ RntiOf[d] \in app[d].localRnti
  /\ \A f \in Flows : app[Holder].iabFlag[Owner[f]] = KindOf(Owner[f])

\* The scheduler of the IAB-MT's donor has been told of the nested IAB nodes.
Counted == Holder = mt.cell => numIab[mt.cell] = Cardinality(NestedFlows)

UplinkAt == ~ExecDelay /\ uplink.st = "air" => uplink.donor <= Holder

LEMMA RecognisedInit == Init => Recognised
<1> SUFFICES ASSUME Init PROVE Recognised
  OBVIOUS
<1>1. Holder = 1 /\ 1 \in Donors /\ app[1] = AttachedApp(RntiOf[1])
  BY NumDonorsAssumption DEF Init, Holder, Serving, Donors
<1>2. PICK a : a = app[1]
  OBVIOUS
<1>3. a.iabFlag = [i \in Imsis |-> KindOf(i)] /\ a.localRnti = {RntiOf[1]}
  BY <1>1, <1>2 DEF AttachedApp, EmptyApp
<1>4. \A d \in Donors : d <= 1 => d = 1
  BY DEF Donors
<1>5. KindOf(MT) = "iab" /\ MT \in Imsis
  BY OwnerImsi DEF KindOf
<1>6. \A f \in Flows : a.iabFlag[Owner[f]] = KindOf(Owner[f])
  BY <1>3, OwnerImsi
<1> QED BY <1>1, <1>2, <1>3, <1>4, <1>5, <1>6 DEF Recognised

LEMMA RecognisedStep == IInv /\ Recognised /\ [Next]_vars => Recognised'
<1> SUFFICES ASSUME IInv, Recognised, [Next]_vars PROVE Recognised'
  OBVIOUS
<1>1. PICK h \in Donors : h = Holder
  BY Positions
<1>2. Donors \subseteq Nat
  BY Positions
<1>3. CASE RelayStays
  <2>1. Holder' = h /\ \A e \in Donors : AppKept(e)
    BY <1>1, <1>3 DEF RelayStays
  <2>2. ASSUME NEW d \in Donors, d <= h
        PROVE  app'[d].iabFlag[MT] = "iab" /\ RntiOf[d] \in app'[d].localRnti
    BY <1>1, <2>1, <2>2 DEF Recognised, AppKept
  <2>3. \A f \in Flows : app'[h].iabFlag[Owner[f]] = KindOf(Owner[f])
    BY <1>1, <2>1 DEF Recognised, AppKept
  <2> QED BY <2>1, <2>2, <2>3 DEF Recognised
<1>4. CASE RelayMoves
  <2>1. Holder' = h + 1 /\ MigratedFrom(h)
    BY <1>1, <1>4 DEF RelayMoves
  <2>2. ASSUME NEW d \in Donors, d <= h + 1
        PROVE  app'[d].iabFlag[MT] = "iab" /\ RntiOf[d] \in app'[d].localRnti
    <3>1. CASE d = h + 1
      BY <2>1, <3>1 DEF MigratedFrom
    <3>2. CASE d # h + 1
      <4>1. d <= h
        BY <1>2, <2>2, <3>2
      <4> QED BY <1>1, <2>1, <3>2, <4>1 DEF MigratedFrom, Recognised
    <3> QED BY <3>1, <3>2
  <2>3. \A f \in Flows : app'[h + 1].iabFlag[Owner[f]] = KindOf(Owner[f])
    BY <1>1, <2>1 DEF MigratedFrom, Recognised, KindOf
  <2> QED BY <2>1, <2>2, <2>3 DEF Recognised
<1> QED BY <1>3, <1>4, Movement

\* The IAB-MT's cell changes only with the handover command.
LEMMA CellStep ==
  ASSUME IInv, [Next]_vars
  PROVE  \/ mt'.cell = mt.cell
         \/ mt'.cell = mt.cell + 1 /\ RelayStays /\ UNCHANGED ueMgr
<1>1. CASE UNCHANGED mt
  BY <1>1
<1>2. CASE RandomAccessSuccessful
  BY <1>2, EndPosition
<1>3. CASE RandomAccessFailed
  BY <1>3 DEF RandomAccessFailed, IInv, TypeOK, MtStates
<1>4. CASE RecvHandoverCommand
  <2>1. PICK m \in air : m.type = "HO_CMD" /\ mt'.cell = m.tgt
    BY <1>4 DEF RecvHandoverCommand
  <2>2. UNCHANGED <<s1apUp, ueMgr, sgw, numIab>>
    BY <1>4 DEF RecvHandoverCommand, rrcVars
  <2>3. m.tgt = mt.cell + 1
    BY <2>1 DEF IInv, HandoverInv, AirConsistent, Underway
  <2>4. UNCHANGED app /\ UNCHANGED deferred
    BY <1>4 DEF RecvHandoverCommand, scenVars
  <2>5. mt.state = "CONNECTED_NORMALLY" /\ mt'.state = "CONNECTED_HANDOVER"
    BY <1>4 DEF RecvHandoverCommand
  <2>6. Holder' = Holder
    <3>1. PICK c \in Nat, n \in Nat : c = mt.cell /\ n = Len(deferred)
      BY Positions
    <3>2. Serving = c /\ Serving' = c
      BY <2>1, <2>3, <2>5, <3>1 DEF Serving
    <3> QED BY <2>4, <3>2 DEF Holder
  <2>7. RelayStays
    BY <2>2, <2>4, <2>6 DEF RelayStays, AppKept
  <2> QED BY <2>1, <2>2, <2>3, <2>7
<1> QED
  BY <1>1, <1>2, <1>3, <1>4
  DEF Next, Handlers, Environment, SkipHandover, RecvHandoverRequest,
      RecvHandoverRequestAck, HandoverJoiningTimeout, Abort, MmePathSwitchRequest,
      DoPathSwitchRequestAcknowledge, SendUplink, RecvFromLteSocket, vars,
      TriggerIabBackhaulHandover, DeferredMigration, RecvUeContextRelease,
      HandoverLeavingTimeout, RecvHandoverCompleted, RecvRrcConnectionReconfiguration,
      RecvRrcConnectionReconfigurationCompleted

LEMMA CountedStep ==
  IInv /\ TunnelInv /\ Recognised /\ Counted /\ [Next]_vars => Counted'
<1> SUFFICES ASSUME IInv, TunnelInv, Recognised, Counted, [Next]_vars, Holder' = mt'.cell
             PROVE  numIab'[mt'.cell] = Cardinality(NestedFlows)
  BY DEF Counted
<1>1. PICK h \in Nat, c \in Nat : h = Holder /\ c = mt.cell /\ h <= c
  <2>1. PICK s \in Nat : s = Serving
    BY Positions
  <2>2. PICK h \in Nat : h = Holder /\ h <= s
    BY <2>1, Positions
  <2>3. PICK c \in Nat : c = mt.cell /\ s <= c
    BY <2>1, Positions
  <2>4. h <= c
    BY <2>1, <2>2, <2>3
  <2> QED BY <2>2, <2>3, <2>4
<1>2. CASE RelayStays
  <2>1. mt'.cell = c
    <3>1. Holder' = h
      BY <1>1, <1>2 DEF RelayStays
    <3> QED BY <1>1, <3>1, CellStep
  <2> QED BY <1>1, <1>2, <2>1 DEF RelayStays, Counted
<1>3. CASE RelayMoves
  <2>1. Holder' = h + 1 /\ MigratedFrom(h)
    BY <1>1, <1>3 DEF RelayMoves
  <2>2. mt'.cell = c
    <3>1. CASE RelayStays
      BY <1>1, <2>1, <3>1 DEF RelayStays
    <3> QED BY <1>1, <3>1, CellStep
  <2>3. h + 1 = c
    BY <2>1, <2>2
  <2>4. ueMgr[c] # "none"
    BY <1>1 DEF TunnelInv, MtTunnel
  <2>5. {f \in Flows : app[h].iabFlag[Owner[f]] = "iab"} = NestedFlows
    <3>1. ASSUME NEW f \in Flows
          PROVE  app[h].iabFlag[Owner[f]] = "iab" <=> Owner[f] \in NestedIabs
      BY <1>1, OwnerImsi DEF Recognised, KindOf
    <3> QED BY <3>1 DEF NestedFlows
  <2>6. numIab' = [numIab EXCEPT ![c] = Cardinality(NestedFlows)]
    BY <2>1, <2>3, <2>4, <2>5 DEF MigratedFrom
  <2>7. numIab \in [Donors -> Nat] /\ c \in Donors
    BY <1>1, Positions DEF IInv, TypeOK
  <2> QED BY <2>2, <2>6, <2>7
<1> QED BY <1>2, <1>3, Movement

LEMMA UplinkAtStep == IInv /\ UplinkAt /\ [Next]_vars => UplinkAt'
<1> SUFFICES ASSUME IInv, UplinkAt, [Next]_vars, ~ExecDelay, uplink'.st = "air"
             PROVE  uplink'.donor <= Holder'
  BY DEF UplinkAt
<1>1. PICK h \in Nat : h = Holder
  BY Positions
<1>2. Holder' \in Nat /\ h <= Holder'
  BY <1>1, Movement DEF RelayStays, RelayMoves
<1>3. uplink \in UplinkStates
  BY DEF IInv, TypeOK
<1>4. CASE uplink' = uplink
  <2>1. uplink.donor \in Nat /\ uplink.donor <= h
    BY <1>1, <1>3, <1>4, Positions DEF UplinkAt, UplinkStates
  <2> QED BY <1>2, <1>4, <2>1
<1>5. CASE SendUplink
  <2>1. mt.state = "CONNECTED_NORMALLY" /\ uplink'.donor = mt.cell /\ mt.cell \in Nat
    BY <1>5, Positions DEF SendUplink
  <2>2. mt.cell = h
    BY <1>1, <2>1, Positions
  <2> QED BY <1>2, <2>1, <2>2
<1>6. CASE RecvFromLteSocket
  <2>1. PICK v : v \in {"dropped", "relayed", "garbled"} /\ uplink' = [uplink EXCEPT !.st = v]
    BY <1>6 DEF RecvFromLteSocket, RelayVerdicts
  <2> QED BY <1>3, <2>1 DEF UplinkStates
<1> QED
  BY <1>4, <1>5, <1>6
  DEF Next, Handlers, Environment, SkipHandover, RecvHandoverRequest,
      RecvHandoverRequestAck, HandoverJoiningTimeout, Abort, MmePathSwitchRequest,
      DoPathSwitchRequestAcknowledge, vars, RandomAccessSuccessful, RandomAccessFailed,
      RecvHandoverCommand,
      TriggerIabBackhaulHandover, DeferredMigration, RecvUeContextRelease,
      HandoverLeavingTimeout, RecvHandoverCompleted, RecvRrcConnectionReconfiguration,
      RecvRrcConnectionReconfigurationCompleted

\* An uplink packet that arrives is recognised, or dropped.
LEMMA UplinkStep ==
  IInv /\ Recognised /\ UplinkAt /\ UplinkNotGarbled /\ ~ExecDelay /\ [Next]_vars
    => UplinkNotGarbled'
<1> SUFFICES ASSUME IInv, Recognised, UplinkAt, UplinkNotGarbled, ~ExecDelay, [Next]_vars
             PROVE  UplinkNotGarbled'
  OBVIOUS
<1>1. CASE uplink' = uplink
  BY <1>1 DEF UplinkNotGarbled
<1>2. CASE SendUplink
  BY <1>2 DEF SendUplink, UplinkNotGarbled
<1>3. CASE RecvFromLteSocket
  <2>1. uplink \in UplinkStates /\ uplink.st = "air"
    BY <1>3 DEF IInv, TypeOK, RecvFromLteSocket
  <2>2. PICK d \in Donors : d = uplink.donor /\ d <= Holder
    BY <2>1 DEF UplinkStates, UplinkAt
  <2>3. app[d].iabFlag[MT] = "iab"
    BY <2>2 DEF Recognised
  <2>4. \A r : RelayVerdicts(app[d], r) \subseteq {"dropped", "relayed"}
    BY <2>3 DEF RelayVerdicts
  <2>5. PICK v : v \in {"dropped", "relayed"} /\ uplink' = [uplink EXCEPT !.st = v]
    BY <1>3, <2>2, <2>4 DEF RecvFromLteSocket
  <2> QED BY <2>1, <2>5 DEF UplinkStates, UplinkNotGarbled
<1> QED
  BY <1>1, <1>2, <1>3
  DEF Next, Handlers, Environment, SkipHandover, RecvHandoverRequest,
      RecvHandoverRequestAck, HandoverJoiningTimeout, Abort, MmePathSwitchRequest,
      DoPathSwitchRequestAcknowledge, vars, RandomAccessSuccessful, RandomAccessFailed,
      RecvHandoverCommand,
      TriggerIabBackhaulHandover, DeferredMigration, RecvUeContextRelease,
      HandoverLeavingTimeout, RecvHandoverCompleted, RecvRrcConnectionReconfiguration,
      RecvRrcConnectionReconfigurationCompleted

-----------------------------------------------------------------------------
(***************************************************************************)
(* Triggers spaced wider than a handover.                                  *)
(***************************************************************************)
\* What g_hoPending waits for.
Awaited ==
  \/ Preparing
  \/ Ordered
  \/ mt.ra = "running"
  \/ mt.ra = "failed" /\ ho.next > mt.cell

\* The next trigger is at the donor that serves the IAB-MT, or, after a failed
\* random access, at a donor that does not know it any more.
InOrder ==
  /\ mt.ra = "failed" => ho.next >= mt.cell
  /\ mt.ra # "failed" =>
       ho.next = IF ho.pending /\ mt.state = "CONNECTED_NORMALLY" THEN mt.cell + 1 ELSE mt.cell
  /\ ho.pending => Awaited

LEMMA InOrderInit == Init => InOrder
BY DEF Init, InOrder

LEMMA InOrderKept ==
  ASSUME InOrder, mt' = mt, ho' = ho,
         Preparing => Preparing' \/ Ordered', Ordered => Ordered'
  PROVE  InOrder'
BY DEF InOrder, Awaited

\* A trigger that is due finds the procedure ready for it, or no UeManager.
LEMMA DueReady ==
  ASSUME IInv, TunnelInv, NoneStranded, InOrder, Settled
  PROVE  /\ mt.ra # "failed" => /\ mt.state = "CONNECTED_NORMALLY" /\ ~ho.pending
                                /\ ho.next = mt.cell
                                /\ ueMgr[mt.cell] = "CONNECTED_NORMALLY"
                                /\ HasUeManager(ho.next, mt.rnti)
         /\ mt.ra = "failed" => /\ mt.state = "CONNECTED_HANDOVER"
                                /\ ho.pending => ho.next > mt.cell
         /\ HasUeManager(ho.next, mt.rnti) => ~ho.pending /\ CanPrepareHandover(ho.next)
<1>0. /\ mt.cell \in Donors /\ Donors \subseteq Nat /\ ueMgr \in [Donors -> UeStates]
      /\ ho.next \in Donors /\ mt \in MtStates
  BY Positions DEF IInv, TypeOK, HoStates
<1>1. ~Preparing /\ ~Ordered /\ ~Adjusting /\ mt.ra # "running"
      /\ s1apUp = <<>> /\ s1apDown = <<>> /\ x2 = {} /\ air = {}
  BY DEF Settled, Preparing, Ordered, Adjusting
<1>2. CASE mt.ra # "failed"
  <2>1. mt.ra = "idle"
    BY <1>0, <1>1, <1>2 DEF MtStates
  <2>2. mt.state = "CONNECTED_NORMALLY" /\ mt.rnti = RntiOf[mt.cell]
    BY <1>0, <2>1 DEF MtStates, IInv, HandoverInv, MtConsistent
  <2>3. ~ho.pending /\ ho.next = mt.cell
    BY <1>1, <1>2 DEF InOrder, Awaited
  <2>4. Len(s1apUp) = 0 /\ Len(s1apDown) = 0
    BY <1>1
  <2>5. ueMgr[mt.cell] # "HANDOVER_PATH_SWITCH"
    BY <2>4 DEF TunnelInv, MtTunnel, OnlyOne
  <2>6. ueMgr[mt.cell] \notin {"none", "HANDOVER_JOINING", "HANDOVER_PREPARATION", "HANDOVER_LEAVING",
                              "CONNECTION_RECONFIGURATION"}
    BY <1>1, <2>2 DEF NoneStranded, CurrentServed, TunnelInv, MtTunnel
  <2>7. ueMgr[mt.cell] = "CONNECTED_NORMALLY"
    BY <1>0, <2>5, <2>6 DEF UeStates
  <2>8. HasUeManager(ho.next, mt.rnti)
    BY <2>2, <2>3, <2>7 DEF HasUeManager
  <2> QED BY <1>2, <2>2, <2>3, <2>7, <2>8 DEF CanPrepareHandover, Busy
<1>3. CASE mt.ra = "failed"
  <2>1. mt.state = "CONNECTED_HANDOVER"
    BY <1>3, Positions DEF IInv, HandoverInv, MtConsistent
  <2>2. ho.pending => ho.next > mt.cell
    BY <1>1, <1>3 DEF InOrder, Awaited
  <2>3. ASSUME HasUeManager(ho.next, mt.rnti)
        PROVE  ~ho.pending /\ CanPrepareHandover(ho.next)
    <3>1. ueMgr[ho.next] # "none" /\ ueMgr[ho.next] \in UeStates
      BY <1>0, <2>3 DEF HasUeManager
    <3>2. PICK c \in Nat, n \in Nat : c = mt.cell /\ n = ho.next
      BY <1>0
    <3>3. n >= c
      BY <1>3, <3>2 DEF InOrder
    <3>4. n = c
      <4>1. CASE n > c
        <5>1. ueMgr[n] \notin {"CONNECTED_NORMALLY", "CONNECTION_RECONFIGURATION",
                               "HANDOVER_PREPARATION", "HANDOVER_PATH_SWITCH"}
          BY <1>0, <2>1, <3>2 DEF IInv, HandoverInv, ManagersConsistent
        <5>2. ueMgr[n] # "HANDOVER_LEAVING"
          BY <1>0, <3>2, <4>1 DEF IInv, HandoverInv, ManagersConsistent
        <5>3. ueMgr[n] # "HANDOVER_JOINING"
          BY <1>0, <2>1, <3>2, <4>1 DEF IInv, HandoverInv, ManagersConsistent
        <5> QED BY <3>1, <3>2, <5>1, <5>2, <5>3 DEF UeStates
      <4> QED BY <3>3, <4>1
    <3>5. ueMgr[n] = "HANDOVER_JOINING"
      BY <2>1, <3>2, <3>4 DEF TunnelInv, MtTunnel
    <3>6. ~ho.pending
      BY <2>2, <3>2, <3>4
    <3> QED BY <3>2, <3>5, <3>6 DEF CanPrepareHandover, Busy
  <2> QED BY <1>3, <2>1, <2>2, <2>3
<1> QED BY <1>2, <1>3

LEMMA InOrderStep ==
  IInv /\ TunnelInv /\ NoneStranded /\ InOrder /\ Spacing = "settled" /\ [Next]_vars => InOrder'
<1> SUFFICES ASSUME IInv, TunnelInv, NoneStranded, InOrder, Spacing = "settled", [Next]_vars
             PROVE  InOrder'
  OBVIOUS
<1>0. /\ mt.cell \in Donors /\ Donors \subseteq Nat /\ ueMgr \in [Donors -> UeStates]
      /\ x2 \subseteq X2Msgs /\ air \subseteq AirMsgs /\ mt \in MtStates
      /\ ho \in HoStates /\ ho.next \in Donors
  BY Positions DEF IInv, TypeOK, HoStates
<1>c. PICK c \in Nat, n \in Nat : c = mt.cell /\ n = ho.next
  BY <1>0
<1>1. CASE UNCHANGED <<mt, ho, x2, air>>
  BY <1>1, InOrderKept DEF Preparing, Ordered
<1>2. CASE SkipHandover
  <2>1. Settled /\ ~HasUeManager(ho.next, mt.rnti) /\ mt' = mt
        /\ ho' = [ho EXCEPT !.next = ho.next + 1]
    BY <1>2 DEF SkipHandover, Due
  <2>2. mt.ra = "failed"
    BY <2>1, DueReady
  <2>3. n >= c
    BY <1>c, <2>2 DEF InOrder
  <2>4. ho'.next = n + 1 /\ mt'.cell = c /\ mt'.ra = "failed"
    BY <1>0, <1>c, <2>1, <2>2 DEF HoStates
  <2>5. ho'.next > mt'.cell /\ ho'.next >= mt'.cell
    BY <2>3, <2>4
  <2> QED BY <2>4, <2>5 DEF InOrder, Awaited
<1>3. CASE TriggerIabBackhaulHandover
  <2>1. Settled /\ HasUeManager(ho.next, mt.rnti)
    BY <1>3 DEF TriggerIabBackhaulHandover, Due
  <2>2. ~ho.pending /\ CanPrepareHandover(ho.next)
    BY <2>1, DueReady
  <2>3. ho' = Captured /\ PrepareHandover(ho.next, ho.next + 1) /\ UNCHANGED mt
    BY <1>3, <2>2 DEF TriggerIabBackhaulHandover
  <2>4. ho'.next = n + 1 /\ ho'.pending
    BY <1>c, <2>3 DEF Captured
  <2>5. CASE mt.ra # "failed"
    <3>1. mt.state = "CONNECTED_NORMALLY" /\ n = c /\ ueMgr[mt.cell] = "CONNECTED_NORMALLY"
      BY <1>c, <2>1, <2>5, DueReady
    <3>2. x2' = x2 \cup {[type |-> "HO_REQ", src |-> ho.next, tgt |-> ho.next + 1]}
      BY <1>c, <2>3, <3>1 DEF PrepareHandover, StartHandover, Busy
    <3>3. Preparing'
      <4>1. PICK m : m = [type |-> "HO_REQ", src |-> ho.next, tgt |-> ho.next + 1]
        OBVIOUS
      <4>2. m \in x2' /\ m.type = "HO_REQ"
        BY <3>2, <4>1
      <4> QED BY <4>2 DEF Preparing
    <3>4. ho'.next = mt'.cell + 1
      BY <1>c, <2>3, <2>4, <3>1
    <3> QED BY <2>3, <2>4, <2>5, <3>1, <3>3, <3>4 DEF InOrder, Awaited
  <2>6. CASE mt.ra = "failed"
    <3>1. n >= c
      BY <1>c, <2>6 DEF InOrder
    <3>2. mt'.ra = "failed" /\ mt'.cell = c
      BY <1>c, <2>3, <2>6
    <3>3. ho'.next > mt'.cell /\ ho'.next >= mt'.cell
      BY <2>4, <3>1, <3>2
    <3> QED BY <3>2, <3>3 DEF InOrder, Awaited
  <2> QED BY <2>5, <2>6
<1>4. CASE RecvHandoverRequest
  <2>1. PICK m \in x2 : x2' = (x2 \ {m}) \cup {[m EXCEPT !.type = "HO_ACK"]}
    BY <1>4 DEF RecvHandoverRequest
  <2>2. UNCHANGED <<mt, ho, air>>
    BY <1>4 DEF RecvHandoverRequest, scenVars
  <2>3. PICK k : k = [m EXCEPT !.type = "HO_ACK"]
    OBVIOUS
  <2>4. k \in x2' /\ k.type = "HO_ACK"
    BY <1>0, <2>1, <2>3 DEF X2Msgs
  <2>5. Preparing'
    BY <2>4 DEF Preparing
  <2> QED BY <2>2, <2>5, InOrderKept DEF Ordered
<1>5. CASE RecvHandoverRequestAck
  <2>1. PICK m \in x2 : air' = air \cup {[m EXCEPT !.type = "HO_CMD"]}
    BY <1>5 DEF RecvHandoverRequestAck
  <2>2. UNCHANGED <<mt, ho>>
    BY <1>5 DEF RecvHandoverRequestAck, scenVars
  <2>3. PICK k : k = [m EXCEPT !.type = "HO_CMD"]
    OBVIOUS
  <2>4. k \in air' /\ k.type = "HO_CMD"
    BY <1>0, <2>1, <2>3 DEF X2Msgs
  <2>5. Ordered'
    BY <2>4 DEF Ordered
  <2> QED BY <2>2, <2>5, InOrderKept
<1>6. CASE RecvHandoverCommand
  <2>1. PICK m \in air : /\ m.type = "HO_CMD" /\ mt.state = "CONNECTED_NORMALLY"
                         /\ mt'.cell = m.tgt /\ mt'.state = "CONNECTED_HANDOVER"
                         /\ mt'.ra = "running"
    BY <1>6 DEF RecvHandoverCommand
  <2>2. UNCHANGED ho
    BY <1>6 DEF RecvHandoverCommand, scenVars
  <2>3. m.tgt = c + 1 /\ ho.pending
    BY <1>c, <2>1 DEF IInv, HandoverInv, AirConsistent, Underway, TupleOf
  <2>4. mt.ra = "idle"
    BY <2>1 DEF IInv, HandoverInv, MtConsistent
  <2>5. n = c + 1
    BY <1>c, <2>1, <2>3, <2>4 DEF InOrder
  <2>6. ho'.next = mt'.cell
    BY <1>c, <2>1, <2>2, <2>3, <2>5
  <2> QED BY <2>1, <2>6 DEF InOrder, Awaited
<1>7. CASE RandomAccessSuccessful
  <2>1. mt'.cell = mt.cell /\ mt'.ra = "idle" /\ mt.ra = "running"
        /\ mt.state = "CONNECTED_HANDOVER"
    BY <1>7, EndPosition
  <2>2. ho' = [ho EXCEPT !.pending = FALSE]
    BY <1>7 DEF RandomAccessSuccessful, IabHandoverEndOk
  <2>3. ho'.next = ho.next /\ ~ho'.pending
    BY <1>0, <2>2 DEF HoStates
  <2>4. ho.next = mt.cell
    BY <2>1 DEF InOrder
  <2> QED BY <2>1, <2>3, <2>4 DEF InOrder
<1>8. CASE RandomAccessFailed
  <2>1. mt'.cell = mt.cell /\ mt'.ra = "failed" /\ mt.ra = "running"
        /\ mt.state = "CONNECTED_HANDOVER"
    BY <1>0, <1>8 DEF RandomAccessFailed, MtStates
  <2>2. ho' = [ho EXCEPT !.pending = FALSE]
    BY <1>8 DEF RandomAccessFailed
  <2>3. ho'.next = ho.next /\ ~ho'.pending
    BY <1>0, <2>2 DEF HoStates
  <2>4. ho.next = mt.cell
    BY <2>1 DEF InOrder
  <2>5. ho'.next >= mt'.cell
    BY <1>c, <2>1, <2>3, <2>4
  <2> QED BY <2>1, <2>3, <2>5 DEF InOrder
<1>9. CASE RecvHandoverCompleted
  <2>1. PICK m \in air : m.type = "COMPLETE" /\ air' = air \ {m}
    BY <1>9 DEF RecvHandoverCompleted
  <2>2. UNCHANGED <<mt, ho, x2>>
    BY <1>9 DEF RecvHandoverCompleted, scenVars
  <2>3. Ordered => Ordered'
    BY <2>1 DEF Ordered
  <2> QED BY <2>2, <2>3, InOrderKept DEF Preparing
<1>10. CASE RecvUeContextRelease
  <2>1. PICK m \in x2 : m.type = "UE_CTX_RELEASE" /\ x2' = x2 \ {m}
    BY <1>10 DEF RecvUeContextRelease
  <2>2. UNCHANGED <<mt, ho, air>>
    BY <1>10 DEF RecvUeContextRelease, scenVars
  <2>3. Preparing => Preparing'
    BY <2>1 DEF Preparing
  <2> QED BY <2>2, <2>3, InOrderKept DEF Ordered
<1>11. CASE DoPathSwitchRequestAcknowledge
  <2>1. UNCHANGED <<mt, ho>>
    BY <1>11 DEF DoPathSwitchRequestAcknowledge, scenVars
  <2>2. x2 \subseteq x2' /\ air \subseteq air'
    BY <1>0, <1>11, AckEffects, ReleaseEffects
  <2> QED BY <2>1, <2>2, InOrderKept DEF Preparing, Ordered
<1>12. CASE DeferredMigration \/ HandoverLeavingTimeout \/ MmePathSwitchRequest
            \/ HandoverJoiningTimeout \/ SendUplink
            \/ RecvFromLteSocket \/ UNCHANGED vars
  BY <1>1, <1>12
  DEF DeferredMigration, HandoverLeavingTimeout, MmePathSwitchRequest,
      HandoverJoiningTimeout, Abort, SendUplink,
      RecvFromLteSocket, vars, rrcVars, netVars, scenVars
<1>13. CASE RecvRrcConnectionReconfiguration
  <2>1. PICK m \in air : /\ m.type = "RECONF"
                        /\ air' = (air \ {m}) \cup {[m EXCEPT !.type = "COMPLETE"]}
    BY <1>13 DEF RecvRrcConnectionReconfiguration
  <2>2. UNCHANGED <<mt, ho, x2>>
    BY <1>13 DEF RecvRrcConnectionReconfiguration, scenVars
  <2>3. Ordered => Ordered'
    BY <2>1 DEF Ordered
  <2> QED BY <2>2, <2>3, InOrderKept DEF Preparing
<1>14. CASE RecvRrcConnectionReconfigurationCompleted
  <2>1. UNCHANGED <<mt, ho>> /\ ueMgr[mt.cell] = "CONNECTION_RECONFIGURATION" /\ x2 \subseteq x2'
    BY <1>14, CompletedEffects
  <2>2. ~Ordered
    BY <2>1 DEF Ordered, IInv, HandoverInv, AirConsistent, Underway
  <2> QED BY <2>1, <2>2, InOrderKept DEF Preparing
<1> QED
  BY <1>2, <1>3, <1>4, <1>5, <1>6, <1>7, <1>8, <1>9, <1>10, <1>11, <1>12, <1>13, <1>14
  DEF Next, Handlers, Environment

LEMMA NoAbortStep ==
  IInv /\ TunnelInv /\ NoneStranded /\ InOrder /\ NoProtocolAbort /\ Spacing = "settled"
  /\ [Next]_vars => NoProtocolAbort'
<1> SUFFICES ASSUME IInv, TunnelInv, NoneStranded, InOrder, NoProtocolAbort,
                    Spacing = "settled", [Next]_vars
             PROVE  NoProtocolAbort'
  OBVIOUS
<1>1. CASE fault' = fault
  BY <1>1 DEF NoProtocolAbort
<1>2. CASE TriggerIabBackhaulHandover
  <2>1. Settled /\ HasUeManager(ho.next, mt.rnti)
    BY <1>2 DEF TriggerIabBackhaulHandover, Due
  <2>2. ~ho.pending /\ CanPrepareHandover(ho.next)
    BY <2>1, DueReady
  <2>3. fault' = fault
    BY <1>2, <2>2 DEF TriggerIabBackhaulHandover
  <2> QED BY <1>1, <2>3
<1>3. CASE DoPathSwitchRequestAcknowledge
  BY <1>1, <1>3, AckEffects
<1>4. CASE HandoverJoiningTimeout
  BY <1>4 DEF HandoverJoiningTimeout, Abort, NoProtocolAbort
<1> QED
  BY <1>1, <1>2, <1>3, <1>4
  DEF Next, Handlers, Environment, SkipHandover, DeferredMigration, RandomAccessSuccessful,
      RecvHandoverCommand, RandomAccessFailed, HandoverLeavingTimeout,
      RecvHandoverCompleted, MmePathSwitchRequest,
      RecvHandoverRequest, RecvHandoverRequestAck, RecvUeContextRelease,
      RecvRrcConnectionReconfiguration, RecvRrcConnectionReconfigurationCompleted,
      SendUplink, RecvFromLteSocket, vars

\* What is left when nothing is in flight.
LEMMA SettledImpliesService ==
  ASSUME TunnelsInv, NoneStranded, Recognised, Counted,
         Cardinality(NestedFlows) = Cardinality(NestedIabs)
  PROVE  SettledService
<1> SUFFICES ASSUME Settled, mt.ra = "idle"
             PROVE  /\ \A d \in Donors : ueMgr[d] = IF d = mt.cell THEN "CONNECTED_NORMALLY" ELSE "none"
                    /\ \A f \in Flows : Reachable(f)
                    /\ RelayVerdicts(app[mt.cell], mt.rnti) = {"relayed"}
                    /\ numIab[mt.cell] = Cardinality(NestedIabs)
  BY DEF SettledService
<1>0. /\ mt.cell \in Donors /\ Donors \subseteq Nat /\ ueMgr \in [Donors -> UeStates]
      /\ mt \in MtStates /\ sgw \in [Imsis -> Donors]
  BY Positions DEF IInv, TypeOK, TunnelsInv
<1>i. IInv /\ TunnelInv /\ DescendantTunnels
  BY DEF TunnelsInv
<1>1. ~Preparing /\ ~Ordered /\ ~Adjusting /\ s1apUp = <<>> /\ s1apDown = <<>>
      /\ x2 = {} /\ air = {} /\ deferred = <<>>
  BY DEF Settled, Preparing, Ordered, Adjusting
<1>2. Len(s1apUp) = 0 /\ Len(s1apDown) = 0 /\ Len(deferred) = 0
  BY <1>1
<1>3. mt.state = "CONNECTED_NORMALLY" /\ mt.rnti = RntiOf[mt.cell]
  BY <1>0, <1>i DEF MtStates, IInv, HandoverInv, MtConsistent
<1>4. ueMgr[mt.cell] = "CONNECTED_NORMALLY"
  <2>1. ueMgr[mt.cell] # "HANDOVER_PATH_SWITCH"
    BY <1>2, <1>i DEF TunnelInv, MtTunnel, OnlyOne
  <2>2. ueMgr[mt.cell] \notin {"none", "HANDOVER_JOINING", "HANDOVER_PREPARATION", "HANDOVER_LEAVING",
                              "CONNECTION_RECONFIGURATION"}
    BY <1>1, <1>3, <1>i DEF NoneStranded, CurrentServed, TunnelInv, MtTunnel
  <2> QED BY <1>0, <2>1, <2>2 DEF UeStates
<1>5. Holder = mt.cell
  <2>1. PICK s \in Nat : s = Serving
    BY <1>i, Positions
  <2>2. Holder = s /\ s = mt.cell
    BY <1>2, <1>3, <1>i, <2>1, Positions DEF Holder
  <2> QED BY <2>2
<1>6. ASSUME NEW d \in Donors, d # mt.cell PROVE ueMgr[d] = "none"
  <2>1. PICK c \in Nat, e \in Nat : c = mt.cell /\ e = d
    BY <1>0
  <2>2. ueMgr[d] \notin {"CONNECTED_NORMALLY", "CONNECTION_RECONFIGURATION", "HANDOVER_PREPARATION",
                         "HANDOVER_PATH_SWITCH", "HANDOVER_JOINING"}
    BY <1>4, <1>6, <1>i DEF IInv, HandoverInv, ManagersConsistent
  <2>3. ueMgr[d] # "HANDOVER_LEAVING"
    <3>1. ASSUME ueMgr[d] = "HANDOVER_LEAVING" PROVE FALSE
      <4>1. d <= mt.cell
        BY <1>i, <3>1 DEF IInv, HandoverInv, ManagersConsistent
      <4>2. d < mt.cell
        BY <1>6, <2>1, <4>1
      <4> QED BY <1>1, <1>4, <3>1, <4>2 DEF NoneStranded, OldReleased
    <3> QED BY <3>1
  <2> QED BY <1>0, <2>2, <2>3 DEF UeStates
<1>7. ASSUME NEW f \in Flows PROVE Reachable(f)
  <2>1. PICK i \in Descendants : i = Owner[f] /\ i \in Imsis /\ i \in ImsisOf(Flows)
    BY OwnerImsi DEF ImsisOf
  <2>2. PICK t \in Nat, c \in Nat : t = sgw[i] /\ c = mt.cell
    BY <1>0, <2>1
  <2>3. Follows(i)
    BY <1>i DEF DescendantTunnels
  <2>4. t <= c /\ ~(t < c)
    <3>1. t <= c
      BY <1>5, <2>2, <2>3 DEF Follows
    <3>2. ASSUME t < c PROVE FALSE
      BY <1>0, <1>2, <1>5, <2>1, <2>2, <2>3, <3>2 DEF Follows
    <3> QED BY <3>1, <3>2
  <2>5. sgw[Owner[f]] = mt.cell
    BY <2>1, <2>2, <2>4
  <2>6. f \in app[mt.cell].remote /\ app[mt.cell].rbid[f] = RntiOf[mt.cell]
    BY <1>5, <1>i DEF IInv, RelayHeld, RelayAt, HasRelay
  <2> QED BY <1>3, <1>4, <2>5, <2>6 DEF Reachable, HasUeManager
<1>8. RelayVerdicts(app[mt.cell], mt.rnti) = {"relayed"}
  <2>1. PICK c \in Nat : c = mt.cell
    BY <1>0
  <2>2. app[mt.cell].iabFlag[MT] = "iab" /\ RntiOf[mt.cell] \in app[mt.cell].localRnti
    BY <1>0, <1>5, <2>1 DEF Recognised
  <2> QED BY <1>3, <2>2 DEF RelayVerdicts
<1> QED BY <1>4, <1>5, <1>6, <1>7, <1>8 DEF Counted

\* All that makes the relay's service whole again after a handover.
ServiceInv == TunnelsInv /\ NoneStranded /\ Recognised

LEMMA ServiceInit == Init => ServiceInv
BY TunnelsInit, NoneStrandedInit, RecognisedInit DEF ServiceInv

LEMMA ServiceStep == ServiceInv /\ [Next]_vars => ServiceInv'
<1> SUFFICES ASSUME ServiceInv, [Next]_vars PROVE ServiceInv'
  OBVIOUS
<1>1. TunnelsInv'
  BY TunnelsStep DEF ServiceInv
<1>2. NoneStranded' /\ Recognised'
  BY NoneStrandedStep, RecognisedStep DEF ServiceInv, TunnelsInv
<1> QED BY <1>1, <1>2 DEF ServiceInv

-----------------------------------------------------------------------------
(***************************************************************************)
(* Theorems.                                                               *)
(***************************************************************************)
\* The strengthening that makes RelayExactlyOnce inductive: the handover's
\* globals (g_hoSrcDonor and its companions), the RRC states and the deferred
\* migrations agree on where the relay state is.
THEOREM Inductive == Spec => []IInv
<1>1. Init => IInv
  BY InitType, InitHandover, InitRelay DEF IInv
<1>2. IInv /\ [Next]_vars => IInv'
  BY TypeStep, HandoverStep, RelayStep DEF IInv
<1> QED
  BY <1>1, <1>2, PTL DEF Spec

\* Every variable keeps its shape: no RNTI, TEID, donor or message outside
\* the sets the code can produce, whatever the program does.
THEOREM TypeCorrect == Spec => []TypeOK
<1>1. IInv => TypeOK
  BY DEF IInv
<1> QED
  BY <1>1, Inductive, PTL

\* The relay state of the descendants is at exactly one donor, whatever the
\* number of handovers, their spacing, the delay of the migration, and the
\* fate of random access (Export-, Import- and ReleaseIabDescendants).
THEOREM RelayNeitherLostNorDuplicated == Spec => []RelayExactlyOnce
<1>1. IInv => RelayExactlyOnce
  BY DEF IInv, RelayHeld, RelayAt, RelayExactlyOnce
<1> QED
  BY <1>1, Inductive, PTL

\* No UeManager is ever at rest with a trigger that PrepareHandover queued in
\* it: it is in CONNECTED_NORMALLY only once RecvRrcConnectionReconfiguration-
\* Completed has executed what was queued.
NoneLeftQueued == \A d \in Donors : queued[d] # 0 => ueMgr[d] # "CONNECTED_NORMALLY"

\* What PrepareHandover queued, RecvRrcConnectionReconfigurationCompleted has
\* executed before the UeManager comes to rest.
THEOREM QueuedTriggersExecuted == Spec => []NoneLeftQueued
<1>1. IInv => NoneLeftQueued
  BY DEF IInv, HandoverInv, QueuedConsistent, NoneLeftQueued
<1> QED
  BY <1>1, Inductive, PTL

\* The source's context of the IAB-MT (UeManager, and the bearers that
\* RemoveUe releases with it) is released only after the MME has re-pointed
\* the IAB-MT's tunnel in the SGW, for every chain of donors: acknowledgements
\* of the descendants' path switches never send UE CONTEXT RELEASE.
THEOREM ReleaseFollowsRepoint == Spec => []ReleaseAfterRepoint
<1>1. TunnelsInv => ReleaseAfterRepoint
  BY DEF TunnelsInv
<1> QED BY <1>1, TunnelsInvariant, PTL

\* IabMigration implements IabRelay: whatever the spacing of the triggers, the
\* delay of the migration and the fate of random access, every step of the
\* program is, for the IAB-MT's donor, the donor of the relay state and the
\* SGW's tunnels, a step of IabRelay or no step at all: relay state and tunnels
\* follow the IAB-MT donor by donor, skip none, go back to none, and never
\* overtake what they follow.
THEOREM RefinesRelay == Spec => RelayRefined
<1>1. Init => IInv /\ TunnelInv /\ DescendantTunnels
  BY InitType, InitHandover, InitRelay, TunnelInit, DescendantTunnelsInit DEF IInv
<1>2. IInv /\ TunnelInv /\ DescendantTunnels /\ [Next]_vars => TunnelInv' /\ DescendantTunnels'
  BY MtTunnelStep, PathSwitchKnownStep, SuppressedStep, DescendantTunnelsStep DEF TunnelInv
<1>3. Init => Relay!RelayInit
  BY <1>1, RefinesRelayInit, HomeIsHolder
<1>4. IInv /\ IInv' /\ TunnelInv /\ DescendantTunnels /\ [Next]_vars /\ Home = Holder /\ Home' = Holder'
      => [Relay!RelayNext]_(Relay!relayVars)
  BY RefinesRelayStep
<1>5. IInv => Home = Holder
  BY HomeIsHolder
<1>6. Spec => []IInv
  BY Inductive
<1>7. (Home = Holder)' => Home' = Holder'
  OBVIOUS
<1> QED BY <1>1, <1>2, <1>3, <1>4, <1>5, <1>6, <1>7, PTL DEF Spec, RelayRefined, Relay!RelaySpec

\* An uplink packet relayed by the IAB-MT is never sent as the IAB-MT's own
\* data when the migration is not deferred: the import at the end of the
\* handover (IabHandoverEndOk) comes before the first packet to the new donor,
\* so RecvFromLteSocket finds the flag of the IAB-MT in m_imsiIabMap.
THEOREM UplinkClassifiedAtImport ==
  ASSUME ~ExecDelay
  PROVE  Spec => []UplinkNotGarbled
<1> DEFINE J == ServiceInv /\ UplinkAt /\ UplinkNotGarbled
<1>1. Init => J
  BY ServiceInit DEF Init, UplinkAt, UplinkNotGarbled
<1>2. J /\ [Next]_vars => J'
  <2> SUFFICES ASSUME J, [Next]_vars PROVE J'
    OBVIOUS
  <2>1. ServiceInv'
    BY ServiceStep
  <2>2. UplinkAt' /\ UplinkNotGarbled'
    BY UplinkAtStep, UplinkStep DEF ServiceInv, TunnelsInv
  <2> QED BY <2>1, <2>2
<1>3. J => UplinkNotGarbled
  OBVIOUS
<1> HIDE DEF J
<1> QED BY <1>1, <1>2, <1>3, PTL DEF Spec

\* With triggers spaced wider than a handover (the intervals of hoTime), no
\* overlap is reported, no RRC message meets an unexpected state and no path
\* switch acknowledgement an unknown IMSI, after a failed random access too.
THEOREM SettledTriggersDoNotAbort ==
  ASSUME Spacing = "settled"
  PROVE  Spec => []NoProtocolAbort
<1> DEFINE J == ServiceInv /\ InOrder /\ NoProtocolAbort
<1>1. Init => J
  BY ServiceInit, InOrderInit DEF Init, NoProtocolAbort
<1>2. J /\ [Next]_vars => J'
  <2> SUFFICES ASSUME J, [Next]_vars PROVE J'
    OBVIOUS
  <2>1. ServiceInv'
    BY ServiceStep
  <2>2. InOrder' /\ NoProtocolAbort'
    BY InOrderStep, NoAbortStep DEF ServiceInv, TunnelsInv
  <2> QED BY <2>1, <2>2
<1>3. J => NoProtocolAbort
  OBVIOUS
<1> HIDE DEF J
<1> QED BY <1>1, <1>2, <1>3, PTL DEF Spec

\* Whenever nothing is in flight and the last random access did not fail, one
\* UeManager serves the IAB-MT, every descendant's downlink reaches it, its
\* uplink is recognised and the scheduler knows its nested IAB nodes, whatever
\* the spacing and the delay.  MigrateIabDescendants counts the bearers of the
\* nested IAB nodes, so the count is right when each has one.
THEOREM SettledServiceHolds ==
  ASSUME Cardinality(NestedFlows) = Cardinality(NestedIabs)
  PROVE  Spec => []SettledService
<1> DEFINE J == ServiceInv /\ Counted
<1>1. Init => J
  <2>1. Init => Counted
    BY NumDonorsAssumption DEF Init, Counted, Donors
  <2> QED BY <2>1, ServiceInit
<1>2. J /\ [Next]_vars => J'
  <2> SUFFICES ASSUME J, [Next]_vars PROVE J'
    OBVIOUS
  <2>1. ServiceInv'
    BY ServiceStep
  <2>2. Counted'
    BY CountedStep DEF ServiceInv, TunnelsInv
  <2> QED BY <2>1, <2>2
<1>3. J => SettledService
  BY SettledImpliesService DEF ServiceInv
<1> HIDE DEF J
<1> QED BY <1>1, <1>2, <1>3, PTL DEF Spec
==============================================================================
