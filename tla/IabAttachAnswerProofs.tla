------------------------ MODULE IabAttachAnswerProofs ------------------------
(***************************************************************************)
(* No assertion of the attach procedure fails, in any forest of cells and  *)
(* any order of connections: every answer is received by a node that knows *)
(* where to send it; the tunnel of each device leads down its tree; and    *)
(* the scheduler of each cell knows the relays behind each of its own.     *)
(*                                                                         *)
(* Two invariants on top of IInv.  What the first, AInv, says of messages  *)
(* and applications rests on three kinds of facts that, once true, stay    *)
(* true.  The second, DInv, rests on the shape of the forest: the way from *)
(* a cell to its donor is one, so that all requests of a device, and the   *)
(* answers, take the same relays.  The third, of RrcInv, AnswersDue and    *)
(* CountInv, rests on both.                                                *)
(***************************************************************************)
EXTENDS IabAttachProofs

Started(i)  == ueMgr[i] # "INITIAL_RANDOM_ACCESS"  \* the device has connected
Noted(i, n) == app[n].imsiRnti[i] # None           \* node n has an RNTI for it
Known(i)    == cellId[i] # None                    \* the MME has its cell

\* The request of device i has been noted by all nodes from its cell to x.
Climbed(i, x) ==
  \E S \in SUBSET Nodes :
    /\ Parent[i] \in S /\ x \in S
    /\ \A n \in S : Noted(i, n)
    /\ \A c \in S \cap IABs : c = x \/ Parent[c] \in S

\* What may be on its way at each place.
Waiting(c)    == {m \in RelayMsgs : Started(m.imsi) /\ Climbed(m.imsi, c)}
Climbing(c)   == {m \in UpMsgs : m.type = "InitialUeMessage" => m \in Waiting(c)}
Arrived       == {m \in RelayMsgs :
                    Started(m.imsi) /\ \E d \in Donors : Climbed(m.imsi, d)}
Answered      == {r \in [imsi : Devices, enb : Donors] :
                    Known(r.imsi) /\ Noted(r.imsi, r.enb)}
Descending(c) == {m \in DownMsgs :
                    m.type = "InitialContextSetupRequest" =>
                      c \in IABs /\ Known(m.imsi) /\ Noted(m.imsi, c)}

PathsNoted ==
  /\ \A c \in IABs : buffer[c] \in Seq(Waiting(c))
  /\ \A c \in Devices : up[c] \in Seq(Climbing(c))
  /\ \A c \in Devices : down[c] \in Seq(Descending(c))
  /\ s1apUp \in Seq(Arrived)
  /\ s1apDown \in Seq(Answered)

\* A node that relayed the request of i has a bearer for the answer, and the
\* relay at its other end knows i, too.
Ready(a) ==
  \A i \in Devices :
    /\ i \in a.requested =>
         Started(i) /\ a.localRbid[i] # None /\ a.imsiRnti[i] \in a.heard
    /\ a.localRbid[i] # None => Noted(i, a.localRbid[i])

AppsReady == \A n \in Nodes : Ready(app[n])

BearersKnown == \A i \in bearer : Known(i)

AInv == fault = "none" /\ PathsNoted /\ AppsReady /\ BearersKnown

-----------------------------------------------------------------------------
(***************************************************************************)
(* Facts that stay true, and what follows for messages and applications.   *)
(***************************************************************************)
Lasting ==
  \A i \in Devices :
    /\ Started(i) => Started(i)'
    /\ Known(i) => Known(i)'
    /\ \A n \in Nodes : Noted(i, n) => Noted(i, n)'

LEMMA ClimbedLasts ==
  ASSUME Lasting, NEW i \in Devices, NEW x, Climbed(i, x)
  PROVE  Climbed(i, x)'
BY DEF Lasting, Climbed

LEMMA SetsGrow ==
  ASSUME Lasting
  PROVE  /\ Arrived \subseteq Arrived'
         /\ Answered \subseteq Answered'
         /\ \A c : Waiting(c) \subseteq Waiting(c)'
         /\ \A c : Climbing(c) \subseteq Climbing(c)'
         /\ \A c : Descending(c) \subseteq Descending(c)'
<1>1. \A m \in RelayMsgs : m.imsi \in Devices
  BY DEF RelayMsgs
<1>2. \A c : Waiting(c) \subseteq Waiting(c)'
  BY <1>1, ClimbedLasts DEF Waiting, Lasting
<1>3. \A c : Climbing(c) \subseteq Climbing(c)'
  BY <1>2 DEF Climbing
<1>4. Arrived \subseteq Arrived'
  BY <1>1, ClimbedLasts DEF Arrived, Lasting
<1>5. Answered \subseteq Answered'
  BY DEF Answered, Lasting, Nodes
<1>6. \A c : Descending(c) \subseteq Descending(c)'
  BY MessageTypes DEF Descending, Lasting, Nodes
<1>7. QED
  BY <1>2, <1>3, <1>4, <1>5, <1>6

LEMMA MessagesLast ==
  ASSUME PathsNoted, Lasting
  PROVE  /\ \A c \in IABs : buffer[c] \in Seq(Waiting(c)')
         /\ \A c \in Devices : up[c] \in Seq(Climbing(c)')
         /\ \A c \in Devices : down[c] \in Seq(Descending(c)')
         /\ s1apUp \in Seq(Arrived')
         /\ s1apDown \in Seq(Answered')
BY SetsGrow, SeqMonotonic DEF PathsNoted

\* No application changes.
LEMMA AppsUnchanged ==
  ASSUME IInv, AppsReady, Lasting, app' = app
  PROVE  AppsReady'
<1>1. \A n \in Nodes : \A i \in Devices : app[n].localRbid[i] \in Nodes \cup {None}
  BY DEF IInv, AppsConsistent, AppOk, Nodes
<1>2. QED
  BY <1>1 DEF AppsReady, Ready, Lasting

\* The application of one node changes, and forgets no RNTI.
LEMMA AppsChanged ==
  ASSUME IInv, AppsReady, Lasting,
         NEW n \in Nodes, NEW b, Ready(b)', app' = [app EXCEPT ![n] = b]
  PROVE  AppsReady'
<1>1. \A x \in Nodes : \A i \in Devices : app[x].localRbid[i] \in Nodes \cup {None}
  BY DEF IInv, AppsConsistent, AppOk, Nodes
<1>2. ASSUME NEW x \in Nodes, x # n PROVE Ready(app[x])'
  <2>1. app'[x] = app[x]
    BY <1>2 DEF IInv, Shapes
  <2>2. Ready(app[x])
    BY DEF AppsReady
  <2>3. QED
    BY <1>1, <2>1, <2>2 DEF Ready, Lasting
<1>3. app'[n] = b
  BY DEF IInv, Shapes
<1>4. Ready(app[n])'
  BY <1>3 DEF Ready
<1>5. QED
  BY <1>2, <1>4 DEF AppsReady

-----------------------------------------------------------------------------
(***************************************************************************)
(* Init, and one lemma per action.                                         *)
(***************************************************************************)
LEMMA InitNoted == Init => AInv
<1> SUFFICES ASSUME Init PROVE AInv
  OBVIOUS
<1>1. PathsNoted
  BY EmptySeq DEF Init, PathsNoted
<1>2. AppsReady
  BY DEF Init, AppsReady, Ready, EmptyApp
<1>3. BearersKnown /\ fault = "none"
  BY DEF Init, BearersKnown
<1>4. QED
  BY <1>1, <1>2, <1>3 DEF AInv

\* What goes to the backhaul is kept, sent, or lost.
LEMMA BackhaulNoted ==
  ASSUME IInv, PathsNoted, Lasting, NEW n \in IABs, NEW m \in RelayMsgs, m \in Waiting(n)',
         NEW links \in [Devices -> Seq(UpMsgs)],
         \A c \in Devices : links[c] \in Seq(Climbing(c)'),
         SendToBackhaul(n, m, links)
  PROVE  /\ \A c \in IABs : buffer'[c] \in Seq(Waiting(c)')
         /\ \A c \in Devices : up'[c] \in Seq(Climbing(c)')
<1>1. n \in Devices /\ m \in Climbing(n)'
  BY MessageTypes DEF Climbing, Devices
<1>2. \A c \in IABs : buffer[c] \in Seq(Waiting(c)')
  BY MessagesLast
<1>3. CASE nas[n] = "OFF"
  <2>1. buffer' = [buffer EXCEPT ![n] = Append(@, m)] /\ up' = links
    BY <1>3 DEF SendToBackhaul
  <2>2. Append(buffer[n], m) \in Seq(Waiting(n)')
    BY <1>2, AppendProperties
  <2>3. QED
    BY <1>2, <2>1, <2>2 DEF IInv, Messages
<1>4. CASE nas[n] # "OFF" /\ n \in drb
  <2>1. up' = [links EXCEPT ![n] = Append(@, m)] /\ buffer' = buffer
    BY <1>4 DEF SendToBackhaul
  <2>2. Append(links[n], m) \in Seq(Climbing(n)')
    BY <1>1, AppendProperties
  <2>3. QED
    BY <1>2, <2>1, <2>2
<1>5. CASE nas[n] # "OFF" /\ n \notin drb
  BY <1>2, <1>5 DEF SendToBackhaul
<1>6. QED
  BY <1>3, <1>4, <1>5

LEMMA ConnectionRequestNoted ==
  ASSUME IInv, AInv, NEW i \in Devices, RecvRrcConnectionRequest(i)
  PROVE  AInv'
<1> DEFINE n == Parent[i]
<1>0. PICK b : b = DoInitialUeMessage(app[n], i)
  OBVIOUS
<1>1. n \in Nodes /\ app[n] \in AppStates /\ i # None
  BY ParentAssumption, NodesAssumption DEF IInv, Shapes, Devices, Nodes
<1>2. /\ ~Started(i) /\ Started(i)'
      /\ \A j \in Devices : Started(j) => Started(j)'
  BY DEF RecvRrcConnectionRequest, IInv, Shapes, Started
<1>3. app' = [app EXCEPT ![n] = b] /\ UNCHANGED <<bearer, s1apDown, cellId, fault>>
  BY <1>0 DEF RecvRrcConnectionRequest, coreVars
<1>4. /\ b.imsiRnti = [app[n].imsiRnti EXCEPT ![i] = i]
      /\ b.requested = app[n].requested /\ b.localRbid = app[n].localRbid
      /\ b.heard = app[n].heard
  BY <1>0, <1>1 DEF DoInitialUeMessage, AppStates
<1> HIDE DEF n
<1>5. \A j \in Devices : app[n].imsiRnti[j] # None => b.imsiRnti[j] # None
  BY <1>1, <1>4 DEF AppStates
<1>6. Lasting
  <2>1. \A j \in Devices : \A x \in Nodes : Noted(j, x) => Noted(j, x)'
    BY <1>1, <1>3, <1>5 DEF IInv, Shapes, Noted
  <2>2. QED
    BY <1>2, <1>3, <2>1 DEF Lasting, Known
<1>7. AppsReady'
  <2>1. Ready(app[n])
    BY <1>1 DEF AInv, AppsReady
  <2>2. \A j \in Devices : app[n].localRbid[j] \in Nodes \cup {None}
    BY <1>1 DEF IInv, AppsConsistent, AppOk, Nodes
  <2>3. \A j \in Devices : j \in app[n].requested => j # i
    BY <1>2, <2>1 DEF Ready
  <2>4. Ready(b)'
    BY <1>1, <1>3, <1>4, <1>6, <2>1, <2>2, <2>3 DEF Ready, Lasting, AppStates
  <2>5. QED
    BY <1>1, <1>3, <1>6, <2>4, AppsChanged DEF AInv
<1>8. Noted(i, n)' /\ Climbed(i, n)'
  <2>1. Noted(i, n)'
    BY <1>1, <1>3, <1>4 DEF Noted, IInv, Shapes, AppStates
  <2>2. /\ {n} \in SUBSET Nodes /\ Parent[i] \in {n} /\ n \in {n}
        /\ \A c \in {n} \cap IABs : c = n \/ Parent[c] \in {n}
    BY <1>1 DEF n
  <2>3. \A x \in {n} : Noted(i, x)'
    BY <2>1
  <2>4. QED
    BY <2>1, <2>2, <2>3 DEF Climbed
<1>9. /\ \A c \in IABs : buffer[c] \in Seq(Waiting(c)')
      /\ \A c \in Devices : up[c] \in Seq(Climbing(c)')
      /\ \A c \in Devices : down[c] \in Seq(Descending(c)')
      /\ s1apUp \in Seq(Arrived')
      /\ s1apDown \in Seq(Answered')
  BY <1>6, MessagesLast DEF AInv
<1>10. \A c \in Devices : down'[c] \in Seq(Descending(c)')
  <2>1. Rrc("Setup") \in Descending(i)'
    BY DEF Descending, DownMsgs, Rrc
  <2>2. Append(down[i], Rrc("Setup")) \in Seq(Descending(i)')
    BY <1>9, <2>1, AppendProperties
  <2>3. QED
    BY <1>9, <2>2 DEF RecvRrcConnectionRequest, IInv, Messages
<1>11. /\ \A c \in IABs : buffer'[c] \in Seq(Waiting(c)')
       /\ \A c \in Devices : up'[c] \in Seq(Climbing(c)')
       /\ s1apUp' \in Seq(Arrived')
  <2>1. CASE n \in Donors
    <3>1. s1apUp' = Append(s1apUp, InitialUeMessage(i, {})) /\ UNCHANGED <<buffer, up>>
      BY <2>1 DEF RecvRrcConnectionRequest, n
    <3>2. InitialUeMessage(i, {}) \in Arrived'
      BY <1>2, <1>8, <2>1, NewMessages DEF Arrived
    <3>3. QED
      BY <1>9, <3>1, <3>2, AppendProperties
  <2>2. CASE n \notin Donors
    <3>1. n \in IABs
      BY <1>1, <2>2 DEF Nodes
    <3>2. SendToBackhaul(n, InitialUeMessage(i, {n}), up) /\ s1apUp' = s1apUp
      BY <2>2 DEF RecvRrcConnectionRequest, n
    <3>3. InitialUeMessage(i, {n}) \in RelayMsgs /\ InitialUeMessage(i, {n}) \in Waiting(n)'
      BY <1>2, <1>8, <3>1, NewMessages DEF Waiting
    <3>4. up \in [Devices -> Seq(UpMsgs)]
      BY DEF IInv, Messages
    <3>5. QED
      BY <1>6, <1>9, <3>1, <3>2, <3>3, <3>4, BackhaulNoted DEF AInv
  <2>3. QED
    BY <2>1, <2>2
<1>12. PathsNoted'
  BY <1>3, <1>9, <1>10, <1>11 DEF PathsNoted
<1>13. BearersKnown' /\ fault' = "none"
  BY <1>3, <1>6 DEF AInv, BearersKnown, Lasting, IInv, Shapes, Known
<1>14. QED
  BY <1>7, <1>12, <1>13 DEF AInv

\* RRC of the parent's cell: only messages without an IMSI.
LEMMA ConnectedNoted ==
  ASSUME IInv, AInv, NEW i \in Devices, NEW type, RecvUp(i, type),
         SwitchToConnectedNormally(i),
         UNCHANGED <<bearer, ueVars, buffer, app, s1apUp, coreVars, lost, fault>>
  PROVE  AInv'
<1>1. UNCHANGED <<bearer, buffer, app, s1apUp, s1apDown, cellId, fault>>
  BY DEF coreVars
<1>2. Lasting
  BY <1>1 DEF Lasting, Started, Known, Noted, SwitchToConnectedNormally, IInv, Shapes
<1>3. /\ \A c \in IABs : buffer[c] \in Seq(Waiting(c)')
      /\ \A c \in Devices : up[c] \in Seq(Climbing(c)')
      /\ \A c \in Devices : down[c] \in Seq(Descending(c)')
      /\ s1apUp \in Seq(Arrived')
      /\ s1apDown \in Seq(Answered')
  BY <1>2, MessagesLast DEF AInv
<1>4. \A c \in Devices : up'[c] \in Seq(Climbing(c)')
  <2>1. Tail(up[i]) \in Seq(Climbing(i)')
    BY <1>3, HeadTailProperties DEF RecvUp
  <2>2. QED
    BY <1>3, <2>1 DEF RecvUp, IInv, Messages
<1>5. \A c \in Devices : down'[c] \in Seq(Descending(c)')
  <2>1. Rrc("Reconfiguration") \in Descending(i)'
    BY DEF Descending, DownMsgs, Rrc
  <2>2. Append(down[i], Rrc("Reconfiguration")) \in Seq(Descending(i)')
    BY <1>3, <2>1, AppendProperties
  <2>3. QED
    BY <1>3, <2>2 DEF SwitchToConnectedNormally, IInv, Messages
<1>6. AppsReady'
  BY <1>1, <1>2, AppsUnchanged DEF AInv
<1>7. PathsNoted'
  BY <1>1, <1>3, <1>4, <1>5 DEF PathsNoted
<1>8. BearersKnown' /\ fault' = "none"
  BY <1>1 DEF AInv, BearersKnown, Known
<1>9. QED
  BY <1>6, <1>7, <1>8 DEF AInv

LEMMA ConnectionSetupNoted ==
  ASSUME IInv, AInv, NEW i \in Devices, RecvRrcConnectionSetup(i)
  PROVE  AInv'
<1>1. UNCHANGED <<ueMgr, bearer, buffer, app, s1apUp, s1apDown, cellId, fault>>
  BY DEF RecvRrcConnectionSetup, enbVars, coreVars
<1>2. Lasting
  BY <1>1 DEF Lasting, Started, Known, Noted
<1>3. /\ \A c \in IABs : buffer[c] \in Seq(Waiting(c)')
      /\ \A c \in Devices : up[c] \in Seq(Climbing(c)')
      /\ \A c \in Devices : down[c] \in Seq(Descending(c)')
      /\ s1apUp \in Seq(Arrived')
      /\ s1apDown \in Seq(Answered')
  BY <1>2, MessagesLast DEF AInv
<1>4. \A c \in Devices : up'[c] \in Seq(Climbing(c)')
  <2>1. Rrc("SetupCompleted") \in Climbing(i)'
    BY DEF Climbing, UpMsgs, Rrc
  <2>2. Append(up[i], Rrc("SetupCompleted")) \in Seq(Climbing(i)')
    BY <1>3, <2>1, AppendProperties
  <2>3. QED
    BY <1>3, <2>2 DEF RecvRrcConnectionSetup, IInv, Messages
<1>5. \A c \in Devices : down'[c] \in Seq(Descending(c)')
  <2>1. Tail(down[i]) \in Seq(Descending(i)')
    BY <1>3, HeadTailProperties DEF RecvRrcConnectionSetup, RecvDown
  <2>2. QED
    BY <1>3, <2>1 DEF RecvRrcConnectionSetup, RecvDown, IInv, Messages
<1>6. AppsReady'
  BY <1>1, <1>2, AppsUnchanged DEF AInv
<1>7. PathsNoted'
  BY <1>1, <1>3, <1>4, <1>5 DEF PathsNoted
<1>8. BearersKnown' /\ fault' = "none"
  BY <1>1 DEF AInv, BearersKnown, Known
<1>9. QED
  BY <1>6, <1>7, <1>8 DEF AInv

\* The NAS sends what it kept.
LEMMA ReconfigurationNoted ==
  ASSUME IInv, AInv, NEW i \in Devices, RecvRrcConnectionReconfiguration(i)
  PROVE  AInv'
<1> DEFINE new == (up[i] \o Kept(i)) \o <<Rrc("ReconfigurationCompleted")>>
<1>1. UNCHANGED <<ueMgr, bearer, buffer, app, s1apUp, s1apDown, cellId, fault>>
  BY DEF RecvRrcConnectionReconfiguration, enbVars, coreVars
<1>2. Lasting
  BY <1>1 DEF Lasting, Started, Known, Noted
<1>3. /\ \A c \in IABs : buffer[c] \in Seq(Waiting(c)')
      /\ \A c \in Devices : up[c] \in Seq(Climbing(c)')
      /\ \A c \in Devices : down[c] \in Seq(Descending(c)')
      /\ s1apUp \in Seq(Arrived')
      /\ s1apDown \in Seq(Answered')
  BY <1>2, MessagesLast DEF AInv
<1>4. \A c \in Devices : up'[c] \in Seq(Climbing(c)')
  <2>1. Kept(i) \in Seq(Climbing(i)')
    <3>1. Waiting(i)' \subseteq Climbing(i)'
      BY MessageTypes DEF Waiting, Climbing
    <3>2. QED
      BY <1>3, <3>1, SeqMonotonic, EmptySeq DEF Kept
  <2>2. <<Rrc("ReconfigurationCompleted")>> \in Seq(Climbing(i)')
    <3>1. Rrc("ReconfigurationCompleted") \in Climbing(i)'
      BY DEF Climbing, UpMsgs, Rrc
    <3>2. QED
      BY <3>1
  <2>3. new \in Seq(Climbing(i)')
    BY <1>3, <2>1, <2>2, ConcatProperties
  <2>4. up' = [up EXCEPT ![i] = new]
    BY DEF RecvRrcConnectionReconfiguration
  <2> HIDE DEF new
  <2>5. QED
    BY <1>3, <2>3, <2>4 DEF IInv, Messages
<1>5. \A c \in Devices : down'[c] \in Seq(Descending(c)')
  <2>1. Tail(down[i]) \in Seq(Descending(i)')
    BY <1>3, HeadTailProperties DEF RecvRrcConnectionReconfiguration, RecvDown
  <2>2. QED
    BY <1>3, <2>1 DEF RecvRrcConnectionReconfiguration, RecvDown, IInv, Messages
<1>6. AppsReady'
  BY <1>1, <1>2, AppsUnchanged DEF AInv
<1>7. PathsNoted'
  BY <1>1, <1>3, <1>4, <1>5 DEF PathsNoted
<1>8. BearersKnown' /\ fault' = "none"
  BY <1>1 DEF AInv, BearersKnown, Known
<1>9. QED
  BY <1>6, <1>7, <1>8 DEF AInv

\* One more node has noted a request: that it came from c.
LEMMA ClimbsOn ==
  ASSUME Lasting, NEW i \in Devices, NEW c \in IABs, Climbed(i, c),
         Parent[c] \in Nodes, Noted(i, Parent[c])'
  PROVE  Climbed(i, Parent[c])'
<1>1. PICK S \in SUBSET Nodes :
        /\ Parent[i] \in S /\ c \in S
        /\ \A n \in S : Noted(i, n)
        /\ \A b \in S \cap IABs : b = c \/ Parent[b] \in S
  BY DEF Climbed
<1> DEFINE T == S \cup {Parent[c]}
<1>2. T \in SUBSET Nodes /\ Parent[i] \in T /\ Parent[c] \in T
  BY <1>1
<1>3. \A n \in T : Noted(i, n)'
  BY <1>1 DEF Lasting
<1>4. \A b \in T \cap IABs : b = Parent[c] \/ Parent[b] \in T
  BY <1>1
<1> HIDE DEF T
<1>5. QED
  BY <1>2, <1>3, <1>4 DEF Climbed

LEMMA RelayedRequestNoted ==
  ASSUME IInv, AInv, NEW c \in IABs, RecvFromLteSocket(c)
  PROVE  AInv'
<1> DEFINE n == Parent[c]
           links == [up EXCEPT ![c] = Tail(@)]
<1>1. /\ c \in Devices /\ c # None /\ n \in Nodes
      /\ app \in [Nodes -> AppStates] /\ up \in [Devices -> Seq(UpMsgs)]
  BY ParentAssumption, NodesAssumption DEF Devices, Nodes, IInv, Shapes, Messages
<1>2. PICK m : m = Head(up[c])
  OBVIOUS
<1>3. PICK b : b = RelayInitialUeMessage(app[n], c, m)
  OBVIOUS
<1>4. up[c] # << >> /\ m.type = "InitialUeMessage"
  BY <1>2 DEF RecvFromLteSocket
<1>5. m \in Climbing(c) /\ Tail(up[c]) \in Seq(Climbing(c))
  BY <1>1, <1>2, <1>4, HeadTailProperties DEF AInv, PathsNoted
<1>6. m \in RelayMsgs /\ m.imsi \in Devices /\ Started(m.imsi) /\ Climbed(m.imsi, c)
  BY <1>4, <1>5 DEF Climbing, Waiting, RelayMsgs
<1>7. Noted(m.imsi, c)
  BY <1>6 DEF Climbed
<1>8. c \in app[n].localImsi
  <2>1. Head(up[c]) \in Uplink(c)
    BY <1>1, <1>4 DEF IInv, Messages
  <2>2. c \in bearer
    BY <1>2, <1>4, <2>1 DEF Uplink, IInv, BearersInOrder
  <2>3. QED
    BY <2>2 DEF IInv, BearersInOrder, Announced
<1>9. links \in [Devices -> Seq(UpMsgs)] /\ \A x \in Devices : links[x] \in Seq(Climbing(x))
  <2>1. Tail(up[c]) \in Seq(UpMsgs)
    BY <1>1, <1>4, HeadTailProperties
  <2>2. QED
    BY <1>1, <1>5, <2>1 DEF AInv, PathsNoted
<1>10. UNCHANGED <<ueMgr, bearer, down, s1apDown, cellId, fault>>
  BY <1>8 DEF RecvFromLteSocket, enbVars, coreVars
<1>11. \/ /\ up' = links
          /\ UNCHANGED <<app, s1apUp, buffer>>
       \/ /\ n \in Donors
          /\ app' = [app EXCEPT ![n] = b]
          /\ up' = links
          /\ s1apUp' = Append(s1apUp, AddParent(n, m))
          /\ UNCHANGED buffer
       \/ /\ n \notin Donors
          /\ app' = [app EXCEPT ![n] = b]
          /\ SendToBackhaul(n, AddParent(n, m), links)
          /\ UNCHANGED s1apUp
  BY <1>2, <1>3, <1>8 DEF RecvFromLteSocket
<1>12. /\ b.imsiRnti = [app[n].imsiRnti EXCEPT ![m.imsi] = c]
       /\ b.localRbid = [app[n].localRbid EXCEPT ![m.imsi] = c]
       /\ b.requested = app[n].requested \cup {m.imsi}
       /\ b.heard = app[n].heard \cup {c}
  BY <1>1, <1>3, <1>6 DEF RelayInitialUeMessage, AppStates
<1> HIDE DEF n, links
<1>13. app' = app \/ app' = [app EXCEPT ![n] = b]
  BY <1>11
<1>14. Lasting
  <2>1. \A j \in Devices : \A x \in Nodes : Noted(j, x) => Noted(j, x)'
    <3>1. \A j \in Devices : app[n].imsiRnti[j] # None => b.imsiRnti[j] # None
      BY <1>1, <1>6, <1>12 DEF AppStates
    <3>2. QED
      BY <1>1, <1>13, <3>1 DEF Noted
  <2>2. QED
    BY <1>10, <2>1 DEF Lasting, Started, Known
<1>15. AppsReady'
  <2>1. CASE app' = app
    BY <1>14, <2>1, AppsUnchanged DEF AInv
  <2>2. CASE app' = [app EXCEPT ![n] = b]
    <3>1. Ready(app[n])
      BY <1>1 DEF AInv, AppsReady
    <3>2. \A j \in Devices : app[n].localRbid[j] \in Nodes \cup {None}
      BY <1>1 DEF IInv, AppsConsistent, AppOk, Nodes
    <3>3. Started(m.imsi)' /\ Noted(m.imsi, c)' /\ c \in Nodes
      BY <1>6, <1>7, <1>14 DEF Lasting, Nodes
    <3>4. ASSUME NEW j \in Devices, j \in b.requested
          PROVE  Started(j)' /\ b.localRbid[j] # None /\ b.imsiRnti[j] \in b.heard
      <4>1. CASE j = m.imsi
        BY <1>1, <1>6, <1>12, <3>3, <4>1 DEF AppStates
      <4>2. CASE j # m.imsi
        BY <1>1, <1>12, <1>14, <3>1, <3>4, <4>2 DEF AppStates, Ready, Lasting
      <4>3. QED
        BY <4>1, <4>2
    <3>5. ASSUME NEW j \in Devices, b.localRbid[j] # None
          PROVE  Noted(j, b.localRbid[j])'
      <4>1. CASE j = m.imsi
        BY <1>1, <1>6, <1>12, <3>3, <4>1 DEF AppStates
      <4>2. CASE j # m.imsi
        <5>1. b.localRbid[j] = app[n].localRbid[j]
          BY <1>1, <1>12, <4>2 DEF AppStates
        <5>2. QED
          BY <1>14, <3>1, <3>2, <3>5, <5>1 DEF Ready, Lasting
      <4>3. QED
        BY <4>1, <4>2
    <3>6. Ready(b)'
      BY <3>4, <3>5 DEF Ready
    <3>7. QED
      BY <1>1, <1>14, <2>2, <3>6, AppsChanged DEF AInv
  <2>3. QED
    BY <1>13, <2>1, <2>2
<1>16. /\ \A x \in IABs : buffer[x] \in Seq(Waiting(x)')
       /\ \A x \in Devices : down[x] \in Seq(Descending(x)')
       /\ s1apUp \in Seq(Arrived')
       /\ s1apDown \in Seq(Answered')
  BY <1>14, MessagesLast DEF AInv
<1>17. \A x \in Devices : links[x] \in Seq(Climbing(x)')
  BY <1>9, <1>14, SetsGrow, SeqMonotonic
<1>18. /\ AddParent(n, m) \in RelayMsgs
       /\ AddParent(n, m).imsi = m.imsi
  BY <1>6 DEF AddParent, RelayMsgs
<1>19. app' = [app EXCEPT ![n] = b] => Climbed(m.imsi, n)'
  <2>1. SUFFICES ASSUME app' = [app EXCEPT ![n] = b] PROVE Climbed(m.imsi, n)'
    OBVIOUS
  <2>2. Noted(m.imsi, n)'
    BY <1>1, <1>6, <1>12, <2>1 DEF Noted, AppStates
  <2>3. QED
    BY <1>1, <1>6, <1>14, <2>2, ClimbsOn DEF n
<1>20. /\ \A x \in IABs : buffer'[x] \in Seq(Waiting(x)')
       /\ \A x \in Devices : up'[x] \in Seq(Climbing(x)')
       /\ s1apUp' \in Seq(Arrived')
  <2>1. CASE up' = links /\ UNCHANGED <<app, s1apUp, buffer>>
    BY <1>16, <1>17, <2>1
  <2>2. CASE /\ n \in Donors
             /\ app' = [app EXCEPT ![n] = b]
             /\ up' = links
             /\ s1apUp' = Append(s1apUp, AddParent(n, m))
             /\ UNCHANGED buffer
    <3>1. AddParent(n, m) \in Arrived'
      BY <1>6, <1>14, <1>18, <1>19, <2>2 DEF Arrived, Lasting
    <3>2. QED
      BY <1>16, <1>17, <2>2, <3>1, AppendProperties
  <2>3. CASE /\ n \notin Donors
             /\ app' = [app EXCEPT ![n] = b]
             /\ SendToBackhaul(n, AddParent(n, m), links)
             /\ UNCHANGED s1apUp
    <3>1. n \in IABs
      BY <1>1, <2>3 DEF Nodes
    <3>2. AddParent(n, m) \in Waiting(n)'
      BY <1>6, <1>14, <1>18, <1>19, <2>3 DEF Waiting, Lasting
    <3>3. QED
      BY <1>9, <1>14, <1>16, <1>17, <1>18, <2>3, <3>1, <3>2, BackhaulNoted DEF AInv
  <2>4. QED
    BY <1>11, <2>1, <2>2, <2>3
<1>21. PathsNoted'
  BY <1>10, <1>16, <1>20 DEF PathsNoted
<1>22. BearersKnown' /\ fault' = "none"
  BY <1>10 DEF AInv, BearersKnown, Known
<1>23. QED
  BY <1>15, <1>21, <1>22 DEF AInv

\* The search of the MME ends at a donor that has noted the request: the cells
\* it passes belong to relays with a bearer, all of which the MME knows.
LEMMA WiredCellNoted ==
  ASSUME IInv, BearersKnown, NEW i \in Devices, RelayReady(i),
         NEW d \in Donors, Climbed(i, d),
         NEW cells, cells = [cellId EXCEPT ![i] = Parent[i]]
  PROVE  /\ WiredCell(cells, Parent[i]) \in Donors
         /\ Noted(i, WiredCell(cells, Parent[i]))
<1>1. PICK S \in SUBSET Nodes :
        /\ Parent[i] \in S /\ d \in S
        /\ \A n \in S : Noted(i, n)
        /\ \A c \in S \cap IABs : c = d \/ Parent[c] \in S
  BY DEF Climbed
<1> DEFINE T == S \cap (Donors \cup drb)
           All == Nodes \cup {None}
<1>2. /\ cells \in [Devices -> Nodes \cup {None}]
      /\ \A j \in Devices : cells[j] \in {None, Parent[j]}
  BY ParentAssumption DEF IInv, CellsKnown
<1>3. Parent[i] \in T /\ T \in SUBSET All
  BY <1>1 DEF RelayReady
<1>4. ASSUME NEW c \in T \cap IABs PROVE cells[c] \in T
  <2>1. c \in drb /\ c \in bearer /\ c \in Devices /\ c # d
    BY <1>4, NodesAssumption DEF IInv, BearersInOrder, Devices
  <2>2. Parent[c] \in S
    BY <1>1, <1>4, <2>1
  <2>3. Parent[c] \in Donors \cup drb
    BY <2>1 DEF IInv, BearersInOrder, RelayReady
  <2>4. cells[c] = Parent[c]
    BY <2>1 DEF IInv, CellsKnown, BearersKnown, Known
  <2>5. QED
    BY <2>2, <2>3, <2>4
<1>5. CellsUp(cells, Parent[i]) \subseteq T
  <2> HIDE DEF T
  <2>1. QED
    BY <1>3, <1>4 DEF CellsUp
<1>6. /\ WiredCell(cells, Parent[i]) \in Donors \cup {None}
      /\ WiredCell(cells, Parent[i]) \in CellsUp(cells, Parent[i])
  BY <1>2, WiredCellFound, ParentAssumption
<1> DEFINE w == WiredCell(cells, Parent[i])
<1> HIDE DEF w
<1>7. w \in Donors \cup {None} /\ w \in S
  BY <1>5, <1>6 DEF w
<1>8. w # None /\ Noted(i, w)
  BY <1>1, <1>7, NodesAssumption
<1>9. QED
  BY <1>7, <1>8 DEF w

LEMMA MmeNoted ==
  ASSUME IInv, AInv, MmeInitialUeMessage
  PROVE  AInv'
<1>1. PICK i : i = Head(s1apUp).imsi
  OBVIOUS
<1>2. PICK cells : cells = [cellId EXCEPT ![i] = Parent[i]]
  OBVIOUS
<1>3. PICK wired : wired = WiredCell(cells, Parent[i])
  OBVIOUS
<1>4. /\ Head(s1apUp) \in Requests /\ Head(s1apUp) \in Arrived
      /\ Tail(s1apUp) \in Seq(Arrived)
  BY HeadTailProperties DEF MmeInitialUeMessage, IInv, Messages, AInv, PathsNoted
<1>5. i \in Devices /\ RelayReady(i) /\ \E d \in Donors : Climbed(i, d)
  BY <1>1, <1>4 DEF Requests, Arrived, RelayMsgs
<1>6. wired \in Donors /\ Noted(i, wired)
  BY <1>2, <1>3, <1>5, WiredCellNoted DEF AInv
<1>7. wired # None
  BY <1>6, NodesAssumption DEF Nodes
<1>8. /\ s1apUp' = Tail(s1apUp)
      /\ cellId' = cells
      /\ s1apDown' = Append(s1apDown, [imsi |-> i, enb |-> wired])
      /\ UNCHANGED <<enbVars, buffer, up, down, app, fault>>
  BY <1>1, <1>2, <1>3, <1>7 DEF MmeInitialUeMessage
<1>9. Lasting /\ Known(i)'
  <2>1. Parent[i] # None
    BY <1>5, ParentAssumption, NodesAssumption
  <2>2. Known(i)' /\ \A j \in Devices : Known(j) => Known(j)'
    BY <1>2, <1>5, <1>8, <2>1 DEF Known, IInv, CellsKnown
  <2>3. ueMgr' = ueMgr /\ app' = app
    BY <1>8 DEF enbVars
  <2>4. QED
    BY <2>2, <2>3 DEF Lasting, Started, Noted
<1>10. /\ \A c \in IABs : buffer[c] \in Seq(Waiting(c)')
       /\ \A c \in Devices : up[c] \in Seq(Climbing(c)')
       /\ \A c \in Devices : down[c] \in Seq(Descending(c)')
       /\ s1apDown \in Seq(Answered')
  BY <1>9, MessagesLast DEF AInv
<1>11. s1apUp' \in Seq(Arrived')
  BY <1>4, <1>8, <1>9, SetsGrow, SeqMonotonic
<1>12. s1apDown' \in Seq(Answered')
  <2>1. [imsi |-> i, enb |-> wired] \in Answered'
    BY <1>5, <1>6, <1>9 DEF Answered, Lasting, Nodes
  <2>2. QED
    BY <1>8, <1>10, <2>1, AppendProperties
<1>13. PathsNoted'
  BY <1>8, <1>10, <1>11, <1>12 DEF PathsNoted
<1>14. AppsReady'
  BY <1>8, <1>9, AppsUnchanged DEF AInv
<1>15. BearersKnown' /\ fault' = "none"
  BY <1>8, <1>9 DEF AInv, BearersKnown, Lasting, enbVars, IInv, Shapes
<1>16. QED
  BY <1>13, <1>14, <1>15 DEF AInv

\* An answer that reaches a node that knows its device: it is relayed to the
\* next node that does, or the bearer is set up.
LEMMA AnswerNoted ==
  ASSUME IInv, AInv, NEW n \in Nodes, NEW i \in Devices, Known(i), Noted(i, n),
         NEW links, links \in [Devices -> Seq(DownMsgs)],
         \A c \in Devices : links[c] \in Seq(Descending(c)),
         RecvInitialContextSetupRequest(n, i, links),
         UNCHANGED <<ueVars, buffer, up, s1apUp, cellId, enbAddr, lost>>,
         s1apDown' \in Seq(Answered)
  PROVE  AInv'
<1>1. PICK a : a = app[n]
  OBVIOUS
<1>2. a \in AppStates /\ AppOk(n, a) /\ Ready(a)
  BY <1>1 DEF IInv, Shapes, AppsConsistent, AInv, AppsReady
<1>3. /\ a.imsiRnti[i] # None
      /\ i \in a.requested => a.localRbid[i] # None /\ a.imsiRnti[i] \in a.heard
  BY <1>1, <1>2 DEF Noted, Ready
<1>4. i \notin a.requested => a.imsiRnti[i] = i
  BY <1>2, <1>3 DEF AppOk
<1>5. \/ /\ i \in a.requested
         /\ app' = [app EXCEPT ![n] = ForwardIabS1apReply(a, i)]
         /\ down' = [links EXCEPT ![a.localRbid[i]] = Append(@, InitialContextSetupRequest(i))]
         /\ UNCHANGED <<ueMgr, bearer, fault>>
      \/ /\ i \notin a.requested
         /\ app' = [app EXCEPT ![n] = DoInitialContextSetupRequest(a, i)]
         /\ SetupDataRadioBearer(i, links)
         /\ fault' = fault
  BY <1>1, <1>3, <1>4 DEF RecvInitialContextSetupRequest
<1>6. PICK b : /\ app' = [app EXCEPT ![n] = b]
               /\ b.imsiRnti = a.imsiRnti /\ b.localRbid = a.localRbid
               /\ b.requested = a.requested /\ b.heard = a.heard
  <2>1. CASE app' = [app EXCEPT ![n] = ForwardIabS1apReply(a, i)]
    <3> DEFINE r == ForwardIabS1apReply(a, i)
    <3>1. /\ r.imsiRnti = a.imsiRnti /\ r.localRbid = a.localRbid
          /\ r.requested = a.requested /\ r.heard = a.heard
      BY <1>2 DEF ForwardIabS1apReply, AppStates
    <3>2. app' = [app EXCEPT ![n] = r]
      BY <2>1
    <3> HIDE DEF r
    <3>3. QED
      BY <3>1, <3>2
  <2>2. CASE app' = [app EXCEPT ![n] = DoInitialContextSetupRequest(a, i)]
    <3> DEFINE r == DoInitialContextSetupRequest(a, i)
    <3>1. /\ r.imsiRnti = a.imsiRnti /\ r.localRbid = a.localRbid
          /\ r.requested = a.requested /\ r.heard = a.heard
      BY <1>2 DEF DoInitialContextSetupRequest, AppStates
    <3>2. app' = [app EXCEPT ![n] = r]
      BY <2>2
    <3> HIDE DEF r
    <3>3. QED
      BY <3>1, <3>2
  <2>3. QED
    BY <1>5, <2>1, <2>2
<1>7. UNCHANGED <<buffer, up, s1apUp, cellId>> /\ fault' = fault
  BY <1>5
<1>8. \A j \in Devices : Started(j) => Started(j)'
  BY <1>5 DEF SetupDataRadioBearer, Started, IInv, Shapes
<1>9. Lasting
  <2>1. \A j \in Devices : \A x \in Nodes : Noted(j, x) => Noted(j, x)'
    BY <1>1, <1>6 DEF Noted, IInv, Shapes
  <2>2. QED
    BY <1>7, <1>8, <2>1 DEF Lasting, Known
<1>10. AppsReady'
  <2>1. \A j \in Devices : a.localRbid[j] \in Nodes \cup {None}
    BY <1>2 DEF AppOk, Nodes
  <2>2. Ready(b)'
    BY <1>2, <1>6, <1>9, <2>1 DEF Ready, Lasting
  <2>3. QED
    BY <1>6, <1>9, <2>2, AppsChanged DEF AInv
<1>11. /\ \A c \in IABs : buffer[c] \in Seq(Waiting(c)')
       /\ \A c \in Devices : up[c] \in Seq(Climbing(c)')
       /\ s1apUp \in Seq(Arrived')
  BY <1>9, MessagesLast DEF AInv
<1>12. \A c \in Devices : links[c] \in Seq(Descending(c)')
  BY <1>9, SetsGrow, SeqMonotonic
<1>13. s1apDown' \in Seq(Answered')
  BY <1>9, SetsGrow, SeqMonotonic
<1>14. \A c \in Devices : down'[c] \in Seq(Descending(c)')
  <2>1. CASE /\ i \in a.requested
             /\ down' = [links EXCEPT ![a.localRbid[i]] =
                                        Append(@, InitialContextSetupRequest(i))]
    <3>1. PICK c : c = a.localRbid[i]
      OBVIOUS
    <3>2. c \in IABs /\ c \in Devices /\ Noted(i, c)
      BY <1>2, <1>3, <2>1, <3>1 DEF AppOk, Ready, Devices
    <3>3. InitialContextSetupRequest(i) \in Descending(c)'
      BY <1>9, <3>2 DEF Descending, DownMsgs, InitialContextSetupRequest, Lasting, Nodes
    <3>4. Append(links[c], InitialContextSetupRequest(i)) \in Seq(Descending(c)')
      BY <1>12, <3>2, <3>3, AppendProperties
    <3>5. QED
      BY <1>12, <2>1, <3>1, <3>4
  <2>2. CASE SetupDataRadioBearer(i, links)
    <3>1. Rrc("Reconfiguration") \in Descending(i)'
      BY DEF Descending, DownMsgs, Rrc
    <3>2. Append(links[i], Rrc("Reconfiguration")) \in Seq(Descending(i)')
      BY <1>12, <3>1, AppendProperties
    <3>3. down' = links \/ down' = [links EXCEPT ![i] = Append(@, Rrc("Reconfiguration"))]
      BY <2>2 DEF SetupDataRadioBearer
    <3>4. QED
      BY <1>12, <3>2, <3>3
  <2>3. QED
    BY <1>5, <2>1, <2>2
<1>15. PathsNoted'
  BY <1>7, <1>11, <1>13, <1>14 DEF PathsNoted
<1>16. BearersKnown'
  <2>1. bearer' \subseteq bearer \cup {i} /\ Known(i)'
    BY <1>5, <1>9 DEF SetupDataRadioBearer, Lasting
  <2>2. QED
    BY <1>9, <2>1 DEF AInv, BearersKnown, Lasting, IInv, Shapes
<1>17. QED
  BY <1>7, <1>10, <1>15, <1>16 DEF AInv

LEMMA DonorAnswerNoted ==
  ASSUME IInv, AInv, DonorRecvS1ap
  PROVE  AInv'
<1>1. PICK m : m = Head(s1apDown)
  OBVIOUS
<1>2. m \in Answered /\ Tail(s1apDown) \in Seq(Answered)
  BY <1>1, HeadTailProperties DEF DonorRecvS1ap, AInv, PathsNoted
<1>3. m.enb \in Nodes /\ m.imsi \in Devices /\ Known(m.imsi) /\ Noted(m.imsi, m.enb)
  BY <1>2 DEF Answered, Nodes
<1>4. /\ down \in [Devices -> Seq(DownMsgs)]
      /\ \A c \in Devices : down[c] \in Seq(Descending(c))
  BY DEF IInv, Messages, AInv, PathsNoted
<1>5. /\ RecvInitialContextSetupRequest(m.enb, m.imsi, down)
      /\ s1apDown' = Tail(s1apDown)
      /\ UNCHANGED <<ueVars, buffer, up, s1apUp, cellId, enbAddr, lost>>
  BY <1>1 DEF DonorRecvS1ap
<1>6. QED
  BY <1>2, <1>3, <1>4, <1>5, AnswerNoted

LEMMA RelayedAnswerNoted ==
  ASSUME IInv, AInv, NEW c \in IABs, IabRecvS1ap(c)
  PROVE  AInv'
<1>1. PICK m : m = Head(down[c])
  OBVIOUS
<1>2. PICK links : links = [down EXCEPT ![c] = Tail(@)]
  OBVIOUS
<1>3. c \in Devices /\ c \in Nodes
  BY DEF Devices, Nodes
<1>4. down[c] # << >> /\ m.type = "InitialContextSetupRequest"
  BY <1>1 DEF IabRecvS1ap
<1>5. m \in Descending(c) /\ Tail(down[c]) \in Seq(Descending(c))
  BY <1>1, <1>3, <1>4, HeadTailProperties DEF AInv, PathsNoted
<1>6. m.imsi \in Devices /\ Known(m.imsi) /\ Noted(m.imsi, c)
  BY <1>4, <1>5, MessageTypes DEF Descending
<1>7. /\ links \in [Devices -> Seq(DownMsgs)]
      /\ \A x \in Devices : links[x] \in Seq(Descending(x))
  <2>1. Tail(down[c]) \in Seq(DownMsgs)
    BY <1>3, <1>4, HeadTailProperties DEF IInv, Messages
  <2>2. QED
    BY <1>2, <1>3, <1>5, <2>1 DEF IInv, Messages, AInv, PathsNoted
<1>8. /\ RecvInitialContextSetupRequest(c, m.imsi, links)
      /\ UNCHANGED <<ueVars, buffer, up, s1apUp, coreVars, lost>>
  BY <1>1, <1>2 DEF IabRecvS1ap
<1>9. s1apDown' \in Seq(Answered) /\ UNCHANGED <<cellId, enbAddr>>
  BY <1>8 DEF AInv, PathsNoted, coreVars
<1>10. QED
  BY <1>3, <1>6, <1>7, <1>8, <1>9, AnswerNoted

-----------------------------------------------------------------------------
(***************************************************************************)
(* Theorem.                                                                *)
(***************************************************************************)
LEMMA StutterNoted ==
  ASSUME AInv, UNCHANGED vars
  PROVE  AInv'
BY DEF AInv, PathsNoted, AppsReady, Ready, BearersKnown, Waiting, Climbing, Arrived, Answered,
       Descending, Climbed, Started, Noted, Known, vars, enbVars, ueVars, coreVars

LEMMA StepNoted == IInv /\ AInv /\ [Next]_vars => AInv'
<1> SUFFICES ASSUME IInv, AInv, [Next]_vars PROVE AInv'
  OBVIOUS
<1>1. CASE \E i \in Devices : RrcStep(i)
  <2>1. PICK i \in Devices : RrcStep(i)
    BY <1>1
  <2>2. CASE RecvRrcConnectionRequest(i)
    BY <2>2, ConnectionRequestNoted
  <2>3. CASE RecvRrcConnectionSetup(i)
    BY <2>3, ConnectionSetupNoted
  <2>4. CASE RecvRrcConnectionSetupCompleted(i)
    BY <2>4, ConnectedNoted DEF RecvRrcConnectionSetupCompleted
  <2>5. CASE RecvRrcConnectionReconfiguration(i)
    BY <2>5, ReconfigurationNoted
  <2>6. CASE RecvRrcConnectionReconfigurationCompleted(i)
    BY <2>6, ConnectedNoted DEF RecvRrcConnectionReconfigurationCompleted
  <2>7. QED
    BY <2>1, <2>2, <2>3, <2>4, <2>5, <2>6 DEF RrcStep
<1>2. CASE \E c \in IABs : RelayStep(c)
  BY <1>2, RelayedRequestNoted, RelayedAnswerNoted DEF RelayStep
<1>3. CASE MmeInitialUeMessage
  BY <1>3, MmeNoted
<1>4. CASE DonorRecvS1ap
  BY <1>4, DonorAnswerNoted
<1>5. CASE UNCHANGED vars
  BY <1>5, StutterNoted
<1>6. QED
  BY <1>1, <1>2, <1>3, <1>4, <1>5 DEF Next

\* No handler of the attach procedure meets an IMSI or RNTI it does not know, and
\* the MME always finds the wired donor, whatever connects when.
THEOREM NeverAborts == Spec => []NoProtocolAbort
<1>1. AInv => NoProtocolAbort
  BY DEF AInv, NoProtocolAbort
<1>2. QED
  BY <1>1, InitNoted, StepNoted, Inductive, PTL DEF Spec

-----------------------------------------------------------------------------
(***************************************************************************)
(* The way up from a cell: it ends at one donor, passes no relay twice,    *)
(* and comes to each cell through one relay.                               *)
(***************************************************************************)
LEMMA WayUp ==
  ASSUME NEW x \in Nodes
  PROVE  /\ x \in CellsUp(Parent, x)
         /\ \A c \in CellsUp(Parent, x) \cap IABs : Parent[c] \in CellsUp(Parent, x)
         /\ CellsUp(Parent, x) \subseteq Nodes
         /\ \A S \in SUBSET Nodes :
              x \in S /\ (\A c \in S \cap IABs : Parent[c] \in S) => CellsUp(Parent, x) \subseteq S
<1> DEFINE All == Nodes \cup {None}
           Closed(S) == x \in S /\ \A c \in S \cap IABs : Parent[c] \in S
<1>1. CellsUp(Parent, x) = {y \in All : \A S \in SUBSET All : Closed(S) => y \in S}
  BY DEF CellsUp
<1>2. x \in CellsUp(Parent, x)
  BY <1>1
<1>3. ASSUME NEW c \in CellsUp(Parent, x) \cap IABs PROVE Parent[c] \in CellsUp(Parent, x)
  <2>1. Parent[c] \in All
    BY ParentAssumption DEF Devices
  <2>2. \A S \in SUBSET All : Closed(S) => Parent[c] \in S
    BY <1>1, <1>3
  <2> QED BY <1>1, <2>1, <2>2
<1>4. ASSUME NEW S \in SUBSET Nodes, Closed(S) PROVE CellsUp(Parent, x) \subseteq S
  BY <1>1, <1>4
<1>5. Closed(Nodes)
  BY ParentAssumption DEF Devices
<1> QED BY <1>2, <1>3, <1>4, <1>5

\* One cell, and the way up from the next.
LEMMA WayUpFrom ==
  ASSUME NEW x \in Nodes
  PROVE  /\ x \in Donors => CellsUp(Parent, x) = {x}
         /\ x \in IABs => CellsUp(Parent, x) = {x} \cup CellsUp(Parent, Parent[x])
<1>1. ASSUME x \in Donors PROVE CellsUp(Parent, x) = {x}
  <2>1. x \notin IABs
    BY <1>1, NodesAssumption
  <2> QED BY <2>1, WayUp
<1>2. ASSUME x \in IABs PROVE CellsUp(Parent, x) = {x} \cup CellsUp(Parent, Parent[x])
  <2>1. PICK p \in Nodes : p = Parent[x]
    BY <1>2, ParentAssumption DEF Devices
  <2>2. PICK T : T = {x} \cup CellsUp(Parent, p)
    OBVIOUS
  <2>3. T \in SUBSET Nodes /\ x \in T /\ \A c \in T \cap IABs : Parent[c] \in T
    BY <2>1, <2>2, WayUp
  <2>4. CellsUp(Parent, x) \subseteq T
    BY <2>3, WayUp
  <2>5. p \in CellsUp(Parent, x)
    BY <1>2, <2>1, WayUp
  <2>6. CellsUp(Parent, p) \subseteq CellsUp(Parent, x)
    BY <2>5, WayUp
  <2> QED BY <2>1, <2>2, <2>4, <2>6, WayUp
<1> QED BY <1>1, <1>2

LEMMA NoCycle ==
  ASSUME NEW x \in IABs
  PROVE  x \notin CellsUp(Parent, Parent[x])
<1> DEFINE S == {y \in IABs : y \in CellsUp(Parent, Parent[y])}
<1> SUFFICES ASSUME x \in S PROVE FALSE
  OBVIOUS
<1>1. ASSUME NEW y \in S PROVE Parent[y] \in S
  <2>1. PICK z \in Nodes : z = Parent[y]
    BY ParentAssumption DEF Devices
  <2>2. y \in IABs /\ y \in CellsUp(Parent, z)
    BY <2>1
  <2>3. z \in IABs
    BY <2>2, WayUpFrom, NodesAssumption DEF Nodes
  <2>4. PICK p \in Nodes : p = Parent[z]
    BY <2>3, ParentAssumption DEF Devices
  <2>5. y = z \/ y \in CellsUp(Parent, p)
    BY <2>2, <2>3, <2>4, WayUpFrom
  <2>6. z \in CellsUp(Parent, p)
    <3>1. CASE y = z
      BY <2>1, <2>4, <3>1, WayUp
    <3>2. CASE y \in CellsUp(Parent, p)
      BY <2>1, <2>2, <3>2, WayUp
    <3> QED BY <2>5, <3>1, <3>2
  <2> QED BY <2>1, <2>3, <2>4, <2>6
<1>2. S \in SUBSET IABs /\ S # {}
  OBVIOUS
<1> HIDE DEF S
<1> QED BY <1>1, <1>2, ParentAssumption

\* No relay above a cell is behind it.
LEMMA NotAbove ==
  ASSUME NEW x \in Nodes, NEW c \in CellsUp(Parent, x) \cap IABs
  PROVE  Parent[c] # x
<1> SUFFICES ASSUME Parent[c] = x PROVE FALSE
  OBVIOUS
<1>1. x \in IABs
  BY WayUpFrom, NodesAssumption DEF Nodes
<1>2. PICK p \in Nodes : p = Parent[x]
  BY <1>1, ParentAssumption DEF Devices
<1>3. c = x \/ c \in CellsUp(Parent, p)
  BY <1>1, <1>2, WayUpFrom
<1>4. x \in CellsUp(Parent, p)
  <2>1. CASE c = x
    BY <1>2, <2>1, WayUp
  <2>2. CASE c \in CellsUp(Parent, p)
    BY <2>2, WayUp
  <2> QED BY <1>3, <2>1, <2>2
<1> QED BY <1>1, <1>2, <1>4, NoCycle

\* The way up is one: it comes to a cell through one relay, and to one donor.
Forks(x) ==
  \E c, d \in CellsUp(Parent, x) :
    c # d /\ IF c \in IABs THEN d \in IABs /\ Parent[c] = Parent[d] ELSE d \notin IABs

LEMMA NoFork ==
  ASSUME NEW n \in Nodes
  PROVE  ~Forks(n)
<1>1. ASSUME NEW x \in Donors PROVE ~Forks(x)
  BY WayUpFrom DEF Forks, Nodes
<1> DEFINE B == {x \in IABs : Forks(x)}
<1>2. ASSUME NEW x \in B PROVE Parent[x] \in B
  <2>1. PICK p \in Nodes : p = Parent[x]
    BY ParentAssumption DEF Devices
  <2>2. CellsUp(Parent, x) = {x} \cup CellsUp(Parent, p)
    BY <2>1, WayUpFrom DEF Nodes
  <2>3. \A c \in CellsUp(Parent, p) \cap IABs : Parent[c] # p
    BY NotAbove
  <2>4. Forks(p)
    BY <2>1, <2>2, <2>3 DEF Forks
  <2> QED BY <1>1, <2>1, <2>4 DEF Nodes
<1>3. B \in SUBSET IABs
  OBVIOUS
<1>4. B = {}
  <2> HIDE DEF B
  <2> QED BY <1>2, <1>3, ParentAssumption
<1> QED BY <1>1, <1>4 DEF Nodes

LEMMA OneWayUp ==
  ASSUME NEW n \in Nodes
  PROVE  /\ \A c, d \in CellsUp(Parent, n) \cap IABs : Parent[c] = Parent[d] => c = d
         /\ \A c, d \in CellsUp(Parent, n) \cap Donors : c = d
BY NoFork, NodesAssumption DEF Forks

\* The donor the MME finds is on the way up, whatever cells it knows.
LEMMA WiredOnTheWay ==
  ASSUME NEW cells \in [Devices -> Nodes \cup {None}], NEW n \in Nodes,
         \A i \in Devices : cells[i] \in {None, Parent[i]}, WiredCell(cells, n) # None
  PROVE  WiredCell(cells, n) \in CellsUp(Parent, n) \cap Donors
<1>1. PICK w : w = WiredCell(cells, n)
  OBVIOUS
<1>2. w \in Donors /\ w \in CellsUp(cells, n)
  BY <1>1, WiredCellFound
<1>3. PICK T : T = CellsUp(Parent, n) \cup {None}
  OBVIOUS
<1>4. T \in SUBSET (Nodes \cup {None}) /\ n \in T
  BY <1>3, WayUp
<1>5. \A c \in T \cap IABs : cells[c] \in T
  BY <1>3, WayUp, NodesAssumption DEF Devices, Nodes
<1>6. w \in T
  BY <1>2, <1>4, <1>5 DEF CellsUp
<1> QED BY <1>1, <1>2, <1>3, <1>6, NodesAssumption DEF Nodes

-----------------------------------------------------------------------------
(***************************************************************************)
(* The invariant of the tunnels: what is on its way, and what the          *)
(* applications have noted, follows the way up from the device's cell.     *)
(***************************************************************************)
Path(i) == CellsUp(Parent, Parent[i])

\* The answer for device i has been sent on to relay c.
Reached(i, c) == app[Parent[c]].teidRbid[i] = c /\ i \in app[Parent[c]].remote

\* What may be on its way at each place.
Held(c)    == {m \in RelayMsgs : c \in Path(m.imsi)}
Rising(c)  == {m \in UpMsgs : m.type = "InitialUeMessage" => c \in Path(m.imsi)}
Sent       == {r \in [imsi : Devices, enb : Donors] : enbAddr[r.imsi] = r.enb}
Falling(c) == {m \in DownMsgs : m.type = "InitialContextSetupRequest" =>
                                  c \in IABs /\ Reached(m.imsi, c)}

OnTheWay ==
  /\ \A c \in IABs : buffer[c] \in Seq(Held(c))
  /\ \A c \in Devices : up[c] \in Seq(Rising(c))
  /\ \A c \in Devices : down[c] \in Seq(Falling(c))
  /\ s1apDown \in Seq(Sent)

\* A node's bearers for a device: one that its request came on, which is the
\* remote one once the answer was relayed, or the device's own.
Routes(n, a) ==
  \A i \in Devices :
    /\ a.localRbid[i] # None => a.localRbid[i] \in Path(i) /\ Parent[a.localRbid[i]] = n
    /\ i \in a.remote => i \in a.requested /\ a.teidRbid[i] = a.localRbid[i]
    /\ i \notin a.remote /\ a.teidRbid[i] # None => n = Parent[i] /\ a.teidRbid[i] = i

AppsRouted == \A n \in Nodes : Routes(n, app[n])

TunnelsKnown == \A i \in Devices : enbAddr[i] # None => enbAddr[i] \in Path(i)

\* The node below has a bearer for the device, or the donor the tunnel.
Supplied(i, n) == IF n \in Donors THEN enbAddr[i] = n ELSE Reached(i, n)

TeidsSupplied ==
  \A i \in Devices : \A n \in Nodes : app[n].teidRbid[i] # None => Supplied(i, n)

BearersRouted ==
  \A i \in bearer : app[Parent[i]].teidRbid[i] = i /\ i \notin app[Parent[i]].remote

DInv == OnTheWay /\ AppsRouted /\ TunnelsKnown /\ TeidsSupplied /\ BearersRouted

\* Facts of the tunnels that, once true, stay true.
TunnelsStay ==
  \A i \in Devices :
    /\ enbAddr[i] # None => enbAddr'[i] = enbAddr[i]
    /\ \A c \in IABs : Reached(i, c) => Reached(i, c)'

LEMMA OnTheWayStays ==
  ASSUME OnTheWay, TunnelsStay
  PROVE  /\ \A c \in Devices : down[c] \in Seq(Falling(c)')
         /\ s1apDown \in Seq(Sent')
<1>1. ASSUME NEW c \in Devices PROVE Falling(c) \subseteq Falling(c)'
  BY MessageTypes DEF Falling, TunnelsStay
<1>2. Sent \subseteq Sent'
  BY NodesAssumption DEF Sent, TunnelsStay, Nodes
<1> QED BY <1>1, <1>2, SeqMonotonic DEF OnTheWay

\* What a handler makes.
LEMMA NewOnTheWay ==
  /\ \A c \in Devices : /\ Rrc("SetupCompleted") \in Rising(c)
                       /\ Rrc("ReconfigurationCompleted") \in Rising(c)
                       /\ Rrc("Setup") \in Falling(c)
                       /\ Rrc("Reconfiguration") \in Falling(c)
  /\ \A c \in IABs : \A i \in Devices :
       Reached(i, c) => InitialContextSetupRequest(i) \in Falling(c)
  /\ \A c : Held(c) \subseteq Rising(c)
<1>1. \A c \in Devices : /\ Rrc("SetupCompleted") \in Rising(c)
                       /\ Rrc("ReconfigurationCompleted") \in Rising(c)
  BY DEF Rising, UpMsgs, Rrc
<1>2. \A c \in Devices : Rrc("Setup") \in Falling(c) /\ Rrc("Reconfiguration") \in Falling(c)
  BY DEF Falling, DownMsgs, Rrc
<1>3. \A c \in IABs : \A i \in Devices :
        Reached(i, c) => InitialContextSetupRequest(i) \in Falling(c)
  BY DEF Falling, DownMsgs, InitialContextSetupRequest
<1>4. \A c : Held(c) \subseteq Rising(c)
  BY MessageTypes DEF Held, Rising
<1> QED BY <1>1, <1>2, <1>3, <1>4

\* No application and no tunnel changes.
LEMMA AppsStand ==
  ASSUME DInv, UNCHANGED <<app, enbAddr, bearer>>
  PROVE  /\ TunnelsStay
         /\ AppsRouted' /\ TunnelsKnown' /\ TeidsSupplied' /\ BearersRouted'
BY DEF DInv, TunnelsStay, Reached, AppsRouted, TunnelsKnown, TeidsSupplied, Supplied, BearersRouted

\* The application of one node changes, and takes back no bearer.
LEMMA AppRouted ==
  ASSUME IInv, DInv, NEW n \in Nodes, NEW b, app' = [app EXCEPT ![n] = b], enbAddr' = enbAddr,
         Routes(n, b),
         \A i \in Devices : i \in app[n].remote =>
                            i \in b.remote /\ b.teidRbid[i] = app[n].teidRbid[i],
         \A i \in Devices : b.teidRbid[i] # None => app[n].teidRbid[i] # None \/ Supplied(i, n),
         \A i \in bearer : Parent[i] = n => b.teidRbid[i] = i /\ i \notin b.remote
  PROVE  /\ TunnelsStay
         /\ AppsRouted' /\ TunnelsKnown' /\ TeidsSupplied'
         /\ \A i \in bearer : app'[Parent[i]].teidRbid[i] = i /\ i \notin app'[Parent[i]].remote
<1>1. app'[n] = b /\ \A x \in Nodes : x # n => app'[x] = app[x]
  BY DEF IInv, Shapes
<1>2. \A c \in Devices : Parent[c] \in Nodes
  BY ParentAssumption
<1>3. ASSUME NEW i \in Devices, NEW c \in IABs, Reached(i, c)
      PROVE  Reached(i, c)'
  <2>1. CASE Parent[c] = n
    BY <1>1, <1>3, <2>1 DEF Reached
  <2>2. CASE Parent[c] # n
    BY <1>1, <1>2, <1>3, <2>2 DEF Reached, Devices
  <2> QED BY <2>1, <2>2
<1>4. TunnelsStay
  BY <1>3 DEF TunnelsStay
<1>5. AppsRouted'
  BY <1>1 DEF DInv, AppsRouted
<1>6. TunnelsKnown'
  BY DEF DInv, TunnelsKnown
<1>7. TeidsSupplied'
  <2>1. \A i \in Devices : \A x \in Nodes : Supplied(i, x) => Supplied(i, x)'
    BY <1>3 DEF Supplied, Nodes
  <2>2. \A i \in Devices : \A x \in Nodes : app'[x].teidRbid[i] # None => Supplied(i, x)
    BY <1>1 DEF DInv, TeidsSupplied
  <2> QED BY <2>1, <2>2 DEF TeidsSupplied
<1>8. ASSUME NEW i \in bearer
      PROVE  app'[Parent[i]].teidRbid[i] = i /\ i \notin app'[Parent[i]].remote
  <2>1. Parent[i] \in Nodes
    BY <1>2 DEF IInv, Shapes
  <2> QED BY <1>1, <2>1 DEF DInv, BearersRouted
<1> QED BY <1>4, <1>5, <1>6, <1>7, <1>8

-----------------------------------------------------------------------------
(***************************************************************************)
(* Init, and one lemma per action.                                         *)
(***************************************************************************)
LEMMA InitRouted == Init => DInv
<1> SUFFICES ASSUME Init PROVE DInv
  OBVIOUS
<1>1. OnTheWay
  BY EmptySeq DEF Init, OnTheWay
<1>2. AppsRouted /\ TeidsSupplied
  BY DEF Init, AppsRouted, Routes, TeidsSupplied, EmptyApp
<1>3. TunnelsKnown /\ BearersRouted
  BY DEF Init, TunnelsKnown, BearersRouted
<1> QED BY <1>1, <1>2, <1>3 DEF DInv

\* What goes to the backhaul of a relay on the way.
LEMMA BackhaulOnTheWay ==
  ASSUME IInv, OnTheWay, NEW n \in IABs, NEW m \in Held(n),
         NEW links \in [Devices -> Seq(UpMsgs)], \A c \in Devices : links[c] \in Seq(Rising(c)),
         SendToBackhaul(n, m, links)
  PROVE  /\ \A c \in IABs : buffer'[c] \in Seq(Held(c))
         /\ \A c \in Devices : up'[c] \in Seq(Rising(c))
<1>1. CASE nas[n] = "OFF"
  <2>1. buffer' = [buffer EXCEPT ![n] = Append(@, m)] /\ up' = links
    BY <1>1 DEF SendToBackhaul
  <2>2. Append(buffer[n], m) \in Seq(Held(n))
    BY AppendProperties DEF OnTheWay
  <2> QED BY <2>1, <2>2 DEF OnTheWay, IInv, Messages
<1>2. CASE nas[n] # "OFF" /\ n \in drb
  <2>1. up' = [links EXCEPT ![n] = Append(@, m)] /\ buffer' = buffer
    BY <1>2 DEF SendToBackhaul
  <2>2. n \in Devices /\ m \in Rising(n)
    BY NewOnTheWay DEF Devices
  <2>3. Append(links[n], m) \in Seq(Rising(n))
    BY <2>2, AppendProperties
  <2> QED BY <2>1, <2>2, <2>3 DEF OnTheWay
<1>3. CASE nas[n] # "OFF" /\ n \notin drb
  BY <1>3 DEF SendToBackhaul, OnTheWay
<1> QED BY <1>1, <1>2, <1>3

LEMMA ConnectionRequestRouted ==
  ASSUME IInv, DInv, NEW i \in Devices, RecvRrcConnectionRequest(i)
  PROVE  DInv'
<1> DEFINE n == Parent[i]
<1>0. PICK b : b = DoInitialUeMessage(app[n], i)
  OBVIOUS
<1>1. n \in Nodes /\ app[n] \in AppStates
  BY ParentAssumption DEF IInv, Shapes
<1>2. app' = [app EXCEPT ![n] = b] /\ UNCHANGED <<bearer, s1apDown, enbAddr>>
  BY <1>0 DEF RecvRrcConnectionRequest, coreVars
<1>3. /\ b.requested = app[n].requested /\ b.localRbid = app[n].localRbid
      /\ b.remote = app[n].remote /\ b.teidRbid = app[n].teidRbid
  BY <1>0, <1>1 DEF DoInitialUeMessage, AppStates
<1>4. Routes(n, b)
  BY <1>1, <1>3 DEF DInv, AppsRouted, Routes
<1>5. \A j \in bearer : Parent[j] = n => b.teidRbid[j] = j /\ j \notin b.remote
  BY <1>3 DEF DInv, BearersRouted
<1>6. /\ TunnelsStay
      /\ AppsRouted' /\ TunnelsKnown' /\ TeidsSupplied'
      /\ \A j \in bearer : app'[Parent[j]].teidRbid[j] = j /\ j \notin app'[Parent[j]].remote
  <2>1. /\ \A j \in Devices : j \in app[n].remote =>
                               j \in b.remote /\ b.teidRbid[j] = app[n].teidRbid[j]
        /\ \A j \in Devices : b.teidRbid[j] # None =>
                               app[n].teidRbid[j] # None \/ Supplied(j, n)
    BY <1>3
  <2>2. n \in Nodes /\ app' = [app EXCEPT ![n] = b] /\ enbAddr' = enbAddr
    BY <1>1, <1>2
  <2> HIDE DEF n
  <2> QED BY <1>4, <1>5, <2>1, <2>2, AppRouted
<1>7. BearersRouted'
  BY <1>2, <1>6 DEF BearersRouted
<1>8. /\ \A c \in Devices : down[c] \in Seq(Falling(c)') /\ s1apDown \in Seq(Sent')
  BY <1>6, OnTheWayStays DEF DInv
<1>9. \A c \in Devices : down'[c] \in Seq(Falling(c)')
  <2>1. Rrc("Setup") \in Falling(i)'
    BY DEF Falling, DownMsgs, Rrc
  <2>2. Append(down[i], Rrc("Setup")) \in Seq(Falling(i)')
    BY <1>8, <2>1, AppendProperties
  <2> QED BY <1>8, <2>2 DEF RecvRrcConnectionRequest, IInv, Messages
<1>10. /\ \A c \in IABs : buffer'[c] \in Seq(Held(c))
       /\ \A c \in Devices : up'[c] \in Seq(Rising(c))
  <2>1. CASE n \in Donors
    BY <2>1 DEF RecvRrcConnectionRequest, DInv, OnTheWay
  <2>2. CASE n \notin Donors
    <3>1. n \in IABs
      BY <1>1, <2>2 DEF Nodes
    <3>2. SendToBackhaul(n, InitialUeMessage(i, {n}), up)
      BY <2>2 DEF RecvRrcConnectionRequest
    <3>3. InitialUeMessage(i, {n}) \in Held(n)
      BY <1>1, <3>1, NewMessages, WayUp DEF Held, Path
    <3>4. up \in [Devices -> Seq(UpMsgs)] /\ \A c \in Devices : up[c] \in Seq(Rising(c))
      BY DEF IInv, Messages, DInv, OnTheWay
    <3> QED BY <3>1, <3>2, <3>3, <3>4, BackhaulOnTheWay DEF DInv
  <2> QED BY <2>1, <2>2
<1>11. OnTheWay'
  BY <1>2, <1>8, <1>9, <1>10 DEF OnTheWay, Held, Rising, Path
<1> QED BY <1>6, <1>7, <1>11 DEF DInv

\* RRC of the parent's cell, and of the device.
LEMMA ConnectedRouted ==
  ASSUME IInv, DInv, NEW i \in Devices, NEW type, RecvUp(i, type),
         SwitchToConnectedNormally(i),
         UNCHANGED <<bearer, ueVars, buffer, app, s1apUp, coreVars, lost, fault>>
  PROVE  DInv'
<1>1. UNCHANGED <<bearer, buffer, app, s1apDown, enbAddr>>
  BY DEF coreVars
<1>2. /\ TunnelsStay
      /\ AppsRouted' /\ TunnelsKnown' /\ TeidsSupplied' /\ BearersRouted'
  BY <1>1, AppsStand
<1>3. \A c \in Devices : down[c] \in Seq(Falling(c)') /\ s1apDown \in Seq(Sent')
  BY <1>2, OnTheWayStays DEF DInv
<1>4. \A c \in Devices : up'[c] \in Seq(Rising(c))
  <2>1. Tail(up[i]) \in Seq(Rising(i))
    BY HeadTailProperties DEF RecvUp, DInv, OnTheWay
  <2> QED BY <2>1 DEF RecvUp, IInv, Messages, DInv, OnTheWay
<1>5. \A c \in Devices : down'[c] \in Seq(Falling(c)')
  <2>1. Rrc("Reconfiguration") \in Falling(i)'
    BY DEF Falling, DownMsgs, Rrc
  <2>2. Append(down[i], Rrc("Reconfiguration")) \in Seq(Falling(i)')
    BY <1>3, <2>1, AppendProperties
  <2> QED BY <1>3, <2>2 DEF SwitchToConnectedNormally, IInv, Messages
<1>6. OnTheWay'
  <2>1. s1apDown' \in Seq(Sent')
    BY <1>1, <1>2, OnTheWayStays DEF DInv
  <2> QED BY <1>1, <1>4, <1>5, <2>1 DEF OnTheWay, Held, Rising, Path, DInv
<1> QED BY <1>2, <1>6 DEF DInv

LEMMA ConnectionSetupRouted ==
  ASSUME IInv, DInv, NEW i \in Devices, RecvRrcConnectionSetup(i)
  PROVE  DInv'
<1>1. UNCHANGED <<bearer, buffer, app, s1apDown, enbAddr>>
  BY DEF RecvRrcConnectionSetup, enbVars, coreVars
<1>2. /\ TunnelsStay
      /\ AppsRouted' /\ TunnelsKnown' /\ TeidsSupplied' /\ BearersRouted'
  BY <1>1, AppsStand
<1>3. /\ \A c \in Devices : down[c] \in Seq(Falling(c)')
      /\ s1apDown \in Seq(Sent')
  BY <1>2, OnTheWayStays DEF DInv
<1>4. \A c \in Devices : up'[c] \in Seq(Rising(c))
  <2>1. Append(up[i], Rrc("SetupCompleted")) \in Seq(Rising(i))
    BY NewOnTheWay, AppendProperties DEF DInv, OnTheWay
  <2> QED BY <2>1 DEF RecvRrcConnectionSetup, IInv, Messages, DInv, OnTheWay
<1>5. \A c \in Devices : down'[c] \in Seq(Falling(c)')
  <2>1. Tail(down[i]) \in Seq(Falling(i)')
    BY <1>3, HeadTailProperties DEF RecvRrcConnectionSetup, RecvDown
  <2> QED BY <1>3, <2>1 DEF RecvRrcConnectionSetup, RecvDown, IInv, Messages
<1>6. OnTheWay'
  BY <1>1, <1>3, <1>4, <1>5 DEF OnTheWay, Held, Rising, Path, DInv
<1> QED BY <1>2, <1>6 DEF DInv

LEMMA ReconfigurationRouted ==
  ASSUME IInv, DInv, NEW i \in Devices, RecvRrcConnectionReconfiguration(i)
  PROVE  DInv'
<1>1. UNCHANGED <<bearer, buffer, app, s1apDown, enbAddr>>
  BY DEF RecvRrcConnectionReconfiguration, enbVars, coreVars
<1>2. /\ TunnelsStay
      /\ AppsRouted' /\ TunnelsKnown' /\ TeidsSupplied' /\ BearersRouted'
  BY <1>1, AppsStand
<1>3. /\ \A c \in Devices : down[c] \in Seq(Falling(c)')
      /\ s1apDown \in Seq(Sent')
  BY <1>2, OnTheWayStays DEF DInv
<1>4. \A c \in Devices : up'[c] \in Seq(Rising(c))
  <2>1. PICK new : new = (up[i] \o Kept(i)) \o <<Rrc("ReconfigurationCompleted")>>
    OBVIOUS
  <2>2. Kept(i) \in Seq(Rising(i))
    BY NewOnTheWay, SeqMonotonic, EmptySeq DEF Kept, DInv, OnTheWay
  <2>3. <<Rrc("ReconfigurationCompleted")>> \in Seq(Rising(i))
    <3>1. Rrc("ReconfigurationCompleted") \in Rising(i)
      BY NewOnTheWay
    <3> QED BY <3>1
  <2>4. new \in Seq(Rising(i))
    BY <2>1, <2>2, <2>3, ConcatProperties DEF DInv, OnTheWay
  <2>5. up' = [up EXCEPT ![i] = new]
    BY <2>1 DEF RecvRrcConnectionReconfiguration
  <2> QED BY <2>4, <2>5 DEF IInv, Messages, DInv, OnTheWay
<1>5. \A c \in Devices : down'[c] \in Seq(Falling(c)')
  <2>1. Tail(down[i]) \in Seq(Falling(i)')
    BY <1>3, HeadTailProperties DEF RecvRrcConnectionReconfiguration, RecvDown
  <2> QED BY <1>3, <2>1 DEF RecvRrcConnectionReconfiguration, RecvDown, IInv, Messages
<1>6. OnTheWay'
  BY <1>1, <1>3, <1>4, <1>5 DEF OnTheWay, Held, Rising, Path, DInv
<1> QED BY <1>2, <1>6 DEF DInv

\* A request came on: the bearer for its answer is the one before, if any.
LEMMA RelayedRequestRouted ==
  ASSUME IInv, AInv, fault' = "none", DInv, NEW c \in IABs, RecvFromLteSocket(c)
  PROVE  DInv'
<1>1. PICK n \in Nodes : n = Parent[c]
  BY ParentAssumption DEF Devices
<1>2. PICK m : m = Head(up[c])
  OBVIOUS
<1>3. PICK links : links = [up EXCEPT ![c] = Tail(@)]
  OBVIOUS
<1>4. PICK b : b = RelayInitialUeMessage(app[n], c, m)
  OBVIOUS
<1>5. c \in Devices /\ up \in [Devices -> Seq(UpMsgs)] /\ app[n] \in AppStates
  BY DEF Devices, IInv, Shapes, Messages
<1>6. up[c] # << >> /\ m.type = "InitialUeMessage"
  BY <1>2 DEF RecvFromLteSocket
<1>7. m \in Rising(c) /\ Tail(up[c]) \in Seq(Rising(c)) /\ Tail(up[c]) \in Seq(UpMsgs)
  BY <1>2, <1>5, <1>6, HeadTailProperties DEF DInv, OnTheWay
<1>8. m \in RelayMsgs /\ m.imsi \in Devices /\ c \in Path(m.imsi)
  BY <1>6, <1>7 DEF Rising, UpMsgs, Rrc, RelayMsgs
<1>9. /\ links \in [Devices -> Seq(UpMsgs)]
      /\ \A x \in Devices : links[x] \in Seq(Rising(x))
  BY <1>3, <1>5, <1>7 DEF DInv, OnTheWay
<1>10. UNCHANGED <<bearer, down, s1apDown, enbAddr>>
  BY DEF RecvFromLteSocket, Stop, AInv, enbVars, coreVars
<1>11. \/ app' = app /\ up' = links /\ UNCHANGED buffer
       \/ /\ app' = [app EXCEPT ![n] = b]
          /\ \/ up' = links /\ UNCHANGED buffer
             \/ n \notin Donors /\ SendToBackhaul(n, AddParent(n, m), links)
  BY <1>1, <1>2, <1>3, <1>4 DEF RecvFromLteSocket, Stop
<1>12. /\ b.localRbid = [app[n].localRbid EXCEPT ![m.imsi] = c]
       /\ b.requested = app[n].requested \cup {m.imsi}
       /\ b.remote = app[n].remote /\ b.teidRbid = app[n].teidRbid
  BY <1>4, <1>5, <1>8 DEF RelayInitialUeMessage, AppStates
<1>13. Routes(n, app[n]) /\ Ready(app[n]) /\ AppOk(n, app[n])
  BY DEF DInv, AppsRouted, AInv, AppsReady, IInv, AppsConsistent
<1>14. Routes(n, b)
  <2>1. ASSUME NEW i \in Devices, i \in b.remote
        PROVE  i \in b.requested /\ b.teidRbid[i] = b.localRbid[i]
    <3>1. i \in app[n].requested /\ app[n].teidRbid[i] = app[n].localRbid[i]
      BY <1>12, <1>13, <2>1 DEF Routes
    <3>2. CASE i # m.imsi
      BY <1>5, <1>12, <3>1, <3>2 DEF AppStates
    <3>3. CASE i = m.imsi
      <4>1. PICK d : d = app[n].localRbid[i]
        OBVIOUS
      <4>2. d \in IABs /\ d \in Path(i) /\ Parent[d] = n
        BY <1>13, <3>1, <4>1 DEF Ready, Routes, AppOk
      <4>3. d = c
        BY <1>1, <1>8, <3>3, <4>2, OneWayUp, ParentAssumption DEF Path
      <4> QED BY <1>5, <1>8, <1>12, <3>1, <3>3, <4>1, <4>3 DEF AppStates
    <3> QED BY <3>2, <3>3
  <2>2. ASSUME NEW i \in Devices, b.localRbid[i] # None
        PROVE  b.localRbid[i] \in Path(i) /\ Parent[b.localRbid[i]] = n
    <3>1. CASE i = m.imsi
      BY <1>1, <1>5, <1>8, <1>12, <3>1 DEF AppStates
    <3>2. CASE i # m.imsi
      BY <1>5, <1>12, <1>13, <2>2, <3>2 DEF AppStates, Routes
    <3> QED BY <3>1, <3>2
  <2>3. \A i \in Devices : i \notin b.remote /\ b.teidRbid[i] # None =>
                             n = Parent[i] /\ b.teidRbid[i] = i
    BY <1>12, <1>13 DEF Routes
  <2> QED BY <2>1, <2>2, <2>3 DEF Routes
<1>15. /\ TunnelsStay
       /\ AppsRouted' /\ TunnelsKnown' /\ TeidsSupplied' /\ BearersRouted'
  <2>1. CASE app' = app
    BY <1>10, <2>1, AppsStand
  <2>2. CASE app' = [app EXCEPT ![n] = b]
    <3>1. /\ \A i \in Devices : i \in app[n].remote =>
                                  i \in b.remote /\ b.teidRbid[i] = app[n].teidRbid[i]
          /\ \A i \in Devices : b.teidRbid[i] # None =>
                                  app[n].teidRbid[i] # None \/ Supplied(i, n)
      BY <1>12
    <3>2. \A i \in bearer : Parent[i] = n => b.teidRbid[i] = i /\ i \notin b.remote
      BY <1>12 DEF DInv, BearersRouted
    <3>3. enbAddr' = enbAddr
      BY <1>10
    <3>4. /\ TunnelsStay
          /\ AppsRouted' /\ TunnelsKnown' /\ TeidsSupplied'
          /\ \A i \in bearer : app'[Parent[i]].teidRbid[i] = i /\ i \notin app'[Parent[i]].remote
      BY <1>14, <2>2, <3>1, <3>2, <3>3, AppRouted
    <3> QED BY <1>10, <3>4 DEF BearersRouted
  <2> QED BY <1>11, <2>1, <2>2
<1>16. /\ \A x \in Devices : down[x] \in Seq(Falling(x)')
       /\ s1apDown \in Seq(Sent')
  BY <1>15, OnTheWayStays DEF DInv
<1>17. /\ \A x \in IABs : buffer'[x] \in Seq(Held(x))
       /\ \A x \in Devices : up'[x] \in Seq(Rising(x))
  <2>1. CASE up' = links /\ UNCHANGED buffer
    BY <1>9, <2>1 DEF DInv, OnTheWay
  <2>2. CASE n \notin Donors /\ SendToBackhaul(n, AddParent(n, m), links)
    <3>1. n \in IABs
      BY <2>2 DEF Nodes
    <3>2. AddParent(n, m) \in RelayMsgs /\ AddParent(n, m).imsi = m.imsi
      BY <1>8 DEF AddParent, RelayMsgs
    <3>3. n \in Path(m.imsi)
      BY <1>1, <1>8, WayUp, ParentAssumption DEF Path
    <3>4. AddParent(n, m) \in Held(n)
      BY <3>2, <3>3 DEF Held
    <3> QED BY <1>9, <2>2, <3>1, <3>4, BackhaulOnTheWay DEF DInv
  <2> QED BY <1>11, <2>1, <2>2
<1>18. OnTheWay'
  BY <1>10, <1>16, <1>17 DEF OnTheWay, Held, Rising, Path
<1> QED BY <1>15, <1>18 DEF DInv

\* The MME never moves a tunnel.
LEMMA MmeRouted ==
  ASSUME IInv, fault' = "none", DInv, MmeInitialUeMessage
  PROVE  DInv'
<1>1. PICK i : i = Head(s1apUp).imsi
  OBVIOUS
<1>2. PICK cells : cells = [cellId EXCEPT ![i] = Parent[i]]
  OBVIOUS
<1>3. PICK wired : wired = WiredCell(cells, Parent[i])
  OBVIOUS
<1>4. i \in Devices
  <2>1. Head(s1apUp) \in Requests
    BY HeadTailProperties DEF MmeInitialUeMessage, IInv, Messages
  <2> QED BY <1>1, <2>1 DEF Requests, RelayMsgs
<1>5. wired # None
  BY <1>1, <1>2, <1>3 DEF MmeInitialUeMessage, Stop
<1>6. /\ enbAddr' = [enbAddr EXCEPT ![i] = wired]
      /\ s1apDown' = Append(s1apDown, [imsi |-> i, enb |-> wired])
      /\ UNCHANGED <<bearer, buffer, up, down, app>>
  BY <1>1, <1>2, <1>3, <1>5 DEF MmeInitialUeMessage, enbVars
<1>7. wired \in Path(i) /\ wired \in Donors
  <2>1. /\ cells \in [Devices -> Nodes \cup {None}]
        /\ \A j \in Devices : cells[j] \in {None, Parent[j]}
    BY <1>2, <1>4, ParentAssumption DEF IInv, CellsKnown
  <2>2. PICK p \in Nodes : p = Parent[i]
    BY <1>4, ParentAssumption
  <2>3. wired \in CellsUp(Parent, p) \cap Donors
    BY <1>3, <1>5, <2>1, <2>2, WiredOnTheWay
  <2> QED BY <2>2, <2>3 DEF Path
<1>8. enbAddr[i] # None => enbAddr[i] = wired
  <2>1. enbAddr[i] # None => enbAddr[i] \in Path(i) /\ enbAddr[i] \in Donors
    BY <1>4 DEF DInv, TunnelsKnown, IInv, Shapes
  <2> QED BY <1>4, <1>7, <2>1, OneWayUp, ParentAssumption DEF Path
<1>9. \A j \in Devices : enbAddr'[j] = IF j = i THEN wired ELSE enbAddr[j]
  BY <1>6 DEF IInv, Shapes
<1>10. TunnelsStay
  BY <1>6, <1>8, <1>9 DEF TunnelsStay, Reached
<1>11. /\ \A c \in Devices : down[c] \in Seq(Falling(c)')
       /\ s1apDown \in Seq(Sent')
  BY <1>10, OnTheWayStays DEF DInv
<1>12. OnTheWay'
  <2>1. [imsi |-> i, enb |-> wired] \in Sent'
    BY <1>4, <1>7, <1>9 DEF Sent
  <2>2. s1apDown' \in Seq(Sent')
    BY <1>6, <1>11, <2>1, AppendProperties
  <2> QED BY <1>6, <1>11, <2>2 DEF OnTheWay, Held, Rising, Path, DInv
<1>13. AppsRouted' /\ BearersRouted'
  BY <1>6 DEF DInv, AppsRouted, BearersRouted
<1>14. TunnelsKnown'
  BY <1>7, <1>9 DEF DInv, TunnelsKnown, Path
<1>15. TeidsSupplied'
  <2>1. \A j \in Devices : \A x \in Nodes : Supplied(j, x) => Supplied(j, x)'
    BY <1>10, NodesAssumption DEF Supplied, TunnelsStay, Nodes
  <2> QED BY <1>6, <2>1 DEF DInv, TeidsSupplied
<1> QED BY <1>12, <1>13, <1>14, <1>15 DEF DInv

\* An answer that the node below, or the tunnel, has led to a node.
LEMMA AnswerRouted ==
  ASSUME IInv, AInv, DInv, NEW n \in Nodes, NEW i \in Devices, Noted(i, n), Supplied(i, n),
         NEW links, links \in [Devices -> Seq(DownMsgs)],
         \A c \in Devices : links[c] \in Seq(Falling(c)),
         RecvInitialContextSetupRequest(n, i, links),
         UNCHANGED <<buffer, up, enbAddr>>,
         NEW rest \in Seq(Sent), s1apDown' = rest
  PROVE  DInv'
<1>1. PICK a : a = app[n]
  OBVIOUS
<1>2. a \in AppStates /\ AppOk(n, a) /\ Ready(a) /\ Routes(n, a)
  BY <1>1 DEF IInv, Shapes, AppsConsistent, AInv, AppsReady, DInv, AppsRouted
<1>3. /\ a.imsiRnti[i] # None
      /\ i \in a.requested => a.localRbid[i] # None /\ a.imsiRnti[i] \in a.heard
  BY <1>1, <1>2 DEF Noted, Ready
<1>4. PICK c : c = a.localRbid[i]
  OBVIOUS
<1>5. i \in a.requested => c \in IABs /\ c \in Devices /\ c \in Path(i) /\ Parent[c] = n
  BY <1>2, <1>3, <1>4 DEF AppOk, Routes, Devices
<1>6. i \in a.requested => n # Parent[i]
  BY <1>5, NotAbove, ParentAssumption DEF Path
<1>7. i \notin a.requested => a.imsiRnti[i] = i /\ n = Parent[i]
  BY <1>2, <1>3 DEF AppOk
<1>8. PICK b : b = IF i \in a.requested THEN ForwardIabS1apReply(a, i)
                   ELSE DoInitialContextSetupRequest(a, i)
  OBVIOUS
<1>9. /\ app' = [app EXCEPT ![n] = b]
      /\ \/ /\ i \in a.requested
            /\ down' = [links EXCEPT ![c] = Append(@, InitialContextSetupRequest(i))]
            /\ UNCHANGED bearer
         \/ /\ i \notin a.requested
            /\ SetupDataRadioBearer(i, links)
  BY <1>1, <1>3, <1>4, <1>7, <1>8 DEF RecvInitialContextSetupRequest
<1>10. /\ b.localRbid = a.localRbid /\ b.requested = a.requested
       /\ b.teidRbid = [a.teidRbid EXCEPT ![i] = IF i \in a.requested THEN c ELSE i]
       /\ b.remote = IF i \in a.requested THEN a.remote \cup {i} ELSE a.remote
  <2>1. CASE i \in a.requested
    BY <1>2, <1>4, <1>8, <2>1 DEF ForwardIabS1apReply, AppStates
  <2>2. CASE i \notin a.requested
    BY <1>2, <1>7, <1>8, <2>2 DEF DoInitialContextSetupRequest, AppStates
  <2> QED BY <2>1, <2>2
<1>11. \A j \in Devices :
         b.teidRbid[j] = IF j # i THEN a.teidRbid[j] ELSE IF i \in a.requested THEN c ELSE i
  BY <1>2, <1>10 DEF AppStates
<1>12. \A j \in Devices : j \in a.remote => j \in a.requested /\ a.teidRbid[j] = a.localRbid[j]
  BY <1>2 DEF Routes
<1>13. Routes(n, b)
  <2>1. ASSUME NEW j \in Devices, j \in b.remote
        PROVE  j \in b.requested /\ b.teidRbid[j] = b.localRbid[j]
    BY <1>4, <1>10, <1>11, <1>12, <2>1
  <2>2. ASSUME NEW j \in Devices, j \notin b.remote, b.teidRbid[j] # None
        PROVE  n = Parent[j] /\ b.teidRbid[j] = j
    BY <1>2, <1>7, <1>10, <1>11, <2>2 DEF Routes
  <2> QED BY <1>2, <1>10, <2>1, <2>2 DEF Routes
<1>14. \A j \in Devices : j \in a.remote => j \in b.remote /\ b.teidRbid[j] = a.teidRbid[j]
  BY <1>4, <1>10, <1>11, <1>12
<1>15. \A j \in Devices : b.teidRbid[j] # None => a.teidRbid[j] # None \/ Supplied(j, n)
  BY <1>11
<1>16. ASSUME NEW j \in bearer, Parent[j] = n
       PROVE  b.teidRbid[j] = j /\ j \notin b.remote
  <2>1. j \in Devices /\ a.teidRbid[j] = j /\ j \notin a.remote
    BY <1>1, <1>16 DEF DInv, BearersRouted, IInv, Shapes
  <2> QED BY <1>6, <1>10, <1>11, <1>16, <2>1
<1>17. /\ TunnelsStay
       /\ AppsRouted' /\ TunnelsKnown' /\ TeidsSupplied'
       /\ \A j \in bearer : app'[Parent[j]].teidRbid[j] = j /\ j \notin app'[Parent[j]].remote
  <2>1. /\ \A j \in Devices : j \in app[n].remote =>
                               j \in b.remote /\ b.teidRbid[j] = app[n].teidRbid[j]
        /\ \A j \in Devices : b.teidRbid[j] # None =>
                               app[n].teidRbid[j] # None \/ Supplied(j, n)
    BY <1>1, <1>14, <1>15
  <2>2. \A j \in bearer : Parent[j] = n => b.teidRbid[j] = j /\ j \notin b.remote
    BY <1>16
  <2>3. app' = [app EXCEPT ![n] = b] /\ enbAddr' = enbAddr
    BY <1>9
  <2> QED BY <1>13, <2>1, <2>2, <2>3, AppRouted
<1>18. app'[n] = b
  BY <1>9 DEF IInv, Shapes
<1>19. BearersRouted'
  <2>1. CASE i \in a.requested
    BY <1>9, <1>17, <2>1 DEF BearersRouted
  <2>2. CASE i \notin a.requested
    <3>1. bearer' = bearer \cup {i}
      BY <1>9, <2>2 DEF SetupDataRadioBearer
    <3>2. b.teidRbid[i] = i /\ i \notin b.remote
      BY <1>10, <1>11, <1>12, <2>2
    <3> QED BY <1>7, <1>17, <1>18, <2>2, <3>1, <3>2 DEF BearersRouted
  <2> QED BY <2>1, <2>2
<1>20. Sent' = Sent /\ \A x \in Devices : links[x] \in Seq(Falling(x)')
  <2>1. Sent' = Sent
    BY DEF Sent
  <2>2. \A x \in Devices : Falling(x) \subseteq Falling(x)'
    BY <1>17, MessageTypes DEF Falling, TunnelsStay
  <2> QED BY <2>1, <2>2, SeqMonotonic
<1>21. \A x \in Devices : down'[x] \in Seq(Falling(x)')
  <2>1. CASE /\ i \in a.requested
             /\ down' = [links EXCEPT ![c] = Append(@, InitialContextSetupRequest(i))]
    <3>1. Reached(i, c)'
      BY <1>5, <1>10, <1>11, <1>18, <2>1 DEF Reached
    <3>2. InitialContextSetupRequest(i) \in Falling(c)'
      BY <1>5, <2>1, <3>1 DEF Falling, DownMsgs, InitialContextSetupRequest
    <3>3. Append(links[c], InitialContextSetupRequest(i)) \in Seq(Falling(c)')
      BY <1>5, <1>20, <2>1, <3>2, AppendProperties
    <3> QED BY <1>5, <1>20, <2>1, <3>3
  <2>2. CASE SetupDataRadioBearer(i, links)
    <3>1. Rrc("Reconfiguration") \in Falling(i)'
      BY DEF Falling, DownMsgs, Rrc
    <3>2. Append(links[i], Rrc("Reconfiguration")) \in Seq(Falling(i)')
      BY <1>20, <3>1, AppendProperties
    <3>3. down' = links \/ down' = [links EXCEPT ![i] = Append(@, Rrc("Reconfiguration"))]
      BY <2>2 DEF SetupDataRadioBearer
    <3> QED BY <1>20, <3>2, <3>3
  <2> QED BY <1>9, <2>1, <2>2
<1>22. OnTheWay'
  BY <1>20, <1>21 DEF OnTheWay, Held, Rising, Path, DInv
<1> QED BY <1>17, <1>19, <1>22 DEF DInv

LEMMA DonorAnswerRouted ==
  ASSUME IInv, AInv, DInv, DonorRecvS1ap
  PROVE  DInv'
<1>1. PICK m : m = Head(s1apDown)
  OBVIOUS
<1>2. PICK rest : rest = Tail(s1apDown)
  OBVIOUS
<1>3. m \in Answered /\ m \in Sent /\ rest \in Seq(Sent)
  BY <1>1, <1>2, HeadTailProperties DEF DonorRecvS1ap, AInv, PathsNoted, DInv, OnTheWay
<1>4. m.enb \in Nodes /\ m.imsi \in Devices /\ Noted(m.imsi, m.enb) /\ Supplied(m.imsi, m.enb)
  BY <1>3 DEF Answered, Sent, Supplied, Nodes
<1>5. /\ down \in [Devices -> Seq(DownMsgs)]
      /\ \A c \in Devices : down[c] \in Seq(Falling(c))
  BY DEF IInv, Messages, DInv, OnTheWay
<1>6. /\ RecvInitialContextSetupRequest(m.enb, m.imsi, down)
      /\ s1apDown' = rest /\ UNCHANGED <<buffer, up, enbAddr>>
  BY <1>1, <1>2 DEF DonorRecvS1ap
<1>7. PICK d \in Nodes, i \in Devices : d = m.enb /\ i = m.imsi
  BY <1>4
<1> QED BY <1>3, <1>4, <1>5, <1>6, <1>7, AnswerRouted

LEMMA RelayedAnswerRouted ==
  ASSUME IInv, AInv, DInv, NEW c \in IABs, IabRecvS1ap(c)
  PROVE  DInv'
<1>1. PICK m : m = Head(down[c])
  OBVIOUS
<1>2. PICK links : links = [down EXCEPT ![c] = Tail(@)]
  OBVIOUS
<1>3. c \in Devices /\ c \in Nodes /\ c \notin Donors
  BY NodesAssumption DEF Devices, Nodes
<1>4. down[c] # << >> /\ m.type = "InitialContextSetupRequest"
  BY <1>1 DEF IabRecvS1ap
<1>5. m \in Descending(c) /\ m \in Falling(c) /\ Tail(down[c]) \in Seq(Falling(c))
  BY <1>1, <1>3, <1>4, HeadTailProperties DEF AInv, PathsNoted, DInv, OnTheWay
<1>6. PICK i \in Devices : i = m.imsi
  BY <1>4, <1>5, MessageTypes DEF Descending
<1>7. Noted(i, c) /\ Supplied(i, c)
  BY <1>3, <1>4, <1>5, <1>6 DEF Descending, Falling, Supplied
<1>8. /\ links \in [Devices -> Seq(DownMsgs)]
      /\ \A x \in Devices : links[x] \in Seq(Falling(x))
  <2>1. Tail(down[c]) \in Seq(DownMsgs)
    BY <1>3, <1>4, HeadTailProperties DEF IInv, Messages
  <2> QED BY <1>2, <1>3, <1>5, <2>1 DEF IInv, Messages, DInv, OnTheWay
<1>9. PICK rest : rest = s1apDown
  OBVIOUS
<1>10. /\ RecvInitialContextSetupRequest(c, i, links)
       /\ s1apDown' = rest /\ UNCHANGED <<buffer, up, enbAddr>>
  BY <1>1, <1>2, <1>6, <1>9 DEF IabRecvS1ap, coreVars
<1>11. rest \in Seq(Sent)
  BY <1>9 DEF DInv, OnTheWay
<1> QED BY <1>3, <1>7, <1>8, <1>10, <1>11, AnswerRouted

-----------------------------------------------------------------------------
LEMMA StutterRouted ==
  ASSUME DInv, UNCHANGED vars
  PROVE  DInv'
<1>1. UNCHANGED <<app, enbAddr, bearer, buffer, up, down, s1apDown>>
  BY DEF vars, enbVars, coreVars
<1>2. /\ TunnelsStay
      /\ AppsRouted' /\ TunnelsKnown' /\ TeidsSupplied' /\ BearersRouted'
  BY <1>1, AppsStand
<1>3. OnTheWay'
  BY <1>1, <1>2, OnTheWayStays DEF OnTheWay, Held, Rising, Path, DInv
<1> QED BY <1>2, <1>3 DEF DInv

LEMMA StepRouted == IInv /\ AInv /\ DInv /\ [Next]_vars => DInv'
<1> SUFFICES ASSUME IInv, AInv, DInv, [Next]_vars PROVE DInv'
  OBVIOUS
<1>1. fault' = "none"
  BY StepNoted DEF AInv
<1>2. CASE \E i \in Devices : RrcStep(i)
  <2>1. PICK i \in Devices : RrcStep(i)
    BY <1>2
  <2>2. CASE RecvRrcConnectionRequest(i)
    BY <2>2, ConnectionRequestRouted
  <2>3. CASE RecvRrcConnectionSetup(i)
    BY <2>3, ConnectionSetupRouted
  <2>4. CASE RecvRrcConnectionSetupCompleted(i)
    BY <2>4, ConnectedRouted DEF RecvRrcConnectionSetupCompleted
  <2>5. CASE RecvRrcConnectionReconfiguration(i)
    BY <2>5, ReconfigurationRouted
  <2>6. CASE RecvRrcConnectionReconfigurationCompleted(i)
    <3>1. /\ RecvUp(i, "ReconfigurationCompleted") /\ SwitchToConnectedNormally(i)
          /\ UNCHANGED <<bearer, ueVars, buffer, app, s1apUp, coreVars, lost, fault>>
      BY <2>6 DEF RecvRrcConnectionReconfigurationCompleted
    <3> QED BY <3>1, ConnectedRouted
  <2> QED BY <2>1, <2>2, <2>3, <2>4, <2>5, <2>6 DEF RrcStep
<1>3. CASE \E c \in IABs : RelayStep(c)
  BY <1>1, <1>3, RelayedRequestRouted, RelayedAnswerRouted DEF RelayStep
<1>4. CASE MmeInitialUeMessage
  BY <1>1, <1>4, MmeRouted
<1>5. CASE DonorRecvS1ap
  BY <1>5, DonorAnswerRouted
<1>6. CASE UNCHANGED vars
  BY <1>6, StutterRouted
<1> QED BY <1>2, <1>3, <1>4, <1>5, <1>6 DEF Next

\* Every TEID that a node of the tree has installed gets its packets from the node
\* below, or from the SGW at the donor, in every forest and every order of
\* connections: DoForwardIabS1apReply and DoInitialContextSetupRequest install the
\* tunnel of a device from the donor down, one relay after the other, and no later
\* request or answer moves any part of it.
THEOREM DownlinkFollowsTree == Spec => []DownlinkPath
<1>1. IInv /\ DInv => DownlinkPath
  <2> SUFFICES ASSUME IInv, DInv, NEW i \in Devices
               PROVE  /\ \A n \in Nodes : app[n].teidRbid[i] # None => Supplied(i, n)
                      /\ i \in drb => app[Parent[i]].teidRbid[i] = i
                                        /\ i \notin app[Parent[i]].remote
    BY DEF DownlinkPath, Supplied, Reached
  <2>1. i \in drb => i \in bearer
    BY DEF IInv, BearersInOrder
  <2> QED BY <2>1 DEF DInv, TeidsSupplied, BearersRouted
<1> QED BY <1>1, InitNoted, StepNoted, InitRouted, StepRouted, Inductive, PTL DEF Spec

-----------------------------------------------------------------------------
(***************************************************************************)
(* The invariant of the counts.  Each request lists the relays it has      *)
(* passed, and a parent adds them to what it has heard; the count is taken *)
(* from there with the answer.  So the count of a relay may lag only while *)
(* an answer through it is due, and answers come: RrcInv and AnswersDue.   *)
(***************************************************************************)
Has(q, S)  == \E k \in 1 .. Len(q) : q[k] \in S
Once(q, e) == \A j, k \in 1 .. Len(q) : q[j] = e /\ q[k] = e => j = k

Reconf     == {Rrc("Reconfiguration")}
ReconfDone == {Rrc("ReconfigurationCompleted")}

\* RRC of device i: what it waits for is on its way, and it is reconfigured once.
RrcOk(i) ==
  /\ ueMgr[i] = "CONNECTION_SETUP" =>
       Has(down[i], {Rrc("Setup")}) \/ Has(up[i], {Rrc("SetupCompleted")})
  /\ i \notin bearer => ueMgr[i] # "CONNECTION_RECONFIGURATION"
  /\ i \in bearer => i \in drb \cup pending \/ Has(down[i], Reconf)
  /\ i \in pending => ueMgr[i] = "CONNECTION_SETUP" /\ i \notin drb /\ ~Has(down[i], Reconf)
  /\ Has(down[i], Reconf) => i \notin drb
  /\ Once(down[i], Rrc("Reconfiguration"))
  /\ i \in app[Parent[i]].localImsi => Started(i)
  /\ nas[i] = "OFF" => /\ i \notin drb /\ ~Has(down[i], Reconf) /\ up[i] = << >>
                       /\ ueMgr[i] \in {"INITIAL_RANDOM_ACCESS", "CONNECTION_SETUP"}

RrcInv == \A i \in Devices : RrcOk(i)

\* Messages of device i.
RequestOf(i) == {m \in UpMsgs : m.type = "InitialUeMessage" /\ m.imsi = i}
AnswerTo(i)  == {m \in DownMsgs : m.type = "InitialContextSetupRequest" /\ m.imsi = i}
ReplyTo(i)   == {r \in [imsi : Devices, enb : Donors] : r.imsi = i}

\* The request of i, or the answer, is above node n, or about to reach it.
Above(i, n) ==
  \/ \E x \in CellsUp(Parent, n) \cap IABs :
       Has(up[x], RequestOf(i)) \/ Has(down[x], AnswerTo(i))
  \/ Has(s1apUp, RequestOf(i)) \/ Has(s1apDown, ReplyTo(i))

\* A relayed request is answered, or its answer is still to come; a relayed
\* answer has set up the bearer, or is still to reach the cell.
AnswersDue ==
  \A n \in Nodes : \A i \in Devices :
    /\ i \in app[n].requested \ app[n].remote => Above(i, n)
    /\ i \in app[n].remote => i \in bearer \/ \E x \in IABs : Has(down[x], AnswerTo(i))

\* The relays from the cell of i to relay c; what the parent of c has heard of
\* the relays behind it, and the devices whose requests came through it.
Between(i, c) == {b \in IABs \cap Path(i) : c \in CellsUp(Parent, b)}
Children(c)   == {x \in Devices : <<c, x>> \in app[Parent[c]].children}
Via(c)        == {i \in app[Parent[c]].requested : app[Parent[c]].localRbid[i] = c}

Listing(c)  == {m \in RelayMsgs : m.parents = Between(m.imsi, c)}
Sending(c)  == {m \in UpMsgs : m.type = "InitialUeMessage" => m \in Listing(c)}

\* Requests list the relays they have passed, and so do those who relayed them.
Listed ==
  /\ \A c \in IABs : buffer[c] \in Seq(Listing(c)) /\ up[c] \in Seq(Sending(c))
  /\ \A c \in IABs : Children(c) = UNION {Between(i, c) : i \in Via(c)}
  /\ \A c \in IABs : Via(c) # {} => c \in drb
  /\ \A n \in Nodes : \A i \in app[n].requested : app[n].imsiRnti[i] = app[n].localRbid[i]

\* Before the reconfiguration of c is known to be complete, only requests of its
\* own cell have come through it.
FirstOwn(c) ==
  \A k \in 1 .. Len(up[c]) :
    up[c][k] \in ReconfDone =>
      /\ c \in drb /\ Children(c) \subseteq {c}
      /\ \A j \in 1 .. (k - 1) :
           up[c][j].type = "InitialUeMessage" => up[c][j].parents \subseteq {c}

\* After that the count is right, or an answer is due that will correct it.
CountOk(c) ==
  c \in drb /\ ~Has(up[c], ReconfDone) =>
    \/ numIab[c] = IF Children(c) = {} THEN 1 ELSE Cardinality(Children(c))
    \/ \E i \in Via(c) : i \notin app[Parent[c]].remote

CountInv == Listed /\ \A c \in IABs : FirstOwn(c) /\ CountOk(c)

-----------------------------------------------------------------------------
(***************************************************************************)
(* What is in a queue.                                                     *)
(***************************************************************************)
LEMMA HasAppend ==
  ASSUME NEW T, NEW q \in Seq(T), NEW e \in T, NEW S
  PROVE  Has(Append(q, e), S) <=> Has(q, S) \/ e \in S
<1>1. /\ Len(Append(q, e)) = Len(q) + 1 /\ Len(q) \in Nat
      /\ Append(q, e)[Len(q) + 1] = e
      /\ \A k \in 1 .. Len(q) : Append(q, e)[k] = q[k]
  BY AppendProperties, LenProperties
<1> QED BY <1>1 DEF Has

LEMMA HasTail ==
  ASSUME NEW T, NEW q \in Seq(T), q # << >>, NEW S
  PROVE  Has(q, S) <=> Head(q) \in S \/ Has(Tail(q), S)
<1>1. /\ Len(q) \in Nat \ {0} /\ Len(Tail(q)) = Len(q) - 1 /\ Head(q) = q[1]
      /\ \A k \in 1 .. (Len(q) - 1) : Tail(q)[k] = q[k + 1]
  BY HeadTailProperties, LenProperties, EmptySeq
<1>2. ASSUME Has(q, S) PROVE Head(q) \in S \/ Has(Tail(q), S)
  <2>1. PICK k \in 1 .. Len(q) : q[k] \in S
    BY <1>2 DEF Has
  <2>2. CASE k = 1
    BY <1>1, <2>1, <2>2
  <2>3. CASE k # 1
    <3>1. k - 1 \in 1 .. (Len(q) - 1) /\ Tail(q)[k - 1] = q[k]
      BY <1>1, <2>3
    <3> QED BY <1>1, <2>1, <3>1 DEF Has
  <2> QED BY <2>2, <2>3
<1>3. ASSUME Head(q) \in S PROVE Has(q, S)
  BY <1>1, <1>3 DEF Has
<1>4. ASSUME Has(Tail(q), S) PROVE Has(q, S)
  <2>1. PICK k \in 1 .. (Len(q) - 1) : Tail(q)[k] \in S
    BY <1>1, <1>4 DEF Has
  <2>2. k + 1 \in 1 .. Len(q) /\ q[k + 1] \in S
    BY <1>1, <2>1
  <2> QED BY <2>2 DEF Has
<1> QED BY <1>2, <1>3, <1>4

LEMMA HasConcat ==
  ASSUME NEW T, NEW p \in Seq(T), NEW q \in Seq(T), NEW S, Has(p, S)
  PROVE  Has(p \o q, S)
<1>1. Len(p \o q) = Len(p) + Len(q) /\ \A k \in 1 .. Len(p) : (p \o q)[k] = p[k]
  BY ConcatProperties
<1> QED BY <1>1, LenProperties DEF Has

LEMMA AllIn ==
  ASSUME NEW T, NEW q \in Seq(T), NEW S, \A k \in 1 .. Len(q) : q[k] \in S
  PROVE  q \in Seq(S)
<1>1. Len(q) \in Nat /\ q \in [1 .. Len(q) -> T]
  BY LenProperties
<1>2. q \in [1 .. Len(q) -> S]
  BY <1>1
<1> QED BY <1>1, <1>2, SeqDef

LEMMA OnceAppend ==
  ASSUME NEW T, NEW q \in Seq(T), NEW e \in T, NEW f, Once(q, f), f = e => ~Has(q, {f})
  PROVE  Once(Append(q, e), f)
<1>1. /\ Len(Append(q, e)) = Len(q) + 1 /\ Len(q) \in Nat
      /\ Append(q, e)[Len(q) + 1] = e
      /\ \A k \in 1 .. Len(q) : Append(q, e)[k] = q[k]
  BY AppendProperties, LenProperties
<1> QED BY <1>1 DEF Once, Has

LEMMA OnceTail ==
  ASSUME NEW T, NEW q \in Seq(T), q # << >>, NEW f, Once(q, f)
  PROVE  Once(Tail(q), f) /\ (Head(q) = f => ~Has(Tail(q), {f}))
<1>1. /\ Len(q) \in Nat \ {0} /\ Len(Tail(q)) = Len(q) - 1 /\ Head(q) = q[1]
      /\ \A k \in 1 .. (Len(q) - 1) : Tail(q)[k] = q[k + 1] /\ k + 1 \in 2 .. Len(q)
  BY HeadTailProperties, LenProperties, EmptySeq
<1>2. \A j, k \in 1 .. (Len(q) - 1) : Tail(q)[j] = f /\ Tail(q)[k] = f => j = k
  <2> SUFFICES ASSUME NEW j \in 1 .. (Len(q) - 1), NEW k \in 1 .. (Len(q) - 1),
                      Tail(q)[j] = f, Tail(q)[k] = f
               PROVE  j = k
    OBVIOUS
  <2>1. j + 1 \in 1 .. Len(q) /\ k + 1 \in 1 .. Len(q) /\ q[j + 1] = f /\ q[k + 1] = f
    BY <1>1
  <2>2. j + 1 = k + 1
    BY <2>1 DEF Once
  <2> QED BY <2>2
<1>3. \A k \in 1 .. (Len(q) - 1) : Head(q) = f => Tail(q)[k] # f
  <2> SUFFICES ASSUME NEW k \in 1 .. (Len(q) - 1), Head(q) = f, Tail(q)[k] = f PROVE FALSE
    OBVIOUS
  <2>1. 1 \in 1 .. Len(q) /\ k + 1 \in 1 .. Len(q) /\ q[1] = f /\ q[k + 1] = f
    BY <1>1
  <2>2. 1 = k + 1
    BY <2>1 DEF Once
  <2> QED BY <2>2
<1> QED BY <1>1, <1>2, <1>3 DEF Once, Has

-----------------------------------------------------------------------------
(***************************************************************************)
(* RRC reconfigures a device once.                                         *)
(***************************************************************************)
LEMMA InitRrc == Init => RrcInv
<1> SUFFICES ASSUME Init, NEW i \in Devices PROVE RrcOk(i)
  BY DEF RrcInv
<1>1. /\ down[i] = << >> /\ up[i] = << >> /\ Len(<< >>) = 0
      /\ i \notin app[Parent[i]].localImsi
  BY ParentAssumption DEF Init, EmptyApp
<1>2. ~Has(down[i], Reconf) /\ Once(down[i], Rrc("Reconfiguration"))
  BY <1>1 DEF Has, Once
<1> QED BY <1>1, <1>2 DEF Init, RrcOk

\* A device whose RRC a step leaves alone.
LEMMA RrcKept ==
  ASSUME NEW j \in Devices, RrcOk(j), ueMgr'[j] = ueMgr[j], nas'[j] = nas[j],
         j \in bearer' <=> j \in bearer, j \in drb' <=> j \in drb, j \in pending' <=> j \in pending,
         j \in app'[Parent[j]].localImsi => j \in app[Parent[j]].localImsi,
         Has(down[j], {Rrc("Setup")}) => Has(down'[j], {Rrc("Setup")}),
         Has(down'[j], Reconf) <=> Has(down[j], Reconf),
         Once(down'[j], Rrc("Reconfiguration")),
         Has(up[j], {Rrc("SetupCompleted")}) => Has(up'[j], {Rrc("SetupCompleted")}),
         nas[j] = "OFF" => up'[j] = << >>
  PROVE  RrcOk(j)'
BY DEF RrcOk, Started, Reconf

\* The same for all devices, where only the links change, and not by RRC.
LEMMA LinksKept ==
  ASSUME RrcInv, UNCHANGED <<ueMgr, nas, bearer, drb, pending>>,
         \A j \in Devices : app'[Parent[j]].localImsi = app[Parent[j]].localImsi,
         \A j \in Devices : Has(down[j], {Rrc("Setup")}) => Has(down'[j], {Rrc("Setup")}),
         \A j \in Devices : Has(down'[j], Reconf) <=> Has(down[j], Reconf),
         \A j \in Devices : Once(down'[j], Rrc("Reconfiguration")),
         \A j \in Devices :
           Has(up[j], {Rrc("SetupCompleted")}) => Has(up'[j], {Rrc("SetupCompleted")}),
         \A j \in Devices : nas[j] = "OFF" => up'[j] = << >>
  PROVE  RrcInv'
BY RrcKept DEF RrcInv

\* What goes to the backhaul joins what is on the link.
LEMMA BackhaulJoins ==
  ASSUME NEW n \in IABs, NEW m \in RelayMsgs, NEW links \in [Devices -> Seq(UpMsgs)],
         SendToBackhaul(n, m, links)
  PROVE  /\ \A j \in Devices : \A S : Has(links[j], S) => Has(up'[j], S)
         /\ \A j \in Devices : nas[j] = "OFF" => up'[j] = links[j]
         /\ n \in drb /\ nas[n] # "OFF" =>
              up' = [links EXCEPT ![n] = Append(@, m)] /\ UNCHANGED buffer
<1>1. n \in Devices /\ m \in UpMsgs
  BY MessageTypes DEF Devices
<1>2. up' = links \/ (nas[n] # "OFF" /\ up' = [links EXCEPT ![n] = Append(@, m)])
  BY DEF SendToBackhaul
<1>3. \A S : Has(links[n], S) => Has(Append(links[n], m), S)
  BY <1>1, HasAppend
<1>4. \A j \in Devices : up'[j] = links[j] \/
                           (nas[n] # "OFF" /\ j = n /\ up'[j] = Append(links[n], m))
  BY <1>1, <1>2
<1> QED BY <1>3, <1>4 DEF SendToBackhaul

\* A device connects: nothing is on its links yet.
LEMMA ConnectionRequestRrc ==
  ASSUME IInv, RrcInv, NEW i \in Devices, RecvRrcConnectionRequest(i)
  PROVE  RrcInv'
<1>1. PICK n \in Nodes : n = Parent[i]
  BY ParentAssumption
<1>2. /\ down \in [Devices -> Seq(DownMsgs)] /\ up \in [Devices -> Seq(UpMsgs)]
      /\ Rrc("Setup") \in DownMsgs
  BY DEF IInv, Messages, DownMsgs
<1>3. /\ ueMgr[i] = "INITIAL_RANDOM_ACCESS" /\ ueMgr' = [ueMgr EXCEPT ![i] = "CONNECTION_SETUP"]
      /\ down' = [down EXCEPT ![i] = Append(@, Rrc("Setup"))]
      /\ UNCHANGED <<pending, bearer, nas, drb>>
  BY DEF RecvRrcConnectionRequest, ueVars
<1>4. \A j \in Devices : /\ \A S : Has(up[j], S) => Has(up'[j], S)
                         /\ nas[j] = "OFF" => up'[j] = up[j]
  <2>1. CASE n \in Donors
    BY <1>1, <2>1 DEF RecvRrcConnectionRequest
  <2>2. CASE n \notin Donors
    <3>1. n \in IABs /\ InitialUeMessage(i, {n}) \in RelayMsgs
      BY <2>2, NewMessages DEF Nodes
    <3>2. SendToBackhaul(n, InitialUeMessage(i, {n}), up)
      BY <1>1, <2>2 DEF RecvRrcConnectionRequest
    <3> QED BY <1>2, <3>1, <3>2, BackhaulJoins
  <2> QED BY <2>1, <2>2
<1>5. /\ Rrc("Setup") \notin Reconf
      /\ Has(Append(down[i], Rrc("Setup")), {Rrc("Setup")})
      /\ Has(Append(down[i], Rrc("Setup")), Reconf) <=> Has(down[i], Reconf)
      /\ Once(Append(down[i], Rrc("Setup")), Rrc("Reconfiguration"))
  <2>1. Rrc("Setup") \notin Reconf
    BY DEF Reconf, Rrc
  <2>2. Once(down[i], Rrc("Reconfiguration")) /\ Rrc("Setup") # Rrc("Reconfiguration")
    BY <2>1 DEF RrcInv, RrcOk, Reconf
  <2> QED BY <1>2, <2>1, <2>2, HasAppend, OnceAppend
<1>6. \A j \in Devices : j # i /\ j \in app'[Parent[j]].localImsi => j \in app[Parent[j]].localImsi
  <2>1. app' = [app EXCEPT ![n] = DoInitialUeMessage(@, i)]
    BY <1>1 DEF RecvRrcConnectionRequest
  <2> QED BY <2>1, ParentAssumption DEF DoInitialUeMessage, IInv, Shapes, AppStates
<1>7. ASSUME NEW j \in Devices, j # i PROVE RrcOk(j)'
  <2>1. down'[j] = down[j] /\ ueMgr'[j] = ueMgr[j] /\ RrcOk(j)
    BY <1>3, <1>7 DEF RrcInv, IInv, Shapes, Messages
  <2>2. Once(down'[j], Rrc("Reconfiguration")) /\ (nas[j] = "OFF" => up'[j] = << >>)
    BY <1>4, <2>1 DEF RrcOk
  <2> QED BY <1>3, <1>4, <1>6, <1>7, <2>1, <2>2, RrcKept
<1>8. RrcOk(i)'
  <2>1. RrcOk(i) /\ ~Started(i)
    BY <1>3 DEF RrcInv, Started
  <2>2. i \notin bearer
    BY <2>1 DEF RrcOk, IInv, BearersInOrder, Announced
  <2>3. i \notin drb /\ i \notin pending
    BY <2>2 DEF IInv, BearersInOrder
  <2>4. ~Has(down[i], Reconf)
    <3>1. down[i] \in Seq(Downlink(i))
      BY DEF IInv, Messages
    <3>2. Rrc("Reconfiguration") \notin Downlink(i)
      BY <2>2 DEF Downlink, Rrc
    <3> QED BY <3>1, <3>2, ElementOfSeq DEF Has, Reconf
  <2>5. ueMgr'[i] = "CONNECTION_SETUP" /\ down'[i] = Append(down[i], Rrc("Setup"))
    BY <1>2, <1>3 DEF IInv, Shapes
  <2> QED BY <1>3, <1>4, <1>5, <2>1, <2>2, <2>3, <2>4, <2>5 DEF RrcOk, Started
<1> QED BY <1>7, <1>8 DEF RrcInv

\* RRC of the parent's cell.
LEMMA ConnectedRrc ==
  ASSUME IInv, RrcInv, NEW i \in Devices,
         NEW type \in {"SetupCompleted", "ReconfigurationCompleted"}, RecvUp(i, type),
         SwitchToConnectedNormally(i), UNCHANGED <<bearer, nas, drb, app>>
  PROVE  RrcInv'
<1>1. /\ down \in [Devices -> Seq(DownMsgs)] /\ up \in [Devices -> Seq(UpMsgs)]
      /\ Rrc("Reconfiguration") \in DownMsgs
  BY DEF IInv, Messages, DownMsgs
<1>2. /\ up[i] # << >> /\ up' = [up EXCEPT ![i] = Tail(@)]
      /\ pending' = pending \ {i}
      /\ \/ /\ i \in pending
            /\ ueMgr' = [ueMgr EXCEPT ![i] = "CONNECTION_RECONFIGURATION"]
            /\ down' = [down EXCEPT ![i] = Append(@, Rrc("Reconfiguration"))]
         \/ /\ i \notin pending
            /\ ueMgr' = [ueMgr EXCEPT ![i] = "CONNECTED_NORMALLY"]
            /\ down' = down
  BY DEF RecvUp, SwitchToConnectedNormally
<1>3. ASSUME NEW j \in Devices, j # i PROVE RrcOk(j)'
  <2>1. down'[j] = down[j] /\ ueMgr'[j] = ueMgr[j] /\ up'[j] = up[j] /\ RrcOk(j)
    BY <1>2, <1>3 DEF RrcInv, IInv, Shapes, Messages
  <2>2. Once(down'[j], Rrc("Reconfiguration")) /\ (nas[j] = "OFF" => up'[j] = << >>)
    BY <2>1 DEF RrcOk
  <2> QED BY <1>2, <1>3, <2>1, <2>2, RrcKept
<1>4. RrcOk(i) /\ nas[i] # "OFF"
  BY <1>2 DEF RrcInv, RrcOk
<1>5. RrcOk(i)'
  <2>1. CASE i \in pending
    <3>1. /\ ueMgr'[i] = "CONNECTION_RECONFIGURATION"
          /\ down'[i] = Append(down[i], Rrc("Reconfiguration"))
      BY <1>1, <1>2, <2>1 DEF IInv, Shapes
    <3>2. i \notin drb /\ i \in bearer /\ ~Has(down[i], Reconf)
      BY <1>4, <2>1 DEF RrcOk, IInv, BearersInOrder
    <3>3. Has(Append(down[i], Rrc("Reconfiguration")), Reconf)
      BY <1>1, HasAppend DEF Reconf
    <3>4. Once(Append(down[i], Rrc("Reconfiguration")), Rrc("Reconfiguration"))
      BY <1>1, <1>4, <3>2, OnceAppend DEF RrcOk, Reconf
    <3>5. i \notin pending'
      BY <1>2
    <3> QED BY <1>4, <3>1, <3>2, <3>3, <3>4, <3>5 DEF RrcOk, Started
  <2>2. CASE i \notin pending
    <3>1. ueMgr'[i] = "CONNECTED_NORMALLY" /\ down'[i] = down[i] /\ i \notin pending'
      BY <1>2, <2>2 DEF IInv, Shapes
    <3> QED BY <1>4, <2>2, <3>1 DEF RrcOk, Started
  <2> QED BY <2>1, <2>2
<1> QED BY <1>3, <1>5 DEF RrcInv

\* RRC of the device.
LEMMA ConnectionSetupRrc ==
  ASSUME IInv, RrcInv, NEW i \in Devices, RecvRrcConnectionSetup(i)
  PROVE  RrcInv'
<1>1. /\ down \in [Devices -> Seq(DownMsgs)] /\ up \in [Devices -> Seq(UpMsgs)]
      /\ Rrc("SetupCompleted") \in UpMsgs
  BY DEF IInv, Messages, UpMsgs
<1>2. /\ down[i] # << >> /\ Head(down[i]).type = "Setup"
      /\ down' = [down EXCEPT ![i] = Tail(@)]
      /\ nas' = [nas EXCEPT ![i] = "ACTIVE"]
      /\ up' = [up EXCEPT ![i] = Append(@, Rrc("SetupCompleted"))]
      /\ UNCHANGED <<ueMgr, pending, bearer, drb, app>>
  BY DEF RecvRrcConnectionSetup, RecvDown, enbVars
<1>3. ASSUME NEW j \in Devices, j # i PROVE RrcOk(j)'
  <2>1. /\ down'[j] = down[j] /\ nas'[j] = nas[j] /\ up'[j] = up[j] /\ RrcOk(j)
    BY <1>1, <1>2, <1>3 DEF RrcInv, IInv, Shapes
  <2>2. Once(down'[j], Rrc("Reconfiguration")) /\ (nas[j] = "OFF" => up'[j] = << >>)
    BY <2>1 DEF RrcOk
  <2> QED BY <1>2, <1>3, <2>1, <2>2, RrcKept
<1>4. RrcOk(i)'
  <2>1. RrcOk(i) /\ Once(down[i], Rrc("Reconfiguration"))
    BY DEF RrcInv, RrcOk
  <2>2. /\ down'[i] = Tail(down[i]) /\ nas'[i] = "ACTIVE"
        /\ up'[i] = Append(up[i], Rrc("SetupCompleted"))
    BY <1>1, <1>2 DEF IInv, Shapes
  <2>3. Head(down[i]) \notin Reconf
    BY <1>2 DEF Reconf, Rrc
  <2>4. Has(Tail(down[i]), Reconf) <=> Has(down[i], Reconf)
    BY <1>1, <1>2, <2>3, HasTail
  <2>5. Once(Tail(down[i]), Rrc("Reconfiguration"))
    BY <1>1, <1>2, <2>1, OnceTail
  <2>6. Has(Append(up[i], Rrc("SetupCompleted")), {Rrc("SetupCompleted")})
    BY <1>1, HasAppend
  <2> QED BY <1>2, <2>1, <2>2, <2>4, <2>5, <2>6 DEF RrcOk, Started
<1> QED BY <1>3, <1>4 DEF RrcInv

LEMMA ReconfigurationRrc ==
  ASSUME IInv, RrcInv, NEW i \in Devices, RecvRrcConnectionReconfiguration(i)
  PROVE  RrcInv' /\ i \notin drb /\ i \in bearer
<1>1. /\ down \in [Devices -> Seq(DownMsgs)] /\ up \in [Devices -> Seq(UpMsgs)]
  BY DEF IInv, Messages
<1>2. /\ down[i] # << >> /\ Head(down[i]).type = "Reconfiguration"
      /\ down' = [down EXCEPT ![i] = Tail(@)]
      /\ drb' = drb \cup {i}
      /\ up' = [up EXCEPT ![i] = (@ \o Kept(i)) \o <<Rrc("ReconfigurationCompleted")>>]
      /\ UNCHANGED <<ueMgr, nas, pending, bearer, app>>
  BY DEF RecvRrcConnectionReconfiguration, RecvDown, enbVars
<1>3. Head(down[i]) = Rrc("Reconfiguration") /\ i \in bearer
  <2>1. Head(down[i]) \in DownMsgs /\ Head(down[i]) \in Downlink(i)
    BY <1>1, <1>2, HeadTailProperties DEF IInv, Messages
  <2>2. Head(down[i]) = Rrc("Reconfiguration")
    <3>1. PICK e \in DownMsgs : e = Head(down[i])
      BY <2>1
    <3>2. e \notin {InitialContextSetupRequest(j) : j \in Devices}
      BY <1>2, <3>1 DEF InitialContextSetupRequest
    <3>3. PICK t \in {"Setup", "Reconfiguration"} : e = Rrc(t)
      BY <3>1, <3>2 DEF DownMsgs
    <3>4. Rrc(t).type = t
      BY DEF Rrc
    <3>5. t = "Reconfiguration"
      BY <1>2, <3>1, <3>3, <3>4
    <3> QED BY <3>1, <3>3, <3>5
  <2>3. i \in bearer
    BY <1>2, <2>1 DEF Downlink
  <2> QED BY <2>2, <2>3
<1>4. RrcOk(i) /\ Has(down[i], Reconf) /\ Once(down[i], Rrc("Reconfiguration"))
  BY <1>1, <1>2, <1>3, HasTail DEF RrcInv, RrcOk, Reconf
<1>5. i \notin drb /\ i \notin pending /\ nas[i] # "OFF"
  BY <1>4 DEF RrcOk
<1>6. ASSUME NEW j \in Devices, j # i PROVE RrcOk(j)'
  <2>1. /\ down'[j] = down[j] /\ up'[j] = up[j] /\ RrcOk(j)
    BY <1>1, <1>2, <1>6 DEF RrcInv
  <2>2. Once(down'[j], Rrc("Reconfiguration")) /\ (nas[j] = "OFF" => up'[j] = << >>)
    BY <2>1 DEF RrcOk
  <2> QED BY <1>2, <1>6, <2>1, <2>2, RrcKept
<1>7. RrcOk(i)'
  <2>1. /\ down'[i] = Tail(down[i])
        /\ up'[i] = (up[i] \o Kept(i)) \o <<Rrc("ReconfigurationCompleted")>>
    BY <1>1, <1>2
  <2>2. ~Has(Tail(down[i]), Reconf) /\ Once(Tail(down[i]), Rrc("Reconfiguration"))
    BY <1>1, <1>2, <1>3, <1>4, OnceTail DEF Reconf
  <2>3. Has(down[i], {Rrc("Setup")}) => Has(Tail(down[i]), {Rrc("Setup")})
    <3>1. Head(down[i]) \notin {Rrc("Setup")}
      BY <1>3 DEF Rrc
    <3> QED BY <1>1, <1>2, <3>1, HasTail
  <2>4. Has(up[i], {Rrc("SetupCompleted")}) =>
          Has((up[i] \o Kept(i)) \o <<Rrc("ReconfigurationCompleted")>>, {Rrc("SetupCompleted")})
    <3>1. up[i] \in Seq(UpMsgs) /\ Kept(i) \in Seq(UpMsgs)
      BY <1>1, MessageTypes, SeqMonotonic, EmptySeq DEF Kept, IInv, Messages
    <3>2. up[i] \o Kept(i) \in Seq(UpMsgs) /\ <<Rrc("ReconfigurationCompleted")>> \in Seq(UpMsgs)
      <4>1. Rrc("ReconfigurationCompleted") \in UpMsgs
        BY DEF UpMsgs
      <4> QED BY <3>1, <4>1, ConcatProperties
    <3> QED BY <3>1, <3>2, HasConcat
  <2> QED BY <1>2, <1>3, <1>4, <1>5, <2>1, <2>2, <2>3, <2>4 DEF RrcOk, Started
<1> QED BY <1>3, <1>5, <1>6, <1>7 DEF RrcInv

\* A relay with a bearer passes every request on: its own parent takes it.
PassesOn(c, n, m, links) ==
  /\ up[c] # << >> /\ m \in RelayMsgs /\ c \in drb
  /\ app' = [app EXCEPT ![n] = RelayInitialUeMessage(@, c, m)]
  /\ \/ /\ n \in Donors /\ up' = links
        /\ s1apUp' = Append(s1apUp, AddParent(n, m))
     \/ /\ n \in IABs \cap drb /\ up' = [links EXCEPT ![n] = Append(@, AddParent(n, m))]
        /\ UNCHANGED s1apUp
  /\ UNCHANGED <<ueMgr, pending, bearer, numIab, nas, drb, buffer, down, s1apDown>>

LEMMA RequestPassedOn ==
  ASSUME IInv, AInv, fault' = "none", RrcInv, NEW c \in IABs, RecvFromLteSocket(c),
         NEW n \in Nodes, n = Parent[c], NEW m, m = Head(up[c]),
         NEW links, links = [up EXCEPT ![c] = Tail(@)]
  PROVE  PassesOn(c, n, m, links)
<1>1. c \in Devices /\ up \in [Devices -> Seq(UpMsgs)]
  BY DEF Devices, IInv, Messages
<1>2. up[c] # << >> /\ m.type = "InitialUeMessage"
  BY DEF RecvFromLteSocket
<1>3. m \in Uplink(c) /\ Tail(up[c]) \in Seq(UpMsgs)
  BY <1>1, <1>2, HeadTailProperties DEF IInv, Messages
<1>4. m \in RelayMsgs /\ c \in drb
  BY <1>2, <1>3 DEF Uplink, Requests
<1>5. n \in IABs => n \in drb /\ nas[n] # "OFF"
  <2>1. n \in Donors \cup drb
    BY <1>4 DEF IInv, BearersInOrder, RelayReady
  <2>2. n \in IABs => n \in drb
    BY <2>1, NodesAssumption
  <2> QED BY <2>2 DEF RrcInv, RrcOk, Devices
<1>6. IabRelated(n, c) = {TRUE}
  <2>1. UplinkClassified
    BY ClassifiedFollows
  <2>2. 1 \in DOMAIN up[c] /\ up[c][1] = m
    BY <1>1, <1>2, EmptySeq, LenProperties, HeadTailProperties
  <2> QED BY <1>2, <2>1, <2>2 DEF UplinkClassified
<1>7. /\ app' = [app EXCEPT ![n] = RelayInitialUeMessage(@, c, m)]
      /\ \/ /\ n \in Donors /\ up' = links
            /\ s1apUp' = Append(s1apUp, AddParent(n, m)) /\ UNCHANGED buffer
         \/ /\ n \notin Donors /\ SendToBackhaul(n, AddParent(n, m), links)
            /\ UNCHANGED s1apUp
      /\ UNCHANGED <<ueMgr, pending, bearer, numIab, nas, drb, down, s1apDown>>
  BY <1>6 DEF RecvFromLteSocket, Stop, enbVars, ueVars, coreVars
<1>8. CASE n \in Donors
  BY <1>2, <1>4, <1>7, <1>8 DEF PassesOn
<1>9. CASE n \notin Donors
  <2>1. n \in IABs
    BY <1>9 DEF Nodes
  <2>2. up' = [links EXCEPT ![n] = Append(@, AddParent(n, m))] /\ UNCHANGED buffer
    BY <1>5, <1>7, <1>9, <2>1 DEF SendToBackhaul
  <2> QED BY <1>2, <1>4, <1>5, <1>7, <1>9, <2>1, <2>2 DEF PassesOn
<1> QED BY <1>8, <1>9

LEMMA RelayedRequestRrc ==
  ASSUME IInv, AInv, fault' = "none", RrcInv, NEW c \in IABs, RecvFromLteSocket(c)
  PROVE  RrcInv'
<1>1. PICK n \in Nodes : n = Parent[c]
  BY ParentAssumption DEF Devices
<1>2. PICK m : m = Head(up[c])
  OBVIOUS
<1>3. PICK links : links = [up EXCEPT ![c] = Tail(@)]
  OBVIOUS
<1>4. PICK a : a = AddParent(n, m)
  OBVIOUS
<1>5. /\ up[c] # << >> /\ m \in RelayMsgs
      /\ app' = [app EXCEPT ![n] = RelayInitialUeMessage(@, c, m)]
      /\ up' = links \/ (n \in IABs /\ n \in drb /\ up' = [links EXCEPT ![n] = Append(@, a)])
      /\ UNCHANGED <<ueMgr, pending, bearer, nas, drb, down>>
  <2>1. PassesOn(c, n, m, links)
    BY <1>1, <1>2, <1>3, RequestPassedOn
  <2> QED BY <1>4, <2>1 DEF PassesOn
<1>6. /\ c \in Devices /\ up \in [Devices -> Seq(UpMsgs)] /\ m \in UpMsgs
      /\ Tail(up[c]) \in Seq(UpMsgs) /\ links \in [Devices -> Seq(UpMsgs)] /\ a \in UpMsgs
  <2>1. c \in Devices /\ up \in [Devices -> Seq(UpMsgs)] /\ m \in UpMsgs
    BY <1>5, MessageTypes DEF Devices, IInv, Messages
  <2>2. Tail(up[c]) \in Seq(UpMsgs)
    BY <1>5, <2>1, HeadTailProperties
  <2>3. a \in RelayMsgs
    BY <1>4, <1>5 DEF AddParent, RelayMsgs
  <2> QED BY <1>3, <2>1, <2>2, <2>3, MessageTypes
<1>7. \A j \in Devices : Has(up[j], {Rrc("SetupCompleted")}) => Has(up'[j], {Rrc("SetupCompleted")})
  <2>1. m \notin {Rrc("SetupCompleted")}
    BY <1>5 DEF RelayMsgs, Rrc
  <2>2. Has(up[c], {Rrc("SetupCompleted")}) => Has(Tail(up[c]), {Rrc("SetupCompleted")})
    BY <1>2, <1>5, <1>6, <2>1, HasTail
  <2>3. \A j \in Devices :
          Has(up[j], {Rrc("SetupCompleted")}) => Has(links[j], {Rrc("SetupCompleted")})
    BY <1>3, <1>6, <2>2
  <2>4. CASE up' = links
    BY <2>3, <2>4
  <2>5. CASE n \in IABs /\ up' = [links EXCEPT ![n] = Append(@, a)]
    <3>1. n \in Devices
      BY <2>5 DEF Devices
    <3>2. Has(links[n], {Rrc("SetupCompleted")}) =>
            Has(Append(links[n], a), {Rrc("SetupCompleted")})
      BY <1>6, <3>1, HasAppend
    <3> QED BY <1>6, <2>3, <2>5, <3>1, <3>2
  <2> QED BY <1>5, <2>4, <2>5
<1>8. \A j \in Devices : nas[j] = "OFF" => up'[j] = << >>
  <2> SUFFICES ASSUME NEW j \in Devices, nas[j] = "OFF" PROVE up'[j] = << >>
    OBVIOUS
  <2>1. up[j] = << >> /\ j \notin drb
    BY DEF RrcInv, RrcOk
  <2>2. links[j] = << >>
    BY <1>3, <1>5, <1>6, <2>1
  <2> QED BY <1>5, <1>6, <2>1, <2>2
<1>9. \A j \in Devices : app'[Parent[j]].localImsi = app[Parent[j]].localImsi
  <2>1. app \in [Nodes -> AppStates]
    BY DEF IInv, Shapes
  <2>2. RelayInitialUeMessage(app[n], c, m).localImsi = app[n].localImsi
    BY <2>1 DEF RelayInitialUeMessage, AppStates
  <2> QED BY <1>5, <2>1, <2>2, ParentAssumption
<1>10. \A j \in Devices : Once(down'[j], Rrc("Reconfiguration"))
  BY <1>5 DEF RrcInv, RrcOk
<1> QED BY <1>5, <1>7, <1>8, <1>9, <1>10, LinksKept

\* An answer does what the node knows of the device; it is expected.
LEMMA AnswerTaken ==
  ASSUME IInv, AInv, DInv, NEW n \in Nodes, NEW i \in Devices, Noted(i, n),
         NEW links \in [Devices -> Seq(DownMsgs)],
         RecvInitialContextSetupRequest(n, i, links)
  PROVE  \/ /\ i \in app[n].requested
            /\ \E c \in IABs :
                 /\ c = app[n].localRbid[i] /\ c \in Path(i) /\ Parent[c] = n
                 /\ app' = [app EXCEPT ![n] = ForwardIabS1apReply(@, i)]
                 /\ numIab' = [numIab EXCEPT ![app[n].imsiRnti[i]] =
                                 NumChildren(ForwardIabS1apReply(app[n], i), app[n].imsiRnti[i])]
                 /\ down' = [links EXCEPT ![c] = Append(@, InitialContextSetupRequest(i))]
            /\ UNCHANGED <<ueMgr, pending, bearer>>
         \/ /\ i \notin app[n].requested /\ n = Parent[i] /\ i \in app[n].localImsi
            /\ app' = [app EXCEPT ![n] = DoInitialContextSetupRequest(@, i)]
            /\ SetupDataRadioBearer(i, links) /\ UNCHANGED numIab
<1>1. PICK a : a = app[n]
  OBVIOUS
<1>2. a \in AppStates /\ AppOk(n, a) /\ Ready(a) /\ Routes(n, a)
  BY <1>1 DEF IInv, Shapes, AppsConsistent, AInv, AppsReady, DInv, AppsRouted
<1>3. /\ a.imsiRnti[i] # None
      /\ i \in a.requested => a.localRbid[i] # None /\ a.imsiRnti[i] \in a.heard
  BY <1>1, <1>2 DEF Noted, Ready
<1>4. CASE i \in a.requested
  <2>1. PICK c : c = a.localRbid[i]
    OBVIOUS
  <2>2. c \in IABs /\ c \in Path(i) /\ Parent[c] = n
    BY <1>2, <1>3, <1>4, <2>1 DEF AppOk, Routes
  <2> QED BY <1>1, <1>3, <1>4, <2>1, <2>2 DEF RecvInitialContextSetupRequest
<1>5. CASE i \notin a.requested
  <2>1. a.imsiRnti[i] = i /\ n = Parent[i] /\ i \in a.localImsi
    BY <1>2, <1>3, <1>5 DEF AppOk
  <2> QED BY <1>1, <1>3, <1>5, <2>1 DEF RecvInitialContextSetupRequest
<1> QED BY <1>4, <1>5

LEMMA AnswerRrc ==
  ASSUME IInv, AInv, DInv, RrcInv, NEW n \in Nodes, NEW i \in Devices, Noted(i, n),
         NEW links \in [Devices -> Seq(DownMsgs)],
         \A j \in Devices : /\ Has(down[j], {Rrc("Setup")}) => Has(links[j], {Rrc("Setup")})
                            /\ Has(links[j], Reconf) <=> Has(down[j], Reconf)
                            /\ Once(links[j], Rrc("Reconfiguration")),
         RecvInitialContextSetupRequest(n, i, links), UNCHANGED <<nas, drb, up>>
  PROVE  RrcInv'
<1>1. app \in [Nodes -> AppStates]
  BY DEF IInv, Shapes
<1>2. \A j \in Devices : nas[j] = "OFF" => up'[j] = << >>
  BY DEF RrcInv, RrcOk
<1>3. \A j \in Devices : app'[Parent[j]].localImsi = app[Parent[j]].localImsi
  <2>1. PICK b : /\ b \in {ForwardIabS1apReply(app[n], i), DoInitialContextSetupRequest(app[n], i)}
                 /\ app' = [app EXCEPT ![n] = b]
    BY AnswerTaken
  <2>2. b.localImsi = app[n].localImsi
    BY <1>1, <2>1 DEF ForwardIabS1apReply, DoInitialContextSetupRequest, AppStates
  <2> QED BY <1>1, <2>1, <2>2, ParentAssumption
<1>4. CASE i \in app[n].requested
  <2>1. PICK c \in IABs : down' = [links EXCEPT ![c] = Append(@, InitialContextSetupRequest(i))]
    BY <1>4, AnswerTaken
  <2>2. PICK e : e = InitialContextSetupRequest(i)
    OBVIOUS
  <2>3. c \in Devices /\ e \in DownMsgs /\ e \notin Reconf /\ e \notin {Rrc("Setup")}
    BY <2>2 DEF Devices, DownMsgs, Reconf, InitialContextSetupRequest, Rrc
  <2>4. /\ Has(Append(links[c], e), Reconf) <=> Has(links[c], Reconf)
        /\ Has(Append(links[c], e), {Rrc("Setup")}) <=> Has(links[c], {Rrc("Setup")})
        /\ Once(Append(links[c], e), Rrc("Reconfiguration"))
    <3>1. Rrc("Reconfiguration") # e
      BY <2>3 DEF Reconf
    <3> QED BY <2>3, <3>1, HasAppend, OnceAppend
  <2>5. \A j \in Devices : down'[j] = IF j = c THEN Append(links[c], e) ELSE links[j]
    BY <2>1, <2>2, <2>3
  <2>6. /\ \A j \in Devices : Has(down[j], {Rrc("Setup")}) => Has(down'[j], {Rrc("Setup")})
        /\ \A j \in Devices : Has(down'[j], Reconf) <=> Has(down[j], Reconf)
        /\ \A j \in Devices : Once(down'[j], Rrc("Reconfiguration"))
    BY <2>4, <2>5
  <2>7. UNCHANGED <<ueMgr, nas, bearer, drb, pending>>
    BY <1>4, AnswerTaken
  <2>8. \A j \in Devices :
          Has(up[j], {Rrc("SetupCompleted")}) => Has(up'[j], {Rrc("SetupCompleted")})
    OBVIOUS
  <2> QED BY <1>2, <1>3, <2>6, <2>7, <2>8, LinksKept
<1>5. CASE i \notin app[n].requested
  <2>1. n = Parent[i] /\ i \in app[n].localImsi /\ SetupDataRadioBearer(i, links)
    BY <1>5, AnswerTaken
  <2>2. RrcOk(i) /\ Started(i)
    BY <2>1 DEF RrcInv, RrcOk
  <2>3. ASSUME NEW j \in Devices, j # i PROVE RrcOk(j)'
    <3>1. ueMgr'[j] = ueMgr[j] /\ down'[j] = links[j] /\ RrcOk(j)
      BY <2>1, <2>3 DEF SetupDataRadioBearer, IInv, Shapes, RrcInv
    <3>2. (j \in bearer' <=> j \in bearer) /\ (j \in pending' <=> j \in pending)
      BY <2>1, <2>3 DEF SetupDataRadioBearer
    <3> QED BY <1>2, <1>3, <3>1, <3>2, RrcKept
  <2>4. RrcOk(i)'
    <3>1. CASE i \in bearer
      <4>1. ueMgr'[i] = ueMgr[i] /\ down'[i] = links[i] /\ bearer' = bearer /\ pending' = pending
        BY <2>1, <3>1 DEF SetupDataRadioBearer
      <4> QED BY <1>2, <1>3, <2>2, <4>1, RrcKept
    <3>2. CASE i \notin bearer
      <4>1. i \notin drb /\ i \notin pending /\ ~Has(down[i], Reconf) /\ bearer' = bearer \cup {i}
        <5>1. i \notin drb /\ i \notin pending
          BY <3>2 DEF IInv, BearersInOrder
        <5>2. Rrc("Reconfiguration") \notin Downlink(i) /\ down[i] \in Seq(Downlink(i))
          BY <3>2 DEF Downlink, Rrc, IInv, Messages
        <5>3. ~Has(down[i], Reconf)
          BY <5>2, ElementOfSeq DEF Has, Reconf
        <5> QED BY <2>1, <5>1, <5>3 DEF SetupDataRadioBearer
      <4>2. CASE ueMgr[i] = "CONNECTED_NORMALLY"
        <5>1. /\ ueMgr'[i] = "CONNECTION_RECONFIGURATION" /\ pending' = pending
              /\ down'[i] = Append(links[i], Rrc("Reconfiguration"))
          BY <2>1, <3>2, <4>2 DEF SetupDataRadioBearer, IInv, Shapes
        <5>2. Rrc("Reconfiguration") \in DownMsgs
          BY DEF DownMsgs
        <5>3. /\ Has(Append(links[i], Rrc("Reconfiguration")), Reconf)
              /\ Once(Append(links[i], Rrc("Reconfiguration")), Rrc("Reconfiguration"))
          BY <4>1, <5>2, HasAppend, OnceAppend DEF Reconf
        <5>4. nas[i] # "OFF"
          BY <2>2, <4>2 DEF RrcOk
        <5> QED BY <1>3, <2>2, <4>1, <4>2, <5>1, <5>3, <5>4 DEF RrcOk, Started
      <4>3. CASE ueMgr[i] # "CONNECTED_NORMALLY"
        <5>1. ueMgr[i] = "CONNECTION_SETUP"
          BY <2>2, <3>2, <4>3 DEF RrcOk, Started, IInv, Shapes, UeStates
        <5>2. ueMgr'[i] = ueMgr[i] /\ pending' = pending \cup {i} /\ down'[i] = links[i]
          BY <2>1, <3>2, <4>3 DEF SetupDataRadioBearer
        <5> QED BY <1>2, <1>3, <2>2, <4>1, <5>1, <5>2 DEF RrcOk, Started
      <4> QED BY <4>2, <4>3
    <3> QED BY <3>1, <3>2
  <2> QED BY <2>3, <2>4 DEF RrcInv
<1> QED BY <1>4, <1>5

-----------------------------------------------------------------------------
(***************************************************************************)
(* The cells on one way up are in line.                                    *)
(***************************************************************************)
LEMMA UpTransitive ==
  ASSUME NEW x \in Nodes, NEW y \in CellsUp(Parent, x)
  PROVE  y \in Nodes /\ CellsUp(Parent, y) \subseteq CellsUp(Parent, x)
BY WayUp

LEMMA OneOrder ==
  ASSUME NEW x \in Nodes, NEW y \in CellsUp(Parent, x), x \in CellsUp(Parent, y)
  PROVE  x = y
<1>1. CASE x \in Donors
  BY <1>1, WayUpFrom
<1>2. CASE x \in IABs
  <2> SUFFICES ASSUME x # y PROVE FALSE
    OBVIOUS
  <2>1. PICK p \in Nodes : p = Parent[x]
    BY <1>2, ParentAssumption DEF Devices
  <2>2. y \in CellsUp(Parent, p)
    BY <1>2, <2>1, WayUpFrom
  <2>3. x \in CellsUp(Parent, p)
    BY <2>2, UpTransitive
  <2> QED BY <1>2, <2>1, <2>3, NoCycle
<1> QED BY <1>1, <1>2 DEF Nodes

LEMMA InLine ==
  ASSUME NEW x \in Nodes, NEW b \in CellsUp(Parent, x), NEW c \in CellsUp(Parent, x)
  PROVE  c \in CellsUp(Parent, b) \/ b \in CellsUp(Parent, c)
<1> DEFINE T == {y \in CellsUp(Parent, x) : b \in CellsUp(Parent, y) \/ y \in CellsUp(Parent, b)}
<1>1. ASSUME NEW y \in T \cap IABs PROVE Parent[y] \in T
  <2>1. PICK p \in Nodes : p = Parent[y]
    BY ParentAssumption DEF Devices
  <2>2. p \in CellsUp(Parent, x)
    BY <2>1, WayUp
  <2>3. b \in Nodes /\ y \in Nodes /\ y \in IABs
    BY UpTransitive
  <2>4. CASE y \in CellsUp(Parent, b)
    BY <2>1, <2>2, <2>3, <2>4, WayUp
  <2>5. CASE b \in CellsUp(Parent, y)
    <3>1. b = y \/ b \in CellsUp(Parent, p)
      BY <2>1, <2>3, <2>5, WayUpFrom
    <3> QED BY <2>1, <2>2, <2>3, <2>4, <2>5, <3>1, WayUp
  <2> QED BY <2>4, <2>5
<1>2. T \in SUBSET Nodes /\ x \in T
  BY WayUp
<1>3. CellsUp(Parent, x) \subseteq T
  <2> HIDE DEF T
  <2> QED BY <1>1, <1>2, WayUp
<1> QED BY <1>3

\* Every cell but the first is reached from the one below.
LEMMA NextBelow ==
  ASSUME NEW x \in Nodes, NEW b \in CellsUp(Parent, x), b # x
  PROVE  \E y \in CellsUp(Parent, x) \cap IABs : Parent[y] = b
<1> SUFFICES ASSUME \A y \in CellsUp(Parent, x) \cap IABs : Parent[y] # b PROVE FALSE
  OBVIOUS
<1>1. PICK T : T = CellsUp(Parent, x) \ {b}
  OBVIOUS
<1>2. T \in SUBSET Nodes /\ x \in T /\ \A y \in T \cap IABs : Parent[y] \in T
  BY <1>1, WayUp
<1>3. CellsUp(Parent, x) \subseteq T
  BY <1>2, WayUp
<1> QED BY <1>1, <1>3

\* All relays above one that has its bearer have theirs.
LEMMA BearersUp ==
  ASSUME IInv, NEW x \in Nodes, x \in Donors \cup drb
  PROVE  CellsUp(Parent, x) \subseteq Donors \cup drb
<1>1. PICK T : T = Nodes \cap (Donors \cup drb)
  OBVIOUS
<1>2. ASSUME NEW y \in T \cap IABs PROVE Parent[y] \in T
  <2>1. y \in drb
    BY <1>1, NodesAssumption
  <2> QED BY <1>1, <2>1, ParentAssumption DEF IInv, BearersInOrder, RelayReady, Devices
<1>3. T \in SUBSET Nodes /\ x \in T
  BY <1>1
<1> QED BY <1>1, <1>2, <1>3, WayUp

LEMMA BetweenFirst ==
  ASSUME NEW i \in Devices, Parent[i] \in IABs
  PROVE  Between(i, Parent[i]) = {Parent[i]}
<1>1. PICK p \in Nodes : p = Parent[i]
  BY ParentAssumption
<1>2. \A b \in CellsUp(Parent, p) : p \in CellsUp(Parent, b) => b = p
  BY OneOrder
<1> QED BY <1>1, <1>2, WayUp DEF Between, Path

LEMMA BetweenNext ==
  ASSUME NEW i \in Devices, NEW c \in IABs, c \in Path(i), NEW n \in Nodes, n = Parent[c]
  PROVE  /\ c \in Between(i, c)
         /\ n \in IABs => Between(i, n) = Between(i, c) \cup {n}
<1>1. PICK p \in Nodes : p = Parent[i]
  BY ParentAssumption
<1>2. Path(i) = CellsUp(Parent, p) /\ c \in Nodes
  BY <1>1 DEF Path, Nodes
<1>3. c \in Between(i, c) /\ n \in Path(i)
  BY <1>2, WayUp DEF Between
<1>4. ASSUME n \in IABs PROVE Between(i, n) = Between(i, c) \cup {n}
  <2>1. ASSUME NEW b \in Between(i, n) PROVE b \in Between(i, c) \cup {n}
    <3>1. b \in IABs /\ b \in CellsUp(Parent, p) /\ n \in CellsUp(Parent, b) /\ b \in Nodes
      BY <1>2, <2>1 DEF Between, Nodes
    <3>2. c \in CellsUp(Parent, b) \/ b \in CellsUp(Parent, c)
      BY <1>2, <3>1, InLine
    <3>3. CASE c \in CellsUp(Parent, b)
      BY <1>2, <3>1, <3>3 DEF Between
    <3>4. CASE b \in CellsUp(Parent, c)
      <4>1. b = c \/ b \in CellsUp(Parent, n)
        BY <1>2, <3>4, WayUpFrom
      <4>2. CASE b \in CellsUp(Parent, n)
        BY <3>1, <4>2, OneOrder
      <4> QED BY <1>3, <4>1, <4>2
    <3> QED BY <3>2, <3>3, <3>4
  <2>2. ASSUME NEW b \in Between(i, c) PROVE b \in Between(i, n)
    <3>1. b \in Nodes /\ c \in CellsUp(Parent, b)
      BY <2>2 DEF Between, Nodes
    <3>2. n \in CellsUp(Parent, b)
      BY <3>1, WayUp
    <3> QED BY <2>2, <3>2 DEF Between
  <2>3. n \in Between(i, n)
    BY <1>3, <1>4, WayUp DEF Between
  <2> QED BY <2>1, <2>2, <2>3
<1> QED BY <1>3, <1>4

-----------------------------------------------------------------------------
(***************************************************************************)
(* Answers come: what is due stays due or is given.                        *)
(***************************************************************************)
LEMMA DueKept ==
  ASSUME AnswersDue, bearer \subseteq bearer',
         \A x \in IABs : \A i \in Devices :
           /\ Has(up[x], RequestOf(i)) => Has(up'[x], RequestOf(i))
           /\ Has(down[x], AnswerTo(i)) => Has(down'[x], AnswerTo(i)),
         \A i \in Devices : Has(s1apUp, RequestOf(i)) => Has(s1apUp', RequestOf(i)),
         UNCHANGED s1apDown,
         \A n \in Nodes : /\ app'[n].requested = app[n].requested
                          /\ app'[n].remote = app[n].remote
  PROVE  AnswersDue'
<1> SUFFICES ASSUME NEW n \in Nodes, NEW i \in Devices
             PROVE  /\ i \in app'[n].requested \ app'[n].remote => Above(i, n)'
                    /\ i \in app'[n].remote =>
                         i \in bearer' \/ \E x \in IABs : Has(down'[x], AnswerTo(i))
  BY DEF AnswersDue, AnswerTo
<1>1. RequestOf(i)' = RequestOf(i) /\ AnswerTo(i)' = AnswerTo(i) /\ ReplyTo(i)' = ReplyTo(i)
  BY DEF RequestOf, AnswerTo, ReplyTo
<1>2. Above(i, n) => Above(i, n)'
  BY <1>1 DEF Above, Has
<1> QED BY <1>2 DEF AnswersDue

-----------------------------------------------------------------------------
(***************************************************************************)
(* Counts: what a step leaves as it is.                                    *)
(***************************************************************************)
\* What a parent has of the relays behind one of its devices.
LedgerKept(c) ==
  /\ Children(c)' = Children(c) /\ Via(c)' = Via(c)
  /\ \A i \in Via(c) : i \in app'[Parent[c]].remote => i \in app[Parent[c]].remote

\* What a step other than the reconfiguration of c may do to its uplink.
LinkMoves(c) ==
  \/ up'[c] = up[c]
  \/ up[c] # << >> /\ up'[c] = Tail(up[c])
  \/ \E e \in Sending(c) : e \notin ReconfDone /\ up'[c] = Append(up[c], e)

\* The same, and it does not take up a completed reconfiguration.
LinkMovesOn(c) ==
  \/ up'[c] = up[c]
  \/ up[c] # << >> /\ Head(up[c]) \notin ReconfDone /\ up'[c] = Tail(up[c])
  \/ \E e \in Sending(c) : e \notin ReconfDone /\ up'[c] = Append(up[c], e)

LEMMA SendingTypes == \A c : Sending(c) \subseteq UpMsgs /\ Listing(c) \subseteq Sending(c)
BY MessageTypes DEF Sending, Listing

LEMMA FirstOwnKept ==
  ASSUME NEW c \in IABs, up[c] \in Seq(UpMsgs), FirstOwn(c), c \in drb => c \in drb', LinkMoves(c),
         \/ Children(c)' = Children(c)
         \/ /\ up[c] # << >> /\ Head(up[c]).type = "InitialUeMessage" /\ up'[c] = Tail(up[c])
            /\ Children(c)' = Children(c) \cup Head(up[c]).parents
  PROVE  FirstOwn(c)'
<1> SUFFICES ASSUME NEW k \in 1 .. Len(up'[c]), up'[c][k] \in ReconfDone
             PROVE  /\ c \in drb /\ Children(c)' \subseteq {c}
                    /\ \A j \in 1 .. (k - 1) :
                         up'[c][j].type = "InitialUeMessage" => up'[c][j].parents \subseteq {c}
  BY DEF FirstOwn, ReconfDone
<1>1. \A l \in 1 .. Len(up[c]) : up[c][l] \in ReconfDone =>
        /\ c \in drb /\ Children(c) \subseteq {c}
        /\ \A j \in 1 .. (l - 1) :
             up[c][j].type = "InitialUeMessage" => up[c][j].parents \subseteq {c}
  BY DEF FirstOwn
<1>2. CASE up'[c] = up[c] /\ Children(c)' = Children(c)
  BY <1>1, <1>2
<1>3. CASE up[c] # << >> /\ up'[c] = Tail(up[c])
  <2>1. /\ Len(up[c]) \in Nat \ {0} /\ Len(Tail(up[c])) = Len(up[c]) - 1 /\ Head(up[c]) = up[c][1]
        /\ \A l \in 1 .. (Len(up[c]) - 1) : Tail(up[c])[l] = up[c][l + 1]
    BY <1>3, HeadTailProperties, LenProperties, EmptySeq
  <2>2. k \in 1 .. (Len(up[c]) - 1) /\ k + 1 \in 1 .. Len(up[c]) /\ up[c][k + 1] \in ReconfDone
    BY <1>3, <2>1
  <2>3. /\ c \in drb /\ Children(c) \subseteq {c}
        /\ \A j \in 1 .. k : up[c][j].type = "InitialUeMessage" => up[c][j].parents \subseteq {c}
    BY <1>1, <2>2
  <2>4. Children(c)' \subseteq {c}
    <3>1. 1 \in 1 .. k
      BY <2>2
    <3>2. Head(up[c]).type = "InitialUeMessage" => Head(up[c]).parents \subseteq {c}
      BY <2>1, <2>3, <3>1
    <3> QED BY <2>3, <3>2
  <2>5. \A j \in 1 .. (k - 1) : j + 1 \in 1 .. k /\ up'[c][j] = up[c][j + 1]
    BY <1>3, <2>1, <2>2
  <2> QED BY <2>3, <2>4, <2>5
<1>4. CASE /\ Children(c)' = Children(c)
           /\ \E e \in Sending(c) : e \notin ReconfDone /\ up'[c] = Append(up[c], e)
  <2>1. PICK e \in Sending(c) : e \notin ReconfDone /\ up'[c] = Append(up[c], e)
    BY <1>4
  <2>2. /\ Len(up'[c]) = Len(up[c]) + 1 /\ up'[c][Len(up[c]) + 1] = e /\ Len(up[c]) \in Nat
        /\ \A l \in 1 .. Len(up[c]) : up'[c][l] = up[c][l]
    BY <2>1, SendingTypes, AppendProperties, LenProperties
  <2>3. k \in 1 .. Len(up[c])
    BY <2>1, <2>2
  <2> QED BY <1>1, <1>4, <2>2, <2>3
<1>5. CASE up'[c] = up[c] /\ Children(c)' # Children(c)
  BY <1>3, <1>5
<1>6. CASE /\ Children(c)' # Children(c)
           /\ \E e \in Sending(c) : e \notin ReconfDone /\ up'[c] = Append(up[c], e)
  BY <1>3, <1>6
<1> QED BY <1>2, <1>3, <1>4, <1>5, <1>6 DEF LinkMoves

LEMMA CountOkKept ==
  ASSUME NEW c \in IABs, CountOk(c), LedgerKept(c), c \in drb' <=> c \in drb,
         Has(up'[c], ReconfDone) <=> Has(up[c], ReconfDone), numIab'[c] = numIab[c]
  PROVE  CountOk(c)'
<1>1. /\ c \in drb /\ ~Has(up[c], ReconfDone) =>
           \/ numIab[c] = IF Children(c) = {} THEN 1 ELSE Cardinality(Children(c))
           \/ \E i \in Via(c) : i \notin app[Parent[c]].remote
      /\ Children(c)' = Children(c) /\ Via(c)' = Via(c)
      /\ \A i \in Via(c) : i \in app'[Parent[c]].remote => i \in app[Parent[c]].remote
  BY DEF CountOk, LedgerKept
<1>2. Has(up'[c], ReconfDone) <=> Has(up[c], ReconfDone)'
  BY DEF Has, ReconfDone
<1>3. c \in drb' /\ ~Has(up[c], ReconfDone)' =>
        \/ numIab'[c] = IF Children(c)' = {} THEN 1 ELSE Cardinality(Children(c)')
        \/ \E i \in Via(c)' : i \notin app'[Parent[c]].remote
  BY <1>1, <1>2
<1> QED BY <1>3 DEF CountOk

\* The uplink of c as far as ReconfDone goes.
LEMMA DoneKept ==
  ASSUME NEW c \in IABs, up[c] \in Seq(UpMsgs), LinkMovesOn(c)
  PROVE  Has(up'[c], ReconfDone) <=> Has(up[c], ReconfDone)
<1>1. CASE up[c] # << >> /\ Head(up[c]) \notin ReconfDone /\ up'[c] = Tail(up[c])
  BY <1>1, HasTail
<1>2. ASSUME NEW e \in Sending(c), e \notin ReconfDone, up'[c] = Append(up[c], e)
      PROVE  Has(up'[c], ReconfDone) <=> Has(up[c], ReconfDone)
  <2>1. e \in UpMsgs
    BY SendingTypes
  <2> QED BY <1>2, <2>1, HasAppend
<1> QED BY <1>1, <1>2 DEF LinkMovesOn

\* What requests list is written once.
LEMMA LinksListed ==
  ASSUME Listed, \A c \in IABs : LinkMoves(c)
  PROVE  \A c \in IABs : up'[c] \in Seq(Sending(c))
<1> SUFFICES ASSUME NEW c \in IABs PROVE up'[c] \in Seq(Sending(c))
  OBVIOUS
<1>1. up[c] \in Seq(Sending(c))
  BY DEF Listed
<1>2. up[c] # << >> => Tail(up[c]) \in Seq(Sending(c))
  BY <1>1, HeadTailProperties
<1>3. \A e \in Sending(c) : Append(up[c], e) \in Seq(Sending(c))
  BY <1>1, AppendProperties
<1> QED BY <1>1, <1>2, <1>3 DEF LinkMoves

\* The applications keep their ledgers, no bearer is set up, nothing counted.
LEMMA CountKept ==
  ASSUME IInv, CountInv, UNCHANGED <<drb, numIab>>, \A c \in IABs : LinkMovesOn(c),
         \A c \in IABs : buffer'[c] \in Seq(Listing(c)),
         \A n \in Nodes :
           /\ app'[n].children = app[n].children /\ app'[n].requested = app[n].requested
           /\ app'[n].localRbid = app[n].localRbid /\ app'[n].remote = app[n].remote
           /\ \A i \in app[n].requested : app'[n].imsiRnti[i] = app[n].imsiRnti[i]
  PROVE  CountInv'
<1>1. \A c \in IABs : Parent[c] \in Nodes /\ up[c] \in Seq(UpMsgs)
  BY ParentAssumption DEF Devices, IInv, Messages
<1>2. \A c \in IABs : LedgerKept(c)
  BY <1>1 DEF LedgerKept, Children, Via
<1>0. \A c \in IABs : LinkMoves(c)
  BY DEF LinkMovesOn, LinkMoves
<1>3. Listed'
  <2>1. \A c \in IABs : up'[c] \in Seq(Sending(c))
    BY <1>0, LinksListed DEF CountInv
  <2>2. \A c \in IABs : /\ Children(c)' = UNION {Between(i, c) : i \in Via(c)'}
                        /\ Via(c)' # {} => c \in drb
    BY <1>2 DEF CountInv, Listed, LedgerKept
  <2>3. \A n \in Nodes : \A i \in app'[n].requested : app'[n].imsiRnti[i] = app'[n].localRbid[i]
    BY DEF CountInv, Listed
  <2> QED BY <2>1, <2>2, <2>3 DEF Listed, Sending, Listing, Between, Path
<1>4. ASSUME NEW c \in IABs PROVE FirstOwn(c)' /\ CountOk(c)'
  <2>1. FirstOwn(c)'
    BY <1>0, <1>1, <1>2, FirstOwnKept DEF CountInv, LedgerKept
  <2>2. CountOk(c)'
    BY <1>1, <1>2, DoneKept, CountOkKept DEF CountInv
  <2> QED BY <2>1, <2>2
<1> QED BY <1>3, <1>4 DEF CountInv

-----------------------------------------------------------------------------
(***************************************************************************)
(* Init, and one lemma per action.                                         *)
(***************************************************************************)
LEMMA InitCounts == Init => AnswersDue /\ CountInv
<1> SUFFICES ASSUME Init PROVE AnswersDue /\ CountInv
  OBVIOUS
<1>1. \A n \in Nodes : /\ app[n].requested = {} /\ app[n].remote = {} /\ app[n].children = {}
  BY DEF Init, EmptyApp
<1>2. AnswersDue
  BY <1>1 DEF AnswersDue
<1>3. \A c \in IABs : Via(c) = {} /\ Children(c) = {}
  BY <1>1, ParentAssumption DEF Via, Children, Devices
<1>4. Listed
  <2>1. \A c \in IABs : buffer[c] = << >> /\ up[c] = << >>
    BY DEF Init, Devices
  <2>2. \A c \in IABs : Children(c) = UNION {Between(i, c) : i \in Via(c)}
    BY <1>3
  <2>3. \A c \in IABs : buffer[c] \in Seq(Listing(c)) /\ up[c] \in Seq(Sending(c))
    BY <2>1, EmptySeq
  <2> QED BY <1>1, <1>3, <2>2, <2>3 DEF Listed
<1>5. \A c \in IABs : FirstOwn(c) /\ CountOk(c)
  BY DEF Init, FirstOwn, CountOk, Devices
<1> QED BY <1>2, <1>4, <1>5 DEF CountInv

\* Messages that requests and answers are not.
LEMMA OtherMessages ==
  /\ \A c : \A t \in {"SetupCompleted", "ReconfigurationCompleted"} : Rrc(t) \in Sending(c)
  /\ Rrc("SetupCompleted") \notin ReconfDone
  /\ \A c : \A m \in Listing(c) : m \notin ReconfDone
  /\ \A m \in UpMsgs : m.type = "SetupCompleted" => m \notin ReconfDone
  /\ \A m \in UpMsgs : m.type # "InitialUeMessage" => \A i \in Devices : m \notin RequestOf(i)
  /\ \A m \in DownMsgs :
       m.type # "InitialContextSetupRequest" => \A i \in Devices : m \notin AnswerTo(i)
<1>1. \A c : \A t \in {"SetupCompleted", "ReconfigurationCompleted"} : Rrc(t) \in Sending(c)
  BY DEF Sending, UpMsgs, Rrc
<1>2. \A m \in ReconfDone : m.type = "ReconfigurationCompleted"
  BY DEF ReconfDone, Rrc
<1>3. Rrc("SetupCompleted").type = "SetupCompleted"
  BY DEF Rrc
<1>4. \A c : \A m \in Listing(c) : m.type = "InitialUeMessage"
  BY MessageTypes DEF Listing
<1> QED BY <1>1, <1>2, <1>3, <1>4 DEF RequestOf, AnswerTo

\* A device's queue grows, or loses a message that is no request or answer.
LEMMA StillHas ==
  ASSUME NEW T, NEW p \in Seq(T), NEW q, NEW S,
         \/ q = p
         \/ p # << >> /\ Head(p) \notin S /\ q = Tail(p)
         \/ \E e \in T : q = Append(p, e)
  PROVE  Has(p, S) => Has(q, S)
<1>1. CASE p # << >> /\ Head(p) \notin S /\ q = Tail(p)
  BY <1>1, HasTail
<1>2. CASE \E e \in T : q = Append(p, e)
  BY <1>2, HasAppend
<1> QED BY <1>1, <1>2

LEMMA ConnectionRequestCounts ==
  ASSUME IInv, AInv, AnswersDue, CountInv, NEW i \in Devices, RecvRrcConnectionRequest(i)
  PROVE  AnswersDue' /\ CountInv'
<1>1. PICK n \in Nodes : n = Parent[i]
  BY ParentAssumption
<1>2. /\ ueMgr[i] = "INITIAL_RANDOM_ACCESS"
      /\ app' = [app EXCEPT ![n] = DoInitialUeMessage(@, i)]
      /\ down' = [down EXCEPT ![i] = Append(@, Rrc("Setup"))]
      /\ \/ s1apUp' = Append(s1apUp, InitialUeMessage(i, {})) /\ UNCHANGED <<buffer, up>>
         \/ /\ n \in IABs /\ SendToBackhaul(n, InitialUeMessage(i, {n}), up)
            /\ UNCHANGED s1apUp
      /\ UNCHANGED <<bearer, numIab, drb, s1apDown>>
  BY <1>1 DEF RecvRrcConnectionRequest, ueVars, coreVars, Nodes
<1>3. /\ app \in [Nodes -> AppStates] /\ up \in [Devices -> Seq(UpMsgs)]
      /\ down \in [Devices -> Seq(DownMsgs)] /\ buffer \in [IABs -> Seq(RelayMsgs)]
      /\ s1apUp \in Seq(RelayMsgs)
  <2>1. Requests \subseteq RelayMsgs
    BY DEF Requests
  <2> QED BY <2>1, SeqMonotonic DEF IInv, Shapes, Messages
<1>4. i \notin app[n].requested
  BY <1>2 DEF AInv, AppsReady, Ready, Started
<1>5. \A x \in Nodes :
        /\ app'[x].children = app[x].children /\ app'[x].requested = app[x].requested
        /\ app'[x].localRbid = app[x].localRbid /\ app'[x].remote = app[x].remote
        /\ \A j \in app[x].requested : app'[x].imsiRnti[j] = app[x].imsiRnti[j]
  <2>1. PICK b : b = DoInitialUeMessage(app[n], i)
    OBVIOUS
  <2>2. /\ b.children = app[n].children /\ b.requested = app[n].requested
        /\ b.localRbid = app[n].localRbid /\ b.remote = app[n].remote
        /\ b.imsiRnti = [app[n].imsiRnti EXCEPT ![i] = i]
        /\ app[n].requested \subseteq Devices
        /\ app[n].imsiRnti \in [Devices -> Devices \cup {None}]
    BY <1>3, <2>1 DEF DoInitialUeMessage, AppStates
  <2>3. app'[n] = b /\ \A x \in Nodes : x # n => app'[x] = app[x]
    BY <1>2, <1>3, <2>1
  <2>4. \A j \in app[n].requested : b.imsiRnti[j] = app[n].imsiRnti[j]
    BY <1>4, <2>2
  <2> QED BY <2>2, <2>3, <2>4
<1>6. /\ \A c \in IABs : LinkMovesOn(c) /\ buffer'[c] \in Seq(Listing(c))
      /\ \A c \in Devices : \A S : Has(up[c], S) => Has(up'[c], S)
  <2>1. CASE UNCHANGED <<buffer, up>>
    BY <2>1 DEF LinkMovesOn, CountInv, Listed
  <2>2. CASE n \in IABs /\ SendToBackhaul(n, InitialUeMessage(i, {n}), up)
    <3>1. PICK m : m = InitialUeMessage(i, {n})
      OBVIOUS
    <3>2. m \in Listing(n) /\ m \in Sending(n) /\ m \notin ReconfDone /\ m \in UpMsgs
      <4>1. m \in RelayMsgs /\ m.imsi = i /\ m.parents = {n}
        BY <2>2, <3>1 DEF InitialUeMessage, RelayMsgs
      <4>2. m \in Listing(n)
        BY <1>1, <2>2, <4>1, BetweenFirst DEF Listing
      <4> QED BY <4>2, SendingTypes, OtherMessages
    <3>3. \/ buffer' = [buffer EXCEPT ![n] = Append(@, m)] /\ up' = up
          \/ buffer' = buffer /\ up' = [up EXCEPT ![n] = Append(@, m)]
          \/ buffer' = buffer /\ up' = up
      BY <2>2, <3>1 DEF SendToBackhaul
    <3>4. n \in Devices
      BY <2>2 DEF Devices
    <3>5. \A c \in IABs : LinkMovesOn(c)
      BY <1>3, <3>2, <3>3, <3>4 DEF LinkMovesOn, Devices
    <3>6. Append(buffer[n], m) \in Seq(Listing(n))
      BY <2>2, <3>2, AppendProperties DEF CountInv, Listed
    <3>7. \A c \in IABs : buffer'[c] \in Seq(Listing(c))
      BY <1>3, <3>3, <3>6 DEF CountInv, Listed
    <3>8. \A S : Has(up[n], S) => Has(Append(up[n], m), S)
      BY <1>3, <3>2, <3>4, HasAppend
    <3>9. \A c \in Devices : \A S : Has(up[c], S) => Has(up'[c], S)
      BY <1>3, <3>3, <3>4, <3>8
    <3> QED BY <3>5, <3>7, <3>9
  <2> QED BY <1>2, <2>1, <2>2
<1>7. CountInv'
  BY <1>2, <1>5, <1>6, CountKept
<1>8. AnswersDue'
  <2>1. \A x \in IABs : \A j \in Devices : Has(down[x], AnswerTo(j)) => Has(down'[x], AnswerTo(j))
    <3>1. Rrc("Setup") \in DownMsgs
      BY DEF DownMsgs
    <3>2. \A S : Has(down[i], S) => Has(Append(down[i], Rrc("Setup")), S)
      BY <1>3, <3>1, HasAppend
    <3> QED BY <1>2, <1>3, <3>2 DEF Devices
  <2>2. \A j \in Devices : Has(s1apUp, RequestOf(j)) => Has(s1apUp', RequestOf(j))
    <3>1. InitialUeMessage(i, {}) \in RelayMsgs
      BY DEF InitialUeMessage, RelayMsgs
    <3>2. \A S : Has(s1apUp, S) => Has(Append(s1apUp, InitialUeMessage(i, {})), S)
      BY <1>3, <3>1, HasAppend
    <3> QED BY <1>2, <3>2
  <2>3. \A x \in IABs : \A j \in Devices : Has(up[x], RequestOf(j)) => Has(up'[x], RequestOf(j))
    BY <1>6 DEF Devices
  <2> QED BY <1>2, <1>5, <2>1, <2>2, <2>3, DueKept
<1> QED BY <1>7, <1>8

\* RRC of device i leaves requests and answers on its links.
LEMMA RrcDue ==
  ASSUME IInv, AnswersDue, NEW i \in Devices, UNCHANGED <<app, s1apUp, s1apDown, bearer>>,
         \A x \in Devices : x # i => up'[x] = up[x] /\ down'[x] = down[x],
         \A j \in Devices : /\ Has(up[i], RequestOf(j)) => Has(up'[i], RequestOf(j))
                            /\ Has(down[i], AnswerTo(j)) => Has(down'[i], AnswerTo(j))
  PROVE  AnswersDue'
<1>1. \A x \in IABs : \A j \in Devices :
        /\ Has(up[x], RequestOf(j)) => Has(up'[x], RequestOf(j))
        /\ Has(down[x], AnswerTo(j)) => Has(down'[x], AnswerTo(j))
  BY DEF Devices
<1> QED BY <1>1, DueKept

LEMMA ConnectionSetupCounts ==
  ASSUME IInv, AnswersDue, CountInv, NEW i \in Devices, RecvRrcConnectionSetup(i)
  PROVE  AnswersDue' /\ CountInv'
<1>1. /\ up \in [Devices -> Seq(UpMsgs)] /\ down \in [Devices -> Seq(DownMsgs)]
      /\ Rrc("SetupCompleted") \in UpMsgs
  BY DEF IInv, Messages, UpMsgs
<1>2. /\ down[i] # << >> /\ Head(down[i]).type = "Setup"
      /\ down' = [down EXCEPT ![i] = Tail(@)]
      /\ up' = [up EXCEPT ![i] = Append(@, Rrc("SetupCompleted"))]
      /\ UNCHANGED <<bearer, numIab, drb, app, buffer, s1apUp, s1apDown>>
  BY DEF RecvRrcConnectionSetup, RecvDown, enbVars, coreVars
<1>3. AnswersDue'
  <2>1. Head(down[i]) \in DownMsgs
    BY <1>1, <1>2, HeadTailProperties
  <2>2. \A j \in Devices : Head(down[i]) \notin AnswerTo(j)
    BY <1>2, <2>1, OtherMessages
  <2>3. \A j \in Devices : Has(down[i], AnswerTo(j)) => Has(Tail(down[i]), AnswerTo(j))
    BY <1>1, <1>2, <2>2, HasTail
  <2>4. \A j \in Devices : Has(up[i], RequestOf(j)) =>
                             Has(Append(up[i], Rrc("SetupCompleted")), RequestOf(j))
    BY <1>1, HasAppend
  <2> QED BY <1>1, <1>2, <2>3, <2>4, RrcDue
<1>4. CountInv'
  <2>1. \A c \in IABs : LinkMovesOn(c)
    BY <1>1, <1>2, OtherMessages DEF LinkMovesOn, Devices
  <2>2. \A c \in IABs : buffer'[c] \in Seq(Listing(c))
    BY <1>2 DEF CountInv, Listed
  <2> QED BY <1>2, <2>1, <2>2, CountKept
<1> QED BY <1>3, <1>4

LEMMA ConnectedDue ==
  ASSUME IInv, AnswersDue, NEW i \in Devices,
         NEW type \in {"SetupCompleted", "ReconfigurationCompleted"}, RecvUp(i, type),
         SwitchToConnectedNormally(i), UNCHANGED <<app, s1apUp, s1apDown, bearer>>
  PROVE  AnswersDue'
<1>1. /\ up \in [Devices -> Seq(UpMsgs)] /\ down \in [Devices -> Seq(DownMsgs)]
      /\ Rrc("Reconfiguration") \in DownMsgs
  BY DEF IInv, Messages, DownMsgs
<1>2. /\ up[i] # << >> /\ Head(up[i]).type = type /\ up' = [up EXCEPT ![i] = Tail(@)]
      /\ down' = down \/ down' = [down EXCEPT ![i] = Append(@, Rrc("Reconfiguration"))]
  BY DEF RecvUp, SwitchToConnectedNormally
<1>3. Head(up[i]) \in UpMsgs
  BY <1>1, <1>2, HeadTailProperties
<1>4. \A j \in Devices : Head(up[i]) \notin RequestOf(j)
  BY <1>2, <1>3, OtherMessages
<1>5. \A j \in Devices : Has(up[i], RequestOf(j)) => Has(Tail(up[i]), RequestOf(j))
  BY <1>1, <1>2, <1>4, HasTail
<1>6. \A S : Has(down[i], S) => Has(Append(down[i], Rrc("Reconfiguration")), S)
  BY <1>1, HasAppend
<1>7. \A j \in Devices : Has(down[i], AnswerTo(j)) => Has(down'[i], AnswerTo(j))
  BY <1>1, <1>2, <1>6
<1>8. \A x \in Devices : x # i => up'[x] = up[x] /\ down'[x] = down[x]
  BY <1>1, <1>2
<1>9. up'[i] = Tail(up[i])
  BY <1>1, <1>2
<1> QED BY <1>5, <1>7, <1>8, <1>9, RrcDue

LEMMA SetupCompletedCounts ==
  ASSUME IInv, AnswersDue, CountInv, NEW i \in Devices, RecvRrcConnectionSetupCompleted(i)
  PROVE  AnswersDue' /\ CountInv'
<1>1. /\ RecvUp(i, "SetupCompleted") /\ SwitchToConnectedNormally(i)
      /\ UNCHANGED <<bearer, numIab, drb, app, buffer, s1apUp, s1apDown>>
  BY DEF RecvRrcConnectionSetupCompleted, ueVars, coreVars
<1>2. AnswersDue'
  BY <1>1, ConnectedDue
<1>3. /\ up \in [Devices -> Seq(UpMsgs)] /\ up[i] # << >>
      /\ Head(up[i]).type = "SetupCompleted" /\ up' = [up EXCEPT ![i] = Tail(@)]
  BY <1>1 DEF RecvUp, IInv, Messages
<1>4. Head(up[i]) \notin ReconfDone
  <2>1. Head(up[i]) \in UpMsgs
    BY <1>3, HeadTailProperties
  <2> QED BY <1>3, <2>1, OtherMessages
<1>5. \A c \in IABs : LinkMovesOn(c)
  BY <1>3, <1>4 DEF LinkMovesOn, Devices
<1>6. \A c \in IABs : buffer'[c] \in Seq(Listing(c))
  BY <1>1 DEF CountInv, Listed
<1> QED BY <1>1, <1>2, <1>5, <1>6, CountKept

\* The first reconfiguration counts the relay itself, and there is no other yet.
LEMMA ReconfigurationCompletedCounts ==
  ASSUME IInv, AnswersDue, CountInv, NEW i \in Devices,
         RecvRrcConnectionReconfigurationCompleted(i)
  PROVE  AnswersDue' /\ CountInv'
<1>1. /\ RecvUp(i, "ReconfigurationCompleted") /\ SwitchToConnectedNormally(i)
      /\ numIab' = IF i \in IABs THEN [numIab EXCEPT ![i] = 1] ELSE numIab
      /\ UNCHANGED <<bearer, drb, app, buffer, s1apUp, s1apDown>>
  BY DEF RecvRrcConnectionReconfigurationCompleted, ueVars, coreVars
<1>2. AnswersDue'
  BY <1>1, ConnectedDue
<1>3. /\ up \in [Devices -> Seq(UpMsgs)] /\ up[i] # << >>
      /\ Head(up[i]).type = "ReconfigurationCompleted" /\ up' = [up EXCEPT ![i] = Tail(@)]
  BY <1>1 DEF RecvUp, IInv, Messages
<1>4. Head(up[i]) \in ReconfDone
  <2>1. PICK e \in UpMsgs : e = Head(up[i])
    BY <1>3, HeadTailProperties
  <2>2. e \notin RelayMsgs
    BY <1>3, <2>1, MessageTypes
  <2>3. PICK t \in {"SetupCompleted", "ReconfigurationCompleted"} : e = Rrc(t)
    BY <2>1, <2>2 DEF UpMsgs
  <2>4. Rrc(t).type = t
    BY DEF Rrc
  <2>5. t = "ReconfigurationCompleted"
    BY <1>3, <2>1, <2>3, <2>4
  <2> QED BY <2>1, <2>3, <2>5 DEF ReconfDone
<1>5. \A c \in IABs : LinkMoves(c)
  BY <1>3 DEF LinkMoves, Devices
<1>6. \A c \in IABs : /\ Children(c)' = Children(c) /\ LedgerKept(c) /\ up[c] \in Seq(UpMsgs)
                      /\ FirstOwn(c) /\ CountOk(c)
  BY <1>1, <1>3 DEF LedgerKept, Children, Via, Devices, CountInv
<1>7. \A c \in IABs : FirstOwn(c)'
  BY <1>1, <1>5, <1>6, FirstOwnKept
<1>8. ASSUME NEW c \in IABs PROVE CountOk(c)'
  <2>1. CASE c # i
    <3>1. up'[c] = up[c] /\ numIab'[c] = numIab[c]
      BY <1>1, <1>3, <2>1 DEF IInv, Shapes
    <3> QED BY <1>1, <1>6, <3>1, CountOkKept
  <2>2. CASE c = i
    <3>1. 1 \in 1 .. Len(up[c]) /\ up[c][1] \in ReconfDone
      BY <1>3, <1>4, <2>2, HeadTailProperties, LenProperties, EmptySeq
    <3>2. Children(c) \subseteq {c}
      BY <1>6, <3>1 DEF FirstOwn
    <3>3. Children(c) = {} \/ Children(c) = {c}
      BY <3>2
    <3>4. numIab'[c] = 1 /\ Cardinality({c}) = 1
      BY <1>1, <2>2, FS_Singleton DEF IInv, Shapes
    <3>5. numIab'[c] = IF Children(c)' = {} THEN 1 ELSE Cardinality(Children(c)')
      BY <1>6, <3>3, <3>4
    <3> QED BY <3>5 DEF CountOk
  <2> QED BY <2>1, <2>2
<1>9. Listed'
  <2>1. \A c \in IABs : up'[c] \in Seq(Sending(c))
    BY <1>5, LinksListed DEF CountInv
  <2> QED BY <1>1, <1>6, <2>1 DEF CountInv, Listed, LedgerKept, Sending, Listing, Between, Path
<1> QED BY <1>2, <1>7, <1>8, <1>9 DEF CountInv

\* What the NAS of a relay has kept comes from its own cell, as no other relay
\* behind it has a bearer.
LEMMA ReconfigurationCounts ==
  ASSUME IInv, RrcInv, DInv, AnswersDue, CountInv, NEW i \in Devices,
         RecvRrcConnectionReconfiguration(i)
  PROVE  AnswersDue' /\ CountInv'
<1>1. /\ up \in [Devices -> Seq(UpMsgs)] /\ down \in [Devices -> Seq(DownMsgs)]
      /\ buffer \in [IABs -> Seq(RelayMsgs)]
  BY DEF IInv, Messages
<1>2. /\ down[i] # << >> /\ Head(down[i]).type = "Reconfiguration"
      /\ down' = [down EXCEPT ![i] = Tail(@)]
      /\ drb' = drb \cup {i}
      /\ up' = [up EXCEPT ![i] = (@ \o Kept(i)) \o <<Rrc("ReconfigurationCompleted")>>]
      /\ UNCHANGED <<bearer, numIab, app, buffer, s1apUp, s1apDown>>
  BY DEF RecvRrcConnectionReconfiguration, RecvDown, enbVars, coreVars
<1>3. i \notin drb
  BY ReconfigurationRrc
<1>4. PICK new : new = (up[i] \o Kept(i)) \o <<Rrc("ReconfigurationCompleted")>>
  OBVIOUS
<1>5. up'[i] = new /\ \A x \in Devices : x # i => up'[x] = up[x] /\ down'[x] = down[x]
  BY <1>1, <1>2, <1>4
<1>6. AnswersDue'
  <2>1. Kept(i) \in Seq(UpMsgs)
    BY <1>1, MessageTypes, SeqMonotonic, EmptySeq DEF Kept
  <2>2. up[i] \o Kept(i) \in Seq(UpMsgs) /\ <<Rrc("ReconfigurationCompleted")>> \in Seq(UpMsgs)
    <3>1. Rrc("ReconfigurationCompleted") \in UpMsgs
      BY DEF UpMsgs
    <3> QED BY <1>1, <2>1, <3>1, ConcatProperties
  <2>3. \A j \in Devices : Has(up[i], RequestOf(j)) => Has(new, RequestOf(j))
    BY <1>1, <1>4, <2>1, <2>2, HasConcat
  <2>4. \A j \in Devices : Has(down[i], AnswerTo(j)) => Has(Tail(down[i]), AnswerTo(j))
    <3>1. Head(down[i]) \in DownMsgs
      BY <1>1, <1>2, HeadTailProperties
    <3>2. \A j \in Devices : Head(down[i]) \notin AnswerTo(j)
      BY <1>2, <3>1, OtherMessages
    <3> QED BY <1>1, <1>2, <3>2, HasTail
  <2> QED BY <1>1, <1>2, <1>5, <2>3, <2>4, RrcDue
<1>7. \A c \in IABs : /\ Children(c)' = Children(c) /\ LedgerKept(c) /\ up[c] \in Seq(UpMsgs)
                      /\ FirstOwn(c) /\ CountOk(c)
  BY <1>1, <1>2 DEF LedgerKept, Children, Via, Devices, CountInv
<1>8. ASSUME NEW c \in IABs, c # i PROVE FirstOwn(c)' /\ CountOk(c)' /\ up'[c] \in Seq(Sending(c))
  <2>1. LinkMoves(c) /\ up'[c] = up[c] /\ c \in Devices /\ (c \in drb' <=> c \in drb)
    BY <1>2, <1>5, <1>8 DEF LinkMoves, Devices
  <2>2. FirstOwn(c)'
    BY <1>2, <1>7, <2>1, FirstOwnKept
  <2>3. CountOk(c)'
    BY <1>2, <1>7, <2>1, CountOkKept
  <2> QED BY <2>1, <2>2, <2>3 DEF CountInv, Listed
<1>9. ASSUME i \in IABs PROVE FirstOwn(i)' /\ CountOk(i)' /\ up'[i] \in Seq(Sending(i))
  <2>1. PICK Own : Own = {m \in Sending(i) : m.type = "InitialUeMessage" => m.parents \subseteq {i}}
    OBVIOUS
  <2>2. up[i] \in Seq(Own)
    <3>1. ASSUME NEW m \in Uplink(i), m \in Sending(i) PROVE m \in Own
      BY <1>3, <2>1, <3>1 DEF Uplink
    <3>2. \A k \in 1 .. Len(up[i]) : up[i][k] \in Uplink(i) /\ up[i][k] \in Sending(i)
      BY <1>9, ElementOfSeq DEF IInv, Messages, CountInv, Listed
    <3>3. \A k \in 1 .. Len(up[i]) : up[i][k] \in Own
      BY <3>1, <3>2
    <3> QED BY <1>1, <3>3, AllIn
  <2>3. Kept(i) \in Seq(Own)
    <3>1. ASSUME NEW m \in Buffered(i), m \in Listing(i), m \in Held(i) PROVE m \in Own
      <4>1. PICK j \in Devices : j = m.imsi
        BY <3>1 DEF Listing, RelayMsgs
      <4>2. PICK p \in Nodes : p = Parent[j]
        BY ParentAssumption
      <4>3. p = i
        <5> SUFFICES ASSUME p # i PROVE FALSE
          OBVIOUS
        <5>1. p \in Donors \cup drb
          BY <3>1, <4>1, <4>2 DEF Buffered, RelayReady
        <5>2. i \in CellsUp(Parent, p)
          BY <3>1, <4>1, <4>2 DEF Held, Path
        <5> QED BY <1>3, <1>9, <5>1, <5>2, BearersUp, NodesAssumption
      <4>4. m.parents = {i}
        BY <1>9, <3>1, <4>1, <4>2, <4>3, BetweenFirst DEF Listing
      <4> QED BY <2>1, <3>1, <4>4, SendingTypes
    <3>2. /\ buffer[i] \in Seq(Buffered(i)) /\ buffer[i] \in Seq(Listing(i))
          /\ buffer[i] \in Seq(Held(i))
      BY <1>9 DEF IInv, Messages, CountInv, Listed, DInv, OnTheWay
    <3>3. \A k \in 1 .. Len(buffer[i]) : buffer[i][k] \in Own
      BY <3>1, <3>2, ElementOfSeq
    <3> QED BY <1>1, <1>9, <3>3, AllIn DEF Kept
  <2>4. <<Rrc("ReconfigurationCompleted")>> \in Seq(Own)
    <3>1. Rrc("ReconfigurationCompleted") \in Own
      BY <2>1, OtherMessages DEF Rrc
    <3> QED BY <3>1
  <2>5. new \in Seq(Own)
    BY <1>4, <2>2, <2>3, <2>4, ConcatProperties
  <2>6. \A k \in 1 .. Len(new) : new[k] \in Own
    BY <2>5, ElementOfSeq
  <2>7. Children(i) = {}
    <3>1. Via(i) = {} /\ Children(i) = UNION {Between(j, i) : j \in Via(i)}
      BY <1>3, <1>9 DEF CountInv, Listed
    <3> QED BY <3>1
  <2>8. FirstOwn(i)'
    <3>1. \A k \in 1 .. Len(new) : \A j \in 1 .. (k - 1) :
            new[j].type = "InitialUeMessage" => new[j].parents \subseteq {i}
      <4> SUFFICES ASSUME NEW k \in 1 .. Len(new), NEW j \in 1 .. (k - 1)
                   PROVE  new[j].type = "InitialUeMessage" => new[j].parents \subseteq {i}
        OBVIOUS
      <4>1. j \in 1 .. Len(new)
        BY <2>5, LenProperties
      <4> QED BY <2>1, <2>6, <4>1
    <3>2. i \in drb' /\ Children(i)' \subseteq {i}
      BY <1>2, <1>7, <1>9, <2>7
    <3> QED BY <1>5, <3>1, <3>2 DEF FirstOwn
  <2>9. CountOk(i)'
    <3>1. up[i] \o Kept(i) \in Seq(Own)
      BY <2>2, <2>3, ConcatProperties
    <3>2. /\ Len(new) \in 1 .. Len(new)
          /\ new[Len(new)] = Rrc("ReconfigurationCompleted")
      BY <1>4, <2>4, <3>1, ConcatProperties, LenProperties
    <3>3. Has(up[i], ReconfDone)'
      BY <1>5, <3>2 DEF Has, ReconfDone
    <3> QED BY <3>3 DEF CountOk
  <2>10. Own \subseteq Sending(i)
    BY <2>1
  <2> QED BY <1>5, <2>5, <2>8, <2>9, <2>10, SeqMonotonic
<1>10. Listed'
  <2>1. \A c \in IABs : up'[c] \in Seq(Sending(c)) /\ buffer'[c] \in Seq(Listing(c))
    BY <1>2, <1>8, <1>9 DEF CountInv, Listed
  <2>2. \A c \in IABs : /\ Children(c)' = UNION {Between(j, c) : j \in Via(c)'}
                        /\ Via(c)' # {} => c \in drb'
    BY <1>2, <1>7 DEF CountInv, Listed, LedgerKept
  <2> QED BY <1>2, <2>1, <2>2 DEF CountInv, Listed, Sending, Listing, Between, Path
<1> QED BY <1>6, <1>8, <1>9, <1>10 DEF CountInv

\* A request that comes on adds the relays it lists, all at once.
LEMMA RelayedRequestCounts ==
  ASSUME IInv, AInv, fault' = "none", DInv, RrcInv, AnswersDue, CountInv, NEW c \in IABs,
         RecvFromLteSocket(c)
  PROVE  AnswersDue' /\ CountInv'
<1>1. PICK n \in Nodes : n = Parent[c]
  BY ParentAssumption DEF Devices
<1>2. PICK m : m = Head(up[c])
  OBVIOUS
<1>3. PICK links : links = [up EXCEPT ![c] = Tail(@)]
  OBVIOUS
<1>4. PICK a : a = AddParent(n, m)
  OBVIOUS
<1>5. PICK b : b = RelayInitialUeMessage(app[n], c, m)
  OBVIOUS
<1>6. /\ up[c] # << >> /\ m \in RelayMsgs /\ c \in drb
      /\ app' = [app EXCEPT ![n] = b]
      /\ \/ n \in Donors /\ up' = links /\ s1apUp' = Append(s1apUp, a)
         \/ n \in IABs /\ up' = [links EXCEPT ![n] = Append(@, a)] /\ UNCHANGED s1apUp
      /\ UNCHANGED <<bearer, numIab, drb, buffer, down, s1apDown>>
  <2>1. PassesOn(c, n, m, links)
    BY <1>1, <1>2, <1>3, RequestPassedOn
  <2> QED BY <1>4, <1>5, <2>1 DEF PassesOn
<1>7. /\ c \in Devices /\ app \in [Nodes -> AppStates] /\ up \in [Devices -> Seq(UpMsgs)]
      /\ s1apUp \in Seq(RelayMsgs) /\ c \notin Donors
  <2>1. Requests \subseteq RelayMsgs
    BY DEF Requests
  <2> QED BY <2>1, SeqMonotonic, NodesAssumption DEF Devices, IInv, Shapes, Messages
<1>8. PICK j \in Devices : j = m.imsi
  BY <1>6 DEF RelayMsgs
<1>9. m \in Listing(c) /\ m \in Sending(c) /\ c \in Path(j)
  <2>1. m \in Sending(c) /\ m \in Rising(c)
    BY <1>2, <1>6, <1>7, HeadTailProperties DEF CountInv, Listed, DInv, OnTheWay
  <2> QED BY <1>6, <1>8, <2>1, MessageTypes DEF Sending, Rising
<1>10. /\ c \in Between(j, c) /\ m.parents = Between(j, c) /\ Between(j, c) \subseteq Devices
       /\ n \in IABs => Between(j, n) = Between(j, c) \cup {n}
  <2>1. m.parents = Between(j, c) /\ Between(j, c) \subseteq Devices
    BY <1>8, <1>9 DEF Listing, Between, Devices
  <2> QED BY <1>1, <1>9, <2>1, BetweenNext
<1>11. n # c
  BY <1>1, NoCycle, WayUp
<1>12. a \in RelayMsgs /\ a.imsi = j /\ a \in RequestOf(j) /\ (n \in IABs => a \in Listing(n))
  <2>1. CASE n \in IABs
    <3>1. a = [m EXCEPT !.parents = @ \cup {n}]
      BY <1>4, <2>1 DEF AddParent
    <3>2. a \in RelayMsgs /\ a.imsi = j /\ a.parents = m.parents \cup {n}
      BY <1>6, <1>8, <2>1, <3>1 DEF RelayMsgs
    <3> QED BY <1>10, <2>1, <3>2, MessageTypes DEF Listing, RequestOf
  <2>2. CASE n \notin IABs
    <3>1. a = m
      BY <1>4, <2>2 DEF AddParent
    <3> QED BY <1>6, <1>8, <2>2, <3>1, MessageTypes DEF RequestOf
  <2> QED BY <2>1, <2>2
<1>13. /\ up'[c] = Tail(up[c])
       /\ n \in IABs => n \in Devices /\ up'[n] = Append(up[n], a)
       /\ \A x \in Devices : x # c /\ x # n => up'[x] = up[x]
       /\ \A x \in Devices : n \notin IABs /\ x # c => up'[x] = up[x]
       /\ Tail(up[c]) \in Seq(UpMsgs)
  <2>1. Tail(up[c]) \in Seq(UpMsgs)
    BY <1>6, <1>7, HeadTailProperties
  <2>2. n \in IABs => n \in Devices
    BY DEF Devices
  <2>3. links \in [Devices -> Seq(UpMsgs)] /\ links[c] = Tail(up[c])
        /\ \A x \in Devices : x # c => links[x] = up[x]
    BY <1>3, <1>7, <2>1
  <2>4. CASE n \in Donors
    BY <1>6, <2>1, <2>3, <2>4, NodesAssumption
  <2>5. CASE n \in IABs
    <3>1. up' = [links EXCEPT ![n] = Append(@, a)]
      BY <1>6, <2>5, NodesAssumption
    <3> QED BY <1>11, <2>1, <2>2, <2>3, <2>5, <3>1
  <2> QED BY <2>4, <2>5 DEF Nodes
<1>14. /\ b.children = app[n].children \cup ({c} \X m.parents)
       /\ b.requested = app[n].requested \cup {j} /\ b.remote = app[n].remote
       /\ b.localRbid = [app[n].localRbid EXCEPT ![j] = c]
       /\ b.imsiRnti = [app[n].imsiRnti EXCEPT ![j] = c]
       /\ app[n].localRbid \in [Devices -> Devices \cup {None}]
       /\ app[n].imsiRnti \in [Devices -> Devices \cup {None}]
       /\ app[n].requested \subseteq Devices
       /\ app'[n] = b /\ \A x \in Nodes : x # n => app'[x] = app[x]
  BY <1>5, <1>6, <1>7, <1>8 DEF RelayInitialUeMessage, AppStates
<1>15. AnswersDue'
  <2>0. /\ n \in IABs => \A S : Has(up[n], S) => Has(Append(up[n], a), S)
        /\ \A S : Has(s1apUp, S) => Has(Append(s1apUp, a), S)
    <3>1. a \in UpMsgs
      BY <1>12, MessageTypes
    <3> QED BY <1>7, <1>12, <1>13, <3>1, HasAppend
  <2>1. ASSUME NEW x \in Nodes, NEW i \in Devices, Above(i, x) PROVE Above(i, x)'
    <3>1. RequestOf(i)' = RequestOf(i) /\ AnswerTo(i)' = AnswerTo(i) /\ ReplyTo(i)' = ReplyTo(i)
      BY DEF RequestOf, AnswerTo, ReplyTo
    <3>2. ASSUME NEW y \in CellsUp(Parent, x) \cap IABs, Has(up[y], RequestOf(i))
          PROVE  \/ \E z \in CellsUp(Parent, x) \cap IABs : Has(up'[z], RequestOf(i))
                 \/ Has(s1apUp', RequestOf(i))
      <4>1. CASE y # c
        <5>1. y \in Devices
          BY DEF Devices
        <5>2. Has(up'[y], RequestOf(i))
          BY <1>13, <2>0, <3>2, <4>1, <5>1
        <5> QED BY <5>2
      <4>2. CASE y = c /\ Has(Tail(up[c]), RequestOf(i))
        BY <1>13, <4>2
      <4>3. CASE y = c /\ ~Has(Tail(up[c]), RequestOf(i))
        <5>1. m \in RequestOf(i)
          BY <1>2, <1>6, <1>7, <3>2, <4>3, HasTail
        <5>2. i = j
          BY <1>8, <5>1 DEF RequestOf
        <5>3. n \in CellsUp(Parent, x)
          BY <1>1, <4>3, WayUp
        <5>4. CASE n \in IABs
          <6>1. Has(Append(up[n], a), RequestOf(i))
            BY <1>7, <1>12, <1>13, <5>2, <5>4, HasAppend, MessageTypes
          <6> QED BY <1>13, <5>3, <5>4, <6>1
        <5>5. CASE n \in Donors
          <6>1. Has(Append(s1apUp, a), RequestOf(i))
            BY <1>7, <1>12, <5>2, HasAppend
          <6> QED BY <1>6, <5>5, <6>1, NodesAssumption
        <5> QED BY <5>4, <5>5 DEF Nodes
      <4> QED BY <4>1, <4>2, <4>3
    <3>3. Has(s1apUp, RequestOf(i)) => Has(s1apUp', RequestOf(i))
      BY <1>6, <2>0
    <3>4. \/ \E z \in CellsUp(Parent, x) \cap IABs :
               Has(up'[z], RequestOf(i)) \/ Has(down'[z], AnswerTo(i))
          \/ Has(s1apUp', RequestOf(i)) \/ Has(s1apDown', ReplyTo(i))
      BY <1>6, <2>1, <3>2, <3>3 DEF Above
    <3> QED BY <3>1, <3>4 DEF Above, Has
  <2>2. Above(j, n)'
    <3>1. RequestOf(j)' = RequestOf(j)
      BY DEF RequestOf
    <3>2. CASE n \in IABs
      <4>1. Has(Append(up[n], a), RequestOf(j))
        BY <1>7, <1>12, <1>13, <3>2, HasAppend, MessageTypes
      <4>2. n \in CellsUp(Parent, n) \cap IABs
        BY <3>2, WayUp
      <4> QED BY <1>13, <3>1, <3>2, <4>1, <4>2 DEF Above, Has
    <3>3. CASE n \in Donors
      <4>1. Has(Append(s1apUp, a), RequestOf(j))
        BY <1>7, <1>12, HasAppend
      <4> QED BY <1>6, <3>1, <3>3, <4>1, NodesAssumption DEF Above, Has
    <3> QED BY <3>2, <3>3 DEF Nodes
  <2>3. \A x \in Nodes : \A i \in Devices :
          /\ i \in app'[x].requested \ app'[x].remote => Above(i, x)'
          /\ i \in app'[x].remote => i \in bearer' \/ \E y \in IABs : Has(down'[y], AnswerTo(i))
    BY <1>6, <1>14, <2>1, <2>2 DEF AnswersDue
  <2>4. \A i \in Devices : AnswerTo(i)' = AnswerTo(i)
    BY DEF AnswerTo
  <2> QED BY <2>3, <2>4 DEF AnswersDue, Has
<1>16. \A x \in IABs : x # c => LedgerKept(x) /\ Children(x)' = Children(x) /\ Via(x)' = Via(x)
  <2> SUFFICES ASSUME NEW x \in IABs, x # c
               PROVE  /\ Children(x)' = Children(x) /\ Via(x)' = Via(x)
                      /\ app'[Parent[x]].remote = app[Parent[x]].remote
    BY DEF LedgerKept
  <2>1. PICK p \in Nodes : p = Parent[x]
    BY ParentAssumption DEF Devices
  <2>2. CASE p # n
    BY <1>14, <2>1, <2>2 DEF Children, Via
  <2>3. CASE p = n
    <3>1. Children(x)' = Children(x)
      BY <1>14, <2>1, <2>3 DEF Children
    <3>2. j \in app[n].requested => app[n].localRbid[j] # x
      <4> SUFFICES ASSUME app[n].localRbid[j] = x PROVE FALSE
        OBVIOUS
      <4>1. x \in Path(j)
        BY NodesAssumption DEF DInv, AppsRouted, Routes, Nodes
      <4>2. PICK q \in Nodes : q = Parent[j]
        BY ParentAssumption
      <4>3. x \in CellsUp(Parent, q) \cap IABs /\ c \in CellsUp(Parent, q) \cap IABs
        BY <1>9, <4>1, <4>2 DEF Path
      <4>4. Parent[x] = Parent[c]
        BY <1>1, <2>1, <2>3
      <4> QED BY <4>3, <4>4, OneWayUp
    <3>3. Via(x)' = {i \in app'[n].requested : app'[n].localRbid[i] = x}
          /\ Via(x) = {i \in app[n].requested : app[n].localRbid[i] = x}
      BY <2>1, <2>3 DEF Via
    <3>4. Via(x)' = Via(x)
      BY <1>14, <3>2, <3>3
    <3> QED BY <1>14, <2>1, <2>3, <3>1, <3>4
  <2> QED BY <2>2, <2>3
<1>17. /\ Children(c)' = Children(c) \cup Between(j, c)
       /\ Via(c)' = Via(c) \cup {j}
       /\ app'[Parent[c]].remote = app[Parent[c]].remote
  <2>1. Children(c)' = Children(c) \cup Between(j, c)
    BY <1>1, <1>10, <1>14 DEF Children
  <2>2. /\ Via(c)' = {i \in app'[n].requested : app'[n].localRbid[i] = c}
        /\ Via(c) = {i \in app[n].requested : app[n].localRbid[i] = c}
    BY <1>1 DEF Via
  <2>3. Via(c)' = Via(c) \cup {j}
    BY <1>14, <2>2
  <2> QED BY <1>1, <1>14, <2>1, <2>3
<1>18. \A x \in IABs : LinkMovesOn(x) /\ LinkMoves(x)
  <2>1. m \notin ReconfDone
    BY <1>9, OtherMessages
  <2>2. n \in IABs => a \in Sending(n) /\ a \notin ReconfDone
    BY <1>12, SendingTypes, OtherMessages
  <2>3. \A x \in IABs : LinkMovesOn(x)
    BY <1>2, <1>6, <1>13, <2>1, <2>2 DEF LinkMovesOn, Devices
  <2> QED BY <2>3 DEF LinkMovesOn, LinkMoves
<1>19. Listed'
  <2>1. \A x \in IABs : up'[x] \in Seq(Sending(x)) /\ buffer'[x] \in Seq(Listing(x))
    BY <1>6, <1>18, LinksListed DEF CountInv, Listed
  <2>2. \A x \in IABs : Children(x)' = UNION {Between(i, x) : i \in Via(x)'}
    BY <1>16, <1>17 DEF CountInv, Listed
  <2>3. \A x \in IABs : Via(x)' # {} => x \in drb'
    BY <1>6, <1>16 DEF CountInv, Listed
  <2>4. \A x \in Nodes : \A i \in app'[x].requested : app'[x].imsiRnti[i] = app'[x].localRbid[i]
    BY <1>14 DEF CountInv, Listed
  <2> QED BY <2>1, <2>2, <2>3, <2>4 DEF Listed, Sending, Listing, Between, Path
<1>20. ASSUME NEW x \in IABs PROVE FirstOwn(x)' /\ CountOk(x)'
  <2>1. up[x] \in Seq(UpMsgs) /\ FirstOwn(x) /\ CountOk(x) /\ LinkMoves(x) /\ LinkMovesOn(x)
    BY <1>7, <1>18 DEF CountInv, Devices
  <2>2. (x \in drb' <=> x \in drb) /\ numIab'[x] = numIab[x]
    BY <1>6
  <2>3. Has(up'[x], ReconfDone) <=> Has(up[x], ReconfDone)
    BY <2>1, DoneKept
  <2>4. CASE x # c
    <3>1. FirstOwn(x)'
      BY <1>16, <2>1, <2>2, <2>4, FirstOwnKept
    <3>2. CountOk(x)'
      BY <1>16, <2>1, <2>2, <2>3, <2>4, CountOkKept
    <3> QED BY <3>1, <3>2
  <2>5. CASE x = c
    <3>1. FirstOwn(c)'
      <4>1. Head(up[c]).type = "InitialUeMessage" /\ Head(up[c]).parents = Between(j, c)
        BY <1>2, <1>6, <1>10, MessageTypes
      <4> QED BY <1>6, <1>13, <1>17, <2>1, <2>2, <2>5, <4>1, FirstOwnKept
    <3>2. CASE j \in app[n].remote
      <4>1. j \in Via(c)
        <5>1. /\ j \in app[n].requested
              /\ app[n].localRbid[j] # None => app[n].localRbid[j] \in Path(j)
                                                 /\ Parent[app[n].localRbid[j]] = n
          BY <3>2 DEF DInv, AppsRouted, Routes
        <5>2. PICK d : d = app[n].localRbid[j]
          OBVIOUS
        <5>3. d \in IABs
          BY <5>1, <5>2 DEF AInv, AppsReady, Ready, IInv, AppsConsistent, AppOk
        <5>4. d \in Path(j) /\ Parent[d] = n
          BY <5>1, <5>2, <5>3, NodesAssumption DEF Nodes
        <5>5. d = c
          BY <1>1, <1>9, <5>3, <5>4, OneWayUp, ParentAssumption DEF Path
        <5> QED BY <1>1, <5>1, <5>2, <5>5 DEF Via
      <4>2. Between(j, c) \subseteq Children(c)
        BY <4>1 DEF CountInv, Listed
      <4>3. LedgerKept(c)
        BY <1>17, <4>1, <4>2 DEF LedgerKept
      <4> QED BY <2>1, <2>2, <2>3, <2>5, <3>1, <4>3, CountOkKept
    <3>3. CASE j \notin app[n].remote
      <4>1. j \in Via(c)' /\ j \notin app'[Parent[c]].remote
        BY <1>1, <1>17, <3>3
      <4> QED BY <2>5, <3>1, <4>1 DEF CountOk
    <3> QED BY <3>2, <3>3
  <2> QED BY <2>4, <2>5
<1> QED BY <1>15, <1>19, <1>20 DEF CountInv

LEMMA MmeCounts ==
  ASSUME IInv, fault' = "none", RrcInv, AnswersDue, CountInv, MmeInitialUeMessage
  PROVE  RrcInv' /\ AnswersDue' /\ CountInv'
<1>1. PICK i : i = Head(s1apUp).imsi
  OBVIOUS
<1>2. PICK r : /\ s1apDown' = Append(s1apDown, r) /\ r.imsi = i
               /\ \E w : /\ r = [imsi |-> i, enb |-> w] /\ w # None
                         /\ w = WiredCell([cellId EXCEPT ![i] = Parent[i]], Parent[i])
  <2>1. PICK w : w = WiredCell([cellId EXCEPT ![i] = Parent[i]], Parent[i])
    OBVIOUS
  <2>2. w # None /\ s1apDown' = Append(s1apDown, [imsi |-> i, enb |-> w])
    BY <1>1, <2>1 DEF MmeInitialUeMessage, Stop
  <2> QED BY <2>1, <2>2
<1>3. /\ s1apUp # << >> /\ s1apUp' = Tail(s1apUp)
      /\ UNCHANGED <<ueMgr, pending, bearer, numIab, nas, drb, buffer, up, down, app>>
  BY <1>1 DEF MmeInitialUeMessage, Stop, enbVars, ueVars
<1>4. s1apUp \in Seq(RelayMsgs) /\ s1apDown \in Seq([imsi : Devices, enb : Donors])
  <2>1. Requests \subseteq RelayMsgs /\ Answers \subseteq [imsi : Devices, enb : Donors]
    BY DEF Requests, Answers
  <2> QED BY <2>1, SeqMonotonic DEF IInv, Messages
<1>5. i \in Devices /\ Head(s1apUp) \in RelayMsgs
  <2>1. Head(s1apUp) \in RelayMsgs
    BY <1>3, <1>4, HeadTailProperties
  <2> QED BY <1>1, <2>1 DEF RelayMsgs
<1>6. r \in [imsi : Devices, enb : Donors]
  <2>1. PICK w : /\ r = [imsi |-> i, enb |-> w] /\ w # None
                 /\ w = WiredCell([cellId EXCEPT ![i] = Parent[i]], Parent[i])
    BY <1>2
  <2>2. PICK cells : cells = [cellId EXCEPT ![i] = Parent[i]]
    OBVIOUS
  <2>3. PICK p \in Nodes : p = Parent[i]
    BY <1>5, ParentAssumption
  <2>4. /\ cells \in [Devices -> Nodes \cup {None}]
        /\ \A j \in Devices : cells[j] \in {None, Parent[j]}
    BY <1>5, <2>2, ParentAssumption DEF IInv, CellsKnown
  <2>5. w \in Donors
    BY <2>1, <2>2, <2>3, <2>4, WiredOnTheWay
  <2> QED BY <1>5, <2>1, <2>5
<1>7. RrcInv'
  <2>1. \A j \in Devices : /\ Once(down'[j], Rrc("Reconfiguration"))
                           /\ nas[j] = "OFF" => up'[j] = << >>
    BY <1>3 DEF RrcInv, RrcOk
  <2> QED BY <1>3, <2>1, LinksKept
<1>8. AnswersDue'
  <2>1. \A j \in Devices : RequestOf(j)' = RequestOf(j) /\ AnswerTo(j)' = AnswerTo(j)
                             /\ ReplyTo(j)' = ReplyTo(j)
    BY DEF RequestOf, AnswerTo, ReplyTo
  <2>2. \A S : /\ Has(s1apUp, S) => Head(s1apUp) \in S \/ Has(Tail(s1apUp), S)
               /\ Has(Append(s1apDown, r), S) <=> Has(s1apDown, S) \/ r \in S
    BY <1>3, <1>4, <1>6, HasTail, HasAppend
  <2>3. ASSUME NEW j \in Devices, Has(s1apUp, RequestOf(j))
        PROVE  Has(s1apUp', RequestOf(j)) \/ Has(s1apDown', ReplyTo(j))
    <3>1. CASE Head(s1apUp) \in RequestOf(j)
      <4>1. j = i
        BY <1>1, <3>1 DEF RequestOf
      <4>2. r \in ReplyTo(j)
        BY <1>2, <1>6, <4>1 DEF ReplyTo
      <4> QED BY <1>2, <2>2, <4>2
    <3>2. CASE Has(Tail(s1apUp), RequestOf(j))
      BY <1>3, <3>2
    <3> QED BY <2>2, <2>3, <3>1, <3>2
  <2>4. \A j \in Devices : Has(s1apDown, ReplyTo(j)) => Has(s1apDown', ReplyTo(j))
    BY <1>2, <2>2
  <2>5. ASSUME NEW x \in Nodes, NEW j \in Devices, Above(j, x) PROVE Above(j, x)'
    <3>1. \/ \E z \in CellsUp(Parent, x) \cap IABs :
               Has(up'[z], RequestOf(j)) \/ Has(down'[z], AnswerTo(j))
          \/ Has(s1apUp', RequestOf(j)) \/ Has(s1apDown', ReplyTo(j))
      BY <1>3, <2>3, <2>4, <2>5 DEF Above
    <3> QED BY <2>1, <3>1 DEF Above, Has
  <2>6. \A x \in Nodes : \A j \in Devices :
          /\ j \in app'[x].requested \ app'[x].remote => Above(j, x)'
          /\ j \in app'[x].remote => j \in bearer' \/ \E y \in IABs : Has(down'[y], AnswerTo(j))
    BY <1>3, <2>5 DEF AnswersDue
  <2> QED BY <2>1, <2>6 DEF AnswersDue, Has
<1>9. CountInv'
  <2>1. \A c \in IABs : LinkMovesOn(c) /\ buffer'[c] \in Seq(Listing(c))
    BY <1>3 DEF LinkMovesOn, CountInv, Listed
  <2> QED BY <1>3, <2>1, CountKept
<1> QED BY <1>7, <1>8, <1>9

LEMMA StutterCounts ==
  ASSUME IInv, RrcInv, AnswersDue, CountInv, UNCHANGED vars
  PROVE  RrcInv' /\ AnswersDue' /\ CountInv'
<1>1. /\ UNCHANGED <<ueMgr, pending, bearer, numIab, nas, drb, buffer, up, down>>
      /\ UNCHANGED <<app, s1apUp, s1apDown>>
  BY DEF vars, enbVars, ueVars, coreVars
<1>2. RrcInv'
  <2>1. \A j \in Devices : /\ Once(down'[j], Rrc("Reconfiguration"))
                           /\ nas[j] = "OFF" => up'[j] = << >>
    BY <1>1 DEF RrcInv, RrcOk
  <2> QED BY <1>1, <2>1, LinksKept
<1>3. AnswersDue'
  BY <1>1, DueKept
<1>4. CountInv'
  <2>1. \A c \in IABs : LinkMovesOn(c) /\ buffer'[c] \in Seq(Listing(c))
    BY <1>1 DEF LinkMovesOn, CountInv, Listed
  <2> QED BY <1>1, <2>1, CountKept
<1> QED BY <1>2, <1>3, <1>4

\* The relay that the answer goes to is behind all that still wait for it.
LEMMA AnswerGoesBehind ==
  ASSUME NEW i \in Devices, NEW c \in IABs, c \in Path(i), NEW n \in Nodes, n = Parent[c],
         NEW x \in Nodes, x \in Path(i), x # n, n \in Donors \/ n \in CellsUp(Parent, x)
  PROVE  c \in CellsUp(Parent, x)
<1>1. PICK p \in Nodes : p = Parent[i]
  BY ParentAssumption
<1>2. x \in CellsUp(Parent, p) /\ c \in CellsUp(Parent, p) /\ c \in Nodes
  BY <1>1 DEF Path, Nodes
<1>3. c \in CellsUp(Parent, x) \/ x \in CellsUp(Parent, c)
  BY <1>2, InLine
<1>4. ASSUME x \in CellsUp(Parent, c) PROVE x = c
  <2>1. x = c \/ x \in CellsUp(Parent, n)
    BY <1>2, <1>4, WayUpFrom
  <2>2. x \notin CellsUp(Parent, n)
    <3>1. CASE n \in Donors
      BY <3>1, WayUpFrom
    <3>2. CASE n \in CellsUp(Parent, x)
      BY <3>2, OneOrder
    <3> QED BY <3>1, <3>2
  <2> QED BY <2>1, <2>2
<1> QED BY <1>3, <1>4, WayUp

\* An answer corrects the count of the relay it goes to.
LEMMA AnswerCounts ==
  ASSUME IInv, AInv, DInv, AnswersDue, CountInv, NEW n \in Nodes, NEW i \in Devices, Noted(i, n),
         NEW links \in [Devices -> Seq(DownMsgs)],
         \A y \in IABs : \A k \in Devices :
           Has(down[y], AnswerTo(k)) => Has(links[y], AnswerTo(k)) \/ (y = n /\ k = i),
         \A k \in Devices :
           Has(s1apDown, ReplyTo(k)) => Has(s1apDown', ReplyTo(k)) \/ (k = i /\ n \in Donors),
         RecvInitialContextSetupRequest(n, i, links), UNCHANGED <<drb, buffer, up, s1apUp>>
  PROVE  AnswersDue' /\ CountInv'
<1>1. PICK a : a = app[n]
  OBVIOUS
<1>2. app \in [Nodes -> AppStates] /\ a \in AppStates
  BY <1>1 DEF IInv, Shapes
<1>3. PICK b : /\ app' = [app EXCEPT ![n] = b]
               /\ b \in {ForwardIabS1apReply(a, i), DoInitialContextSetupRequest(a, i)}
  BY <1>1, AnswerTaken
<1>5. app'[n] = b /\ \A x \in Nodes : x # n => app'[x] = app[x]
  BY <1>2, <1>3
<1>7. \A y \in Devices : \A S : Has(links[y], S) => Has(down'[y], S)
  <2>1. CASE i \in app[n].requested
    <3>1. PICK c \in IABs : down' = [links EXCEPT ![c] = Append(@, InitialContextSetupRequest(i))]
      BY <2>1, AnswerTaken
    <3>2. InitialContextSetupRequest(i) \in DownMsgs /\ c \in Devices
      BY DEF DownMsgs, Devices
    <3>3. \A S : Has(links[c], S) => Has(Append(links[c], InitialContextSetupRequest(i)), S)
      BY <3>2, HasAppend
    <3> QED BY <3>1, <3>2, <3>3
  <2>2. CASE i \notin app[n].requested
    <3>1. SetupDataRadioBearer(i, links)
      BY <2>2, AnswerTaken
    <3>2. Rrc("Reconfiguration") \in DownMsgs
      BY DEF DownMsgs
    <3>3. \A S : Has(links[i], S) => Has(Append(links[i], Rrc("Reconfiguration")), S)
      BY <3>2, HasAppend
    <3>4. down' = links \/ down' = [links EXCEPT ![i] = Append(@, Rrc("Reconfiguration"))]
      BY <3>1 DEF SetupDataRadioBearer
    <3> QED BY <3>3, <3>4
  <2> QED BY <2>1, <2>2
<1>8. ASSUME NEW x \in Nodes, NEW k \in Devices, Above(k, x),
             ~(k = i /\ (n \in Donors \/ n \in CellsUp(Parent, x)))
      PROVE  Above(k, x)'
  <2>1. RequestOf(k)' = RequestOf(k) /\ AnswerTo(k)' = AnswerTo(k) /\ ReplyTo(k)' = ReplyTo(k)
    BY DEF RequestOf, AnswerTo, ReplyTo
  <2>2. \A y \in CellsUp(Parent, x) \cap IABs :
          Has(down[y], AnswerTo(k)) => Has(down'[y], AnswerTo(k))
    BY <1>7, <1>8 DEF Devices
  <2>3. Has(s1apDown, ReplyTo(k)) => Has(s1apDown', ReplyTo(k))
    BY <1>8
  <2>4. \/ \E z \in CellsUp(Parent, x) \cap IABs :
             Has(up'[z], RequestOf(k)) \/ Has(down'[z], AnswerTo(k))
        \/ Has(s1apUp', RequestOf(k)) \/ Has(s1apDown', ReplyTo(k))
    BY <1>8, <2>2, <2>3 DEF Above
  <2> QED BY <2>1, <2>4 DEF Above, Has
<1>9. ASSUME NEW x \in Nodes, i \in app[x].requested PROVE x \in Path(i)
  <2>1. PICK d : d = app[x].localRbid[i]
    OBVIOUS
  <2>2. d \in IABs /\ d \in Path(i) /\ Parent[d] = x
    BY <1>9, <2>1 DEF AInv, AppsReady, Ready, IInv, AppsConsistent, AppOk, DInv, AppsRouted, Routes
  <2>3. PICK p \in Nodes : p = Parent[i]
    BY ParentAssumption
  <2> QED BY <2>2, <2>3, WayUp DEF Path
<1>10. CASE i \in app[n].requested
  <2>1. PICK c \in IABs :
          /\ c = app[n].localRbid[i] /\ c \in Path(i) /\ Parent[c] = n
          /\ app' = [app EXCEPT ![n] = ForwardIabS1apReply(@, i)]
          /\ numIab' = [numIab EXCEPT ![app[n].imsiRnti[i]] =
                          NumChildren(ForwardIabS1apReply(app[n], i), app[n].imsiRnti[i])]
          /\ down' = [links EXCEPT ![c] = Append(@, InitialContextSetupRequest(i))]
          /\ UNCHANGED bearer
    BY <1>10, AnswerTaken
  <2>2. a.imsiRnti[i] = c /\ c \in Devices /\ i \in Via(c)
    BY <1>1, <1>10, <2>1 DEF CountInv, Listed, Via, Devices
  <2>3. PICK f : f = ForwardIabS1apReply(a, i)
    OBVIOUS
  <2>4. /\ f.requested = a.requested /\ f.localRbid = a.localRbid /\ f.imsiRnti = a.imsiRnti
        /\ f.remote = a.remote \cup {i}
        /\ f.children = a.children \/ (i \notin IABs /\ f.children = a.children \ {<<c, i>>})
        /\ app'[n] = f
    BY <1>1, <1>2, <2>1, <2>2, <2>3 DEF ForwardIabS1apReply, AppStates
  <2>5. Has(down'[c], AnswerTo(i))
    <3>1. /\ InitialContextSetupRequest(i) \in DownMsgs
          /\ InitialContextSetupRequest(i) \in AnswerTo(i)
      BY DEF DownMsgs, AnswerTo, InitialContextSetupRequest
    <3>2. Has(Append(links[c], InitialContextSetupRequest(i)), AnswerTo(i))
      BY <2>2, <3>1, HasAppend
    <3> QED BY <2>1, <2>2, <3>2
  <2>6. AnswersDue'
    <3>1. ASSUME NEW x \in Nodes, NEW k \in Devices, k \in app'[x].requested \ app'[x].remote
          PROVE  Above(k, x)'
      <4>1. Above(k, x)
        BY <1>1, <1>5, <2>4, <3>1 DEF AnswersDue
      <4>2. CASE ~(k = i /\ (n \in Donors \/ n \in CellsUp(Parent, x)))
        BY <1>8, <4>1, <4>2
      <4>3. CASE k = i /\ (n \in Donors \/ n \in CellsUp(Parent, x))
        <5>1. x # n
          BY <2>4, <3>1, <4>3
        <5>2. x \in Path(i)
          BY <1>5, <1>9, <3>1, <4>3, <5>1
        <5>3. c \in CellsUp(Parent, x)
          BY <2>1, <4>3, <5>1, <5>2, AnswerGoesBehind
        <5>4. AnswerTo(i)' = AnswerTo(i)
          BY DEF AnswerTo
        <5> QED BY <2>5, <4>3, <5>3, <5>4 DEF Above, Has
      <4> QED BY <4>2, <4>3
    <3>2. ASSUME NEW x \in Nodes, NEW k \in Devices, k \in app'[x].remote
          PROVE  k \in bearer' \/ \E y \in IABs : Has(down'[y], AnswerTo(k))
      <4>1. CASE k = i
        BY <2>5, <4>1
      <4>2. CASE k # i
        <5>1. k \in app[x].remote
          BY <1>1, <1>5, <2>4, <3>2, <4>2
        <5>2. k \in bearer \/ \E y \in IABs : Has(down[y], AnswerTo(k))
          BY <5>1 DEF AnswersDue
        <5>3. \A y \in IABs : Has(down[y], AnswerTo(k)) => Has(down'[y], AnswerTo(k))
          BY <1>7, <4>2 DEF Devices
        <5> QED BY <2>1, <5>2, <5>3
      <4> QED BY <4>1, <4>2
    <3>3. \A k \in Devices : AnswerTo(k)' = AnswerTo(k)
      BY DEF AnswerTo
    <3> QED BY <3>1, <3>2, <3>3 DEF AnswersDue, Has
  <2>7. \A x \in IABs : Children(x) \subseteq IABs
    BY DEF CountInv, Listed, Between
  <2>8. ASSUME NEW x \in IABs PROVE Children(x)' = Children(x) /\ Via(x)' = Via(x)
    <3>1. PICK p \in Nodes : p = Parent[x]
      BY ParentAssumption DEF Devices
    <3>2. CASE p # n
      BY <1>5, <3>1, <3>2 DEF Children, Via
    <3>3. CASE p = n
      <4>1. Via(x)' = Via(x)
        BY <1>1, <2>4, <3>1, <3>3 DEF Via
      <4>2. /\ Children(x)' = {y \in Devices : <<x, y>> \in f.children}
            /\ Children(x) = {y \in Devices : <<x, y>> \in a.children}
        BY <1>1, <2>4, <3>1, <3>3 DEF Children
      <4>3. i \notin IABs => <<x, i>> \notin a.children
        BY <2>7, <4>2
      <4> QED BY <2>4, <4>1, <4>2, <4>3
    <3> QED BY <3>2, <3>3
  <2>9. /\ \A x \in IABs : LinkMoves(x) /\ LinkMovesOn(x) /\ up[x] \in Seq(UpMsgs)
                             /\ FirstOwn(x) /\ CountOk(x)
        /\ \A x \in IABs : Has(up'[x], ReconfDone) <=> Has(up[x], ReconfDone)
    BY DEF LinkMoves, LinkMovesOn, IInv, Messages, Devices, CountInv
  <2>10. \A x \in IABs : FirstOwn(x)'
    BY <2>8, <2>9, FirstOwnKept
  <2>11. ASSUME NEW x \in IABs PROVE CountOk(x)'
    <3>1. CASE x = c
      <4>1. c \in Children(c)
        <5>1. c \in Between(i, c)
          BY <2>1, BetweenNext
        <5> QED BY <2>2, <5>1 DEF CountInv, Listed
      <4>2. numIab'[c] = NumChildren(f, c)
        BY <1>1, <2>1, <2>2, <2>3 DEF IInv, Shapes
      <4>3. NumChildren(f, c) = Cardinality(Children(c)')
        BY <2>1, <2>4 DEF NumChildren, Children
      <4>4. numIab'[c] = IF Children(c)' = {} THEN 1 ELSE Cardinality(Children(c)')
        BY <2>8, <4>1, <4>2, <4>3
      <4> QED BY <3>1, <4>4 DEF CountOk
    <3>2. CASE x # c
      <4>1. PICK p \in Nodes : p = Parent[x]
        BY ParentAssumption DEF Devices
      <4>2. p = n => i \notin Via(x)
        BY <2>1, <3>2, <4>1 DEF Via
      <4>3. \A k \in Via(x) : k \in app'[Parent[x]].remote => k \in app[Parent[x]].remote
        BY <1>1, <1>5, <2>4, <4>1, <4>2
      <4>4. LedgerKept(x)
        BY <2>8, <4>3 DEF LedgerKept
      <4>5. numIab'[x] = numIab[x]
        BY <1>1, <2>1, <2>2, <3>2 DEF IInv, Shapes
      <4> QED BY <2>9, <4>4, <4>5, CountOkKept
    <3> QED BY <3>1, <3>2
  <2>12. Listed'
    <3>1. \A x \in IABs : buffer'[x] \in Seq(Listing(x)) /\ up'[x] \in Seq(Sending(x))
      BY DEF CountInv, Listed
    <3>2. \A x \in IABs : /\ Children(x)' = UNION {Between(k, x) : k \in Via(x)'}
                          /\ Via(x)' # {} => x \in drb'
      BY <2>8 DEF CountInv, Listed
    <3>3. \A x \in Nodes : \A k \in app'[x].requested : app'[x].imsiRnti[k] = app'[x].localRbid[k]
      BY <1>1, <1>5, <2>4 DEF CountInv, Listed
    <3> QED BY <3>1, <3>2, <3>3 DEF Listed, Sending, Listing, Between, Path
  <2> QED BY <2>6, <2>10, <2>11, <2>12 DEF CountInv
<1>11. CASE i \notin app[n].requested
  <2>1. /\ n = Parent[i] /\ app' = [app EXCEPT ![n] = DoInitialContextSetupRequest(@, i)]
        /\ SetupDataRadioBearer(i, links) /\ UNCHANGED numIab
    BY <1>11, AnswerTaken
  <2>2. \A x \in Nodes :
          /\ app'[x].children = app[x].children /\ app'[x].requested = app[x].requested
          /\ app'[x].localRbid = app[x].localRbid /\ app'[x].remote = app[x].remote
          /\ app'[x].imsiRnti = app[x].imsiRnti
    <3>1. PICK f : f = DoInitialContextSetupRequest(a, i)
      OBVIOUS
    <3>2. /\ f.requested = a.requested /\ f.localRbid = a.localRbid /\ f.imsiRnti = a.imsiRnti
          /\ f.remote = a.remote /\ f.children = a.children
      BY <1>2, <3>1 DEF DoInitialContextSetupRequest, AppStates
    <3>3. app'[n] = f
      BY <1>1, <1>2, <2>1, <3>1
    <3> QED BY <1>1, <1>5, <3>2, <3>3
  <2>3. CountInv'
    <3>1. \A x \in IABs : LinkMovesOn(x) /\ buffer'[x] \in Seq(Listing(x))
      BY DEF LinkMovesOn, CountInv, Listed
    <3> QED BY <2>1, <2>2, <3>1, CountKept
  <2>4. bearer' = bearer \cup {i}
    BY <2>1 DEF SetupDataRadioBearer
  <2>5. ASSUME NEW x \in Nodes, NEW k \in Devices, k \in app'[x].requested \ app'[x].remote
        PROVE  Above(k, x)'
    <3>1. Above(k, x) /\ k \in app[x].requested
      BY <2>2, <2>5 DEF AnswersDue
    <3>2. ASSUME k = i, n \in Donors \/ n \in CellsUp(Parent, x) PROVE FALSE
      <4>1. x \in CellsUp(Parent, n) /\ x # n
        BY <1>9, <1>11, <2>1, <3>1, <3>2 DEF Path
      <4>2. CASE n \in Donors
        BY <4>1, <4>2, WayUpFrom
      <4>3. CASE n \in CellsUp(Parent, x)
        BY <4>1, <4>3, OneOrder
      <4> QED BY <3>2, <4>2, <4>3
    <3> QED BY <1>8, <3>1, <3>2
  <2>6. ASSUME NEW x \in Nodes, NEW k \in Devices, k \in app'[x].remote
        PROVE  k \in bearer' \/ \E y \in IABs : Has(down'[y], AnswerTo(k))
    <3>1. CASE k = i
      BY <2>4, <3>1
    <3>2. CASE k # i
      <4>1. k \in bearer \/ \E y \in IABs : Has(down[y], AnswerTo(k))
        BY <2>2, <2>6 DEF AnswersDue
      <4>2. \A y \in IABs : Has(down[y], AnswerTo(k)) => Has(down'[y], AnswerTo(k))
        BY <1>7, <3>2 DEF Devices
      <4> QED BY <2>4, <4>1, <4>2
    <3> QED BY <3>1, <3>2
  <2>7. \A k \in Devices : AnswerTo(k)' = AnswerTo(k)
    BY DEF AnswerTo
  <2>8. AnswersDue'
    BY <2>5, <2>6, <2>7 DEF AnswersDue, Has
  <2> QED BY <2>3, <2>8
<1> QED BY <1>10, <1>11

\* The answer is gone from where it was taken, and nothing else.
LEMMA DonorAnswerCounts ==
  ASSUME IInv, AInv, DInv, RrcInv, AnswersDue, CountInv, DonorRecvS1ap
  PROVE  RrcInv' /\ AnswersDue' /\ CountInv'
<1>1. PICK m : m = Head(s1apDown)
  OBVIOUS
<1>2. /\ s1apDown # << >> /\ s1apDown' = Tail(s1apDown)
      /\ RecvInitialContextSetupRequest(m.enb, m.imsi, down)
      /\ UNCHANGED <<nas, drb, buffer, up, s1apUp>>
  BY <1>1 DEF DonorRecvS1ap, ueVars
<1>3. m \in Answered /\ s1apDown \in Seq(Answered)
  BY <1>1, <1>2, HeadTailProperties DEF AInv, PathsNoted
<1>4. PICK n \in Nodes, i \in Devices : n = m.enb /\ i = m.imsi /\ n \in Donors /\ Noted(i, n)
  BY <1>3 DEF Answered, Nodes
<1>5. \A k \in Devices :
        Has(s1apDown, ReplyTo(k)) => Has(s1apDown', ReplyTo(k)) \/ (k = i /\ n \in Donors)
  <2>1. \A k \in Devices : m \in ReplyTo(k) => k = i
    BY <1>4 DEF ReplyTo
  <2> QED BY <1>1, <1>2, <1>3, <1>4, <2>1, HasTail
<1>6. /\ down \in [Devices -> Seq(DownMsgs)]
      /\ \A j \in Devices : Once(down[j], Rrc("Reconfiguration"))
      /\ RecvInitialContextSetupRequest(n, i, down)
  BY <1>2, <1>4 DEF IInv, Messages, RrcInv, RrcOk
<1>7. RrcInv'
  BY <1>2, <1>4, <1>6, AnswerRrc
<1>8. AnswersDue' /\ CountInv'
  BY <1>2, <1>4, <1>5, <1>6, AnswerCounts
<1> QED BY <1>7, <1>8

LEMMA RelayedAnswerCounts ==
  ASSUME IInv, AInv, DInv, RrcInv, AnswersDue, CountInv, NEW c \in IABs, IabRecvS1ap(c)
  PROVE  RrcInv' /\ AnswersDue' /\ CountInv'
<1>1. PICK m : m = Head(down[c])
  OBVIOUS
<1>2. PICK links : links = [down EXCEPT ![c] = Tail(@)]
  OBVIOUS
<1>3. /\ down[c] # << >> /\ m.type = "InitialContextSetupRequest"
      /\ RecvInitialContextSetupRequest(c, m.imsi, links)
      /\ UNCHANGED <<nas, drb, buffer, up, s1apUp, s1apDown>>
  BY <1>1, <1>2 DEF IabRecvS1ap, ueVars, coreVars
<1>4. c \in Devices /\ c \in Nodes /\ down \in [Devices -> Seq(DownMsgs)]
  BY DEF Devices, Nodes, IInv, Messages
<1>5. m \in Descending(c) /\ Tail(down[c]) \in Seq(DownMsgs)
  BY <1>1, <1>3, <1>4, HeadTailProperties DEF AInv, PathsNoted
<1>6. PICK i \in Devices : i = m.imsi /\ Noted(i, c)
  BY <1>3, <1>5, MessageTypes DEF Descending
<1>7. /\ links \in [Devices -> Seq(DownMsgs)] /\ links[c] = Tail(down[c])
      /\ \A j \in Devices : j # c => links[j] = down[j]
  BY <1>2, <1>4, <1>5
<1>8. /\ \A S : Has(down[c], S) <=> m \in S \/ Has(Tail(down[c]), S)
      /\ \A j \in Devices : Once(down[j], Rrc("Reconfiguration"))
      /\ Once(Tail(down[c]), Rrc("Reconfiguration"))
  <2>1. \A j \in Devices : Once(down[j], Rrc("Reconfiguration"))
    BY DEF RrcInv, RrcOk
  <2> QED BY <1>1, <1>3, <1>4, <2>1, HasTail, OnceTail
<1>9. m \notin Reconf /\ m \notin {Rrc("Setup")}
  BY <1>3 DEF Reconf, Rrc
<1>10. \A j \in Devices : /\ Has(down[j], {Rrc("Setup")}) => Has(links[j], {Rrc("Setup")})
                          /\ Has(links[j], Reconf) <=> Has(down[j], Reconf)
                          /\ Once(links[j], Rrc("Reconfiguration"))
  BY <1>7, <1>8, <1>9
<1>11. \A y \in IABs : \A k \in Devices :
         Has(down[y], AnswerTo(k)) => Has(links[y], AnswerTo(k)) \/ (y = c /\ k = i)
  <2>1. \A k \in Devices : m \in AnswerTo(k) => k = i
    BY <1>6 DEF AnswerTo
  <2> QED BY <1>7, <1>8, <2>1 DEF Devices
<1>12. RecvInitialContextSetupRequest(c, i, links)
  BY <1>3, <1>6
<1>13. RrcInv'
  BY <1>3, <1>4, <1>6, <1>7, <1>10, <1>12, AnswerRrc
<1>14. AnswersDue' /\ CountInv'
  BY <1>3, <1>4, <1>6, <1>7, <1>11, <1>12, AnswerCounts
<1> QED BY <1>13, <1>14

-----------------------------------------------------------------------------
LEMMA StepCounts ==
  IInv /\ AInv /\ DInv /\ RrcInv /\ AnswersDue /\ CountInv /\ [Next]_vars
    => RrcInv' /\ AnswersDue' /\ CountInv'
<1> SUFFICES ASSUME IInv, AInv, DInv, RrcInv, AnswersDue, CountInv, [Next]_vars
             PROVE  RrcInv' /\ AnswersDue' /\ CountInv'
  OBVIOUS
<1>1. fault' = "none"
  BY StepNoted DEF AInv
<1>2. CASE \E i \in Devices : RrcStep(i)
  <2>1. PICK i \in Devices : RrcStep(i)
    BY <1>2
  <2>2. CASE RecvRrcConnectionRequest(i)
    BY <2>2, ConnectionRequestRrc, ConnectionRequestCounts
  <2>3. CASE RecvRrcConnectionSetup(i)
    BY <2>3, ConnectionSetupRrc, ConnectionSetupCounts
  <2>4. CASE RecvRrcConnectionSetupCompleted(i)
    <3>1. /\ RecvUp(i, "SetupCompleted") /\ SwitchToConnectedNormally(i)
          /\ UNCHANGED <<bearer, nas, drb, app>>
      BY <2>4 DEF RecvRrcConnectionSetupCompleted, ueVars
    <3> QED BY <2>4, <3>1, ConnectedRrc, SetupCompletedCounts
  <2>5. CASE RecvRrcConnectionReconfiguration(i)
    BY <2>5, ReconfigurationRrc, ReconfigurationCounts
  <2>6. CASE RecvRrcConnectionReconfigurationCompleted(i)
    <3>1. /\ RecvUp(i, "ReconfigurationCompleted") /\ SwitchToConnectedNormally(i)
          /\ UNCHANGED <<bearer, nas, drb, app>>
      BY <2>6 DEF RecvRrcConnectionReconfigurationCompleted, ueVars
    <3> QED BY <2>6, <3>1, ConnectedRrc, ReconfigurationCompletedCounts
  <2> QED BY <2>1, <2>2, <2>3, <2>4, <2>5, <2>6 DEF RrcStep
<1>3. CASE \E c \in IABs : RelayStep(c)
  BY <1>1, <1>3, RelayedRequestRrc, RelayedRequestCounts, RelayedAnswerCounts DEF RelayStep
<1>4. CASE MmeInitialUeMessage
  BY <1>1, <1>4, MmeCounts
<1>5. CASE DonorRecvS1ap
  BY <1>5, DonorAnswerCounts
<1>6. CASE UNCHANGED vars
  BY <1>6, StutterCounts
<1> QED BY <1>2, <1>3, <1>4, <1>5, <1>6 DEF Next

\* The relays that the parent of c has heard of are those behind it.
LEMMA CountsFollow ==
  IInv /\ AInv /\ DInv /\ RrcInv /\ AnswersDue /\ CountInv => ChildrenCounted
<1> SUFFICES ASSUME IInv, AInv, DInv, RrcInv, AnswersDue, CountInv, Quiet, NEW c \in IABs, c \in drb
             PROVE  numIab[c] = IF RelaysBehind(c) = {} THEN 1 ELSE Cardinality(RelaysBehind(c))
  BY DEF ChildrenCounted
<1>1. \A i \in Devices : \A S : ~Has(up[i], S) /\ ~Has(down[i], S)
  BY DEF Quiet, Has
<1>2. \A S : ~Has(s1apUp, S) /\ ~Has(s1apDown, S)
  BY DEF Quiet, Has
<1>3. \A n \in Nodes : \A i \in Devices : /\ i \in app[n].requested => i \in app[n].remote
                                          /\ i \in app[n].remote => i \in bearer
  BY <1>1, <1>2 DEF AnswersDue, Above, Devices
<1>4. \A i \in bearer : i \in Devices /\ i \in drb
  BY <1>1 DEF RrcInv, RrcOk, IInv, Shapes
<1>5. PICK n \in Nodes : n = Parent[c]
  BY ParentAssumption DEF Devices
<1>6. Via(c) \subseteq Devices /\ \A i \in Via(c) : i \in app[n].requested
  BY <1>5 DEF Via, IInv, Shapes, AppStates
<1>7. numIab[c] = IF Children(c) = {} THEN 1 ELSE Cardinality(Children(c))
  <2>1. CountOk(c)
    BY DEF CountInv
  <2>2. c \in Devices /\ ~Has(up[c], ReconfDone)
    BY <1>1 DEF Devices
  <2>3. \A i \in Via(c) : i \in app[Parent[c]].remote
    BY <1>3, <1>5, <1>6
  <2> QED BY <2>1, <2>2, <2>3 DEF CountOk
<1>8. Children(c) = UNION {Between(i, c) : i \in Via(c)}
  BY DEF CountInv, Listed
<1>9. ASSUME NEW b \in Children(c) PROVE b \in RelaysBehind(c)
  <2>1. PICK i \in Via(c) : b \in Between(i, c)
    BY <1>8, <1>9
  <2>2. i \in Devices /\ i \in drb
    BY <1>3, <1>4, <1>6, <2>1
  <2>3. PICK p \in Nodes : p = Parent[i]
    BY <2>2, ParentAssumption
  <2>4. b \in IABs /\ b \in CellsUp(Parent, p) /\ c \in CellsUp(Parent, b)
    BY <2>1, <2>3 DEF Between, Path
  <2>5. CASE b = p
    BY <2>2, <2>3, <2>4, <2>5 DEF RelaysBehind
  <2>6. CASE b # p
    <3>1. PICK y \in CellsUp(Parent, p) \cap IABs : Parent[y] = b
      BY <2>4, <2>6, NextBelow
    <3>2. p \in Donors \cup drb
      BY <2>2, <2>3 DEF IInv, BearersInOrder, RelayReady
    <3>3. y \in drb
      BY <3>1, <3>2, BearersUp, NodesAssumption
    <3> QED BY <2>4, <3>1, <3>3 DEF RelaysBehind
  <2> QED BY <2>5, <2>6
<1>10. ASSUME NEW b \in RelaysBehind(c) PROVE b \in Children(c)
  <2>1. b \in IABs /\ c \in CellsUp(Parent, b) /\ b \in Nodes
    BY <1>10 DEF RelaysBehind, Nodes
  <2>2. PICK i \in drb : Parent[i] = b
    BY <1>10 DEF RelaysBehind
  <2>3. i \in Devices /\ i \in bearer
    BY <2>2 DEF IInv, Shapes, BearersInOrder
  <2>4. PICK T : T = {x \in CellsUp(Parent, b) : x \in Donors \/ Reached(i, x)}
    OBVIOUS
  <2>5. Reached(i, b)
    <3>1. app[b].teidRbid[i] = i /\ i # None
      BY <2>2, <2>3, NodesAssumption DEF DInv, BearersRouted, Devices, Nodes
    <3>2. Supplied(i, b)
      BY <2>1, <2>3, <3>1 DEF DInv, TeidsSupplied
    <3> QED BY <2>1, <3>2, NodesAssumption DEF Supplied
  <2>6. ASSUME NEW x \in T \cap IABs PROVE Parent[x] \in T
    <3>1. PICK p \in Nodes : p = Parent[x]
      BY ParentAssumption DEF Devices
    <3>2. Reached(i, x) /\ p \in CellsUp(Parent, b)
      BY <2>1, <2>4, <3>1, NodesAssumption, WayUp
    <3>3. app[p].teidRbid[i] # None
      BY <3>1, <3>2, NodesAssumption DEF Reached, Nodes
    <3>4. Supplied(i, p)
      BY <2>3, <3>3 DEF DInv, TeidsSupplied
    <3>5. p \in Donors \/ Reached(i, p)
      BY <3>4 DEF Supplied
    <3> QED BY <2>4, <3>1, <3>2, <3>5
  <2>7. T \in SUBSET Nodes /\ b \in T
    BY <2>1, <2>4, <2>5, WayUp
  <2>8. Reached(i, c)
    <3>1. CellsUp(Parent, b) \subseteq T
      BY <2>1, <2>6, <2>7, WayUp
    <3> QED BY <2>1, <2>4, <3>1, NodesAssumption
  <2>9. i \in app[n].requested /\ app[n].localRbid[i] = c
    BY <1>5, <2>3, <2>8 DEF Reached, DInv, AppsRouted, Routes
  <2>10. i \in Via(c) /\ b \in Between(i, c)
    BY <1>5, <2>1, <2>2, <2>9, WayUp DEF Via, Between, Path
  <2> QED BY <1>8, <2>10
<1>11. Children(c) = RelaysBehind(c)
  BY <1>9, <1>10
<1> QED BY <1>7, <1>11

\* Whenever nothing is in flight, the scheduler of each cell has the number of relays
\* behind every IAB node of it (NotifyNumIabPerRnti), in every forest, whatever order
\* devices connected in: a relay counted first for itself is counted again with each
\* answer, and the list that came with the request is complete by then.
THEOREM RelaysCounted == Spec => []ChildrenCounted
BY InitNoted, StepNoted, InitRouted, StepRouted, InitRrc, InitCounts, StepCounts, CountsFollow,
   Inductive, PTL DEF Spec
=============================================================================
