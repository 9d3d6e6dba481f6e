--------------------------- MODULE IabRelayProofs ---------------------------
(***************************************************************************)
(* The order that IabRelay keeps, for every chain of donors and every set  *)
(* of descendants.                                                         *)
(***************************************************************************)
EXTENDS IabRelay, TLAPS

\* Every variable names a donor of the chain.
RelayType ==
  /\ serving \in Nat /\ home \in Nat
  /\ tunnel \in [Descendants \cup {MT} -> Nat]

Ordered == RelayType /\ Behind

\* The three actions, each of which moves one thing by one donor.
LEMMA OrderStep ==
  ASSUME NumDonors \in Nat \ {0}, MT \notin Descendants
  PROVE  Ordered /\ [RelayNext]_relayVars => Ordered'
<1> SUFFICES ASSUME Ordered, [RelayNext]_relayVars
             PROVE  Ordered'
  OBVIOUS
<1>1. CASE Reparent
  BY <1>1 DEF Ordered, RelayType, Behind, Reparent
<1>2. CASE MoveRelay
  BY <1>2 DEF Ordered, RelayType, Behind, MoveRelay
<1>3. ASSUME NEW i \in Descendants \cup {MT}, Repoint(i)
      PROVE  Ordered'
  <2>1. RelayType'
    BY <1>3 DEF Ordered, RelayType, Repoint
  <2>2. tunnel[i] \in Nat /\ tunnel'[i] = tunnel[i] + 1
    BY <1>3 DEF Ordered, RelayType, Repoint
  <2>3. \A j \in Descendants \cup {MT} : j # i => tunnel'[j] = tunnel[j]
    BY <1>3 DEF Ordered, RelayType, Repoint
  <2>4. \A j \in Descendants : tunnel'[j] <= home'
    BY <1>3, <2>2, <2>3 DEF Ordered, RelayType, Behind, Repoint
  <2>5. tunnel'[MT] <= serving'
    BY <1>3, <2>2, <2>3 DEF Ordered, RelayType, Behind, Repoint
  <2> QED
    BY <1>3, <2>1, <2>4, <2>5 DEF Ordered, Behind, Repoint
<1>4. CASE UNCHANGED relayVars
  BY <1>4 DEF Ordered, RelayType, Behind, relayVars
<1> QED
  BY <1>1, <1>2, <1>3, <1>4 DEF RelayNext

\* A tunnel never leads to a donor that has yet to receive the relay state,
\* and the relay state is never ahead of the IAB-MT: the order of export,
\* import and path switch in MigrateIabDescendants.
THEOREM TunnelsStayBehind ==
  ASSUME NumDonors \in Nat \ {0}, MT \notin Descendants
  PROVE  RelaySpec => []Behind
<1>1. RelayInit => Ordered
  BY DEF RelayInit, Ordered, RelayType, Behind
<1>2. Ordered => Behind
  BY DEF Ordered
<1> QED
  BY <1>1, <1>2, OrderStep, PTL DEF RelaySpec
=============================================================================
