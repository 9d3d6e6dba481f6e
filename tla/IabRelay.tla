------------------------------ MODULE IabRelay ------------------------------
(***************************************************************************)
(* What the migration of an IAB node promises, without RRC, X2 or S1-AP.   *)
(*                                                                         *)
(* The IAB-MT moves along the chain of donors; its relay state, the state  *)
(* of all its descendants at once, follows it donor by donor and never     *)
(* overtakes it; the SGW's tunnels follow the relay state, the IAB-MT's    *)
(* own tunnel the IAB-MT, skipping no donor and never going back.          *)
(***************************************************************************)
EXTENDS Naturals

CONSTANTS NumDonors, Descendants, MT

VARIABLES
  serving,  \* donor the IAB-MT is connected to
  home,     \* donor that holds the relay state
  tunnel    \* donor the SGW tunnels each IMSI's downlink to

relayVars == <<serving, home, tunnel>>

RelayInit ==
  /\ serving = 1
  /\ home = 1
  /\ tunnel = [i \in Descendants \cup {MT} |-> 1]

\* The IAB-MT has reached the next donor; its relay state may come at once.
Reparent ==
  /\ serving < NumDonors
  /\ serving' = serving + 1
  /\ home' = home \/ (home = serving /\ home' = serving')
  /\ UNCHANGED tunnel

\* The deferred case: the relay state follows later.
MoveRelay ==
  /\ home < serving
  /\ home' = home + 1
  /\ UNCHANGED <<serving, tunnel>>

Repoint(i) ==
  /\ tunnel[i] < IF i = MT THEN serving ELSE home
  /\ tunnel' = [tunnel EXCEPT ![i] = @ + 1]
  /\ UNCHANGED <<serving, home>>

RelayNext ==
  \/ Reparent
  \/ MoveRelay
  \/ \E i \in Descendants \cup {MT} : Repoint(i)

RelaySpec == RelayInit /\ [][RelayNext]_relayVars

\* Between donors the order is always tunnel, relay state, IAB-MT: a tunnel
\* never leads to a donor that has yet to receive the relay state.
Behind ==
  /\ home <= serving /\ serving <= NumDonors
  /\ \A i \in Descendants : tunnel[i] <= home
  /\ tunnel[MT] <= serving
=============================================================================
