------------------------------- MODULE IabTree -------------------------------
(***************************************************************************)
(* What the attach procedure promises, without RRC, NAS or S1-AP: the      *)
(* devices of a tree of cells get their bearers from the donors outwards,  *)
(* each once, and none is ever taken back.                                 *)
(***************************************************************************)
CONSTANTS
  Donors,  \* cells with a wire to the core
  IABs,    \* relays: a device of one cell, and a cell of their own
  UEs,     \* devices that are no cell
  Parent   \* cell that each device attaches to

Devices == IABs \cup UEs

VARIABLE attached  \* devices that have a data radio bearer

TreeInit == attached = {}

Attach(i) ==
  /\ i \notin attached
  /\ Parent[i] \in Donors \cup attached
  /\ attached' = attached \cup {i}

TreeNext == \E i \in Devices : Attach(i)

TreeSpec == TreeInit /\ [][TreeNext]_attached

\* Whoever is attached is reached: the relay it is behind is attached, too.
Connected == \A i \in attached : Parent[i] \in Donors \cup attached
=============================================================================
