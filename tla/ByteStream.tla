----------------------------- MODULE ByteStream -----------------------------
(***************************************************************************)
(* What a QUIC stream promises its application: a reliable, ordered pipe.  *)
(* Bytes are named by their offsets, so the receiver must hand over        *)
(* 0, 1, 2, ... and nothing that was not written.                          *)
(***************************************************************************)
EXTENDS Integers, Sequences

CONSTANT Total      \* bytes the sending application may write

VARIABLES
  written,          \* bytes written by the sending application
  app               \* what the receiving application was handed, in order

vars == <<written, app>>

\* The bytes from..to-1.
Run(from, to) == [i \in 1 .. (to - from) |-> from + i - 1]

Init == written = 0 /\ app = <<>>

Write == written' \in (written + 1) .. Total /\ UNCHANGED app

Deliver ==
  /\ \E to \in (Len(app) + 1) .. written : app' = app \o Run(Len(app), to)
  /\ UNCHANGED written

Next == Write \/ Deliver

Spec == Init /\ [][Next]_vars
=============================================================================
