----------------------------- MODULE MCRelayConns -----------------------------
(* RelayConns for TLC: tasks are interchangeable, and so are sessions. *)
EXTENDS RelayConns, TLC

Symmetry == Permutations(Task) \union Permutations(Session)

(* Without what the proxies were told, which no step looks at.              *)
Present == <<phase, gen, sent, linked, conns, task, down>>
=============================================================================
