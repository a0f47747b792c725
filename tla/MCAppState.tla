---- MODULE MCAppState ----
(***************************************************************************)
(* Small instances of AppState.                                            *)
(***************************************************************************)
EXTENDS AppState, TLC

\* Requests are interchangeable: no definition tells one from another.
MCSymmetry == Permutations(Requests)

====
