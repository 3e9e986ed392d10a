---------------------------- MODULE MCActivation ----------------------------
(* A small instance of the activation service for TLC: two marble types  *)
(* of one package, one with a budget of one activation and one unlimited. *)
EXTENDS Activation, TLC

CONSTANTS m1, m2, p1

MCMarblePackage == [m \in {m1, m2} |-> p1]
MCMaxActivations == (m1 :> 1) @@ (m2 :> 0)
MCMainSV == [p \in {p1} |-> 0]

(* Only the outcome of an activation, never its identity, is compared:   *)
(* connections are interchangeable.                                        *)
MCSymmetry == Permutations(Req)
=============================================================================
