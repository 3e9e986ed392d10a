-------------------------- MODULE AtomicActivation --------------------------
(***************************************************************************)
(* What the activation service promises, with the steps of Activate and   *)
(* the mutex left out (specification sections 4.8, 5 and 8.1-8.2).  An     *)
(* activation is two atomic events:                                        *)
(*   - Consume: a unit of a marble type's budget is used up; the persisted *)
(*     counter goes up by one, only while it is below MaxActivations;     *)
(*   - Grant: a marble is admitted on a ticket, a counter value already    *)
(*     consumed and never given to another marble of its type, with a     *)
(*     quote that meets the policy in force at that moment.               *)
(* A consumed unit that no marble receives is an activation whose answer   *)
(* was lost.  Admission happens only while marbles are accepted; the       *)
(* manifest and the coordinator's life cycle change as in the detailed     *)
(* model.                                                                  *)
(***************************************************************************)
EXTENDS Naturals

CONSTANTS
    Req, MarbleType, Package, MarblePackage, MaxActivations, MainSV, MaxSV,
    Infrastructure, Platform, SimulationMode, NoUpdate

SecurityVersion == 0..MaxSV
Quote == [pkg : Package, sv : SecurityVersion, infra : Platform]

VARIABLES
    state,        \* coordinator state
    activations,  \* activations of each marble type, unset read as 0
    update,       \* the update manifest's security version per package
    granted       \* every admission so far

avars == <<state, activations, update, granted>>

(* The security version in force for a package. *)
RequiredSV(p) == IF update[p] = NoUpdate THEN MainSV[p] ELSE update[p]

(* Section 4.8 step 4: outside simulation mode a quote is admissible when *)
(* it measures the marble's package at the required security version and  *)
(* comes from a listed infrastructure, any platform if none is listed.    *)
Admissible(q, m) ==
    \/ SimulationMode
    \/ /\ q.pkg = MarblePackage[m]
       /\ q.sv >= RequiredSV(MarblePackage[m])
       /\ Infrastructure = {} \/ q.infra \in Infrastructure

Init ==
    /\ state = "uninitialized"
    /\ activations = [m \in MarbleType |-> 0]
    /\ update = [p \in Package |-> NoUpdate]
    /\ granted = {}

Consume(m) ==
    /\ state = "acceptingMarbles"
    /\ MaxActivations[m] = 0 \/ activations[m] < MaxActivations[m]
    /\ activations' = [activations EXCEPT ![m] = @ + 1]
    /\ UNCHANGED <<state, update, granted>>

(* Marble r of type m is admitted with quote q on ticket n, a value below  *)
(* the counter that no other admission of type m holds.                   *)
Admit(r, m, n, q) ==
    /\ state = "acceptingMarbles"
    /\ n < activations[m]
    /\ \A h \in granted : h.type = m => h.seen # n
    /\ Admissible(q, m)
    /\ granted' = granted \cup {[marble |-> r, type |-> m, seen |-> n, quote |-> q,
                                 sv |-> RequiredSV(MarblePackage[m])]}
    /\ UNCHANGED <<state, activations, update>>

SetManifest ==
    /\ state = "uninitialized"
    /\ state' = "acceptingMarbles"
    /\ UNCHANGED <<activations, update, granted>>

UpdateManifest(p, sv) ==
    /\ state = "acceptingMarbles"
    /\ sv > RequiredSV(p)
    /\ update' = [update EXCEPT ![p] = sv]
    /\ UNCHANGED <<state, activations, granted>>

Recover ==
    /\ state = "recovery"
    /\ state' = "acceptingMarbles"
    /\ UNCHANGED <<activations, update, granted>>

Restart ==
    /\ state' \in IF state = "uninitialized" THEN {"uninitialized"}
                  ELSE {"acceptingMarbles", "recovery"}
    /\ UNCHANGED <<activations, update, granted>>

Next ==
    \/ \E m \in MarbleType : Consume(m)
    \/ \E r \in Req, m \in MarbleType, q \in Quote :
          \E n \in 0..(activations[m] - 1) : Admit(r, m, n, q)
    \/ SetManifest
    \/ \E p \in Package, sv \in SecurityVersion : UpdateManifest(p, sv)
    \/ Recover
    \/ Restart

Spec == Init /\ [][Next]_avars
=============================================================================
