-------------------------- MODULE ActivationProofs --------------------------
(***************************************************************************)
(* Proofs about the activation service, for every value of the constants  *)
(* that satisfies ConstantsAssumption: type correctness and the           *)
(* activation budget.                                                     *)
(*                                                                         *)
(* Neither TypeOK nor ActivationBudget is inductive on its own.  TypeOK    *)
(* fails when a request that never passed the marble-type check reaches   *)
(* Reply, and ActivationBudget fails when the counter a request checked   *)
(* has moved before it increments.  Both are excluded by what c.mux       *)
(* guarantees, which is the strengthening IInv:                           *)
(*   - a request in a step of Activate after requireState holds c.mux;    *)
(*   - from getActivations on, its marble type is one of the manifest;    *)
(*   - from putActivations on, the counter still has the value it read;   *)
(*   - once past the budget check, that value is below the budget.        *)
(***************************************************************************)
EXTENDS Activation, FiniteSetTheorems, TLAPS

(* The steps of Activate after the marble type has been checked. *)
TypeChecked == Locked \ {"verify"}

(* c.mux is held by every request that is inside Activate. *)
LockHeld == \A r \in Req : pc[r] \in Locked => mux = r

(* A request past verifyManifestRequirement's lookup has a known type. *)
KnownType == \A r \in Req : pc[r] \in TypeChecked => req[r].type \in MarbleType

(* The counter a request read is still the persisted one until it        *)
(* increments it.                                                         *)
ReadCurrent ==
    \A r \in Req :
        pc[r] \in {"putActivations", "issue", "increment"} =>
            read[r] = Count(req[r].type)

(* A request past the budget check read a value below the budget. *)
BudgetChecked ==
    \A r \in Req :
        pc[r] \in {"issue", "increment"} =>
            (MaxActivations[req[r].type] > 0 =>
                read[r] < MaxActivations[req[r].type])

(* Every successful activation read a value below the current counter.  *)
GrantsBelowCounter ==
    \A g \in granted : g.seen < Count(g.type)

(* A request between increment and reply has moved the counter one past  *)
(* what it read, and every earlier grant of its type read less.           *)
IncrementDone ==
    \A r \in Req :
        pc[r] = "reply" =>
            /\ Count(req[r].type) = read[r] + 1
            /\ \A g \in granted : g.type = req[r].type => g.seen < read[r]

IInv ==
    /\ TypeOK
    /\ LockHeld
    /\ KnownType
    /\ ReadCurrent
    /\ BudgetChecked
    /\ ActivationBudget
    /\ GrantsBelowCounter
    /\ IncrementDone
    /\ DistinctTickets

-----------------------------------------------------------------------------
(* Lemmas about the helpers. *)

LEMMA NoRequestType == NoRequest \in Request
  <1>1. PICK m \in MarbleType : TRUE
    BY ConstantsAssumption DEF ManifestCheck
  <1>2. PICK p \in Package : TRUE
    BY ConstantsAssumption DEF ManifestCheck
  <1>3. PICK pl \in Platform : TRUE
    BY ConstantsAssumption
  <1>4. [pkg |-> p, sv |-> 0, infra |-> pl] \in Quote
    BY <1>2, <1>3, ConstantsAssumption DEF Quote, SecurityVersion
  <1>5. [type |-> m, quote |-> [pkg |-> p, sv |-> 0, infra |-> pl],
         defect |-> "none"] \in Request
    BY <1>1, <1>4 DEF Request, Defect
  <1>6. QED
    BY <1>5 DEF NoRequest

LEMMA CountType ==
  ASSUME TypeOK, NEW m \in MarbleType
  PROVE  Count(m) \in Nat
  BY ConstantsAssumption DEF TypeOK, Count

LEMMA EffectiveSVType ==
  ASSUME TypeOK, NEW p \in Package
  PROVE  EffectiveSV(p) \in SecurityVersion
  BY ConstantsAssumption DEF TypeOK, EffectiveSV

-----------------------------------------------------------------------------
(* Initial states. *)

LEMMA InitIInv == Init => IInv
  <1> SUFFICES ASSUME Init PROVE IInv
    OBVIOUS
  <1>1. TypeOK
    BY NoRequestType, ConstantsAssumption
       DEF Init, TypeOK, CoordinatorState, PC, Code
  <1>2. \A m \in MarbleType : Count(m) = 0
    BY ConstantsAssumption DEF Init, Count
  <1>3. QED
    BY <1>1, <1>2, ConstantsAssumption
    DEF Init, IInv, LockHeld, KnownType, ReadCurrent, BudgetChecked,
        ActivationBudget, GrantsBelowCounter, IncrementDone, DistinctTickets,
        Locked, TypeChecked

-----------------------------------------------------------------------------
(* Each step preserves IInv. *)

(* Only the holder of c.mux can be inside Activate. *)
LEMMA OthersOutside ==
  ASSUME LockHeld, NEW r \in Req, mux = r, NEW r2 \in Req, r2 # r
  PROVE  pc[r2] \notin Locked
  BY DEF LockHeld

LEMMA StepIInv == IInv /\ [Next]_vars => IInv'
  <1> SUFFICES ASSUME IInv, [Next]_vars PROVE IInv'
    OBVIOUS
  <1> USE ConstantsAssumption
  <1> USE DEF IInv, TypeOK, LockHeld, KnownType, ReadCurrent, BudgetChecked,
              ActivationBudget, GrantsBelowCounter, IncrementDone,
              DistinctTickets, PC, Code, Locked, TypeChecked
  <1>1. ASSUME NEW r \in Req, Arrive(r) PROVE IInv'
    BY <1>1 DEF Arrive, Count
  <1>2. ASSUME NEW r \in Req, RequireState(r) PROVE IInv'
    BY <1>2 DEF RequireState, Fail, Count
  <1>3. ASSUME NEW r \in Req, VerifyManifestRequirement(r) PROVE IInv'
    BY <1>3 DEF VerifyManifestRequirement, Fail, Count
  <1>4. ASSUME NEW r \in Req, GetActivations(r) PROVE IInv'
    BY <1>4 DEF GetActivations, Count
  <1>5. ASSUME NEW r \in Req, PutActivations(r) PROVE IInv'
    <2> DEFINE m == req[r].type
    <2>1. /\ pc[r] = "putActivations" /\ mux = r
          /\ m \in MarbleType /\ read[r] = Count(m)
      BY <1>5 DEF PutActivations
    <2>2. \A r2 \in Req \ {r} : pc[r2] \notin Locked
      BY <2>1, OthersOutside
    <2>3. CASE Fail(r, "Internal") /\ UNCHANGED activations
      BY <1>5, <2>1, <2>2, <2>3 DEF PutActivations, Fail, Count
    <2>4. CASE /\ activations' = [activations EXCEPT ![m] = read[r]]
               /\ IF MaxActivations[m] > 0 /\ read[r] >= MaxActivations[m]
                    THEN Fail(r, "ResourceExhausted")
                    ELSE /\ pc' = [pc EXCEPT ![r] = "issue"]
                         /\ UNCHANGED <<mux, outcome>>
      <3>1. \A t \in MarbleType : Count(t)' = Count(t)
        BY <2>1, <2>4 DEF Count
      <3>2. UNCHANGED <<state, req, read, update, granted, crashes>>
        BY <1>5 DEF PutActivations
      <3>3. CASE MaxActivations[m] > 0 /\ read[r] >= MaxActivations[m]
        <4>1. Fail(r, "ResourceExhausted")
          BY <2>4, <3>3
        <4>2. QED
          BY <2>1, <2>2, <2>4, <3>1, <3>2, <4>1 DEF Fail, Count
      <3>4. CASE ~(MaxActivations[m] > 0 /\ read[r] >= MaxActivations[m])
        <4>1. pc' = [pc EXCEPT ![r] = "issue"] /\ UNCHANGED <<mux, outcome>>
          BY <2>4, <3>4
        <4>2. QED
          BY <2>1, <2>2, <2>4, <3>1, <3>2, <3>4, <4>1 DEF Count
      <3>5. QED
        BY <3>3, <3>4
    <2>5. QED
      BY <1>5, <2>3, <2>4 DEF PutActivations
  <1>6. ASSUME NEW r \in Req, IssueSecrets(r) PROVE IInv'
    BY <1>6 DEF IssueSecrets, Fail, Count
  <1>7. ASSUME NEW r \in Req, IncrementActivations(r) PROVE IInv'
    <2> DEFINE m == req[r].type
    <2>1. /\ pc[r] = "increment" /\ mux = r
          /\ m \in MarbleType /\ read[r] = Count(m)
          /\ MaxActivations[m] > 0 => read[r] < MaxActivations[m]
      BY <1>7 DEF IncrementActivations
    <2>2. \A r2 \in Req \ {r} : pc[r2] \notin Locked
      BY <2>1, OthersOutside
    <2>3. CASE Fail(r, "Internal") /\ UNCHANGED activations
      BY <1>7, <2>1, <2>2, <2>3 DEF IncrementActivations, Fail, Count
    <2>4. CASE /\ activations' = [activations EXCEPT ![m] = Count(m) + 1]
               /\ pc' = [pc EXCEPT ![r] = "reply"]
               /\ UNCHANGED <<mux, outcome>>
      <3>1. Count(m) \in Nat
        BY <2>1, CountType
      <3>2. UNCHANGED <<state, req, read, update, granted, crashes>>
        BY <1>7 DEF IncrementActivations
      <3>3. Count(m)' = read[r] + 1
        BY <2>1, <2>4, <3>1, <3>2 DEF Count
      <3>4. \A t \in MarbleType \ {m} : Count(t)' = Count(t)
        BY <2>4 DEF Count
      <3>5. TypeOK'
        BY <2>1, <2>4, <3>1, <3>2
      <3>6. GrantsBelowCounter'
        BY <2>1, <3>1, <3>2, <3>3, <3>4 DEF Grant
      <3>7. QED
        BY <2>1, <2>2, <2>4, <3>2, <3>3, <3>4, <3>5, <3>6
    <2>5. QED
      BY <1>7, <2>3, <2>4 DEF IncrementActivations
  <1>8. ASSUME NEW r \in Req, Reply(r) PROVE IInv'
    <2>1. pc[r] = "reply" /\ req[r].type \in MarbleType
      BY <1>8 DEF Reply
    <2>2. MarblePackage[req[r].type] \in Package
      BY <2>1 DEF ManifestCheck
    <2>3. [marble |-> r, type |-> req[r].type, seen |-> read[r],
           quote |-> req[r].quote,
           sv |-> EffectiveSV(MarblePackage[req[r].type])] \in Grant
      BY <2>1, <2>2, EffectiveSVType DEF Grant, Request
    <2> DEFINE g == [marble |-> r, type |-> req[r].type, seen |-> read[r],
                     quote |-> req[r].quote,
                     sv |-> EffectiveSV(MarblePackage[req[r].type])]
    <2>4. /\ granted' = granted \cup {g}
          /\ pc' = [pc EXCEPT ![r] = "done"] /\ mux' = NoHolder
          /\ outcome' = [outcome EXCEPT ![r] = "OK"]
          /\ UNCHANGED <<state, req, read, activations, update, crashes>>
      BY <1>8 DEF Reply
    <2>5. \A t \in MarbleType : Count(t)' = Count(t)
      BY <2>4 DEF Count
    <2>6. /\ Count(req[r].type) = read[r] + 1
          /\ \A h \in granted : h.type = req[r].type => h.seen < read[r]
      BY <2>1
    <2>7. read[r] \in Nat /\ Count(req[r].type) \in Nat
      BY <2>1, CountType
    <2>8. GrantsBelowCounter'
      <3>1. g.seen < Count(g.type)'
        BY <2>1, <2>4, <2>5, <2>6, <2>7
      <3>2. \A h \in granted : h.seen < Count(h.type)'
        BY <2>5 DEF Grant
      <3>. QED
        BY <2>4, <3>1, <3>2
    <2>9. DistinctTickets'
      BY <2>4, <2>6, <2>7
    <2>10. QED
      <3> HIDE DEF GrantsBelowCounter, DistinctTickets
      <3>. QED
        BY <2>1, <2>3, <2>4, <2>5, <2>8, <2>9 DEF Count
  <1>9. ASSUME NEW r \in Req, Retry(r) PROVE IInv'
    BY <1>9, NoRequestType DEF Retry, Count
  <1>10. CASE SetManifest
    BY <1>10 DEF SetManifest, Count, CoordinatorState
  <1>11. ASSUME NEW p \in Package, NEW sv \in SecurityVersion,
                UpdateManifest(p, sv)
         PROVE IInv'
    BY <1>11 DEF UpdateManifest, Count
  <1>12. CASE Recover
    BY <1>12 DEF Recover, Count, CoordinatorState
  <1>13. CASE Restart
    BY <1>13 DEF Restart, Count, CoordinatorState
  <1>14. CASE UNCHANGED vars
    BY <1>14 DEF vars, Count
  <1>15. QED
    BY <1>1, <1>2, <1>3, <1>4, <1>5, <1>6, <1>7, <1>8, <1>9, <1>10, <1>11,
       <1>12, <1>13, <1>14 DEF Next, Activate

-----------------------------------------------------------------------------
(* The counters move only by the seed write, which writes back the value  *)
(* just read, and by incrementActivations.                                *)

LEMMA CountStep ==
  IInv /\ [Next]_vars =>
    [\A m \in MarbleType : Count(m)' \in {Count(m), Count(m) + 1}]_vars
  <1> SUFFICES ASSUME IInv, [Next]_vars
               PROVE  \A m \in MarbleType : Count(m)' \in {Count(m), Count(m) + 1}
    OBVIOUS
  <1> USE ConstantsAssumption
  <1> USE DEF IInv, TypeOK, LockHeld, KnownType, ReadCurrent, Locked,
              TypeChecked
  <1>1. ASSUME NEW r \in Req, PutActivations(r)
        PROVE  \A m \in MarbleType : Count(m)' = Count(m)
    BY <1>1 DEF PutActivations, Fail, Count
  <1>2. ASSUME NEW r \in Req, IncrementActivations(r)
        PROVE  \A m \in MarbleType : Count(m)' \in {Count(m), Count(m) + 1}
    BY <1>2, CountType DEF IncrementActivations, Fail, Count
  <1>3. CASE UNCHANGED activations
    BY <1>3 DEF Count
  <1>4. QED
    BY <1>1, <1>2, <1>3
    DEF Next, Activate, Arrive, RequireState, VerifyManifestRequirement,
        GetActivations, IssueSecrets, Reply, Retry, SetManifest,
        UpdateManifest, Recover, Restart, vars

-----------------------------------------------------------------------------
(* Theorems of the specification. *)

(* IInv holds in every reachable state. *)
THEOREM InvariantHolds == Spec => []IInv
  BY InitIInv, StepIInv, PTL DEF Spec

(* Every variable of the model keeps its type. *)
THEOREM TypeCorrect == Spec => []TypeOK
  BY InvariantHolds, PTL DEF IInv

(* The activation budget: with MaxActivations = k > 0 the persisted       *)
(* counter of a marble type never exceeds k (marbleapi.go 188-199, 132).  *)
THEOREM BudgetRespected == Spec => []ActivationBudget
  BY InvariantHolds, PTL DEF IInv

(* Two successful activations of one type never read the same counter    *)
(* value in their budget check.                                           *)
THEOREM TicketsDistinct == Spec => []DistinctTickets
  BY InvariantHolds, PTL DEF IInv

(* A persisted counter never decreases and moves by at most one per step. *)
THEOREM CounterNeverDecreases == Spec => CounterMonotone
  BY InvariantHolds, CountStep, PTL DEF Spec, CounterMonotone

(* The tickets of the grants of one type are distinct and below the       *)
(* counter, so there are no more grants than the counter's value.         *)
LEMMA GrantsCountedFromIInv == IInv => GrantsCounted
  <1> SUFFICES ASSUME IInv, NEW m \in MarbleType
               PROVE  Cardinality(GrantsOf(m)) <= Count(m)
    BY DEF GrantsCounted
  <1>1. Count(m) \in Nat
    BY DEF IInv, TypeOK, Count
  <1> DEFINE ticket == [g \in GrantsOf(m) |-> g.seen]
             Tickets == 0..(Count(m) - 1)
  <1>2. ticket \in [GrantsOf(m) -> Tickets]
    BY <1>1 DEF IInv, GrantsBelowCounter, GrantsOf, TypeOK, Grant
  <1>3. IsInjective(ticket)
    BY DEF IInv, DistinctTickets, GrantsOf, IsInjective
  <1>4. ticket \in Injection(GrantsOf(m), Tickets)
    BY <1>2, <1>3 DEF Injection
  <1>5. IsFiniteSet(Tickets) /\ Cardinality(Tickets) = Count(m)
    BY <1>1, FS_Interval
  <1>. QED
    BY <1>4, <1>5, FS_Injection

(* Every activation that returned parameters is counted: no more marbles  *)
(* of a type were admitted than its persisted counter says (the response  *)
(* of line 138 follows incrementActivations, line 132).                   *)
THEOREM GrantsCountedHolds == Spec => []GrantsCounted
  BY InvariantHolds, GrantsCountedFromIInv, PTL

=============================================================================
