------------------------ MODULE ActivationRefinement ------------------------
(***************************************************************************)
(* Proof that the activation service implements the atomic service of    *)
(* AtomicActivation under the mapping of Activation's Atomic instance:    *)
(* the counters read with the unset default, the mutex, the steps in      *)
(* progress and the restart bound hidden.                                 *)
(*                                                                         *)
(* A step of Activate is an abstract step only at incrementActivations    *)
(* (Consume) and at the reply (Admit); the budget and the ticket come     *)
(* from IInv of ActivationProofs.  Two more facts are needed, both held   *)
(* by c.mux because the client API waits for it:                          *)
(*   - a request inside Activate sees the coordinator accepting marbles;  *)
(*   - a request past verifyManifestRequirement has a quote that the      *)
(*     policy in force still accepts.                                     *)
(***************************************************************************)
EXTENDS ActivationProofs

AcceptingWhileLocked ==
    \A r \in Req : pc[r] \in Locked => state = "acceptingMarbles"

QuoteChecked ==
    \A r \in Req : pc[r] \in TypeChecked => QuoteAccepted(req[r].quote, req[r].type)

RInv == AcceptingWhileLocked /\ QuoteChecked

(* The quote check of lines 168-185 grants what the specification's       *)
(* policy allows: a listed infrastructure is a platform, never ZeroInfra. *)
LEMMA AcceptedIsAdmissible ==
  ASSUME NEW q \in Quote, NEW m \in MarbleType, QuoteAccepted(q, m)
  PROVE  Atomic!Admissible(q, m)
  <1> DEFINE p == MarblePackage[m]
  <1>1. CASE SimulationMode
    BY <1>1 DEF Atomic!Admissible
  <1>2. CASE Infrastructure = {} /\ Validate(q, p, EffectiveSV(p), ZeroInfra)
    BY <1>2 DEF Validate, EffectiveSV, Atomic!Admissible, Atomic!RequiredSV
  <1>3. CASE \E i \in Infrastructure : Validate(q, p, EffectiveSV(p), i)
    <2>1. PICK i \in Infrastructure : Validate(q, p, EffectiveSV(p), i)
      BY <1>3
    <2>2. i = q.infra
      BY <2>1, ConstantsAssumption DEF Validate
    <2>. QED
      BY <2>1, <2>2 DEF Validate, EffectiveSV, Atomic!Admissible, Atomic!RequiredSV
  <1>. QED
    BY <1>1, <1>2, <1>3 DEF QuoteAccepted

LEMMA InitRInv == Init => RInv
  BY DEF Init, RInv, AcceptingWhileLocked, QuoteChecked, Locked, TypeChecked

(* With the update manifest unchanged, the policy accepts what it did.    *)
LEMMA QuoteStable ==
  ASSUME NEW q, NEW m, update' = update
  PROVE  QuoteAccepted(q, m)' = QuoteAccepted(q, m)
  BY DEF QuoteAccepted, EffectiveSV, Validate

(* A step of request r that moves only r, leaving the state, the requests *)
(* and the update manifest alone, keeps RInv when r's new step does.      *)
LEMMA MoveOne ==
  ASSUME TypeOK, RInv, NEW r \in Req, NEW v \in PC,
         pc' = [pc EXCEPT ![r] = v],
         UNCHANGED <<state, req, update>>,
         v \in Locked => state = "acceptingMarbles",
         v \in TypeChecked => QuoteAccepted(req[r].quote, req[r].type)
  PROVE  RInv'
  <1>1. \A r2 \in Req : pc'[r2] = IF r2 = r THEN v ELSE pc[r2]
    BY DEF TypeOK
  <1>2. \A r2 \in Req : QuoteAccepted(req[r2].quote, req[r2].type)'
                          = QuoteAccepted(req[r2].quote, req[r2].type)
    BY QuoteStable
  <1>. QED
    BY <1>1, <1>2 DEF RInv, AcceptingWhileLocked, QuoteChecked

LEMMA StepRInv == IInv /\ RInv /\ [Next]_vars => RInv'
  <1> SUFFICES ASSUME IInv, RInv, [Next]_vars PROVE RInv'
    OBVIOUS
  <1>0. TypeOK
    BY DEF IInv
  <1> USE <1>0
  <1>1. ASSUME NEW r \in Req, Arrive(r) PROVE RInv'
    <2>1. /\ pc' = [pc EXCEPT ![r] = "waiting"] /\ UNCHANGED <<state, update>>
          /\ \E rq \in Request : req' = [req EXCEPT ![r] = rq]
      BY <1>1 DEF Arrive
    <2>2. \A r2 \in Req : pc'[r2] \in Locked =>
                            r2 # r /\ pc'[r2] = pc[r2] /\ req'[r2] = req[r2]
      BY <2>1 DEF TypeOK, Locked
    <2>. QED
      BY <2>1, <2>2, QuoteStable
      DEF RInv, AcceptingWhileLocked, QuoteChecked, TypeChecked
  <1>2. ASSUME NEW r \in Req, RequireState(r) PROVE RInv'
    BY <1>2, MoveOne DEF RequireState, Fail, PC, Locked, TypeChecked
  <1>3. ASSUME NEW r \in Req, VerifyManifestRequirement(r) PROVE RInv'
    <2>1. pc[r] = "verify" /\ state = "acceptingMarbles"
      BY <1>3 DEF VerifyManifestRequirement, RInv, AcceptingWhileLocked, Locked
    <2>. QED
      BY <1>3, <2>1, MoveOne DEF VerifyManifestRequirement, Fail, PC, Locked,
                                 TypeChecked
  <1>4. ASSUME NEW r \in Req,
               \/ GetActivations(r) \/ PutActivations(r) \/ IssueSecrets(r)
               \/ IncrementActivations(r) \/ Reply(r)
        PROVE RInv'
    <2>1. pc[r] \in TypeChecked
      BY <1>4 DEF GetActivations, PutActivations, IssueSecrets,
                  IncrementActivations, Reply, TypeChecked, Locked
    <2>2. state = "acceptingMarbles" /\ QuoteAccepted(req[r].quote, req[r].type)
      BY <2>1 DEF RInv, AcceptingWhileLocked, QuoteChecked, TypeChecked
    <2>. QED
      BY <1>4, <2>2, MoveOne
      DEF GetActivations, PutActivations, IssueSecrets, IncrementActivations,
          Reply, Fail, PC, Locked, TypeChecked
  <1>5. ASSUME NEW r \in Req, Retry(r) PROVE RInv'
    <2>1. pc' = [pc EXCEPT ![r] = "idle"] /\ UNCHANGED <<state, update>>
      BY <1>5 DEF Retry
    <2>2. \A r2 \in Req : pc'[r2] \in Locked => r2 # r /\ pc'[r2] = pc[r2]
      BY <2>1 DEF TypeOK, Locked
    <2>. QED
      BY <1>5, <2>1, <2>2, QuoteStable
      DEF Retry, RInv, AcceptingWhileLocked, QuoteChecked, TypeChecked
  <1>6. ASSUME NEW p \in Package, NEW sv \in SecurityVersion,
               UpdateManifest(p, sv)
        PROVE RInv'
    <2>1. \A r \in Req : pc[r] \notin Locked
      BY <1>6, ConstantsAssumption DEF UpdateManifest, IInv, LockHeld
    <2>. QED
      BY <1>6, <2>1 DEF UpdateManifest, RInv, AcceptingWhileLocked,
                        QuoteChecked, TypeChecked
  <1>7. CASE SetManifest \/ Recover
    <2>1. \A r \in Req : pc[r] \notin Locked
      BY <1>7 DEF SetManifest, Recover, RInv, AcceptingWhileLocked
    <2>. QED
      BY <1>7, <2>1 DEF SetManifest, Recover, RInv, AcceptingWhileLocked,
                        QuoteChecked, TypeChecked
  <1>8. CASE Restart
    BY <1>8 DEF Restart, RInv, AcceptingWhileLocked, QuoteChecked,
                TypeChecked, Locked
  <1>9. CASE UNCHANGED vars
    BY <1>9, QuoteStable DEF vars, RInv, AcceptingWhileLocked, QuoteChecked
  <1>. QED
    BY <1>1, <1>2, <1>3, <1>4, <1>5, <1>6, <1>7, <1>8, <1>9 DEF Next, Activate

(* Only a reply adds a grant. *)
LEMMA GrantOnlyAtReply ==
  ASSUME [Next]_vars
  PROVE  (\E r \in Req : Reply(r)) \/ granted' = granted
  BY DEF Next, Activate, Arrive, RequireState, VerifyManifestRequirement,
         GetActivations, PutActivations, IssueSecrets, IncrementActivations,
         Retry, Fail, SetManifest, UpdateManifest, Recover, Restart, vars

(* A reply grants a quote that the policy in force accepts: it was        *)
(* checked at lines 168-185 and, c.mux being held since, the update       *)
(* manifest has not changed.                                              *)
LEMMA StepPolicy ==
  IInv /\ RInv /\ PolicyRespected /\ [Next]_vars => PolicyRespected'
  <1> SUFFICES ASSUME IInv, RInv, PolicyRespected, [Next]_vars
               PROVE  PolicyRespected'
    OBVIOUS
  <1>1. ASSUME NEW r \in Req, Reply(r) PROVE PolicyRespected'
    <2> DEFINE m == req[r].type
               q == req[r].quote
    <2>1. pc[r] \in TypeChecked
      BY <1>1 DEF Reply, TypeChecked, Locked
    <2>2. m \in MarbleType /\ QuoteAccepted(q, m)
      BY <2>1 DEF IInv, KnownType, RInv, QuoteChecked
    <2>3. q \in Quote
      BY DEF IInv, TypeOK, Request
    <2>4. Atomic!Admissible(q, m)
      BY <2>2, <2>3, AcceptedIsAdmissible
    <2>5. ~SimulationMode =>
            /\ q.pkg = MarblePackage[m]
            /\ q.sv >= EffectiveSV(MarblePackage[m])
            /\ Infrastructure = {} \/ q.infra \in Infrastructure
      BY <2>4 DEF Atomic!Admissible, Atomic!RequiredSV, EffectiveSV
    <2>. QED
      BY <1>1, <2>5 DEF Reply, PolicyRespected
  <1>2. CASE granted' = granted
    BY <1>2 DEF PolicyRespected
  <1>. QED
    BY <1>1, <1>2, GrantOnlyAtReply

(* The mapped counters. *)
Counters == [m \in MarbleType |-> Count(m)]

LEMMA InitMaps == Init => Atomic!Init
  BY DEF Init, Atomic!Init, Count

LEMMA StepMaps ==
  IInv /\ RInv /\ [Next]_vars => [Atomic!Next]_Atomic!avars
  <1> SUFFICES ASSUME IInv, RInv, [Next]_vars PROVE [Atomic!Next]_Atomic!avars
    OBVIOUS
  <1> USE ConstantsAssumption
  <1>1. ASSUME NEW r \in Req,
               \/ Arrive(r) \/ RequireState(r) \/ VerifyManifestRequirement(r)
               \/ GetActivations(r) \/ IssueSecrets(r) \/ Retry(r)
        PROVE UNCHANGED Atomic!avars
    BY <1>1 DEF Arrive, RequireState, VerifyManifestRequirement,
               GetActivations, IssueSecrets, Retry, Fail, Atomic!avars, Count
  <1>0. TypeOK
    BY DEF IInv
  <1>2. ASSUME NEW r \in Req, PutActivations(r) PROVE UNCHANGED Atomic!avars
    <2> DEFINE m == req[r].type
    <2>1. /\ pc[r] = "putActivations" /\ m \in MarbleType /\ read[r] = Count(m)
          /\ UNCHANGED <<state, update, granted>>
      BY <1>2 DEF PutActivations, IInv, ReadCurrent, KnownType, TypeChecked,
                  Locked
    <2>2. \/ UNCHANGED activations
          \/ activations' = [activations EXCEPT ![m] = read[r]]
      BY <1>2 DEF PutActivations
    <2>3. \A t \in MarbleType : Count(t)' = Count(t)
      BY <1>0, <2>1, <2>2 DEF Count, TypeOK
    <2>4. Counters' = Counters
      BY <2>3 DEF Counters
    <2>. QED
      BY <2>1, <2>4 DEF Atomic!avars, Counters
  <1>3. ASSUME NEW r \in Req, IncrementActivations(r)
        PROVE [Atomic!Next]_Atomic!avars
    <2> DEFINE m == req[r].type
    <2>1. /\ pc[r] = "increment" /\ m \in MarbleType /\ read[r] = Count(m)
          /\ MaxActivations[m] > 0 => read[r] < MaxActivations[m]
          /\ state = "acceptingMarbles"
      BY <1>3 DEF IncrementActivations, IInv, KnownType, ReadCurrent,
                  BudgetChecked, TypeChecked, Locked, RInv, AcceptingWhileLocked
    <2>0. UNCHANGED <<state, update, granted, req>>
      BY <1>3 DEF IncrementActivations
    <2>2. CASE UNCHANGED activations
      <3>1. Counters' = Counters
        BY <2>2 DEF Counters, Count
      <3>. QED
        BY <2>0, <3>1 DEF Atomic!avars, Counters
    <2>3. CASE activations' = [activations EXCEPT ![m] = Count(m) + 1]
      <3>1. Count(m) \in Nat
        BY <1>0, <2>1, CountType
      <3>2. Count(m)' = Count(m) + 1
        <4>1. activations'[m] = Count(m) + 1
          BY <1>0, <2>1, <2>3 DEF TypeOK
        <4>2. Count(m) + 1 # NotSet
          BY <3>1
        <4>. QED
          BY <2>0, <4>1, <4>2 DEF Count
      <3>3. \A t \in MarbleType \ {m} : Count(t)' = Count(t)
        BY <1>0, <2>3 DEF Count, TypeOK
      <3>4. Counters' = [Counters EXCEPT ![m] = @ + 1]
        <4>1. \A t \in MarbleType :
                 Counters'[t] = IF t = m THEN Counters[t] + 1 ELSE Counters[t]
          BY <2>0, <3>2, <3>3 DEF Counters
        <4>. QED
          BY <2>1, <4>1 DEF Counters
      <3>5. MaxActivations[m] = 0 \/ Counters[m] < MaxActivations[m]
        BY <2>1, <3>1 DEF Counters
      <3>6. Atomic!Consume(m)
        BY <2>0, <2>1, <3>4, <3>5 DEF Atomic!Consume, Counters
      <3>. QED
        BY <2>1, <3>6 DEF Atomic!Next
    <2>. QED
      BY <1>3, <2>2, <2>3 DEF IncrementActivations, Fail
  <1>4. ASSUME NEW r \in Req, Reply(r) PROVE [Atomic!Next]_Atomic!avars
    <2> DEFINE m == req[r].type
               q == req[r].quote
    <2>1. pc[r] = "reply"
      BY <1>4 DEF Reply
    <2>2. /\ m \in MarbleType /\ q \in Quote /\ read[r] \in Nat
      BY <1>0, <2>1 DEF IInv, KnownType, TypeChecked, Locked, TypeOK, Request
    <2>3. /\ Count(m) = read[r] + 1
          /\ \A g \in granted : g.type = m => g.seen < read[r]
      BY <2>1 DEF IInv, IncrementDone
    <2>4. state = "acceptingMarbles" /\ QuoteAccepted(q, m)
      BY <2>1 DEF RInv, AcceptingWhileLocked, QuoteChecked, TypeChecked, Locked
    <2>5. Atomic!Admissible(q, m)
      BY <2>2, <2>4, AcceptedIsAdmissible
    <2>6. read[r] \in 0..(Counters[m] - 1)
      BY <2>2, <2>3 DEF Counters
    <2>7. /\ granted' = granted \cup
                {[marble |-> r, type |-> m, seen |-> read[r], quote |-> q,
                  sv |-> EffectiveSV(MarblePackage[m])]}
          /\ UNCHANGED <<state, activations, update>>
      BY <1>4 DEF Reply
    <2>8. Counters' = Counters
      BY <2>7 DEF Counters, Count
    <2>9. \A h \in granted : h.type = m => h.seen # read[r]
      BY <2>2, <2>3, <1>0 DEF TypeOK, Grant
    <2>10. Atomic!RequiredSV(MarblePackage[m]) = EffectiveSV(MarblePackage[m])
      BY DEF Atomic!RequiredSV, EffectiveSV
    <2>11. read[r] < [t \in MarbleType |-> Count(t)][m]
      BY <2>2, <2>3
    <2>12. UNCHANGED <<state, [t \in MarbleType |-> Count(t)], update>>
      BY <2>7, <2>8 DEF Counters
    <2>13. Atomic!Admit(r, m, read[r], q)
      BY <2>4, <2>5, <2>7, <2>9, <2>10, <2>11, <2>12 DEF Atomic!Admit
    <2>14. q \in Atomic!Quote
      BY <2>2 DEF Quote, Atomic!Quote, SecurityVersion, Atomic!SecurityVersion
    <2>15. read[r] \in 0..([t \in MarbleType |-> Count(t)][m] - 1)
      BY <2>2, <2>3
    <2>16. \E rr \in Req, mm \in MarbleType, qq \in Atomic!Quote :
              \E n \in 0..([t \in MarbleType |-> Count(t)][mm] - 1) :
                  Atomic!Admit(rr, mm, n, qq)
      BY <2>2, <2>13, <2>14, <2>15
    <2>. QED
      BY <2>16 DEF Atomic!Next
  <1>5. CASE SetManifest
    BY <1>5 DEF SetManifest, Atomic!Next, Atomic!SetManifest, Count
  <1>6. ASSUME NEW p \in Package, NEW sv \in SecurityVersion,
               UpdateManifest(p, sv)
        PROVE [Atomic!Next]_Atomic!avars
    <2>1. Atomic!UpdateManifest(p, sv)
      BY <1>6 DEF UpdateManifest, Atomic!UpdateManifest, Atomic!RequiredSV,
                  EffectiveSV, Count
    <2>. QED
      BY <2>1 DEF Atomic!Next, Atomic!SecurityVersion, SecurityVersion
  <1>7. CASE Recover
    BY <1>7 DEF Recover, Atomic!Next, Atomic!Recover, Count
  <1>8. CASE Restart
    <2>1. Atomic!Restart
      BY <1>8 DEF Restart, Atomic!Restart, Count
    <2>. QED
      BY <2>1 DEF Atomic!Next
  <1>9. CASE UNCHANGED vars
    BY <1>9 DEF vars, Atomic!avars, Count
  <1>. QED
    BY <1>1, <1>2, <1>3, <1>4, <1>5, <1>6, <1>7, <1>8, <1>9 DEF Next, Activate

(* Every marble admitted outside simulation mode presented a quote of its *)
(* package, at the security version in force when it was answered, from   *)
(* an accepted infrastructure (verifyManifestRequirement, lines 157-185,   *)
(* with UpdateManifest racing Activate for c.mux).                         *)
THEOREM PolicyHolds == Spec => []PolicyRespected
  <1>1. Init => PolicyRespected
    BY DEF Init, PolicyRespected
  <1>2. Spec => [](IInv /\ RInv)
    BY InvariantHolds, InitRInv, StepRInv, PTL DEF Spec
  <1>. QED
    BY <1>1, <1>2, StepPolicy, PTL DEF Spec

(* Activate implements the atomic service for every value of the         *)
(* constants: the budget is consumed only while below MaxActivations and  *)
(* only under the mutex, a marble is admitted only on a consumed ticket   *)
(* no other marble of its type holds, and only with a quote that meets    *)
(* the policy in force when it is answered.                               *)
THEOREM ImplementsAtomic == Spec => RefinesAtomic
  <1>1. Spec => [](IInv /\ RInv)
    <2>1. Spec => []IInv
      BY InvariantHolds
    <2>2. Init => RInv
      BY InitRInv
    <2>3. IInv /\ RInv /\ [Next]_vars => RInv'
      BY StepRInv
    <2>. QED
      BY <2>1, <2>2, <2>3, PTL DEF Spec
  <1>. QED
    BY <1>1, InitMaps, StepMaps, PTL DEF Spec, RefinesAtomic, Atomic!Spec
=============================================================================
