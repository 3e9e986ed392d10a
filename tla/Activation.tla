----------------------------- MODULE Activation -----------------------------
(***************************************************************************)
(* The coordinator's activation service: Core.Activate and                 *)
(* verifyManifestRequirement (coordinator/core/marbleapi.go) with the      *)
(* coordinator-wide mutex c.mux, the persisted per-marble-type activation  *)
(* counters and the update-manifest overlay of package security versions. *)
(*                                                                         *)
(* Each request is one marble connection.  Activate runs as a sequence of  *)
(* steps, one per store access or check, so that the model shows what the  *)
(* mutex protects: between two steps of one request, other requests, the   *)
(* client API (manifest update, recovery) and a coordinator restart may    *)
(* act unless the mutex keeps them out.  Crypto, certificate contents and  *)
(* templating are abstracted to whether they succeed.                      *)
(***************************************************************************)
EXTENDS Naturals, FiniteSets

CONSTANTS
    Req,             \* marble connections that call Activate
    MarbleType,      \* marble types of the main manifest
    UnknownType,     \* a marble type name the manifest does not declare
    Package,         \* packages of the main manifest
    MarblePackage,   \* Marble.Package of each marble type
    MaxActivations,  \* Marble.MaxActivations (0 = unlimited)
    MainSV,          \* PackageProperties.SecurityVersion in the main manifest
    MaxSV,           \* the largest security version of the model
    Infrastructure,  \* Manifest.Infrastructures (may be empty)
    Platform,        \* platforms a quote may come from
    ZeroInfra,       \* quote.InfrastructureProperties{}: accepts any platform
    SimulationMode,  \* c.inSimulationMode()
    NotSet,          \* an activation counter that was never written
    NoUpdate,        \* a package the update manifest does not mention
    NoHolder,        \* c.mux is free
    MaxCrashes       \* bound on coordinator restarts

SecurityVersion == 0..MaxSV

(* Manifest.Check (part_000): at least one package and one marble, and     *)
(* every marble names a package of the manifest.  Only a checked manifest  *)
(* is ever committed as "main", so this is assumed of the constants.       *)
ManifestCheck ==
    /\ Package # {}
    /\ MarbleType # {}
    /\ MarblePackage \in [MarbleType -> Package]

ASSUME ConstantsAssumption ==
    /\ ManifestCheck
    /\ IsFiniteSet(Req)
    /\ UnknownType \notin MarbleType
    /\ MaxActivations \in [MarbleType -> Nat]
    /\ MaxSV \in Nat
    /\ MainSV \in [Package -> SecurityVersion]
    /\ Platform # {}
    /\ Infrastructure \subseteq Platform
    /\ ZeroInfra \notin Platform
    /\ SimulationMode \in BOOLEAN
    /\ NotSet \notin Nat
    /\ NoUpdate \notin Nat
    /\ NoHolder \notin Req
    /\ MaxCrashes \in Nat

(* An attestation quote: the package it measures, the enclave's security  *)
(* version and the platform it was produced on.                           *)
Quote == [pkg : Package, sv : SecurityVersion, infra : Platform]

(* An ActivationReq together with what the transport supplies.  "defect"  *)
(* is the first thing wrong with it that Activate checks, if any: no peer *)
(* certificate, a UUID that does not parse, a CSR that does not parse or  *)
(* whose signature is wrong.                                              *)
Defect == {"none", "noCert", "badUUID", "badCSR"}
Request == [type : MarbleType \cup {UnknownType}, quote : Quote,
            defect : Defect]

(* The request of a connection that has not sent one. *)
NoRequest == CHOOSE rq \in Request : TRUE

CoordinatorState == {"uninitialized", "acceptingMarbles", "recovery"}

(* Where a request is: "idle" before it connects, "waiting" for c.mux,    *)
(* then one label per step of Activate while it holds c.mux.              *)
Locked == {"verify", "getActivations", "putActivations", "issue",
           "increment", "reply"}
PC == {"idle", "waiting", "done", "failed"} \cup Locked

Code == {"OK", "FailedPrecondition", "Unauthenticated", "InvalidArgument",
         "ResourceExhausted", "Internal", "Unknown", "Unavailable", "None"}

(* A successful activation: who, of which type, the counter value it read *)
(* in the budget check, its quote and the security version in force when  *)
(* the response was sent.                                                  *)
Grant == [marble : Req, type : MarbleType, seen : Nat, quote : Quote,
          sv : SecurityVersion]

VARIABLES
    state,        \* coordinator state (c.data state)
    mux,          \* holder of c.mux
    pc,           \* step of each request
    req,          \* the request each connection sent
    read,         \* activations read by getActivations, per request
    activations,  \* store: activations/<marbleType>
    update,       \* store: manifest "update", security version per package
    outcome,      \* status code returned to each request
    granted,      \* history: every successful activation
    crashes       \* number of coordinator restarts so far

vars == <<state, mux, pc, req, read, activations, update, outcome,
          granted, crashes>>

-----------------------------------------------------------------------------
(* Store facade helpers. *)

(* getActivations with "value unset" read as 0 (marbleapi.go 188-190). *)
Count(m) == IF activations[m] = NotSet THEN 0 ELSE activations[m]

(* The security version the quote must meet: the main manifest's, replaced *)
(* by the update manifest's when it mentions the package (lines 157-166).   *)
EffectiveSV(p) == IF update[p] = NoUpdate THEN MainSV[p] ELSE update[p]

(* qv.Validate: the quote measures the package, is at least at its        *)
(* security version and comes from the infrastructure (ZeroInfra: any).   *)
Validate(q, p, sv, infra) ==
    /\ q.pkg = p
    /\ q.sv >= sv
    /\ infra \in {ZeroInfra, q.infra}

(* Mutant: the update overlay of lines 163-166 is not applied. *)
QuoteAcceptedNoOverlay(q, m) ==
    LET p == MarblePackage[m] IN
    \/ SimulationMode
    \/ Infrastructure = {} /\ Validate(q, p, MainSV[p], ZeroInfra)
    \/ \E i \in Infrastructure : Validate(q, p, MainSV[p], i)

(* The attestation part of verifyManifestRequirement (lines 168-185):     *)
(* skipped in simulation mode, against the zero infrastructure when the   *)
(* manifest lists none, otherwise against each listed infrastructure in   *)
(* map order until one validates.                                          *)
QuoteAccepted(q, m) ==
    LET p == MarblePackage[m] IN
    \/ SimulationMode
    \/ Infrastructure = {} /\ Validate(q, p, EffectiveSV(p), ZeroInfra)
    \/ \E i \in Infrastructure : Validate(q, p, EffectiveSV(p), i)

-----------------------------------------------------------------------------
(* The activation steps of request r. *)

(* Mutant: an error path that returns without unlocking c.mux. *)
FailKeepsLock(r, code) ==
    /\ pc' = [pc EXCEPT ![r] = "failed"]
    /\ outcome' = [outcome EXCEPT ![r] = code]
    /\ UNCHANGED mux

(* An error return from Activate: the deferred c.mux.Unlock() (line 56)   *)
(* releases the mutex.                                                     *)
Fail(r, code) ==
    /\ pc' = [pc EXCEPT ![r] = "failed"]
    /\ outcome' = [outcome EXCEPT ![r] = code]
    /\ mux' = NoHolder

(* A marble connects and calls Activate. *)
Arrive(r) ==
    /\ pc[r] = "idle"
    /\ \E rq \in Request : req' = [req EXCEPT ![r] = rq]
    /\ pc' = [pc EXCEPT ![r] = "waiting"]
    /\ outcome' = [outcome EXCEPT ![r] = "None"]
    /\ UNCHANGED <<state, mux, read, activations, update, granted, crashes>>

(* Mutant: the state is checked without taking c.mux. *)
RequireStateNoLock(r) ==
    /\ pc[r] = "waiting"
    /\ IF state = "acceptingMarbles"
         THEN /\ pc' = [pc EXCEPT ![r] = "verify"]
              /\ UNCHANGED <<mux, outcome>>
         ELSE Fail(r, "FailedPrecondition")
    /\ UNCHANGED <<state, req, read, activations, update, granted, crashes>>

(* Lines 56-59: requireState (core.go) takes c.mux and compares the state; *)
(* any state but acceptingMarbles is FailedPrecondition.                   *)
RequireState(r) ==
    /\ pc[r] = "waiting"
    /\ mux = NoHolder
    /\ IF state = "acceptingMarbles"
         THEN /\ mux' = r
              /\ pc' = [pc EXCEPT ![r] = "verify"]
              /\ UNCHANGED outcome
         ELSE Fail(r, "FailedPrecondition")
    /\ UNCHANGED <<state, req, read, activations, update, granted, crashes>>

(* Lines 61-68 and 142-185: the peer certificate, the marble type and the *)
(* quote against the package policy with the update overlay.              *)
VerifyManifestRequirement(r) ==
    /\ pc[r] = "verify"
    /\ LET rq == req[r] IN
       \/ rq.defect = "noCert" /\ Fail(r, "Unauthenticated")
       \/ /\ rq.defect # "noCert"
          /\ rq.type = UnknownType
          /\ Fail(r, "InvalidArgument")
       \/ /\ rq.defect # "noCert"
          /\ rq.type \in MarbleType
          /\ ~QuoteAccepted(rq.quote, rq.type)
          /\ Fail(r, "Unauthenticated")
       \/ /\ rq.defect # "noCert"
          /\ rq.type \in MarbleType
          /\ QuoteAccepted(rq.quote, rq.type)
          /\ pc' = [pc EXCEPT ![r] = "getActivations"]
          /\ UNCHANGED <<mux, outcome>>
    /\ UNCHANGED <<state, req, read, activations, update, granted, crashes>>

(* Mutant: the "value unset" case of line 189 is not handled. *)
GetActivationsNoUnsetDefault(r) ==
    /\ pc[r] = "getActivations"
    /\ read' = [read EXCEPT ![r] = activations[req[r].type]]
    /\ pc' = [pc EXCEPT ![r] = "putActivations"]
    /\ UNCHANGED <<state, mux, req, activations, update, outcome, granted,
                   crashes>>

(* Lines 188-193: read the counter; unset counts as 0. *)
GetActivations(r) ==
    /\ pc[r] = "getActivations"
    /\ read' = [read EXCEPT ![r] = Count(req[r].type)]
    /\ pc' = [pc EXCEPT ![r] = "putActivations"]
    /\ UNCHANGED <<state, mux, req, activations, update, outcome, granted,
                   crashes>>

(* Mutant: the budget check is off by one (">" for ">="). *)
PutActivationsOffByOne(r) ==
    /\ pc[r] = "putActivations"
    /\ LET m == req[r].type IN
       \/ /\ Fail(r, "Internal")
          /\ UNCHANGED activations
       \/ /\ activations' = [activations EXCEPT ![m] = read[r]]
          /\ IF MaxActivations[m] > 0 /\ read[r] > MaxActivations[m]
               THEN Fail(r, "ResourceExhausted")
               ELSE /\ pc' = [pc EXCEPT ![r] = "issue"]
                    /\ UNCHANGED <<mux, outcome>>
    /\ UNCHANGED <<state, req, read, update, granted, crashes>>

(* Mutant: the seed writes 0 instead of the value read. *)
PutActivationsSeedZero(r) ==
    /\ pc[r] = "putActivations"
    /\ LET m == req[r].type IN
       \/ /\ Fail(r, "Internal")
          /\ UNCHANGED activations
       \/ /\ activations' = [activations EXCEPT ![m] = 0]
          /\ IF MaxActivations[m] > 0 /\ read[r] >= MaxActivations[m]
               THEN Fail(r, "ResourceExhausted")
               ELSE /\ pc' = [pc EXCEPT ![r] = "issue"]
                    /\ UNCHANGED <<mux, outcome>>
    /\ UNCHANGED <<state, req, read, update, granted, crashes>>

(* Lines 194-200: write the value read back (the seed), which may fail,   *)
(* then the budget check: MaxActivations = 0 means unlimited.             *)
PutActivations(r) ==
    /\ pc[r] = "putActivations"
    /\ LET m == req[r].type IN
       \/ /\ Fail(r, "Internal")
          /\ UNCHANGED activations
       \/ /\ activations' = [activations EXCEPT ![m] = read[r]]
          /\ IF MaxActivations[m] > 0 /\ read[r] >= MaxActivations[m]
               THEN Fail(r, "ResourceExhausted")
               ELSE /\ pc' = [pc EXCEPT ![r] = "issue"]
                    /\ UNCHANGED <<mux, outcome>>
    /\ UNCHANGED <<state, req, read, update, granted, crashes>>

(* Lines 70-130: parse the UUID (its error is returned as is, which gRPC  *)
(* reports as Unknown), generate the marble's key, seal key and           *)
(* certificate from the CSR (an unparsable or badly signed CSR is         *)
(* InvalidArgument), then the user secrets, the TTLS configuration and    *)
(* the customised parameters.                                             *)
IssueSecrets(r) ==
    /\ pc[r] = "issue"
    /\ \/ req[r].defect = "badUUID" /\ Fail(r, "Unknown")
       \/ req[r].defect = "badCSR" /\ Fail(r, "InvalidArgument")
       \/ /\ req[r].defect \notin {"badUUID", "badCSR"}
          /\ pc' = [pc EXCEPT ![r] = "increment"]
          /\ UNCHANGED <<mux, outcome>>
    /\ UNCHANGED <<state, req, read, activations, update, granted, crashes>>

(* Mutant: a failed increment is logged and the activation goes on, as  *)
(* the failed getPrivK("intermediate") of lines 86-89 is.                 *)
IncrementActivationsIgnoreError(r) ==
    /\ pc[r] = "increment"
    /\ LET m == req[r].type IN
       \/ /\ UNCHANGED activations
          /\ pc' = [pc EXCEPT ![r] = "reply"]
       \/ /\ activations' = [activations EXCEPT ![m] = Count(m) + 1]
          /\ pc' = [pc EXCEPT ![r] = "reply"]
    /\ UNCHANGED <<state, mux, req, read, update, outcome, granted, crashes>>

(* Lines 132-135: store.incrementActivations, whose write may fail. *)
IncrementActivations(r) ==
    /\ pc[r] = "increment"
    /\ LET m == req[r].type IN
       \/ /\ Fail(r, "Internal")
          /\ UNCHANGED activations
       \/ /\ activations' = [activations EXCEPT ![m] = Count(m) + 1]
          /\ pc' = [pc EXCEPT ![r] = "reply"]
          /\ UNCHANGED <<mux, outcome>>
    /\ UNCHANGED <<state, req, read, update, granted, crashes>>

(* Lines 137-138: the response leaves and the deferred Unlock runs. *)
Reply(r) ==
    /\ pc[r] = "reply"
    /\ pc' = [pc EXCEPT ![r] = "done"]
    /\ outcome' = [outcome EXCEPT ![r] = "OK"]
    /\ mux' = NoHolder
    /\ granted' = granted \cup
         {[marble |-> r, type |-> req[r].type, seen |-> read[r],
           quote |-> req[r].quote,
           sv |-> EffectiveSV(MarblePackage[req[r].type])]}
    /\ UNCHANGED <<state, req, read, activations, update, crashes>>

(* A marble whose activation failed is restarted and connects again; what *)
(* its earlier request carried is forgotten.                              *)
Retry(r) ==
    /\ pc[r] = "failed"
    /\ pc' = [pc EXCEPT ![r] = "idle"]
    /\ req' = [req EXCEPT ![r] = NoRequest]
    /\ read' = [read EXCEPT ![r] = 0]
    /\ outcome' = [outcome EXCEPT ![r] = "None"]
    /\ UNCHANGED <<state, mux, activations, update, granted, crashes>>

-----------------------------------------------------------------------------
(* The client API and the process lifecycle (core.go, clientapi.go: not   *)
(* in this tree; modelled from the specification).  Each takes c.mux for  *)
(* its whole run, so it is one step taken while the mutex is free.        *)

(* SetManifest: the first checked manifest is committed. *)
SetManifest ==
    /\ state = "uninitialized"
    /\ mux = NoHolder
    /\ state' = "acceptingMarbles"
    /\ UNCHANGED <<mux, pc, req, read, activations, update, outcome,
                   granted, crashes>>

(* UpdateManifest: the update manifest raises a package's security version. *)
UpdateManifest(p, sv) ==
    /\ state = "acceptingMarbles"
    /\ mux = NoHolder
    /\ sv > EffectiveSV(p)
    /\ update' = [update EXCEPT ![p] = sv]
    /\ UNCHANGED <<state, mux, pc, req, read, activations, outcome,
                   granted, crashes>>

(* Recover: the sealed state is recovered with the recovery key. *)
Recover ==
    /\ state = "recovery"
    /\ mux = NoHolder
    /\ state' = "acceptingMarbles"
    /\ UNCHANGED <<mux, pc, req, read, activations, update, outcome,
                   granted, crashes>>

(* The coordinator process dies and restarts.  Store writes persist; the  *)
(* mutex and every activation in progress are lost; a committed manifest  *)
(* is unsealed again, or the coordinator waits for recovery.              *)
Restart ==
    /\ crashes < MaxCrashes
    /\ crashes' = crashes + 1
    /\ state' \in IF state = "uninitialized" THEN {"uninitialized"}
                  ELSE {"acceptingMarbles", "recovery"}
    /\ mux' = NoHolder
    /\ pc' = [r \in Req |-> IF pc[r] \in Locked \cup {"waiting"}
                              THEN "failed" ELSE pc[r]]
    /\ outcome' = [r \in Req |-> IF pc[r] \in Locked \cup {"waiting"}
                                   THEN "Unavailable" ELSE outcome[r]]
    /\ UNCHANGED <<req, read, activations, update, granted>>

-----------------------------------------------------------------------------
Init ==
    /\ state = "uninitialized"
    /\ mux = NoHolder
    /\ pc = [r \in Req |-> "idle"]
    /\ req = [r \in Req |-> NoRequest]
    /\ read = [r \in Req |-> 0]
    /\ activations = [m \in MarbleType |-> NotSet]
    /\ update = [p \in Package |-> NoUpdate]
    /\ outcome = [r \in Req |-> "None"]
    /\ granted = {}
    /\ crashes = 0

Activate(r) ==
    \/ RequireState(r)
    \/ VerifyManifestRequirement(r)
    \/ GetActivations(r)
    \/ PutActivations(r)
    \/ IssueSecrets(r)
    \/ IncrementActivations(r)
    \/ Reply(r)

Next ==
    \/ \E r \in Req : Arrive(r) \/ Activate(r) \/ Retry(r)
    \/ SetManifest
    \/ \E p \in Package, sv \in SecurityVersion : UpdateManifest(p, sv)
    \/ Recover
    \/ Restart

(* Go's sync.Mutex hands the lock to a waiter that has waited over 1ms    *)
(* (starvation mode), so a request that keeps finding the mutex free gets *)
(* it: strong fairness for RequireState.  Every later step is local work  *)
(* or a store access under the mutex: weak fairness.                      *)
Fairness ==
    \A r \in Req :
        /\ SF_vars(RequireState(r))
        /\ WF_vars(VerifyManifestRequirement(r) \/ GetActivations(r)
                   \/ PutActivations(r) \/ IssueSecrets(r)
                   \/ IncrementActivations(r) \/ Reply(r))

Spec == Init /\ [][Next]_vars
FairSpec == Spec /\ Fairness

-----------------------------------------------------------------------------
(* Properties *)

TypeOK ==
    /\ state \in CoordinatorState
    /\ mux \in Req \cup {NoHolder}
    /\ pc \in [Req -> PC]
    /\ req \in [Req -> Request]
    /\ read \in [Req -> Nat]
    /\ activations \in [MarbleType -> Nat \cup {NotSet}]
    /\ update \in [Package -> SecurityVersion \cup {NoUpdate}]
    /\ outcome \in [Req -> Code]
    /\ granted \subseteq Grant
    /\ crashes \in 0..MaxCrashes

GrantsOf(m) == {g \in granted : g.type = m}

(* The activation budget (verifyManifestRequirement lines 197-199): the   *)
(* persisted counter of a marble type with MaxActivations = k > 0 never   *)
(* exceeds k, however requests, failures and restarts interleave.         *)
ActivationBudget ==
    \A m \in MarbleType :
        MaxActivations[m] > 0 => Count(m) <= MaxActivations[m]

(* Every activation that returned parameters to a marble is counted in    *)
(* the persisted counter of its type (incrementActivations, line 132,     *)
(* precedes the response), so together with ActivationBudget no more     *)
(* than MaxActivations marbles of a type are ever admitted.               *)
GrantsCounted ==
    \A m \in MarbleType : Cardinality(GrantsOf(m)) <= Count(m)

(* Any two successful activations of one type read different counter     *)
(* values in their budget check: the read-check-increment sequence of     *)
(* lines 188-199 and 132 is atomic with respect to other activations.     *)
DistinctTickets ==
    \A g1, g2 \in granted :
        g1.type = g2.type /\ g1 # g2 => g1.seen # g2.seen

(* Every marble admitted outside simulation mode had a quote for its      *)
(* package at the security version in force when it was answered (main    *)
(* manifest, raised by the update manifest) from an accepted platform.    *)
PolicyRespected ==
    ~SimulationMode =>
        \A g \in granted :
            /\ g.quote.pkg = MarblePackage[g.type]
            /\ g.quote.sv >= g.sv
            /\ Infrastructure = {} \/ g.quote.infra \in Infrastructure

(* A persisted activation counter never goes down and moves by at most   *)
(* one per step: the seed write of line 194 never overwrites a newer      *)
(* value.                                                                 *)
CounterMonotone ==
    [][\A m \in MarbleType : Count(m)' \in {Count(m), Count(m) + 1}]_vars

(* Every error a marble receives is one of the status codes of the       *)
(* specification (section 6), or Unavailable when the coordinator died    *)
(* under it.                                                              *)
StatusCodesPerSpec ==
    \A r \in Req :
        pc[r] = "failed" =>
            outcome[r] \in {"FailedPrecondition", "Unauthenticated",
                            "InvalidArgument", "ResourceExhausted",
                            "Internal", "Unavailable"}

(* Every marble that has connected eventually gets an answer: the mutex   *)
(* is released on every path out of Activate.                             *)
EveryRequestAnswered ==
    \A r \in Req : pc[r] = "waiting" ~> pc[r] \in {"done", "failed"}

-----------------------------------------------------------------------------
(* The abstract service: the counters read through getActivations' unset  *)
(* default, the mutex, the steps in progress and the restarts hidden.     *)
Atomic == INSTANCE AtomicActivation
              WITH activations <- [m \in MarbleType |-> Count(m)]

(* Activate implements the atomic service: every step of the detailed     *)
(* model is a Consume (incrementActivations, line 132, below the budget   *)
(* checked at line 197), an Admit (the response of line 138 on the ticket *)
(* read at line 188, under the policy checked at lines 168-185), a client *)
(* API call or restart, or leaves the abstract state unchanged.           *)
RefinesAtomic == Atomic!Spec
=============================================================================
