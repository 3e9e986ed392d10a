------------------------- MODULE ParametersProofs --------------------------
(***************************************************************************)
(* Proofs about the parameter delivery of Activate, for every manifest:    *)
(* the reserved EDG_* variables of a delivered Env are the Coordinator's,  *)
(* and a marble with TLS tags receives the assembled MARBLE_TTLS_CONFIG.   *)
(*                                                                         *)
(* Neither is inductive as stated: both talk about the Env once pc is      *)
(* "done", and what makes them true is how that Env was built.  The        *)
(* strengthening records it:                                               *)
(*   - once delivered, the Env is the reserved variables laid over the     *)
(*     expanded Env of the manifest (with the TTLS JSON if it was set);    *)
(*   - from customizeParameters on, the TTLS JSON is in the Env whenever   *)
(*     the marble has tags, and the configuration is the one assembled    *)
(*     from its tags over the secrets, which no later step changes.       *)
(***************************************************************************)
EXTENDS Parameters, WellFoundedInduction, SequenceTheorems, TLAPS

(* The Env that customizeParameters delivers. *)
Delivered == WithReserved(ExpandAll(EnvIn(marble, ttlsInEnv), secrets))

(* The user secrets generated for the marble, and all it declares.       *)
Generated(m) == {n \in SecretNames : m.secrets[n] \in {"unique", "uniqueCert"}}
Declared(m)  == {n \in SecretNames : m.secrets[n] # "none"}

IInv ==
    /\ marble \in Marbles
    /\ pc = "mergeShared" => secrets = Generated(marble)
    /\ pc \in {"ttls", "customize", "done"} => secrets = Declared(marble)
    /\ pc = "done" => /\ files = ExpandAll(marble.files, secrets)
                     /\ ~TemplateFails(marble, ttlsInEnv, secrets)
    /\ marble.tls = <<>> => ttls = NoTTLS
    /\ pc = "done" => env = Delivered
    /\ pc \in {"customize", "done"} /\ marble.tls # <<>> => ttlsInEnv
    /\ pc \in {"customize", "done"} /\ marble.tls # <<>> => ttls = TTLSConfig(marble, secrets)
    /\ cause = "template" =>
          /\ pc = "failed"
          /\ secrets = Declared(marble)
          /\ TemplateFails(marble, ttlsInEnv, secrets)

(* Each reserved variable, read back from an Env they are written over.   *)
LEMMA ReservedOverlay ==
    ASSUME NEW g, NEW e \in {EdgCA, EdgCertChain, EdgPrivKey}
    PROVE  e \in DOMAIN WithReserved(g) /\ WithReserved(g)[e] = ReservedEnv[e]
BY DEF WithReserved, ReservedEnv

(* With the TTLS JSON in the Env, the delivered Env holds its expansion.  *)
LEMMA TTLSOverlay ==
    ASSUME NEW m, NEW us
    PROVE  /\ TTLSEnv \in DOMAIN WithReserved(ExpandAll(EnvIn(m, TRUE), us))
           /\ WithReserved(ExpandAll(EnvIn(m, TRUE), us))[TTLSEnv]
                 = [fn |-> "json", id |-> "ttls"]
<1>1. TTLSEnv \in DOMAIN EnvIn(m, TRUE) /\ EnvIn(m, TRUE)[TTLSEnv] = JSONTmpl
  BY DEF EnvIn
<1>2. /\ TTLSEnv \in DOMAIN ExpandAll(EnvIn(m, TRUE), us)
      /\ ExpandAll(EnvIn(m, TRUE), us)[TTLSEnv] = [fn |-> "json", id |-> "ttls"]
  BY <1>1 DEF ExpandAll, Expand
<1>3. TTLSEnv \notin DOMAIN ReservedEnv
  BY DEF ReservedEnv, EdgCA, EdgCertChain, EdgPrivKey, TTLSEnv
<1>. QED  BY <1>2, <1>3 DEF WithReserved

(* The TTLS JSON is no template action. *)
LEMMA JSONKind == JSONTmpl.kind = "json"
BY Zenon DEF JSONTmpl

(* A path resolves alike over two maps that agree on the secret it names: *)
(* text/template looks up only that name (secretsWrapper, lines 40-44).   *)
LEMMA DatumAgree ==
    ASSUME NEW r \in Refs, NEW us, NEW vs,
           \A n \in SecretNames : r \in SecretRefs(n) => (n \in us <=> n \in vs)
    PROVE  Datum(r, us) = Datum(r, vs)
<1>1. CASE r \in MarblerunRefs
  BY <1>1, Zenon DEF Datum, MarblerunRefs
<1>2. CASE r \notin MarblerunRefs
  <2>1. PICK n \in SecretNames : r \in SecretRefs(n)
    BY <1>2 DEF Refs
  <2>2. (CHOOSE x \in SecretNames : r \in SecretRefs(x)) = n
    BY <2>1, SecretPaths
  <2>3. \A x : Datum(r, x) = UserDatum(r, x)
    <3>1. r \notin {"Marblerun.RootCA.Cert", "Marblerun.MarbleCert.Cert",
                    "Marblerun.MarbleCert.Private", "Marblerun.MarbleCert.Public",
                    "Marblerun.SealKey", "Marblerun.SealKey.Public"}
      BY <1>2 DEF MarblerunRefs
    <3>. QED
      BY <3>1, Zenon DEF Datum
  <2>4. UserDatum(r, us) = UserDatum(r, vs)
    <3>1. n \in us <=> n \in vs
      BY <2>1
    <3>2. CASE n \in us
      <4> DEFINE C == CASE r = "Secrets." \o n               -> [type |-> "Secret",      id |-> n]
                        [] r = "Secrets." \o n \o ".Cert"    -> [type |-> "Certificate", id |-> n \o ".cert"]
                        [] r = "Secrets." \o n \o ".Private" -> [type |-> "PrivateKey",  id |-> n \o ".key"]
                        [] OTHER                              -> [type |-> "PublicKey",   id |-> n \o ".pub"]
      <4>1. UserDatum(r, us) = C
        BY <2>2, <3>2 DEF UserDatum
      <4>2. UserDatum(r, vs) = C
        BY <2>2, <3>1, <3>2 DEF UserDatum
      <4>. QED
        BY <4>1, <4>2
    <3>3. CASE n \notin us
      BY <2>2, <3>1, <3>3, Zenon DEF UserDatum
    <3>. QED
      BY <3>2, <3>3
  <2>. QED
    BY <2>3, <2>4
<1>. QED
  BY <1>1, <1>2

(* A template the manifest makes good expands over a map that holds every *)
(* secret the marble declares (parseSecrets, lines 310-323).              *)
LEMMA ResolvableExpands ==
    ASSUME NEW m \in Marbles, NEW t \in Templates(m), Resolvable(m, t),
           NEW us, \A n \in SecretNames : m.secrets[n] # "none" => n \in us
    PROVE  Expand(t, us).ok
<1>1. t \in Tmpl
  BY MarblesAssumption DEF IsMarble, Templates
<1>2. Expand(t, us) = ParseSecrets(t, us)
  <2>1. t # JSONTmpl
    BY <1>1, JSONKind DEF Tmpl
  <2>. QED
    BY <2>1 DEF Expand
<1>3. CASE t.kind = "text"
  <2>1. ParseSecrets(t, us) = [ok |-> TRUE, val |-> TextVal]
    BY <1>3, Zenon DEF ParseSecrets
  <2>. QED
    BY <1>2, <2>1
<1>4. CASE t.kind # "text"
  <2>1. /\ t.kind = "action"
        /\ \/ t.ref \in MarblerunRefs
           \/ \E n \in SecretNames : t.ref \in SecretRefs(n) /\ m.secrets[n] # "none"
        /\ Encode(t.fn, Datum(t.ref, SecretNames)).ok
    BY <1>4 DEF Resolvable
  <2>2. t.ref \in Refs
    BY <1>1, <2>1 DEF Tmpl
  <2>3. \A n \in SecretNames : t.ref \in SecretRefs(n) => (n \in us <=> n \in SecretNames)
    <3> TAKE n \in SecretNames
    <3> HAVE t.ref \in SecretRefs(n)
    <3>1. t.ref \notin MarblerunRefs
      BY SecretPaths
    <3>2. PICK n0 \in SecretNames : t.ref \in SecretRefs(n0) /\ m.secrets[n0] # "none"
      BY <2>1, <3>1
    <3>3. n0 = n
      BY <3>2, SecretPaths
    <3>. QED
      BY <3>2, <3>3
  <2>4. Datum(t.ref, us) = Datum(t.ref, SecretNames)
    BY <2>2, <2>3, DatumAgree
  <2>5. ParseSecrets(t, us) = Encode(t.fn, Datum(t.ref, us))
    BY <2>1, Zenon DEF ParseSecrets
  <2>. QED
    BY <1>2, <2>1, <2>4, <2>5
<1>. QED
  BY <1>3, <1>4

(* A non-empty bounded set of naturals has a greatest element.            *)
LEMMA NatSetHasMax ==
    ASSUME NEW S \in SUBSET Nat, S # {}, NEW b \in Nat, \A s \in S : s <= b
    PROVE  \E x \in S : \A y \in S : y <= x
<1> DEFINE T == {b - s : s \in S}
<1>1. T \subseteq Nat /\ T # {}
  <2>1. \A s \in S : b - s \in Nat
    OBVIOUS
  <2>2. PICK s1 \in S : TRUE
    OBVIOUS
  <2>. QED
    BY <2>1, <2>2, Zenon
<1>2. PICK x0 \in T : \A y \in T : ~(<<y, x0>> \in OpToRel(<, Nat))
  BY <1>1, NatLessThanWellFounded, WFMin
<1>3. \A y \in T : ~(y < x0)
  BY <1>1, <1>2 DEF OpToRel
<1>4. PICK s0 \in S : x0 = b - s0
  BY <1>2
<1>5. \A y \in S : y <= s0
  <2> TAKE y \in S
  <2>1. b - y \in T
    OBVIOUS
  <2>. QED
    BY <1>3, <1>4, <2>1
<1>. QED
  BY <1>4, <1>5

(* setTTLSConfig's loop leaves, for every declared port, the entry of the *)
(* last tag and last position that declares it (lines 411-440): that      *)
(* entry exists.                                                          *)
LEMMA LastIncomingIn ==
    ASSUME NEW m \in Marbles, NEW p \in DeclaredPorts(m)
    PROVE  /\ LastIncoming(m, p) \in InPositions(m)
           /\ InAt(m, LastIncoming(m, p)).port = p
<1> DEFINE P      == {pos \in InPositions(m) : InAt(m, pos).port = p}
           Inc(i) == m.tlsDefs[m.tls[i]].incoming
           Last(pos) == \A q \in P : q[1] < pos[1] \/ (q[1] = pos[1] /\ q[2] <= pos[2])
<1>1. /\ m.tls \in Seq(Tags)
      /\ \A i \in 1..Len(m.tls) : Inc(i) \in Seq(InEntry)
  BY MarblesAssumption DEF IsMarble, TLSTag
<1>2. /\ P # {}
      /\ \A pos \in P : \E i \in 1..Len(m.tls) : \E j \in 1..Len(Inc(i)) : pos = <<i, j>>
  BY DEF DeclaredPorts, InPositions
<1>3. PICK i0 \in {pos[1] : pos \in P} : \A y \in {pos[1] : pos \in P} : y <= i0
  <2>1. /\ {pos[1] : pos \in P} # {}
        /\ {pos[1] : pos \in P} \subseteq Nat
        /\ \A y \in {pos[1] : pos \in P} : y <= Len(m.tls)
    BY <1>1, <1>2
  <2>2. Len(m.tls) \in Nat
    BY <1>1
  <2> HIDE DEF P
  <2>. QED
    BY <2>1, <2>2, NatSetHasMax
<1>4. i0 \in 1..Len(m.tls)
  BY <1>2, <1>3
<1>5. PICK j0 \in {pos[2] : pos \in {q \in P : q[1] = i0}} :
        \A y \in {pos[2] : pos \in {q \in P : q[1] = i0}} : y <= j0
  <2>1. {pos[2] : pos \in {q \in P : q[1] = i0}} # {}
    BY <1>3
  <2>2. \A q \in P : q[1] = i0 => q[2] \in Nat /\ q[2] <= Len(Inc(i0))
    BY <1>2
  <2>3. Len(Inc(i0)) \in Nat
    <3>1. Inc(i0) \in Seq(InEntry)
      BY <1>1, <1>4
    <3>. QED
      BY <3>1, LenProperties
  <2> HIDE DEF P, Inc
  <2>4. /\ {pos[2] : pos \in {q \in P : q[1] = i0}} \subseteq Nat
        /\ \A y \in {pos[2] : pos \in {q \in P : q[1] = i0}} : y <= Len(Inc(i0))
    BY <2>2
  <2>. QED
    BY <2>1, <2>3, <2>4, NatSetHasMax
<1>6. <<i0, j0>> \in P /\ Last(<<i0, j0>>)
  <2>1. PICK q0 \in P : q0[1] = i0 /\ q0[2] = j0
    BY <1>5
  <2>2. q0 = <<i0, j0>>
    BY <1>2, <2>1
  <2>3. \A q \in P : q[1] <= i0
    BY <1>3
  <2>4. \A q \in P : q[1] = i0 => q[2] <= j0
    BY <1>5
  <2>5. \A q \in P : q[1] \in Nat /\ q[2] \in Nat
    BY <1>2
  <2>. QED
    BY <2>1, <2>2, <2>3, <2>4, <2>5, <1>4 DEF Last
<1>7. LastIncoming(m, p) \in P
  BY <1>6 DEF LastIncoming
<1>. QED
  BY <1>7

(* An Incoming entry of the marble's tags is a well-formed entry.        *)
LEMMA InAtType ==
    ASSUME NEW m \in Marbles, NEW pos \in InPositions(m)
    PROVE  InAt(m, pos) \in InEntry
<1>1. PICK i \in 1..Len(m.tls) : pos[1] = i /\ pos[2] \in 1..Len(m.tlsDefs[m.tls[i]].incoming)
  BY DEF InPositions
<1>2. m.tls \in Seq(Tags) /\ m.tlsDefs \in [Tags -> TLSTag]
  BY MarblesAssumption DEF IsMarble
<1>3. m.tls[i] \in Tags
  BY <1>1, <1>2, LenProperties
<1>4. m.tlsDefs[m.tls[i]].incoming \in Seq(InEntry)
  BY <1>2, <1>3 DEF TLSTag
<1>. QED
  BY <1>1, <1>4, LenProperties DEF InAt

LEMMA InitIInv == Init => IInv
BY DEF Init, IInv, NoTTLS

LEMMA StepIInv == IInv /\ [Next]_vars => IInv'
<1> SUFFICES ASSUME IInv, [Next]_vars PROVE IInv'
  OBVIOUS
<1>1. CASE GenerateMarbleAuthSecrets
  BY <1>1 DEF GenerateMarbleAuthSecrets, Fail, IInv
<1>2. CASE LoadIssuer
  BY <1>2 DEF LoadIssuer, Fail, IInv
<1>3. CASE GenerateSecrets
  BY <1>3 DEF GenerateSecrets, Fail, IInv, Generated
<1>4. CASE MergeShared
  <2>1. \A n \in SecretNames : marble.secrets[n] \in SecretDecl
    BY MarblesAssumption DEF IInv, IsMarble
  <2>2. pc' = "ttls" => secrets' = Declared(marble)
    BY <1>4, <2>1 DEF MergeShared, Fail, IInv, Generated, Declared, SecretDecl
  <2>. QED
    BY <1>4, <2>2 DEF MergeShared, Fail, IInv
<1>5. CASE SetTTLSConfig
  BY <1>5 DEF SetTTLSConfig, Fail, IInv
<1>6. CASE CustomizeParameters
  BY <1>6 DEF CustomizeParameters, Fail, IInv, Delivered
<1>7. CASE UNCHANGED vars
  BY <1>7 DEF vars, IInv, Delivered
<1>. QED  BY <1>1, <1>2, <1>3, <1>4, <1>5, <1>6, <1>7 DEF Next

THEOREM InvariantHolds == Spec => []IInv
BY InitIInv, StepIInv, PTL DEF Spec

(* Section 8.7: a delivered Env holds the Coordinator's EDG_CA,           *)
(* EDG_CERT_CHAIN and EDG_PRIVATE_KEY whatever the manifest's Env says     *)
(* (customizeParameters writes them after its template loop).             *)
THEOREM ReservedWin == Spec => []ReservedEnvWins
<1>1. IInv => ReservedEnvWins
  BY ReservedOverlay DEF IInv, ReservedEnvWins, Delivered
<1>. QED  BY <1>1, InvariantHolds, PTL

(* A marble with TLS tags is delivered MARBLE_TTLS_CONFIG as the JSON      *)
(* setTTLSConfig assembled, even when its manifest Env sets that name      *)
(* (the write at line 452 replaces the manifest's value before templating).*)
THEOREM TTLSEnvDelivered ==
    Spec => [](pc = "done" /\ marble.tls # <<>> =>
                  TTLSEnv \in DOMAIN env /\ env[TTLSEnv] = [fn |-> "json", id |-> "ttls"])
<1>1. IInv => (pc = "done" /\ marble.tls # <<>> =>
                  TTLSEnv \in DOMAIN env /\ env[TTLSEnv] = [fn |-> "json", id |-> "ttls"])
  BY TTLSOverlay DEF IInv, Delivered
<1>. QED  BY <1>1, InvariantHolds, PTL

(* A marble with TLS tags is delivered the configuration of all its        *)
(* endpoints: one Incoming entry per declared port and every Outgoing      *)
(* address (setTTLSConfig, lines 407-441), in MARBLE_TTLS_CONFIG.          *)
THEOREM TTLSDeliveredHolds == Spec => []TTLSDelivered
<1>1. ASSUME NEW m, NEW us
      PROVE  /\ DOMAIN TTLSConfig(m, us).incoming = DeclaredPorts(m)
             /\ TTLSConfig(m, us).outgoing = DeclaredOutgoing(m)
  BY Zenon DEF TTLSConfig, DeclaredPorts, DeclaredOutgoing
<1>2. IInv => TTLSDelivered
  <2> SUFFICES ASSUME IInv, pc = "done", marble.tls # <<>>
               PROVE  /\ TTLSEnv \in DOMAIN env
                      /\ env[TTLSEnv] = [fn |-> "json", id |-> "ttls"]
                      /\ ttls = TTLSConfig(marble, secrets)
    BY <1>1 DEF TTLSDelivered
  <2>. QED
    BY TTLSOverlay DEF IInv, Delivered
<1>. QED  BY <1>2, InvariantHolds, PTL
(* An activation fails on a template only when a template of the manifest *)
(* is at fault, for every manifest: the unique secrets generated at line  *)
(* 96 survive the merge with the shared ones (lines 103-109), so the map  *)
(* holds every declared name when the templates are executed (lines       *)
(* 268-290); and setTTLSConfig finds the certificate of every Incoming   *)
(* entry that names a declared secret (line 422).                          *)
THEOREM SecretsResolvedHolds == Spec => []SecretsResolved
<1>1. IInv => SecretsResolved
  <2> SUFFICES ASSUME IInv
               PROVE  /\ (pc = "failed" /\ cause = "template") =>
                             \E t \in Templates(marble) : ~Resolvable(marble, t)
                      /\ (pc = "done" /\ CertsDeclared(marble)) =>
                             \A p \in DOMAIN ttls.incoming : ttls.incoming[p].clicrt \notin ZeroIds
    BY DEF SecretsResolved
  <2>1. marble \in Marbles
    BY DEF IInv
  <2>2. \A n \in SecretNames : marble.secrets[n] # "none" => n \in Declared(marble)
    BY DEF Declared
  <2>3. IsMarble(marble)
    BY <2>1, MarblesAssumption
  <2>4. ASSUME cause = "template", \A t \in Templates(marble) : Resolvable(marble, t)
        PROVE  FALSE
    <3>1. secrets = Declared(marble) /\ TemplateFails(marble, ttlsInEnv, secrets)
      BY <2>4 DEF IInv
    <3>2. \A t \in Templates(marble) : Expand(t, Declared(marble)).ok
      BY <2>1, <2>2, <2>4, ResolvableExpands
    <3>3. \A f \in DOMAIN marble.files : Expand(marble.files[f], secrets).ok
      BY <3>1, <3>2 DEF Templates
    <3>4. \A e \in DOMAIN EnvIn(marble, ttlsInEnv) : Expand(EnvIn(marble, ttlsInEnv)[e], secrets).ok
      <4> TAKE e \in DOMAIN EnvIn(marble, ttlsInEnv)
      <4>1. \/ EnvIn(marble, ttlsInEnv)[e] = JSONTmpl
            \/ e \in DOMAIN marble.env /\ EnvIn(marble, ttlsInEnv)[e] = marble.env[e]
        BY DEF EnvIn
      <4>2. Expand(JSONTmpl, secrets).ok
        BY DEF Expand
      <4>3. ASSUME e \in DOMAIN marble.env PROVE Expand(marble.env[e], secrets).ok
        BY <3>1, <3>2, <4>3 DEF Templates
      <4>. QED
        BY <4>1, <4>2, <4>3
    <3>. QED
      BY <3>1, <3>3, <3>4 DEF TemplateFails
  <2>5. (pc = "failed" /\ cause = "template") =>
           \E t \in Templates(marble) : ~Resolvable(marble, t)
    BY <2>4
  <2>7. ASSUME pc = "done", CertsDeclared(marble)
        PROVE  \A p \in DOMAIN ttls.incoming : ttls.incoming[p].clicrt \notin ZeroIds
    <3>0. secrets = Declared(marble)
      BY <2>7 DEF IInv
    <3>1. CASE marble.tls = <<>>
      BY <3>1 DEF IInv, NoTTLS
    <3>2. CASE marble.tls # <<>>
      <4> TAKE p \in DOMAIN ttls.incoming
      <4>3. ttls = TTLSConfig(marble, secrets)
        BY <2>7, <3>2 DEF IInv
      <4>4. p \in DeclaredPorts(marble)
        BY <4>3, Zenon DEF TTLSConfig, DeclaredPorts
      <4> DEFINE e == InAt(marble, LastIncoming(marble, p))
      <4>5. LastIncoming(marble, p) \in InPositions(marble)
        BY <2>1, <4>4, LastIncomingIn
      <4>6. e \in InEntry
        BY <2>1, <4>5, InAtType
      <4>7. e.cert # "" => e.cert \in secrets
        BY <2>7, <3>0, <4>5, <4>6 DEF CertsDeclared, Declared, InEntry
      <4>8. ttls.incoming[p] = InConf(IF e.cert \in secrets \/ e.cert = "" THEN e
                                      ELSE [e EXCEPT !.cert = "zero"])
        BY <4>3, <4>4, Zenon DEF TTLSConfig, DeclaredPorts
      <4>9. ttls.incoming[p] = InConf(e)
        BY <4>7, <4>8, Zenon
      <4>10. CASE e.cert # ""
        <5>1. InConf(e).clicrt = e.cert \o ".cert"
          BY <4>10, Zenon DEF InConf
        <5>2. e.cert \in SecretNames
          BY <3>0, <4>7, <4>10 DEF Declared
        <5>. QED
          BY <4>9, <5>1, <5>2, SecretPaths
      <4>11. CASE e.cert = ""
        <5>1. InConf(e).clicrt = "leaf"
          BY <4>11, Zenon DEF InConf
        <5>. QED
          BY <4>9, <5>1 DEF ZeroIds
      <4>. QED
        BY <4>10, <4>11
    <3>. QED
      BY <3>1, <3>2
  <2>. QED
    BY <2>5, <2>7
<1>. QED  BY <1>1, InvariantHolds, PTL

-----------------------------------------------------------------------------
(* Types of the delivered values.                                          *)

(* What Ids holds, so that no proof needs to expand it.                   *)
LEMMA IdsParts ==
    /\ "" \in Ids /\ "ttls" \in Ids /\ CoordinatorIds \subseteq Ids
    /\ \A b \in SecretNames \cup {"seal"} : SecretIds(b) \subseteq Ids
BY Zenon DEF Ids

(* Every path reaches a datum with one of the identities of Ids; a datum  *)
(* of type Secret is a user secret or the seal key; a name missing from  *)
(* the map gives nil                                                      *)
(* (secretsWrapper, lines 40-44; the reserved secrets, lines 364-373).     *)
LEMMA DatumId ==
    ASSUME NEW r \in Refs, NEW us \in SUBSET SecretNames
    PROVE  /\ Datum(r, us).id \in Ids
           /\ Datum(r, us).type = "Secret" =>
                 Datum(r, us).id \in SecretNames \cup {"seal"}
<1>1. CASE r \in MarblerunRefs
  <2>1. Datum(r, us) \in {[type |-> "Certificate", id |-> "intermediate"],
                          [type |-> "Certificate", id |-> "leaf"],
                          [type |-> "PrivateKey",  id |-> "leaf.key"],
                          [type |-> "PublicKey",   id |-> "leaf.pub"],
                          [type |-> "Secret",      id |-> "seal"],
                          [type |-> "PublicKey",   id |-> "seal.pub"]}
    BY <1>1, Zenon DEF Datum, MarblerunRefs
  <2>2. "seal" \in Ids
    BY IdsParts DEF SecretIds
  <2>3. {"intermediate", "leaf", "leaf.key", "leaf.pub", "seal.pub"} \subseteq Ids
    BY IdsParts, Zenon DEF CoordinatorIds
  <2>. QED
    BY <2>1, <2>2, <2>3
<1>2. CASE r \notin MarblerunRefs
  <2>1. PICK n \in SecretNames : r \in SecretRefs(n)
    BY <1>2 DEF Refs
  <2>2. (CHOOSE x \in SecretNames : r \in SecretRefs(x)) = n
    BY <2>1, SecretPaths
  <2>3. Datum(r, us) = UserDatum(r, us)
    <3>1. r \notin {"Marblerun.RootCA.Cert", "Marblerun.MarbleCert.Cert",
                    "Marblerun.MarbleCert.Private", "Marblerun.MarbleCert.Public",
                    "Marblerun.SealKey", "Marblerun.SealKey.Public"}
      BY <1>2 DEF MarblerunRefs
    <3>. QED
      BY <3>1, Zenon DEF Datum
  <2>4. CASE n \notin us
    <3>1. UserDatum(r, us) = NilDatum
      BY <2>2, <2>4 DEF UserDatum
    <3>2. NilDatum.id \in Ids /\ NilDatum.type # "Secret"
      BY IdsParts, Zenon DEF NilDatum
    <3>. QED
      BY <2>3, <3>1, <3>2
  <2>5. CASE n \in us
    <3> DEFINE Sec  == "Secrets." \o n
               Cert == "Secrets." \o n \o ".Cert"
               Priv == "Secrets." \o n \o ".Private"
               Pub  == "Secrets." \o n \o ".Public"
    <3>1. UserDatum(r, us) = CASE r = Sec  -> [type |-> "Secret",      id |-> n]
                               [] r = Cert -> [type |-> "Certificate", id |-> n \o ".cert"]
                               [] r = Priv -> [type |-> "PrivateKey",  id |-> n \o ".key"]
                               [] OTHER    -> [type |-> "PublicKey",   id |-> n \o ".pub"]
      BY <2>2, <2>5 DEF UserDatum
    <3>2. /\ Sec # Cert /\ Sec # Priv /\ Sec # Pub
          /\ Cert # Priv /\ Cert # Pub /\ Priv # Pub
      BY SecretPaths DEF SecretParts
    <3>3. r \in {Sec, Cert, Priv, Pub}
      BY <2>1 DEF SecretRefs, SecretParts
    <3>4. SecretIds(n) \subseteq Ids
      BY IdsParts
    <3>5. CASE r = Sec
      <4>1. UserDatum(r, us) = [type |-> "Secret", id |-> n]
        BY <3>1, <3>2, <3>5, Zenon
      <4>. QED
        BY <2>3, <3>4, <4>1 DEF SecretIds
    <3>6. CASE r = Cert
      <4>1. UserDatum(r, us) = [type |-> "Certificate", id |-> n \o ".cert"]
        BY <3>1, <3>2, <3>6, Zenon
      <4>. QED
        BY <2>3, <3>4, <4>1 DEF SecretIds
    <3>7. CASE r = Priv
      <4>1. UserDatum(r, us) = [type |-> "PrivateKey", id |-> n \o ".key"]
        BY <3>1, <3>2, <3>7, Zenon
      <4>. QED
        BY <2>3, <3>4, <4>1 DEF SecretIds
    <3>8. CASE r = Pub
      <4>1. UserDatum(r, us) = [type |-> "PublicKey", id |-> n \o ".pub"]
        BY <3>1, <3>2, <3>8, Zenon
      <4>. QED
        BY <2>3, <3>4, <4>1 DEF SecretIds
    <3>. QED
      BY <3>3, <3>5, <3>6, <3>7, <3>8
  <2>. QED
    BY <2>4, <2>5
<1>. QED
  BY <1>1, <1>2


(* A template that expands yields a value of Val: plain text, the TTLS    *)
(* JSON, or an encoder applied to a datum (parseSecrets, lines 310-323;   *)
(* the encoders and encodeSecretDataToRaw, part_000 lines 100-155).        *)
LEMMA ExpandVal ==
    ASSUME NEW t \in Tmpl \cup {JSONTmpl}, NEW us \in SUBSET SecretNames,
           Expand(t, us).ok
    PROVE  Expand(t, us).val \in Val
<1>1. CASE t = JSONTmpl
  BY <1>1, IdsParts DEF Expand, Val
<1>2. CASE t # JSONTmpl
  <2>1. Expand(t, us) = ParseSecrets(t, us)
    BY <1>2 DEF Expand
  <2>2. t \in Tmpl
    BY <1>2 DEF JSONTmpl
  <2>3. CASE t.kind = "text"
    <3>1. ParseSecrets(t, us) = [ok |-> TRUE, val |-> TextVal]
      BY <2>3, Zenon DEF ParseSecrets
    <3>2. TextVal \in Val
      BY IdsParts, Zenon DEF TextVal, Val
    <3>. QED
      BY <2>1, <3>1, <3>2
  <2>4. CASE t.kind = "syntaxError"
    <3>1. ParseSecrets(t, us) = [ok |-> FALSE]
      BY <2>4, Zenon DEF ParseSecrets
    <3>. QED
      BY <2>1, <3>1
  <2>5. CASE t.kind = "action"
    <3> DEFINE d == Datum(t.ref, us)
    <3>1. t.fn \in Encoders /\ t.ref \in Refs
      BY <2>2, <2>5 DEF Tmpl
    <3>2. ParseSecrets(t, us) = Encode(t.fn, d)
      BY <2>5, Zenon DEF ParseSecrets
    <3>3. /\ d.id \in Ids
          /\ d.type = "Secret" => d.id \in SecretNames \cup {"seal"}
      BY <3>1, DatumId
    <3>4. RawOf(d) \in Ids
      <4>1. CASE d.type = "Secret"
        <5>1. SecretIds(d.id) \subseteq Ids
          BY <3>3, <4>1, IdsParts
        <5>. QED
          BY <4>1, <5>1 DEF RawOf, SecretIds
      <4>2. CASE d.type # "Secret"
        BY <3>3, <4>2 DEF RawOf
      <4>. QED
        BY <4>1, <4>2
    <3>5. Encode(t.fn, d).ok => Encode(t.fn, d).val \in Val
      BY <3>1, <3>3, <3>4 DEF Encode, Val, Encoders
    <3>. QED
      BY <2>1, <3>2, <3>5
  <2>. QED
    BY <2>2, <2>3, <2>4, <2>5 DEF Tmpl
<1>. QED
  BY <1>1, <1>2

(* Values that all expand give a map of values over the same names.      *)
LEMMA ExpandAllVal ==
    ASSUME NEW vals, NEW us \in SUBSET SecretNames,
           \A k \in DOMAIN vals : vals[k] \in Tmpl \cup {JSONTmpl} /\ Expand(vals[k], us).ok
    PROVE  /\ DOMAIN ExpandAll(vals, us) = DOMAIN vals
           /\ \A k \in DOMAIN vals : ExpandAll(vals, us)[k] \in Val
BY ExpandVal DEF ExpandAll

(* The reserved variables hold the Coordinator's certificates and key     *)
(* (lines 292-305).                                                        *)
LEMMA ReservedVal ==
    /\ DOMAIN ReservedEnv = {EdgCA, EdgCertChain, EdgPrivKey}
    /\ \A e \in DOMAIN ReservedEnv : ReservedEnv[e] \in Val
<1>1. DOMAIN ReservedEnv = {EdgCA, EdgCertChain, EdgPrivKey}
  BY DEF ReservedEnv
<1>2. /\ EdgCA # EdgCertChain /\ EdgCA # EdgPrivKey /\ EdgCertChain # EdgPrivKey
  BY DEF EdgCA, EdgCertChain, EdgPrivKey
<1>3. /\ ReservedEnv[EdgCA] = [fn |-> "pem", id |-> "intermediate"]
      /\ ReservedEnv[EdgCertChain] = [fn |-> "chain", id |-> "leaf+intermediate"]
      /\ ReservedEnv[EdgPrivKey] = [fn |-> "pem", id |-> "leaf.key"]
  BY <1>2, Zenon DEF ReservedEnv
<1>4. {"intermediate", "leaf+intermediate", "leaf.key"} \subseteq Ids
  BY IdsParts, Zenon DEF CoordinatorIds
<1>5. /\ [fn |-> "pem", id |-> "intermediate"] \in Val
      /\ [fn |-> "chain", id |-> "leaf+intermediate"] \in Val
      /\ [fn |-> "pem", id |-> "leaf.key"] \in Val
  BY <1>4, Zenon DEF Val, Encoders
<1>. QED
  BY <1>1, <1>3, <1>5

(* An Outgoing entry of the marble's tags is a well-formed entry.        *)
LEMMA OutAtType ==
    ASSUME NEW m \in Marbles, NEW i \in 1..Len(m.tls),
           NEW j \in 1..Len(m.tlsDefs[m.tls[i]].outgoing)
    PROVE  m.tlsDefs[m.tls[i]].outgoing[j] \in OutEntry
<1>1. m.tls \in Seq(Tags) /\ m.tlsDefs \in [Tags -> TLSTag]
  BY MarblesAssumption DEF IsMarble
<1>2. m.tls[i] \in Tags
  BY <1>1, LenProperties
<1>3. m.tlsDefs[m.tls[i]].outgoing \in Seq(OutEntry)
  BY <1>1, <1>2 DEF TLSTag
<1>. QED
  BY <1>3, LenProperties

(* The TTLS configuration of a manifest marble is keyed by its ports and  *)
(* lists its outgoing endpoints (setTTLSConfig, lines 407-441).           *)
LEMMA TTLSType ==
    ASSUME NEW m \in Marbles, NEW us
    PROVE  /\ DOMAIN TTLSConfig(m, us).incoming \subseteq Ports
           /\ TTLSConfig(m, us).outgoing \subseteq Addrs \X Ports
<1>1. /\ DOMAIN TTLSConfig(m, us).incoming = DeclaredPorts(m)
      /\ TTLSConfig(m, us).outgoing = DeclaredOutgoing(m)
  BY Zenon DEF TTLSConfig, DeclaredPorts, DeclaredOutgoing
<1>2. DeclaredPorts(m) \subseteq Ports
  BY InAtType DEF DeclaredPorts, InEntry
<1>3. DeclaredOutgoing(m) \subseteq Addrs \X Ports
  <2> SUFFICES ASSUME NEW x \in DeclaredOutgoing(m) PROVE x \in Addrs \X Ports
    OBVIOUS
  <2>0. PICK i \in 1..Len(m.tls) : \E j \in 1..Len(m.tlsDefs[m.tls[i]].outgoing) :
            x = <<m.tlsDefs[m.tls[i]].outgoing[j].addr, m.tlsDefs[m.tls[i]].outgoing[j].port>>
    BY Zenon DEF DeclaredOutgoing
  <2>1. PICK j \in 1..Len(m.tlsDefs[m.tls[i]].outgoing) :
            x = <<m.tlsDefs[m.tls[i]].outgoing[j].addr, m.tlsDefs[m.tls[i]].outgoing[j].port>>
    BY <2>0
  <2>2. m.tlsDefs[m.tls[i]].outgoing[j] \in OutEntry
    BY OutAtType
  <2>. QED
    BY <2>1, <2>2 DEF OutEntry
<1>. QED
  BY <1>1, <1>2, <1>3


LEMMA InitTypeOK == Init => TypeOK
<1>1. DOMAIN << >> = {}
  <2>1. << >> \in Seq({}) /\ Len(<< >>) = 0
    BY EmptySeq
  <2>. QED
    BY <2>1, LenProperties
<1> SUFFICES ASSUME Init PROVE TypeOK
  OBVIOUS
<1>2. DOMAIN env = {} /\ DOMAIN files = {} /\ DOMAIN ttls.incoming = {} /\ ttls.outgoing = {}
  BY <1>1 DEF Init, NoTTLS
<1>3. secrets = {} /\ pc = "authSecrets" /\ privK = "ok" /\ ttlsInEnv = FALSE
      /\ cause = "none" /\ storeFailed = FALSE
  BY DEF Init
<1>. QED
  BY <1>2, <1>3 DEF TypeOK

LEMMA StepTypeOK == IInv /\ TypeOK /\ [Next]_vars => TypeOK'
<1> SUFFICES ASSUME IInv, TypeOK, [Next]_vars PROVE TypeOK'
  OBVIOUS
<1>1. CASE GenerateMarbleAuthSecrets
  BY <1>1 DEF GenerateMarbleAuthSecrets, Fail, TypeOK
<1>2. CASE LoadIssuer
  BY <1>2 DEF LoadIssuer, Fail, TypeOK
<1>3. CASE GenerateSecrets
  BY <1>3 DEF GenerateSecrets, Fail, TypeOK
<1>4. CASE MergeShared
  BY <1>4 DEF MergeShared, Fail, TypeOK
<1>5. CASE SetTTLSConfig
  <2>1. /\ DOMAIN TTLSConfig(marble, secrets).incoming \subseteq Ports
        /\ TTLSConfig(marble, secrets).outgoing \subseteq Addrs \X Ports
    BY TTLSType DEF IInv
  <2>. QED
    BY <1>5, <2>1 DEF SetTTLSConfig, Fail, TypeOK
<1>6. CASE CustomizeParameters
  <2>1. CASE /\ TemplateFails(marble, ttlsInEnv, secrets)
             /\ Fail("template") /\ UNCHANGED <<env, files>>
    BY <1>6, <2>1 DEF CustomizeParameters, Fail, TypeOK
  <2>2. CASE /\ ~TemplateFails(marble, ttlsInEnv, secrets)
             /\ files' = ExpandAll(marble.files, secrets)
             /\ env' = WithReserved(ExpandAll(EnvIn(marble, ttlsInEnv), secrets))
             /\ pc' = "done"
             /\ UNCHANGED cause
    <3> DEFINE vin == EnvIn(marble, ttlsInEnv)
               g   == ExpandAll(vin, secrets)
    <3>1. IsMarble(marble) /\ secrets \subseteq SecretNames
      BY MarblesAssumption DEF IInv, TypeOK
    <3>2. /\ DOMAIN vin \subseteq EnvNames \cup {TTLSEnv}
          /\ \A e \in DOMAIN vin : vin[e] \in Tmpl \cup {JSONTmpl}
      BY <3>1 DEF EnvIn, IsMarble
    <3>3. \A e \in DOMAIN vin : Expand(vin[e], secrets).ok
      BY <2>2 DEF TemplateFails
    <3>4. /\ DOMAIN files' \subseteq FileNames
          /\ \A f \in DOMAIN files' : files'[f] \in Val
      <4>1. \A f \in DOMAIN marble.files :
                marble.files[f] \in Tmpl \cup {JSONTmpl} /\ Expand(marble.files[f], secrets).ok
        BY <2>2, <3>1 DEF TemplateFails, IsMarble
      <4>. QED
        BY <2>2, <3>1, <4>1, ExpandAllVal DEF IsMarble
    <3>5. DOMAIN g = DOMAIN vin /\ \A e \in DOMAIN vin : g[e] \in Val
      <4> HIDE DEF vin
      <4>. QED
        BY <3>1, <3>2, <3>3, ExpandAllVal
    <3>6. /\ DOMAIN env' \subseteq EnvNames \cup ReservedNames
          /\ \A e \in DOMAIN env' : env'[e] \in Val
      <4> HIDE DEF vin, g
      <4>1. /\ DOMAIN WithReserved(g) = DOMAIN g \cup DOMAIN ReservedEnv
            /\ \A e \in DOMAIN WithReserved(g) :
                  WithReserved(g)[e] = IF e \in DOMAIN ReservedEnv THEN ReservedEnv[e] ELSE g[e]
        BY DEF WithReserved
      <4>2. env' = WithReserved(g)
        BY <2>2 DEF vin, g
      <4>. QED
        BY <3>2, <3>5, <4>1, <4>2, ReservedVal DEF ReservedNames
    <3>7. UNCHANGED <<marble, privK, secrets, ttlsInEnv, ttls, storeFailed>>
      BY <1>6 DEF CustomizeParameters
    <3>. QED
      <4> HIDE DEF vin, g
      <4>. QED
        BY <2>2, <3>4, <3>6, <3>7 DEF TypeOK
  <2>. QED
    BY <1>6, <2>1, <2>2 DEF CustomizeParameters
<1>7. CASE UNCHANGED vars
  BY <1>7 DEF vars, TypeOK
<1>. QED  BY <1>1, <1>2, <1>3, <1>4, <1>5, <1>6, <1>7 DEF Next

(* Every value the activation delivers in the Env or the Files is plain   *)
(* text, the TTLS JSON or an encoding of a datum the Coordinator or the    *)
(* merged secrets hold, under the names the manifest or the reserved       *)
(* variables give it, and the TTLS configuration is keyed by declared      *)
(* ports and endpoints (customizeParameters, setTTLSConfig), for every     *)
(* manifest.                                                               *)
THEOREM TypeCorrect == Spec => []TypeOK
<1>1. Spec => [](IInv /\ TypeOK)
  BY InitIInv, StepIInv, InitTypeOK, StepTypeOK, PTL DEF Spec
<1>. QED  BY <1>1, PTL

=============================================================================
