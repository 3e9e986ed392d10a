----------------------------- MODULE Parameters -----------------------------
(***************************************************************************)
(* The issuance half of Core.Activate (src/coordinator/core/marbleapi.go,  *)
(* lines 70-125): the marble's authentication secrets, the intermediate CA *)
(* read from the store, the user secrets merged with the shared ones, the  *)
(* TTLS configuration (setTTLSConfig) and the templated parameters         *)
(* (customizeParameters, parseSecrets and the encoders of the manifest     *)
(* package, src/unnamed/part_000 lines 100-155).  It runs under the        *)
(* Coordinator lock, so one activation is modelled; every store read may   *)
(* fail.                                                                   *)
(*                                                                         *)
(* Key material is abstracted to identities: a datum is its Go type and    *)
(* the name of what it is ("leaf", "intermediate", "s1.cert", ...), and an *)
(* expanded value is the encoder applied and the identity encoded.         *)
(***************************************************************************)
EXTENDS Naturals, Sequences, FiniteSets, TLC

CONSTANTS
    Marbles,      \* the marble entries (with the manifest parts they use) to activate
    EnvNames,     \* environment variable names a manifest may use
    FileNames,    \* file paths a manifest may use
    SecretNames,  \* names of user secrets
    Tags,         \* TLS tag names
    Ports,        \* ports of TLS entries
    Addrs         \* addresses of outgoing TLS entries

(* The reserved environment variables (marble.MarbleEnvironment names).   *)
EdgCA        == "EDG_CA"
EdgCertChain == "EDG_CERT_CHAIN"
EdgPrivKey   == "EDG_PRIVATE_KEY"
TTLSEnv      == "MARBLE_TTLS_CONFIG"

(* Template paths over secretsWrapper (lines 34-44).                       *)
MarblerunRefs == {"Marblerun.RootCA.Cert", "Marblerun.MarbleCert.Cert",
                  "Marblerun.MarbleCert.Private", "Marblerun.MarbleCert.Public",
                  "Marblerun.SealKey", "Marblerun.SealKey.Public"}
(* The paths that reach user secret n: the Secret or one of its parts.    *)
SecretParts   == {".Cert", ".Private", ".Public"}
SecretRefs(n) == {"Secrets." \o n} \cup {"Secrets." \o n \o f : f \in SecretParts}
Refs == MarblerunRefs \cup UNION {SecretRefs(n) : n \in SecretNames}
Encoders == {"pem", "hex", "raw", "base64"}

(* A template: plain text, one action {{ fn .ref }}, or text that does not *)
(* parse as a template.                                                    *)
Tmpl == [kind: {"text", "syntaxError"}, fn: {""}, ref: {""}]
        \cup [kind: {"action"}, fn: Encoders, ref: Refs]
Text        == [kind |-> "text", fn |-> "", ref |-> ""]
SyntaxError == [kind |-> "syntaxError", fn |-> "", ref |-> ""]
Action(f, r) == [kind |-> "action", fn |-> f, ref |-> r]

(* The identities an expanded value can carry: plain text, the TTLS JSON, *)
(* the Coordinator's certificates and keys (lines 292-305, 364-373), and   *)
(* the parts of a Secret: a user secret or the seal key, whose public part *)
(* encodeSecretDataToRaw encodes.                                          *)
CoordinatorIds == {"intermediate", "leaf", "leaf.key", "leaf.pub", "leaf+intermediate",
                   "seal.pub"}
SecretIds(b)   == {b, b \o ".cert", b \o ".key", b \o ".pub"}
Ids == {"", "ttls"} \cup CoordinatorIds
       \cup UNION {SecretIds(b) : b \in SecretNames \cup {"seal"}}
(* An expanded value: plain text, an encoding of a datum, or the TTLS JSON.*)
Val == [fn: {"text", "json", "chain"} \cup Encoders, id: Ids]
TextVal == [fn |-> "text", id |-> ""]

(* How the manifest declares a user secret (Secret.Shared, Secret.Type).   *)
SecretDecl == {"none", "unique", "uniqueCert", "shared"}

InEntry  == [port: Ports, cert: SecretNames \cup {""}, disableClientAuth: BOOLEAN]
OutEntry == [addr: Addrs, port: Ports]
TLSTag   == [incoming: Seq(InEntry), outgoing: Seq(OutEntry)]

(* A marble entry of the manifest with the parts of the manifest that      *)
(* Activate reads for it: Parameters.Env and .Files, the TLS tags, the     *)
(* secret declarations and the manifest's TLS tag definitions.             *)
IsMarble(m) ==
    /\ DOMAIN m.env \subseteq EnvNames /\ \A e \in DOMAIN m.env : m.env[e] \in Tmpl
    /\ DOMAIN m.files \subseteq FileNames /\ \A f \in DOMAIN m.files : m.files[f] \in Tmpl
    /\ m.tls \in Seq(Tags)
    /\ m.secrets \in [SecretNames -> SecretDecl]
    /\ m.tlsDefs \in [Tags -> TLSTag]

ASSUME MarblesAssumption == \A m \in Marbles : IsMarble(m)

(* The identities of the parts of Go's zero Secret, which setTTLSConfig    *)
(* reads for a certificate name missing from the map (line 422).          *)
ZeroIds == {"zero", "zero.cert", "zero.key", "zero.pub"}

(* text/template resolves .Secrets.n.Cert one identifier at a time, so a  *)
(* path names one secret and one part of it, and no reserved secret.  A  *)
(* user secret's identities are never those of the zero Secret.          *)
ASSUME SecretPaths ==
    /\ \A x, y \in SecretNames : x # y => SecretRefs(x) \cap SecretRefs(y) = {}
    /\ \A x \in SecretNames :
          /\ SecretRefs(x) \cap MarblerunRefs = {}
          /\ "Secrets." \o x \notin {"Secrets." \o x \o f : f \in SecretParts}
          /\ \A f, g \in SecretParts : f # g => "Secrets." \o x \o f # "Secrets." \o x \o g
    /\ \A x \in SecretNames \cup {"seal"} :
          /\ x \notin ZeroIds
          /\ \A sfx \in {".cert", ".key", ".pub"} : x \o sfx \notin ZeroIds

-----------------------------------------------------------------------------
(* What text/template passes to a function for a path through a key the  *)
(* map does not hold: with the default "missingkey" option, nil.           *)
NilDatum == [type |-> "nil", id |-> ""]

(* A path into the user secrets: the part of the merged secret it names,  *)
(* or nil when the name is missing from the map.                          *)
UserDatum(ref, secrets) ==
    LET n == CHOOSE x \in SecretNames : ref \in SecretRefs(x)
    IN  IF n \notin secrets THEN NilDatum
        ELSE CASE ref = "Secrets." \o n               -> [type |-> "Secret",      id |-> n]
               [] ref = "Secrets." \o n \o ".Cert"    -> [type |-> "Certificate", id |-> n \o ".cert"]
               [] ref = "Secrets." \o n \o ".Private" -> [type |-> "PrivateKey",  id |-> n \o ".key"]
               [] OTHER                               -> [type |-> "PublicKey",   id |-> n \o ".pub"]

(* The data a template may reach: the reserved secrets of this activation  *)
(* and the merged user secrets.                                           *)
Datum(ref, secrets) ==
    CASE ref = "Marblerun.RootCA.Cert"       -> [type |-> "Certificate", id |-> "intermediate"]
      [] ref = "Marblerun.MarbleCert.Cert"   -> [type |-> "Certificate", id |-> "leaf"]
      [] ref = "Marblerun.MarbleCert.Private"-> [type |-> "PrivateKey",  id |-> "leaf.key"]
      [] ref = "Marblerun.MarbleCert.Public" -> [type |-> "PublicKey",   id |-> "leaf.pub"]
      [] ref = "Marblerun.SealKey"           -> [type |-> "Secret",      id |-> "seal"]
      [] ref = "Marblerun.SealKey.Public"    -> [type |-> "PublicKey",   id |-> "seal.pub"]
      [] OTHER                               -> UserDatum(ref, secrets)

(* encodeSecretDataToRaw, part_000 lines 125-140: the bytes of a key or a  *)
(* certificate; of a Secret, its public part.                              *)
RawOf(d) == IF d.type = "Secret" THEN d.id \o ".pub" ELSE d.id

(* The template functions, part_000 lines 100-155: pem takes a certificate *)
(* or a key, the others anything raw takes; anything else, nil included,   *)
(* is "invalid secret type" (lines 110 and 138).                           *)
Encode(fn, d) ==
    IF fn = "pem"
    THEN IF d.type \in {"Certificate", "PublicKey", "PrivateKey"}
         THEN [ok |-> TRUE, val |-> [fn |-> "pem", id |-> d.id]]
         ELSE [ok |-> FALSE]
    ELSE IF d.type # "nil"
         THEN [ok |-> TRUE, val |-> [fn |-> fn, id |-> RawOf(d)]]
         ELSE [ok |-> FALSE]

(* parseSecrets, lines 310-323: parse, then execute over the secrets.      *)
ParseSecrets(t, secrets) ==
    CASE t.kind = "text"        -> [ok |-> TRUE, val |-> TextVal]
      [] t.kind = "syntaxError" -> [ok |-> FALSE]
      [] OTHER                  -> Encode(t.fn, Datum(t.ref, secrets))

(* setTTLSConfig, lines 407-441: the entries of the marble's tags in       *)
(* order; a later Incoming entry for a port replaces an earlier one.       *)
InPositions(m) == UNION {{<<i, j>> : j \in 1..Len(m.tlsDefs[m.tls[i]].incoming)} :
                         i \in 1..Len(m.tls)}
InAt(m, pos) == m.tlsDefs[m.tls[pos[1]]].incoming[pos[2]]
LastIncoming(m, p) ==
    CHOOSE pos \in InPositions(m) :
        /\ InAt(m, pos).port = p
        /\ \A q \in InPositions(m) : InAt(m, q).port = p =>
              q[1] < pos[1] \/ (q[1] = pos[1] /\ q[2] <= pos[2])
InConf(e) ==
    IF e.cert # ""
    THEN [cacrt |-> "intermediate", clicrt |-> e.cert \o ".cert",
          clikey |-> e.cert \o ".key", clientAuth |-> ~e.disableClientAuth]
    ELSE [cacrt |-> "intermediate", clicrt |-> "leaf", clikey |-> "leaf.key", clientAuth |-> TRUE]
TTLSConfig(m, secrets) ==
    LET ports == {InAt(m, pos).port : pos \in InPositions(m)}
        zeroed(e) == IF e.cert \in secrets \/ e.cert = "" THEN e ELSE [e EXCEPT !.cert = "zero"]
    IN  [incoming |-> [p \in ports |-> InConf(zeroed(InAt(m, LastIncoming(m, p))))],
         outgoing |-> {<<e.addr, e.port>> : e \in UNION {{m.tlsDefs[m.tls[i]].outgoing[j] :
                          j \in 1..Len(m.tlsDefs[m.tls[i]].outgoing)} : i \in 1..Len(m.tls)}}]

-----------------------------------------------------------------------------
VARIABLES
    marble,     \* the marble entry being activated
    pc,         \* the next step of Activate
    privK,      \* the intermediate key as read at line 86: "ok" or "nil"
    secrets,    \* names in the merged user secret map
    ttlsInEnv,  \* setTTLSConfig has put MARBLE_TTLS_CONFIG into the Env
    env,        \* the customised Env of the response
    files,      \* the customised Files
    ttls,       \* the TTLS configuration, once assembled
    cause,      \* why the activation failed, or "none"
    storeFailed \* a store read failed during this activation (history)

vars == <<marble, pc, privK, secrets, ttlsInEnv, env, files, ttls, cause, storeFailed>>

NoTTLS == [incoming |-> <<>>, outgoing |-> {}]

Init ==
    /\ marble \in Marbles
    /\ pc = "authSecrets"
    /\ privK = "ok"
    /\ secrets = {}
    /\ ttlsInEnv = FALSE
    /\ env = <<>>
    /\ files = <<>>
    /\ ttls = NoTTLS
    /\ cause = "none"
    /\ storeFailed = FALSE

Fail(c) == /\ pc' = "failed"
           /\ cause' = c

(* generateMarbleAuthSecrets, lines 325-376, with generateCertFromCSR,     *)
(* lines 204-254 (called at line 76): the key pair, the seal key from the  *)
(* root key, the leaf certificate and the intermediate certificate.  The   *)
(* CSR checks and the serial and signing failures are status errors; the  *)
(* key generation, encoding and store errors are returned as they are.    *)
GenerateMarbleAuthSecrets ==
    /\ pc = "authSecrets"
    /\ \/ pc' = "loadIssuer" /\ UNCHANGED <<cause, storeFailed>>
       \/ Fail("badCSR") /\ UNCHANGED storeFailed
       \/ \E c \in {"serial", "sign", "crypto"} : Fail(c) /\ UNCHANGED storeFailed
       \/ Fail("store") /\ storeFailed' = TRUE
    /\ UNCHANGED <<marble, privK, secrets, ttlsInEnv, env, files, ttls>>

(* Lines 81-93: the intermediate certificate, key and the main manifest.   *)
(* A failing getPrivK is only logged: the activation goes on with a nil    *)
(* key (lines 86-89).                                                      *)
LoadIssuer ==
    /\ pc = "loadIssuer"
    /\ \/ pc' = "genSecrets" /\ UNCHANGED <<privK, cause, storeFailed>>
       \/ /\ pc' = "genSecrets" /\ privK' = "nil" /\ storeFailed' = TRUE
          /\ UNCHANGED cause
       \/ Fail("store") /\ storeFailed' = TRUE /\ UNCHANGED privK
    /\ UNCHANGED <<marble, secrets, ttlsInEnv, env, files, ttls>>

(* Lines 96-100: generateSecrets (not in this tree; from the               *)
(* specification, section 4.4) creates the non-shared secrets; a           *)
(* certificate secret is signed with the intermediate key, which fails     *)
(* when that key is nil.                                                   *)
GenerateSecrets ==
    /\ pc = "genSecrets"
    /\ \/ /\ ~(privK = "nil" /\ \E n \in SecretNames : marble.secrets[n] = "uniqueCert")
          /\ secrets' = {n \in SecretNames : marble.secrets[n] \in {"unique", "uniqueCert"}}
          /\ pc' = "mergeShared"
          /\ UNCHANGED cause
       \/ Fail("genSecrets") /\ UNCHANGED secrets
    /\ UNCHANGED <<marble, privK, ttlsInEnv, env, files, ttls, storeFailed>>

(* Mutant: the shared map replaces the generated one instead of being      *)
(* merged into it.                                                          *)
MergeSharedReplace ==
    /\ pc = "mergeShared"
    /\ \/ /\ secrets' = {n \in SecretNames : marble.secrets[n] = "shared"}
          /\ pc' = "ttls"
          /\ UNCHANGED <<cause, storeFailed>>
       \/ Fail("store") /\ storeFailed' = TRUE /\ UNCHANGED secrets
    /\ UNCHANGED <<marble, privK, ttlsInEnv, env, files, ttls>>

(* Lines 102-109: the shared secrets from the store overwrite the map.     *)
MergeShared ==
    /\ pc = "mergeShared"
    /\ \/ /\ secrets' = secrets \cup {n \in SecretNames : marble.secrets[n] = "shared"}
          /\ pc' = "ttls"
          /\ UNCHANGED <<cause, storeFailed>>
       \/ Fail("store") /\ storeFailed' = TRUE /\ UNCHANGED secrets
    /\ UNCHANGED <<marble, privK, ttlsInEnv, env, files, ttls>>

(* Mutant: the configuration is written into a copy of the parameters that *)
(* customizeParameters never reads.                                        *)
SetTTLSConfigOnCopy ==
    /\ pc = "ttls"
    /\ \/ /\ pc' = "customize"
          /\ ttls' = IF marble.tls = <<>> THEN ttls ELSE TTLSConfig(marble, secrets)
          /\ UNCHANGED <<ttlsInEnv, cause, storeFailed>>
       \/ /\ marble.tls # <<>>
          /\ Fail("store") /\ storeFailed' = TRUE
          /\ UNCHANGED <<ttls, ttlsInEnv>>
    /\ UNCHANGED <<marble, privK, secrets, env, files>>

(* setTTLSConfig, lines 111-119 and 378-454: nothing without TLS tags;     *)
(* else the intermediate certificate and the manifest are read again and  *)
(* the configuration is written into the marble's Env, before templating. *)
SetTTLSConfig ==
    /\ pc = "ttls"
    /\ \/ /\ marble.tls = <<>>
          /\ pc' = "customize"
          /\ UNCHANGED <<ttls, ttlsInEnv, cause, storeFailed>>
       \/ /\ marble.tls # <<>>
          /\ ttls' = TTLSConfig(marble, secrets)
          /\ ttlsInEnv' = TRUE
          /\ pc' = "customize"
          /\ UNCHANGED <<cause, storeFailed>>
       \/ /\ marble.tls # <<>>
          /\ Fail("store") /\ storeFailed' = TRUE
          /\ UNCHANGED <<ttls, ttlsInEnv>>
    /\ UNCHANGED <<marble, privK, secrets, env, files>>

(* The Env that reaches customizeParameters: the manifest's, with         *)
(* MARBLE_TTLS_CONFIG set once setTTLSConfig has run (line 452).           *)
JSONTmpl == [kind |-> "json", fn |-> "", ref |-> ""]
EnvIn(m, withTTLS) ==
    IF withTTLS THEN [e \in DOMAIN m.env \cup {TTLSEnv} |-> IF e = TTLSEnv THEN JSONTmpl ELSE m.env[e]]
    ELSE m.env

(* parseSecrets of one value; the TTLS JSON holds no "{{" and comes out    *)
(* as it went in.                                                          *)
Expand(t, us) ==
    IF t = JSONTmpl THEN [ok |-> TRUE, val |-> [fn |-> "json", id |-> "ttls"]]
    ELSE ParseSecrets(t, us)

(* The three reserved variables, encoded and set at lines 292-305.         *)
ReservedEnv ==
    [e \in {EdgCA, EdgCertChain, EdgPrivKey} |->
        CASE e = EdgCA        -> [fn |-> "pem", id |-> "intermediate"]
          [] e = EdgCertChain -> [fn |-> "chain", id |-> "leaf+intermediate"]
          [] OTHER            -> [fn |-> "pem", id |-> "leaf.key"]]

(* An Env with the reserved variables written over it.                     *)
WithReserved(vals) ==
    [e \in DOMAIN vals \cup DOMAIN ReservedEnv |->
        IF e \in DOMAIN ReservedEnv THEN ReservedEnv[e] ELSE vals[e]]

(* Some value of the Files or the Env fails to expand (lines 271-290).     *)
TemplateFails(m, withTTLS, us) ==
    \/ \E f \in DOMAIN m.files : ~Expand(m.files[f], us).ok
    \/ \E e \in DOMAIN EnvIn(m, withTTLS) : ~Expand(EnvIn(m, withTTLS)[e], us).ok

ExpandAll(vals, us) == [k \in DOMAIN vals |-> Expand(vals[k], us).val]

(* Mutant: the reserved variables are set before the template loop, so a  *)
(* manifest value of the same name replaces them.                          *)
CustomizeParametersReservedFirst ==
    /\ pc = "customize"
    /\ \/ TemplateFails(marble, ttlsInEnv, secrets) /\ Fail("template") /\ UNCHANGED <<env, files>>
       \/ /\ ~TemplateFails(marble, ttlsInEnv, secrets)
          /\ files' = ExpandAll(marble.files, secrets)
          /\ env' = ExpandAll(EnvIn(marble, ttlsInEnv), secrets) @@ ReservedEnv
          /\ pc' = "done"
          /\ UNCHANGED cause
    /\ UNCHANGED <<marble, privK, secrets, ttlsInEnv, ttls, storeFailed>>

(* Mutant: the expanded Files are stored under the Env map.                *)
CustomizeParametersFilesIntoEnv ==
    /\ pc = "customize"
    /\ \/ TemplateFails(marble, ttlsInEnv, secrets) /\ Fail("template") /\ UNCHANGED <<env, files>>
       \/ /\ ~TemplateFails(marble, ttlsInEnv, secrets)
          /\ files' = <<>>
          /\ env' = WithReserved(ExpandAll(EnvIn(marble, ttlsInEnv), secrets)
                                  @@ ExpandAll(marble.files, secrets))
          /\ pc' = "done"
          /\ UNCHANGED cause
    /\ UNCHANGED <<marble, privK, secrets, ttlsInEnv, ttls, storeFailed>>

(* customizeParameters, lines 121-125 and 257-308: every File and Env     *)
(* value is expanded and the first failure ends the activation (its error *)
(* is returned as it is); then the three reserved variables are set.      *)
CustomizeParameters ==
    /\ pc = "customize"
    /\ \/ TemplateFails(marble, ttlsInEnv, secrets) /\ Fail("template") /\ UNCHANGED <<env, files>>
       \/ /\ ~TemplateFails(marble, ttlsInEnv, secrets)
          /\ files' = ExpandAll(marble.files, secrets)
          /\ env' = WithReserved(ExpandAll(EnvIn(marble, ttlsInEnv), secrets))
          /\ pc' = "done"
          /\ UNCHANGED cause
    /\ UNCHANGED <<marble, privK, secrets, ttlsInEnv, ttls, storeFailed>>

Next == GenerateMarbleAuthSecrets \/ LoadIssuer \/ GenerateSecrets \/ MergeShared
        \/ SetTTLSConfig \/ CustomizeParameters

Spec == Init /\ [][Next]_vars

-----------------------------------------------------------------------------
(* The gRPC code a failure reaches the marble with.  Status errors keep    *)
(* their code (lines 208-252); an error returned as it is becomes Unknown. *)
(* Store and generateSecrets errors come from code not in this tree.       *)
CodeOf(c) ==
    CASE c = "badCSR"                -> "InvalidArgument"
      [] c \in {"serial", "sign"}    -> "Internal"
      [] c \in {"crypto", "template"} -> "Unknown"
      [] OTHER                       -> "fromStore"

ReservedNames == {EdgCA, EdgCertChain, EdgPrivKey, TTLSEnv}

TypeOK ==
    /\ pc \in {"authSecrets", "loadIssuer", "genSecrets", "mergeShared", "ttls",
               "customize", "done", "failed"}
    /\ privK \in {"ok", "nil"}
    /\ secrets \subseteq SecretNames
    /\ ttlsInEnv \in BOOLEAN
    /\ DOMAIN env \subseteq EnvNames \cup ReservedNames /\ \A e \in DOMAIN env : env[e] \in Val
    /\ DOMAIN files \subseteq FileNames /\ \A f \in DOMAIN files : files[f] \in Val
    /\ DOMAIN ttls.incoming \subseteq Ports /\ ttls.outgoing \subseteq Addrs \X Ports
    /\ cause \in {"none", "badCSR", "serial", "sign", "crypto", "store", "genSecrets", "template"}
    /\ storeFailed \in BOOLEAN

(* The templates of the marble's Env and Files in the manifest.          *)
Templates(m) == {m.env[e] : e \in DOMAIN m.env} \cup {m.files[f] : f \in DOMAIN m.files}

(* A template that expands over any map holding the secrets the marble    *)
(* declares: plain text, or one action on a reserved path or on a path    *)
(* into a declared secret, with an encoder that takes what the path names.*)
Resolvable(m, t) ==
    \/ t.kind = "text"
    \/ /\ t.kind = "action"
       /\ \/ t.ref \in MarblerunRefs
          \/ \E n \in SecretNames : t.ref \in SecretRefs(n) /\ m.secrets[n] # "none"
       /\ Encode(t.fn, Datum(t.ref, SecretNames)).ok

(* The user certificates of the marble's Incoming TLS entries are declared.*)
CertsDeclared(m) ==
    \A pos \in InPositions(m) :
        InAt(m, pos).cert # "" => m.secrets[InAt(m, pos).cert] # "none"

(* The marble's declared TLS endpoints (lines 411-441).                    *)
DeclaredPorts(m) == {InAt(m, pos).port : pos \in InPositions(m)}
DeclaredOutgoing(m) ==
    {<<e.addr, e.port>> : e \in UNION {{m.tlsDefs[m.tls[i]].outgoing[j] :
        j \in 1..Len(m.tlsDefs[m.tls[i]].outgoing)} : i \in 1..Len(m.tls)}}

(* Section 8.7: EDG_CA, EDG_CERT_CHAIN and EDG_PRIVATE_KEY of a delivered *)
(* Env are the Coordinator's, whatever the manifest's Env holds            *)
(* (customizeParameters, lines 303-305 after the loop at 282-290).         *)
ReservedEnvWins ==
    pc = "done" => \A e \in {EdgCA, EdgCertChain, EdgPrivKey} : env[e] = ReservedEnv[e]

(* Every secret the manifest declares is in the map when it is used: the  *)
(* unique secrets generated at line 96 survive the merge with the shared  *)
(* ones (lines 103-109).  So an activation fails on a template (lines     *)
(* 121-124, 313-320) only when a template of the manifest is at fault,     *)
(* never because a declared secret is missing; and the TTLS user           *)
(* certificate of a declared secret (line 422) is never Go's zero Secret.  *)
SecretsResolved ==
    /\ (pc = "failed" /\ cause = "template") =>
          \E t \in Templates(marble) : ~Resolvable(marble, t)
    /\ (pc = "done" /\ CertsDeclared(marble)) =>
          \A p \in DOMAIN ttls.incoming : ttls.incoming[p].clicrt \notin ZeroIds

(* A marble with TLS tags receives MARBLE_TTLS_CONFIG as the assembled     *)
(* JSON, covering every Incoming port and Outgoing endpoint of its tags,   *)
(* even when its manifest Env sets that variable (lines 111-119, 449-452). *)
TTLSDelivered ==
    (pc = "done" /\ marble.tls # <<>>) =>
        /\ TTLSEnv \in DOMAIN env
        /\ env[TTLSEnv] = [fn |-> "json", id |-> "ttls"]
        /\ DOMAIN ttls.incoming = DeclaredPorts(marble)
        /\ ttls.outgoing = DeclaredOutgoing(marble)

(* Section 8.8: MARBLE_TTLS_CONFIG is in the delivered Env exactly when    *)
(* the marble has TLS tags.  setTTLSConfig returns early without tags      *)
(* (line 379) and a manifest Env value of that name is templated and kept. *)
TTLSAbsentIffNoTags ==
    pc = "done" => (TTLSEnv \in DOMAIN env <=> marble.tls # <<>>)

(* Section 7: every error aborts the activation; no activation completes  *)
(* after a store read failed.  getPrivK("intermediate") at line 86 is only *)
(* logged.                                                                 *)
StoreErrorsAbort ==
    pc = "done" => ~storeFailed

(* Sections 4.6 and 7: crypto and template failures reach the marble as    *)
(* Internal.  Activate returns the key generation and template errors as   *)
(* they are (lines 77-79, 121-124, 313-320).                               *)
FailureCodesPerSpec ==
    (pc = "failed" /\ cause \in {"crypto", "template", "serial", "sign"}) =>
        CodeOf(cause) = "Internal"

(* Section 4.7: every Incoming entry of the marble's tags gets the client  *)
(* authentication it asks for: required without a user certificate, else  *)
(* !DisableClientAuth.  Entries of two tags on one port share the key      *)
(* "*:port" (line 440) and only the last one is kept.                      *)
ClientAuthPerEntry ==
    (pc = "done" /\ marble.tls # <<>>) =>
        \A pos \in InPositions(marble) :
            ttls.incoming[InAt(marble, pos).port].clientAuth = InConf(InAt(marble, pos)).clientAuth

=============================================================================
