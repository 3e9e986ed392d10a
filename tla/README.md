# TLA+ models of MarbleRun's Coordinator

This directory holds TLA+ models of the MarbleRun Coordinator, as it is in `src/`, together with
TLC configurations and TLAPS proofs. It models three parts of the code:
- marble activation (`Core.Activate` in `src/coordinator/core/marbleapi.go`), with an
  abstract atomic specification that it is proved to implement;
- the parameters an activation delivers (`generateMarbleAuthSecrets`, `setTTLSConfig`,
  `customizeParameters` in the same file);
- the `marblerun gramine-prepare` command (`src/cli/cmd/graminePrepare.go`).

## 1. Inventory of the system

| Part | Source | State | Operations | Interacts with |
|---|---|---|---|---|
| Activation service | `coordinator/core/marbleapi.go` `Activate`, `verifyManifestRequirement`, `incrementActivations` | Coordinator state, `c.mux`, per-type activation counters | `Activate` (one gRPC call per marble) | store, quote verifier, certificate issuer, templater |
| Manifest model | `unnamed/part_000` (`manifest.go`) | Manifest: packages, marbles, infrastructures, secrets, TLS tags | `Check`, template encoders, `Certificate` JSON (un)marshalling | read by every handler |
| Store facade | not in this tree (used by `marbleapi.go`) | counters, manifest, update manifest, certificates, keys, secrets | `getActivations`, `putActivations`, `getManifest`, `getPackage`, `getPrivK`, ... | all of the Coordinator |
| Quote verifier | not in this tree (`qv.Validate`) | none | validate a quote against a package and an infrastructure | activation |
| Certificate issuer | `marbleapi.go` `generateCertFromCSR`, `generateMarbleAuthSecrets` | none (reads root/intermediate cert and key) | sign the marble certificate | activation |
| Parameter templater | `marbleapi.go` `customizeParameters`, `parseSecrets` | none | render Files and Env from secrets (Argv is copied verbatim, line 259) | activation |
| TTLS assembler | `marbleapi.go` `setTTLSConfig` | none | build `MARBLE_TTLS_CONFIG` from the marble's TLS tags | activation, templater |
| Gramine prepare CLI | `cli/cmd/graminePrepare.go` | the manifest being edited | parse tree, insert premain, compute changes, rewrite | runs alone, offline |
| CI, chart docs, samples | `unnamed/part_001`, `charts/README.md`, `samples/*` | none | none | inputs and docs |

What makes the activation service hard is that several marbles connect at the same time.
Each `Activate` takes the Coordinator mutex (inside `requireState`, released by the `defer`
at line 56). While holding it, it reads the activation counter (line 188), seeds it (line 194),
checks the budget, issues a certificate, and only then increments the counter (line 132).
`UpdateManifest` and recovery run concurrently with that and change what is read. Store
writes can fail half way, and the Coordinator can restart between any two of these steps.

The properties that matter per part:
- Activation: the budget `MaxActivations` is never exceeded; every admitted marble is
  counted; the counter never goes down; two admitted marbles of one type have different
  tickets; every admitted marble passed the attestation policy in force (package, the
  update-raised security version, an infrastructure); every request gets an answer;
  the status codes are the ones the specification gives.
- Templater and TTLS: a parameter refers only to secrets the manifest defines;
  reserved `EDG_*` variables cannot be overwritten; `MARBLE_TTLS_CONFIG` is present exactly
  when the marble has TLS tags.
- Gramine prepare: the manifest written back is ready for MarbleRun and contains every edit
  `insertFile` made; a kill or a declined prompt never loses the user's original manifest.

## 2. Modules

### `Activation.tla`: the activation service

Constants: the connections `Req`, marble types `MarbleType` (plus `UnknownType` for a
request naming no manifest marble), packages, `MarblePackage`, `MaxActivations` (0 = unlimited),
`MainSV` (the manifest's security versions), the bound `MaxSV`, `Infrastructure`,
`Platform`, `ZeroInfra`, `SimulationMode`, and the bound `MaxCrashes`.

Variables and their code:
- `state`: the Coordinator state (`uninitialized`, `acceptingMarbles`, `recovery`).
- `mux`: the connection holding `c.mux`, or `NoHolder`.
- `pc[r]`: where connection `r` is in `Activate`. `verify`, `getActivations`,
  `putActivations`, `issue`, `increment` and `reply` are the steps taken with the mutex held.
- `req[r]`: the request, abstracted to the marble type, the quote (package, security
  version, platform) and a `defect` that stands for a missing peer certificate,
  an unparsable UUID or a bad CSR.
- `read[r]`: the counter value read at line 188.
- `activations[m]`: the persisted counter, `NotSet` until first written.
- `update[p]`: the update manifest's security version for a package, or `NoUpdate`.
- `outcome[r]`: the gRPC code returned. `granted` is a history of admitted marbles
  (ghost state, for the properties). `crashes` counts restarts (bound `MaxCrashes`).

Actions, one per step of the handler:

| Action | Code |
|---|---|
| `Arrive` | a marble connects |
| `RequireState` | `requireState` + `defer c.mux.Unlock()` (line 56); wrong state gives FailedPrecondition |
| `VerifyManifestRequirement` | lines 61-68 and 142-186: no peer cert, unknown marble, quote rejected |
| `GetActivations` | lines 187-193, unset reads as 0 |
| `PutActivations` | lines 194-201: seed write (may fail), budget check gives ResourceExhausted |
| `IssueSecrets` | lines 70-130: UUID parse error, CSR error |
| `IncrementActivations` | lines 132-135 (may fail) |
| `Reply` | lines 127-139 |
| `Retry` | the marble reconnects after a failure |
| `SetManifest`, `UpdateManifest`, `Recover`, `Restart` | Coordinator API and process lifecycle, modelled from the specification (not in this tree) |

`Fail(r, code)` is every error return: the connection stops, the code is recorded and
the deferred `Unlock` releases the mutex.

What is left out: the certificate and parameter contents (they do not change who is
admitted), and store reads other than the counter and the update manifest.

### `MCActivation.tla`: instance for TLC

Two connections and two marble types on one package:
- `m1` has a budget of 1;
- `m2` is unlimited.

Security versions run over 0..1, so `UpdateManifest` can raise the minimum once. There is one
infrastructure and two platforms, so a quote from the wrong platform exists. One restart is
allowed. `Req` is declared symmetric.

### `ActivationProofs.tla`: the invariant proofs (see section 4)

### `AtomicActivation.tla`: what the activation service promises

This is the abstract specification (sections 4.8, 5 and 8.1-8.2 of the specification). It has
the same coordinator `state`, `update` and `granted` as the detailed model, and `activations`
as a plain number per type. It has no mutex, no `pc` and no reads in progress. An activation
is two atomic events:
- `Consume(m)`: the counter goes up by one, only while it is below the budget. This is
  `incrementActivations`, line 132, after the check at line 197.
- `Admit(r, m, n, q)`: a marble is admitted on ticket `n`. The ticket is a counter value
  already consumed and held by no other admission of its type. The quote `q` must meet the
  policy in force (`Admissible`, from lines 157-185). This is the reply at line 138.

A consumed unit that no marble receives is an activation whose answer was lost. An example
is a failed reply or a restart after the increment.

`Activation.tla` instantiates it as `Atomic`, mapping
`activations <- [m \in MarbleType |-> Count(m)]`. `Count` is the counter as
`getActivations` reads it, with `NotSet` read as 0. `RefinesAtomic == Atomic!Spec`.

### `ActivationRefinement.tla`: the refinement proof (see section 4)

### `Parameters.tla`: what one activation delivers

This models one `Activate` call of one marble entry, from the secrets up to the response.
It starts after the budget and quote checks, which `Activation.tla` covers. The constants
are the marbles (manifest entries), Env and file names, secret names, TLS tags, ports and
addresses. `IsMarble` and `MarblesAssumption` say which entries are well formed.

Variables: `marble`, `pc`, `privK`, `secrets`, `ttlsInEnv`, `env`, `files`, `ttls`,
`cause` and `storeFailed` (a history variable).

Templates are abstracted to the secret names they refer to and the encoding they apply,
or a syntax error. Values are abstracted to `TextVal(...)` terms. Actions, in the code's
order:

| Action | Code |
|---|---|
| `GenerateMarbleAuthSecrets` | lines 325-376: bad CSR, serial, signing or crypto error, or a store error |
| `LoadIssuer` | lines 81-93: a failed `getPrivK("intermediate")` is only logged, so the activation continues with a nil key |
| `GenerateSecrets` | unique-certificate secrets signed with that key (spec-modelled; not in this tree) |
| `MergeShared` | lines 102-109: user secrets merged over the shared ones |
| `SetTTLSConfig` | lines 115-119 and 378-447: the TTLS JSON is written into `marble.Parameters.Env` |
| `CustomizeParameters` | lines 257-308: every Env and Files template expanded (`Expand`, `ExpandAll`), then the reserved `EDG_*` variables written over them (lines 292-305) |

`TTLSConfig` builds the configuration from the marble's tags:
- `Outgoing` entries are keyed `addr:port`.
- `Incoming` entries are keyed `*:port`, so the last entry for a port wins (`LastIncoming`).
- A certificate name missing from the merged secrets reads Go's zero `Secret` (line 422), whose ids are `ZeroIds`.

A template reaches a secret through a path of `secretsWrapper` (lines 40-44). The reserved
paths are `MarblerunRefs`. The paths of user secret `n` are `SecretRefs(n)`: the secret
itself and its `.Cert`, `.Private` and `.Public` parts. `Datum` resolves a path. It uses
`UserDatum` for the user secrets. For a name missing from the merged map, text/template
passes nil (`NilDatum`). Every encoder rejects nil with "invalid secret type" (`part_000`
lines 110 and 138), so the template fails. `ASSUME SecretPaths` says three things that text/template
relies on when it resolves a path one identifier at a time:
- the paths of two secrets never coincide;
- no user path is a reserved one;
- no secret name, and no `seal` key, is named like a part of the zero `Secret`.
TLC evaluates the assumption on the instance, and the proofs use it.

An expanded value is a record `Val` of an encoding and an identity in `Ids`. `Ids` lists
every identity a value can carry:
- plain text and the TTLS JSON;
- the Coordinator's certificates and keys (lines 292-305 and 364-373);
- `SecretIds(b)`, the parts of a user secret or of the seal key.

`Ids` is a little larger than needed. It holds `seal.cert` and `seal.key`, which no template
can produce, because only the public part of the seal key is encoded. So `TypeOK` says that
no value comes from anywhere but these sources, and it needs no fact about `\o` on strings.

### `MCParameters.tla`: instance for TLC

The instance has three Env names:
- `GREETING`;
- the reserved `EDG_CA`;
- `MARBLE_TTLS_CONFIG`, so that a manifest can set it.

It has one file, two secrets and two tags:
- `t1` has an incoming entry on 443 with no certificate, and an outgoing entry to `db:443`;
- `t2` has an incoming entry on 443 with certificate `s1` and client auth disabled, plus 8443.

There are six templates: plain text, each secret, each encoding and a syntax error. These give
576 marble entries. They combine with every store failure and every key outcome.

### `ParametersProofs.tla`: proofs for the templater (see section 4)

### `GraminePrepare.tla`: the `gramine-prepare` command

This models repeated invocations by a user who may decline the prompt or kill the process
at any point, including in the middle of a file write.

A manifest is abstracted to:
- the TOML values of the keys the command reads or writes, each with its TOML type;
- whether the text mentions a MarbleRun name (`marker`, lines 74-76);
- whether the regular expressions of `appendAndReplace` find its entries (`flat`);
- whether it is a prefix left by a killed write (`cut`).

Variables: `input`, `manifest`, `backup`, `premain`, `pc`, `diffs`, `content`, `modified`,
`outcome` and `runs` (bound `MaxRuns`).

| Action | Code |
|---|---|
| `Start` | lines 49-64 |
| `ReadManifest` | lines 66-97, with `ParseTreeForChanges` (99-173), its type-assertion `Panics`, `InsertFile` (359-380) and `CalculateChanges` (175-211) |
| `Prompt` | lines 213-231 |
| `Apply` | lines 233-246 and `AppendAndReplace` (301-357) |
| `WriteBackup` | lines 248-253 |
| `WriteManifest` | lines 255-260 |
| `Download` | lines 262-299 |
| `Kill` | the process killed between two steps; a kill inside a write is the `Cut` disjunct of `WriteBackup` and `WriteManifest` |

Three helpers carry what the code does with values:
- `IsValue` is what go-toml returns for a key.
- `Printed` is how `calculateChanges` prints a changed value (lines 186-200): quoted
  strings, arrays of quoted strings, and `%v` for everything else.
- `PassthroughText` is the string that lines 140-149 write.

A `File` maps every key to a `Value`: a type, a text, a number, a Boolean and a set of file
entries. `InputsAssumption` says that the inputs are whole files of such values. `KeysDistinct` says
that the keys `insertFile` builds with `+` are not keys that `parseTreeForChanges` searches
for, and are distinct from each other. `EntriesAreStrings` says that the texts the command
writes are strings: the empty text of a value that has none, the literals of lines 22,
140-149 and 164, and the entries `insertFile` builds with `+`. TLA+ strings are strings by
definition, but no TLAPS backend knows that of a literal, so the fact is an assumption.
TLC evaluates it.

`MCGraminePrepare.tla` enumerates every shape of every key the command reads. That is 55296
manifests, ill-typed ones included. For the rerun question it uses a few inputs over three
invocations.

## 3. Runs

| Run | Config | Checks | Result |
|---|---|---|---|
| `activation_safety` | `MCActivation.cfg` | `TypeOK`, `ActivationBudget`, `GrantsCounted`, `DistinctTickets`, `PolicyRespected`, `CounterMonotone`, `RefinesAtomic` | passes, 1070599 distinct states in about 80 s |
| `activation_liveness` | `MCActivationLive.cfg` | `EveryRequestAnswered` under `FairSpec` | passes, about 660k states |
| `uuid_status_code` | `MCActivationCodes.cfg` | `StatusCodesPerSpec` | violated, see Findings |
| `parameters_delivery` | `MCParameters.cfg` | `TypeOK`, `ReservedEnvWins`, `SecretsResolved`, `TTLSDelivered` | passes, 11280 distinct states |
| `ttls_env_without_tags` | `MCParametersTTLSAbsentIffNoTags.cfg` | `TTLSAbsentIffNoTags` | violated |
| `intermediate_key_error_ignored` | `MCParametersStoreErrorsAbort.cfg` | `StoreErrorsAbort` | violated |
| `internal_errors_unknown` | `MCParametersFailureCodesPerSpec.cfg` | `FailureCodesPerSpec` | violated |
| `ttls_port_collision` | `MCParametersClientAuthPerEntry.cfg` | `ClientAuthPerEntry` | violated |
| `gramine_inputs` | `MCGraminePrepare.cfg` | `TypeOK`, `ResourcesPrepared`, `NoPanicWellTyped` | passes, 219348 distinct states |
| `gramine_rerun` | `MCGraminePrepareRerun.cfg` | `OriginalRecoverable` | passes, 21024 distinct states |
| `gramine_env_passthrough` | `MCGraminePrepareEnvPassthrough.cfg` | `EnvPassthrough` | violated |
| `gramine_files_inserted` | `MCGraminePrepareFilesInserted.cfg` | `FilesInserted` | violated |

What the Parameters properties say:
- `ReservedEnvWins`: the delivered Env holds the Coordinator's `EDG_*` values whatever the
  manifest sets.
- `SecretsResolved` has two parts.
  - An activation that fails on a template has some template of the manifest that is at
    fault on its own (`Resolvable` fails). That template names an undeclared secret, or
    its encoder rejects what the path names. A declared secret is never missing from the
    map.
  - A delivered TTLS configuration whose Incoming certificates are all declared
    (`CertsDeclared`) never carries the zero `Secret`.
  The mutant that replaces the merged map by the shared secrets breaks both parts.
- `TTLSDelivered`: a marble with tags receives exactly the assembled TTLS configuration.

`RefinesAtomic` is checked in the safety run, on the same instance. Every step of two racing
connections, with store failures, a manifest update and a restart, maps to a `Consume`, an
`Admit`, a Coordinator call or a stutter.

The bounds are enough for the following reasons:
- Two connections are the least that can race.
- A budget of 1 makes the first interleaving that over-admits visible.
- The unlimited type covers `MaxActivations = 0`.
- One update and one restart already place a change of policy and a crash between every
  pair of steps.
- For Parameters, two tags sharing port 443 make the collision possible, and two secrets
  let a template name one that is missing.
- For gramine-prepare, every key takes its absent, well-typed, ill-typed and boundary
  values (for example 8 and 16 threads, 512M and 1G). `ResourcesPrepared` requires the
  written `sgx.enclave_size` to be present. So an absent size, whose zero value fails the
  check at lines 160-163, must also be replaced by `1024M`.

Every mutant listed in `PROJECT.json` breaks its property under these bounds. Examples:
- a `>` for `>=` in the budget check;
- a seed write of 0;
- an ignored increment error, which also breaks `RefinesAtomic`;
- a missing mutex;
- a quote check that ignores the update manifest;
- reserved variables written before the templates;
- shared secrets replacing user secrets;
- the TTLS configuration written to a copy;
- a rerun that skips the already-prepared check (`ReadManifestNoPrecheck`).

`CHECK_DEADLOCK FALSE` is set in these cases:
- In Activation, when every connection is answered and no restart is left, the Coordinator
  is idle. That is a final state.
- In Parameters, an activation that has ended is final.
- In GraminePrepare, the invocations are bounded by `MaxRuns`.

**Fairness.** `RequireState` is strongly fair. Go's `sync.Mutex` enters starvation mode
after a waiter has waited 1 ms, and then hands the lock to the oldest waiter. So a
connection that keeps finding the lock free again is eventually served. Every other step
runs with the lock held and without blocking, so it is weakly fair. `Arrive`, `Retry`, the
Coordinator API calls and `Restart` are the environment's choice and have no fairness.
The liveness instance uses an empty `Infrastructure` (the zero-infrastructure path) to stay
within the time budget.

## 4. What is proved

TLAPS checks every proof to the last leaf. Each theorem holds for every value of the
constants, under the named assumptions of the modules (`ConstantsAssumption`;
`MarblesAssumption` and `SecretPaths`; `InputsAssumption`, `KeysDistinct` and
`EntriesAreStrings`). TLC
evaluates each of them on every run of its module.

`ActivationProofs.tla`:
- `TypeCorrect`: `Spec => []TypeOK`.
- `BudgetRespected`: `Spec => []ActivationBudget`.
- `TicketsDistinct`: `Spec => []DistinctTickets`.
- `CounterNeverDecreases`: `Spec => CounterMonotone`.

The invariants are not inductive as they stand. The budget, for instance, depends on the
counter not moving between the read and the increment, and that depends on the mutex.
The strengthening `IInv` adds:
- `LockHeld`: a connection in a locked step holds `mux`, so at most one is in one.
- `KnownType`: past `verify`, the request names a manifest marble.
- `ReadCurrent`: past `getActivations`, `read[r]` equals the persisted counter.
- `BudgetChecked`: at `issue` and `increment`, `read[r]` is below a positive budget.
- `GrantsBelowCounter`: every grant's ticket is below the current counter.
- `IncrementDone`: at `reply`, the counter is `read[r] + 1` and the earlier grants of that
  type have smaller tickets.

TLC checked `IInv` as an invariant of the safety instance before the proof. The step proof
has one case per action. A `Restart` moves every locked connection to `failed` and frees the
mutex.

`ActivationRefinement.tla` proves `ImplementsAtomic`: `Spec => RefinesAtomic`. The argument
has three parts:
- `InitMaps`: an initial state maps to an initial abstract state.
- `StepMaps`: under `IInv /\ RInv`, every step maps to an abstract step or a stutter.
  - `IncrementActivations` is `Consume`. The budget comes from `BudgetChecked`.
  - `Reply` is `Admit` on ticket `read[r]`. `IncrementDone` shows the ticket is below the
    counter and held by no earlier grant.
  - Every other locked step leaves the mapped state unchanged.
- The temporal step combines them by PTL.

`IInv` is not enough for this proof. `Admit` needs the coordinator to be accepting marbles
and the quote to meet the policy in force at the reply, not only at the check. `RInv` adds
two conjuncts:
- `AcceptingWhileLocked`: a request in a locked step sees `acceptingMarbles`.
- `QuoteChecked`: past the check, the request's quote is still accepted.

Both hold because `SetManifest`, `UpdateManifest` and `Recover` wait for `c.mux`. Lemma
`QuoteStable` shows that a raised security version never invalidates a quote that is
checked while the lock is held. `AcceptedIsAdmissible` shows that the code's check
(lines 168-185) implies the abstract policy.

`ActivationProofs.tla` also proves `GrantsCountedHolds` (`Spec => []GrantsCounted`). No
more marbles of a type are admitted than its counter says. The proof maps every grant to its
ticket. `GrantsBelowCounter` and `DistinctTickets` make that map an injection into the
numbers below the counter. `FS_Injection` then bounds the number of grants.

`ActivationRefinement.tla` also proves `PolicyHolds` (`Spec => []PolicyRespected`). It uses
`IInv /\ RInv` as the inductive invariant. Its step lemma `StepPolicy` rests on
`QuoteChecked` and `AcceptedIsAdmissible`.

`ParametersProofs.tla` proves five theorems:
- `TypeCorrect`: `Spec => []TypeOK`.
- `ReservedWin`: `Spec => []ReservedEnvWins`.
- `TTLSEnvDelivered`: a finished activation of a marble with tags has `MARBLE_TTLS_CONFIG`
  set to the TTLS JSON.
- `TTLSDeliveredHolds`: `Spec => []TTLSDelivered`.
- `SecretsResolvedHolds`: `Spec => []SecretsResolved`.

These proofs use `MarblesAssumption` and `SecretPaths`. The strengthening `IInv` ties each
stage of the activation to the manifest entry:
- after `GenerateSecrets`, `secrets` is `Generated(marble)`, the unique secrets;
- after `MergeShared`, `secrets` is `Declared(marble)`, every secret the entry declares;
- a finished activation's Env is the overlay `Delivered` of the templated manifest Env, the
  TTLS entry and the reserved values;
- a finished activation's files are `ExpandAll` of the manifest files, and no template failed;
- without tags, `ttls` stays `NoTTLS`, and with tags `ttlsInEnv` is set before customisation.

The lemmas used are:
- `ReservedOverlay` and `TTLSOverlay`: what the overlay returns.
- `DatumAgree`: a path resolves alike over two maps that agree on the one name it looks
  up.
- `ResolvableExpands`: a `Resolvable` template expands over any map that holds every
  declared secret.

`SecretsResolvedHolds` needs one more conjunct of `IInv`: a template failure happens with
`secrets = Declared(marble)`. `ResolvableExpands` then shows that, if every template were
`Resolvable`, none would fail.
- `LastIncomingIn`: the last entry for a declared port exists and names that port.
  `LastIncoming` is a maximum over a finite set of positions. `NatSetHasMax` proves that
  the maximum exists from `WFMin` of `WellFoundedInduction`, with no induction over data.

`TypeOK` is not inductive alone. A file or variable written by `CustomizeParameters` is of
type `Val` only because the templates it expands refer to declared secrets. So
`TypeCorrect` is proved with `IInv`, as `Spec => [](IInv /\ TypeOK)`. Its lemmas build the
type up from the bottom:
- `DatumId`: a resolved path has an identity in `Ids`.
- `ExpandVal` and `ExpandAllVal`: an expansion that succeeds gives a `Val`.
- `ReservedVal`: the reserved values are `Val`s.
- `TTLSType`: the TTLS configuration has the declared shape.

`GraminePrepareProofs.tla` proves five theorems:
- `InvariantHolds`.
- `TypeCorrect`: `Spec => []TypeOK`.
- `OriginalSurvives`: `Spec => []OriginalRecoverable`.
- `PanicOnlyIllTyped`: `Spec => []NoPanicWellTyped`.
- `ResourcesReady`: `Spec => []ResourcesPrepared`.

These proofs use `InputsAssumption`, `KeysDistinct` and `EntriesAreStrings`.

`IInv` tracks what is on disk and what a run in progress holds:
- The manifest is either the input, or it is refused by a rerun (prepared, or with no
  entrypoint) and the input is in the backup.
- From `Prompt` on, the manifest is still the input and the diffs set the entrypoint.
- From `WriteBackup` on, the text to write has premain-libos as entrypoint. While the
  manifest is being written, the backup is the input.
- `Ready(f, input)` says that `f` already satisfies `ResourcesPrepared`. It holds from
  `Prompt` on for `Patched(diffs, input)`, the input with the printed value of every diff
  written in. It holds for the text to write, and for every manifest the command wrote.

`ParseReady` is the core lemma. It proves `Ready` key by key from `ParseTreeForChanges`,
`CalculateChanges` and `PatchedAt`. `AppendPatched` says what `AppendAndReplace` writes.
`InsertFileChanges` bounds the keys that `insertFile` touches.

`TypeOK` is not inductive alone, because `Apply` writes the values of the diffs into the
text. `TypeCorrect` is proved with `IInv` and `DiffsTyped`: every diff names a key of the
manifest and holds a `Value`. The argument is bottom-up:
- `InsertFileValues`: `insertFile` reads only its own declaration and adds values.
- `ParseValues`: so `ParseTreeForChanges` yields typed diffs.
- `PatchedFile` and `CutFile`: a patched file and the prefix a killed write leaves are files.
- `FS_EmptySet` and `FS_Singleton` of `FiniteSetTheorems` bound the backup. The module takes
  them through a named instance, because `Integers` has its own `Int`.

To make these operators provable, they are written as an ordered `IF` chain and explicit
functions, with no `@@` or `:>`. The modelled behaviour is unchanged, and TLC re-checked
every run. The string `"{ passthrough = true }"` is the definition `PassthroughText`,
because Z3 cannot take that literal.

Only model-checked:
- Liveness (`EveryRequestAnswered`). TLAPS does not handle fairness or ENABLED here.
- The violated properties. Their counterexamples are the findings below.

## 5. Findings

- **Malformed UUID gives `Unknown`, not `InvalidArgument`** (`marbleapi.go:72`, run
  `uuid_status_code`). `Activate` returns the error of `uuid.Parse` as is.
- **Template and crypto errors give `Unknown`, not `Internal`** (`marbleapi.go:122` and
  `313`, run `internal_errors_unknown`).
- **A failed intermediate-key read does not abort** (`marbleapi.go:86`, run
  `intermediate_key_error_ignored`). The error is only logged. A marble without
  certificate secrets is activated and counted.
- **`MARBLE_TTLS_CONFIG` without TLS tags** (`marbleapi.go:379`, run
  `ttls_env_without_tags`). A manifest that sets the variable delivers it to a marble
  without tags. The specification says it is absent iff there are no tags.
- **`*:port` collision** (`marbleapi.go:440`, run `ttls_port_collision`, a spec gap). Two
  tags on one port: the later entry decides `clientAuth` for both.
- **Passthrough written as a string** (`graminePrepare.go:140`, run
  `gramine_env_passthrough`). `EDG_MARBLE_*` becomes the string `"{ passthrough = true }"`,
  not the inline table.
- **Premain not inserted** (`graminePrepare.go:181`, run `gramine_files_inserted`). Without
  a `trusted_files` array, the premain and uuid entries that `insertFile` adds are dropped,
  because `calculateChanges` emits only keys of the original.

## 6. Not modelled

- **Certificate fields and NotAfter** (`marbleapi.go:204-254`). X.509 contents do not
  change who is admitted or what is delivered. `CodeOf` covers their error paths.
- **Argv.** `customizeParameters` copies `params.Argv` verbatim (line 259). Nothing is
  templated or checked, so there is nothing to model.
- **`Certificate` JSON (un)marshalling and the template encoders** (`part_000`). These are
  pure encodings. `Encode` abstracts them to the encoding applied and its failure.
- **Store, quote verifier, `SetManifest`, `UpdateManifest`, `Recover`**: not in this tree.
  They are modelled from the specification and marked `spec_modelled`.
- **CI workflow, chart documentation, sample manifests**: no behaviour to model.
