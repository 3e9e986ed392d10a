--------------------------- MODULE GraminePrepare ---------------------------
(***************************************************************************)
(* The `marblerun gramine-prepare' command (src/cli/cmd/graminePrepare.go) *)
(* over repeated invocations by a user who may decline the prompt or kill  *)
(* the process at any point, including in the middle of a file write.      *)
(*                                                                         *)
(* A manifest file is abstracted to the values of the TOML keys the        *)
(* command reads or writes (kv), whether its text mentions a MarbleRun     *)
(* name anywhere (marker, the strings searched at lines 74-76), whether    *)
(* it is flat-mapped so that the regular expressions of appendAndReplace   *)
(* find its entries (flat), and whether it is a prefix left by a killed    *)
(* write (cut).  The tool's output is this same abstraction of the text it *)
(* writes, as TOML would parse it back.                                    *)
(***************************************************************************)
EXTENDS Naturals, FiniteSets, Sequences, TLC

CONSTANTS
    Inputs,      \* the manifests the user may start from
    MaxRuns      \* bound on the number of invocations

-----------------------------------------------------------------------------
(* TOML keys the command reads or writes (lines 105-114, 363-375).         *)
Entrypoint == "libos.entrypoint"
HostEnv    == "loader.insecure__use_host_env"
Argv0      == "loader.argv0_override"
RemoteAtt  == "sgx.remote_attestation"
EnclaveSz  == "sgx.enclave_size"
ThreadNum  == "sgx.thread_num"
EnvKeys    == {"loader.env.EDG_MARBLE_COORDINATOR_ADDR", "loader.env.EDG_MARBLE_TYPE",
               "loader.env.EDG_MARBLE_UUID_FILE", "loader.env.EDG_MARBLE_DNS_NAMES"}
Trusted    == "sgx.trusted_files"
Allowed    == "sgx.allowed_files"
Searched   == {Entrypoint, HostEnv, Argv0, RemoteAtt, EnclaveSz, ThreadNum} \cup EnvKeys

PremainName == "premain-libos"
(* The Go string lines 140-149 set each EDG_MARBLE_* variable to.        *)
PassthroughText == "{ passthrough = true }"
UUIDName    == "uuid"
LegacyKey(fileType, fileName) == fileType \o ".marblerun_" \o fileName
Keys == Searched \cup {Trusted, Allowed, LegacyKey(Trusted, PremainName),
                       LegacyKey(Allowed, UUIDName)}

(* A TOML value (or a Go value of the maps built from it).  "table" is a   *)
(* legacy table of file entries, "inline" the table { passthrough = true }.*)
ValType == {"nil", "string", "int", "bool", "array", "table", "inline"}
Nil          == [type |-> "nil", s |-> "", n |-> 0, b |-> FALSE, files |-> {}]
Str(x)       == [Nil EXCEPT !.type = "string", !.s = x]
Int(k)       == [Nil EXCEPT !.type = "int", !.n = k]
Bool(x)      == [Nil EXCEPT !.type = "bool", !.b = x]
Arr(fs)      == [Nil EXCEPT !.type = "array", !.files = fs]
Table(fs)    == [Nil EXCEPT !.type = "table", !.files = fs]
Passthrough  == [Nil EXCEPT !.type = "inline"]

(* The enclave sizes, and the ones datasize parses to less than 1 GiB.     *)
(* "junk" fails to parse; the error is ignored and the size stays 0.       *)
Sizes      == {"512M", "1024M", "2G", "junk"}
BelowOneGB == {"512M", "junk"}

Value == [type: ValType, s: STRING, n: Nat, b: BOOLEAN, files: SUBSET STRING]
File  == [kv: [Keys -> Value], marker: BOOLEAN, flat: BOOLEAN, cut: BOOLEAN]

(* A value go-toml can return for a key: nil for a key the file does not   *)
(* hold, or a string, integer, boolean, array, table or inline table.      *)
IsValue(v) ==
    \/ v \in {Nil, Passthrough}
    \/ v = Str(v.s) \/ v = Int(v.n) \/ v = Bool(v.b)
    \/ v = Arr(v.files) \/ v = Table(v.files)

(* The inputs are whole files of such values.                              *)
ASSUME InputsAssumption ==
    /\ Inputs \subseteq File
    /\ \A f \in Inputs : ~f.cut
    /\ \A f \in Inputs : \A k \in Keys : IsValue(f.kv[k])

(* The keys insertFile builds with "+" (lines 367-375) are not keys that   *)
(* parseTreeForChanges searches for, nor each other.                       *)
ASSUME KeysDistinct ==
    /\ LegacyKey(Trusted, PremainName) \notin Searched \cup {Trusted, Allowed}
    /\ LegacyKey(Allowed, UUIDName) \notin
          Searched \cup {Trusted, Allowed, LegacyKey(Trusted, PremainName)}
    /\ MaxRuns \in Nat \ {0}

(* The texts the command writes are strings: the empty text of a value    *)
(* without one, the literals of lines 22, 140-149 and 164, and the file    *)
(* entries insertFile builds with "+" (lines 367-375).                     *)
ASSUME EntriesAreStrings ==
    /\ {"", PremainName, PassthroughText, "1024M"} \subseteq STRING
    /\ \A fn \in {PremainName, UUIDName} : "file:" \o fn \in STRING

-----------------------------------------------------------------------------
(* addToGramineManifest, lines 74-76: the text already mentions premain or *)
(* an EDG_MARBLE_* variable.  In the abstraction these are the file's      *)
(* marker, the premain entrypoint or file entries, and any EDG variable.   *)
Prepared(f) ==
    \/ f.marker
    \/ f.kv[Entrypoint] = Str(PremainName)
    \/ "file:" \o PremainName \in f.kv[Trusted].files
    \/ f.kv[LegacyKey(Trusted, PremainName)] # Nil
    \/ \E e \in EnvKeys : f.kv[e] # Nil

(* insertFile, lines 362-380: the keys the trusted/allowed declaration     *)
(* adds to `original' (with the tree's value) and what it adds to         *)
(* `changes', for each form of the declaration.                           *)
InsertFile(tree, fileType, fileName) ==
    LET cur   == tree[fileType]
        entry == "file:" \o fileName
    IN  CASE cur.type = "nil"   -> [err |-> FALSE, orig |-> {},
                                    chg |-> [k \in {fileType} |-> Arr({entry})]]
          [] cur.type = "table" -> [err |-> FALSE, orig |-> {},
                                    chg |-> [k \in {LegacyKey(fileType, fileName)} |-> Str(entry)]]
          [] cur.type = "array" -> [err |-> FALSE, orig |-> {fileType},
                                    chg |-> [k \in {fileType} |-> Arr(cur.files \cup {entry})]]
          [] OTHER              -> [err |-> TRUE, orig |-> {}, chg |-> <<>>]

(* Line 138: the host environment is not passed through, so the EDG        *)
(* variables must be declared.                                             *)
HostEnvOff(orig) == orig[HostEnv] = Nil \/ ~orig[HostEnv].b

(* Mutant: the negation of line 154 dropped.                              *)
RemoteAttOffNoNegation(orig) == orig[RemoteAtt] = Nil \/ orig[RemoteAtt].b

(* Line 154: remote attestation is not switched on.                        *)
RemoteAttOff(orig) == orig[RemoteAtt] = Nil \/ ~orig[RemoteAtt].b

(* Lines 159-163: the parsed enclave size is below 1 GiB.                  *)
EnclaveTooSmall(orig) == orig[EnclaveSz] = Nil \/ orig[EnclaveSz].s \in BelowOneGB

(* Line 168: fewer than 16 SGX threads.                                    *)
TooFewThreads(orig) == orig[ThreadNum] = Nil \/ orig[ThreadNum].n < 16

(* Mutant: the nil guard of line 168 dropped.                             *)
PanicsNoNilGuard(orig) ==
    \/ orig[Argv0] = Nil /\ orig[Entrypoint].type # "string"
    \/ orig[HostEnv] # Nil /\ orig[HostEnv].type # "bool"
    \/ orig[RemoteAtt] # Nil /\ orig[RemoteAtt].type # "bool"
    \/ orig[EnclaveSz] # Nil /\ orig[EnclaveSz].type # "string"
    \/ orig[ThreadNum].type # "int"

(* The type assertions of lines 134, 138, 154, 161 and 168 that panic, in  *)
(* the order the code reaches them; each is guarded as in the code.        *)
Panics(orig) ==
    \/ orig[Argv0] = Nil /\ orig[Entrypoint].type # "string"
    \/ orig[HostEnv] # Nil /\ orig[HostEnv].type # "bool"
    \/ orig[RemoteAtt] # Nil /\ orig[RemoteAtt].type # "bool"
    \/ orig[EnclaveSz] # Nil /\ orig[EnclaveSz].type # "string"
    \/ orig[ThreadNum] # Nil /\ orig[ThreadNum].type # "int"

(* parseTreeForChanges, lines 99-173: the original values searched for,    *)
(* the values to add or modify, or the error or panic that ends the run.   *)
ParseTreeForChanges(tree) ==
    LET tf   == InsertFile(tree, Trusted, PremainName)
        af   == InsertFile(tree, Allowed, UUIDName)
        orig == [k \in Searched \cup tf.orig \cup af.orig |-> tree[k]]
        upd  == {Entrypoint}
                \cup (IF orig[Argv0] = Nil THEN {Argv0} ELSE {})
                \cup (IF HostEnvOff(orig) THEN {e \in EnvKeys : orig[e] = Nil} ELSE {})
                \cup (IF RemoteAttOff(orig) THEN {RemoteAtt} ELSE {})
                \cup (IF EnclaveTooSmall(orig) THEN {EnclaveSz} ELSE {})
                \cup (IF TooFewThreads(orig) THEN {ThreadNum} ELSE {})
        new(k) == CASE k = Entrypoint -> Str(PremainName)
                    [] k = Argv0      -> orig[Entrypoint]
                    [] k \in EnvKeys  -> Str(PassthroughText)
                    [] k = RemoteAtt  -> Bool(TRUE)
                    [] k = EnclaveSz  -> Str("1024M")
                    [] k = ThreadNum  -> Int(16)
    IN  \* checked in the code's order: the guards overlap
        IF tree[Entrypoint] = Nil THEN [res |-> "noEntrypoint"]
        ELSE IF tf.err \/ af.err   THEN [res |-> "unreadableFiles"]
        ELSE IF Panics(orig)       THEN [res |-> "panic"]
        ELSE [res |-> "ok", original |-> orig,
              changes |-> [k \in upd \cup DOMAIN tf.chg \cup DOMAIN af.chg |->
                             IF k \in upd THEN new(k)
                             ELSE IF k \in DOMAIN tf.chg THEN tf.chg[k]
                             ELSE af.chg[k]]]

(* calculateChanges, lines 176-211: one diff per key of `original' that    *)
(* `changes' also has; keys only in `changes' are not emitted.  A Go       *)
(* string is printed quoted (a TOML string, whatever its text), an array   *)
(* as an array of quoted strings, anything else with %v.  The sort only    *)
(* orders the output, so a set is kept.                                    *)
Printed(v) ==
    CASE v.type = "string" -> Str(v.s)
      [] v.type = "array"  -> Arr(v.files)
      [] v.type = "int"    -> Int(v.n)
      [] OTHER             -> Bool(v.b)

CalculateChanges(original, updates) ==
    { [key           |-> k,
       alreadyExists |-> original[k] # Nil,
       entryType     |-> IF updates[k].type = "array" THEN "array" ELSE "string",
       value         |-> Printed(updates[k])]
      : k \in DOMAIN original \cap DOMAIN updates }

(* Mutant: the whole diff is written where its value belongs.             *)
AppendAndReplaceWholeDiff(diffs, f) ==
    IF \E d \in diffs : d.alreadyExists /\ ~f.flat
    THEN [res |-> "notFlat"]
    ELSE [res |-> "ok",
          content |-> [f EXCEPT !.kv = [k \in Keys |->
                          IF \E d \in diffs : d.key = k
                          THEN CHOOSE d \in diffs : d.key = k
                          ELSE f.kv[k]]]]

(* appendAndReplace, lines 310-357: an existing entry is replaced where    *)
(* the regular expression finds it, which it does only in a flat-mapped   *)
(* file, else the whole modification fails; a new entry is appended.       *)
AppendAndReplace(diffs, f) ==
    IF \E d \in diffs : d.alreadyExists /\ ~f.flat
    THEN [res |-> "notFlat"]
    ELSE [res |-> "ok",
          content |-> [f EXCEPT !.kv = [k \in Keys |->
                          IF \E d \in diffs : d.key = k
                          THEN (CHOOSE d \in diffs : d.key = k).value
                          ELSE f.kv[k]]]]

(* A prefix of `f' left by a write that was killed.  It either ends before *)
(* the entrypoint line, so it has no entrypoint and no MarbleRun text (the *)
(* additions are appended at the end), or it holds the entrypoint line.    *)
Cut(f, beforeEntrypoint) ==
    IF beforeEntrypoint
    THEN [kv |-> [k \in Keys |-> Nil], marker |-> FALSE, flat |-> f.flat, cut |-> TRUE]
    ELSE [f EXCEPT !.cut = TRUE]

-----------------------------------------------------------------------------
VARIABLES
    input,     \* the user's original manifest (never changes)
    manifest,  \* the manifest file on disk
    backup,    \* the .bak file: {} or the one file written
    premain,   \* the premain-libos file: "absent", "partial" or "complete"
    pc,        \* where the current invocation is
    diffs,     \* changeDiffs computed by the current invocation
    content,   \* manifestContentOriginal, re-read after the prompt
    modified,  \* manifestContentModified
    outcome,   \* how the last invocation ended
    runs       \* invocations started

vars == <<input, manifest, backup, premain, pc, diffs, content, modified, outcome, runs>>

PC == {"idle", "read", "prompt", "apply", "backup", "write", "download"}
Outcome == {"none", "alreadyPrepared", "parseError", "noEntrypoint", "unreadableFiles",
            "panic", "aborted", "notFlat", "writeError", "done", "killed"}

Init ==
    /\ input \in Inputs
    /\ manifest = input
    /\ backup = {}
    /\ premain = "absent"
    /\ pc = "idle"
    /\ diffs = {}
    /\ content = input
    /\ modified = input
    /\ outcome = "none"
    /\ runs = 0

Stop(o) == /\ pc' = "idle"
           /\ outcome' = o

(* The user starts the command on the manifest.                            *)
Start ==
    /\ pc = "idle"
    /\ runs < MaxRuns
    /\ pc' = "read"
    /\ runs' = runs + 1
    /\ UNCHANGED <<input, manifest, backup, premain, diffs, content, modified, outcome>>

(* Mutant: the check of lines 74-79 for an already prepared file dropped.*)
ReadManifestNoPrecheck ==
    /\ pc = "read"
    /\ \/ /\ manifest.cut
          /\ Stop("parseError")
          /\ UNCHANGED diffs
       \/ /\ LET r == ParseTreeForChanges(manifest.kv) IN
             IF r.res = "ok"
             THEN /\ diffs' = CalculateChanges(r.original, r.changes)
                  /\ pc' = "prompt"
                  /\ UNCHANGED outcome
             ELSE /\ Stop(r.res)
                  /\ UNCHANGED diffs
    /\ UNCHANGED <<input, manifest, backup, premain, content, modified, runs>>

(* addToGramineManifest, lines 66-97: read, refuse an already prepared     *)
(* file, parse TOML (a cut file may or may not parse), compute the diffs.  *)
ReadManifest ==
    /\ pc = "read"
    /\ \/ /\ Prepared(manifest)
          /\ Stop("alreadyPrepared")
          /\ UNCHANGED diffs
       \/ /\ ~Prepared(manifest)
          /\ manifest.cut
          /\ Stop("parseError")
          /\ UNCHANGED diffs
       \/ /\ ~Prepared(manifest)
          /\ LET r == ParseTreeForChanges(manifest.kv) IN
             IF r.res = "ok"
             THEN /\ diffs' = CalculateChanges(r.original, r.changes)
                  /\ pc' = "prompt"
                  /\ UNCHANGED outcome
             ELSE /\ Stop(r.res)
                  /\ UNCHANGED diffs
    /\ UNCHANGED <<input, manifest, backup, premain, content, modified, runs>>

(* performChanges, lines 224-231: the user accepts or declines.            *)
Prompt ==
    /\ pc = "prompt"
    /\ \/ pc' = "apply" /\ UNCHANGED outcome
       \/ Stop("aborted")
    /\ UNCHANGED <<input, manifest, backup, premain, diffs, content, modified, runs>>

(* performChanges, lines 233-246: re-read the file and modify its text.    *)
Apply ==
    /\ pc = "apply"
    /\ content' = manifest
    /\ LET r == AppendAndReplace(diffs, manifest) IN
       IF r.res = "ok"
       THEN /\ modified' = r.content
            /\ pc' = "backup"
            /\ UNCHANGED outcome
       ELSE /\ Stop("notFlat")
            /\ UNCHANGED modified
    /\ UNCHANGED <<input, manifest, backup, premain, diffs, runs>>

(* performChanges, lines 248-253: save the re-read text as the backup.     *)
(* The write succeeds, fails, or is killed half way.                       *)
WriteBackup ==
    /\ pc = "backup"
    /\ \/ backup' = {content} /\ pc' = "write" /\ UNCHANGED outcome
       \/ Stop("writeError") /\ UNCHANGED backup
       \/ \E b \in BOOLEAN : backup' = {Cut(content, b)} /\ Stop("killed")
    /\ UNCHANGED <<input, manifest, premain, diffs, content, modified, runs>>

(* performChanges, lines 255-260: write the modified manifest.             *)
WriteManifest ==
    /\ pc = "write"
    /\ \/ manifest' = modified /\ pc' = "download" /\ UNCHANGED outcome
       \/ Stop("writeError") /\ UNCHANGED manifest
       \/ \E b \in BOOLEAN : manifest' = Cut(modified, b) /\ Stop("killed")
    /\ UNCHANGED <<input, backup, premain, diffs, content, modified, runs>>

(* performChanges, lines 262-270, and downloadPremain, lines 273-299: the  *)
(* download succeeds, fails before the file is created, or fails (or is    *)
(* killed) while copying and leaves a partial file; the error is printed   *)
(* and the command reports success either way.                             *)
Download ==
    /\ pc = "download"
    /\ premain' \in {"complete", premain, "partial"}
    /\ Stop("done")
    /\ UNCHANGED <<input, manifest, backup, diffs, content, modified, runs>>

(* The process is killed between two steps (e.g. at the prompt).           *)
Kill ==
    /\ pc \notin {"idle", "read"}
    /\ Stop("killed")
    /\ UNCHANGED <<input, manifest, backup, premain, diffs, content, modified, runs>>

Next == Start \/ ReadManifest \/ Prompt \/ Apply \/ WriteBackup \/ WriteManifest
        \/ Download \/ Kill

Spec == Init /\ [][Next]_vars

-----------------------------------------------------------------------------
(* Properties.                                                              *)

TypeOK ==
    /\ input \in File
    /\ manifest \in File
    /\ backup \in SUBSET File /\ Cardinality(backup) <= 1
    /\ premain \in {"absent", "partial", "complete"}
    /\ pc \in PC
    /\ content \in File
    /\ modified \in File
    /\ outcome \in Outcome
    /\ runs \in 0..MaxRuns

(* A manifest every value of which has the TOML type Gramine gives it.     *)
WellTyped(kv) ==
    /\ kv[Entrypoint].type = "string"
    /\ kv[HostEnv].type \in {"nil", "bool"}
    /\ kv[RemoteAtt].type \in {"nil", "bool"}
    /\ kv[EnclaveSz].type \in {"nil", "string"}
    /\ kv[ThreadNum].type \in {"nil", "int"}

(* A complete manifest the command wrote over the user's input.            *)
Written == ~manifest.cut /\ manifest # input

(* Whatever the user does -- decline, rerun, kill the command between two  *)
(* steps or in the middle of writing the backup or the manifest -- the     *)
(* original manifest is still on disk, as the manifest or as its .bak      *)
(* (performChanges writes the backup first; a rerun on a prepared or cut   *)
(* file stops before it writes, lines 74-87 and 117).                      *)
OriginalRecoverable == manifest = input \/ backup = {input}

(* A manifest the command wrote has premain-libos as entrypoint, the       *)
(* application as argv0 (the user's override if there was one, else the   *)
(* old entrypoint), remote attestation on, at least 1 GiB of enclave and   *)
(* at least 16 threads (parseTreeForChanges, lines 129-170).               *)
ResourcesPrepared ==
    Written =>
        /\ manifest.kv[Entrypoint] = Str(PremainName)
        /\ manifest.kv[Argv0] = IF input.kv[Argv0] = Nil THEN input.kv[Entrypoint]
                                ELSE input.kv[Argv0]
        /\ manifest.kv[RemoteAtt] = Bool(TRUE)
        /\ manifest.kv[EnclaveSz] # Nil /\ manifest.kv[EnclaveSz].s \notin BelowOneGB
        /\ manifest.kv[ThreadNum].n >= 16

(* The command panics only on a manifest with a value of a type Gramine    *)
(* does not accept (the type assertions of parseTreeForChanges).           *)
NoPanicWellTyped == outcome = "panic" => ~WellTyped(input.kv)

(* The comment at line 137: unless the host environment is passed through, *)
(* the written manifest declares each EDG_MARBLE_* variable as the inline  *)
(* table { passthrough = true }, as the sample manifests do.               *)
EnvPassthrough ==
    Written /\ HostEnvOff(input.kv) => \A e \in EnvKeys : manifest.kv[e] = Passthrough

(* The comments at lines 121, 129 and 359-361: the written manifest lists  *)
(* premain-libos as a trusted file and uuid as an allowed file, whichever  *)
(* form the declarations had.                                              *)
FilesInserted ==
    Written =>
        /\ \/ "file:" \o PremainName \in manifest.kv[Trusted].files
           \/ manifest.kv[LegacyKey(Trusted, PremainName)] # Nil
        /\ \/ "file:" \o UUIDName \in manifest.kv[Allowed].files
           \/ manifest.kv[LegacyKey(Allowed, UUIDName)] # Nil

=============================================================================
