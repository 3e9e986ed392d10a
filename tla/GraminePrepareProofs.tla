------------------------ MODULE GraminePrepareProofs ------------------------
(***************************************************************************)
(* Proof that gramine-prepare never loses the user's manifest, for every   *)
(* set of inputs and every number of invocations.                          *)
(*                                                                         *)
(* OriginalRecoverable is not inductive: whether the next write keeps it   *)
(* depends on what the current invocation holds.  The strengthening says  *)
(* what a run that got past addToGramineManifest's checks knows:          *)
(*   - it read the user's manifest, unchanged (a file it wrote, or the    *)
(*     prefix of one, is refused at lines 74-87 or has no entrypoint);     *)
(*   - its diffs set the entrypoint to premain-libos, and so does the     *)
(*     modified text, which therefore is refused by every later run;      *)
(*   - what it re-read and saved as the backup is the user's manifest.    *)
(***************************************************************************)
EXTENDS GraminePrepare, TLAPS

(* A manifest on which addToGramineManifest stops before writing: already *)
(* prepared (lines 74-79) or without an entrypoint (lines 100-103).       *)
Refused(f) == Prepared(f) \/ f.kv[Entrypoint] = Nil

(* The diffs replace the entrypoint by premain-libos. *)
SetsEntrypoint(ds) ==
    /\ \E d \in ds : d.key = Entrypoint
    /\ \A d \in ds : d.key = Entrypoint => d.value = Str(PremainName)

(* The text appendAndReplace makes of f when no existing entry blocks it. *)
Patched(ds, f) ==
    [f EXCEPT !.kv = [k \in Keys |->
                        IF \E d \in ds : d.key = k
                        THEN (CHOOSE d \in ds : d.key = k).value
                        ELSE f.kv[k]]]

(* What ResourcesPrepared requires of a manifest written from `in'. *)
Ready(f, in) ==
    /\ f.kv[Entrypoint] = Str(PremainName)
    /\ f.kv[Argv0] = IF in.kv[Argv0] = Nil THEN in.kv[Entrypoint] ELSE in.kv[Argv0]
    /\ f.kv[RemoteAtt] = Bool(TRUE)
    /\ f.kv[EnclaveSz] # Nil /\ f.kv[EnclaveSz].s \notin BelowOneGB
    /\ f.kv[ThreadNum].n >= 16

IInv ==
    /\ input \in Inputs
    /\ outcome = "panic" => ~WellTyped(input.kv)
    /\ pc \in PC
    /\ manifest = input \/ (backup = {input} /\ Refused(manifest))
    /\ pc \in {"prompt", "apply", "backup", "write"} =>
          manifest = input /\ SetsEntrypoint(diffs)
    /\ pc \in {"backup", "write"} =>
          content = input /\ modified.kv[Entrypoint] = Str(PremainName)
    /\ pc = "write" => backup = {input}
    /\ pc \in {"prompt", "apply", "backup", "write"} => Ready(Patched(diffs, input), input)
    /\ pc \in {"backup", "write"} => Ready(modified, input)
    /\ Written => Ready(manifest, input)

-----------------------------------------------------------------------------
(* Lemmas about the operators. *)

(* parseTreeForChanges succeeds only on a tree with an entrypoint, and     *)
(* the diffs calculateChanges makes of its result set it to premain-libos *)
(* (lines 100-103, 129, 181-205).                                         *)
LEMMA ParseOk ==
  ASSUME NEW tree, ParseTreeForChanges(tree).res = "ok"
  PROVE  /\ tree[Entrypoint] # Nil
         /\ SetsEntrypoint(CalculateChanges(ParseTreeForChanges(tree).original,
                                            ParseTreeForChanges(tree).changes))
  <1> DEFINE r == ParseTreeForChanges(tree)
  <1>1. tree[Entrypoint] # Nil
    BY DEF ParseTreeForChanges
  <1>2. /\ Entrypoint \in DOMAIN r.original
        /\ Entrypoint \in DOMAIN r.changes
        /\ r.changes[Entrypoint] = Str(PremainName)
    BY DEF ParseTreeForChanges, Searched, Entrypoint, HostEnv, Argv0, RemoteAtt,
           EnclaveSz, ThreadNum, EnvKeys
  <1>3. Str(PremainName).type = "string" /\ Str(Str(PremainName).s) = Str(PremainName)
    BY DEF Str, Nil
  <1>4. \A o, c : Entrypoint \in DOMAIN o /\ Entrypoint \in DOMAIN c
                  /\ c[Entrypoint] = Str(PremainName)
                  => SetsEntrypoint(CalculateChanges(o, c))
    <2> TAKE o, c
    <2> HAVE Entrypoint \in DOMAIN o /\ Entrypoint \in DOMAIN c
             /\ c[Entrypoint] = Str(PremainName)
    <2>1. \E d \in CalculateChanges(o, c) : d.key = Entrypoint
      <3> DEFINE Diff(k) ==
                   [key           |-> k,
                    alreadyExists |-> o[k] # Nil,
                    entryType     |-> IF c[k].type = "array" THEN "array" ELSE "string",
                    value         |-> Printed(c[k])]
      <3>1. CalculateChanges(o, c) = {Diff(k) : k \in DOMAIN o \cap DOMAIN c}
        BY DEF CalculateChanges
      <3>2. Diff(Entrypoint) \in CalculateChanges(o, c)
        BY <3>1
      <3>3. Diff(Entrypoint).key = Entrypoint
        OBVIOUS
      <3>. QED
        BY <3>2, <3>3
    <2>2. ASSUME NEW d \in CalculateChanges(o, c), d.key = Entrypoint
          PROVE  d.value = Str(PremainName)
      <3>1. PICK k \in DOMAIN o \cap DOMAIN c :
                d = [key           |-> k,
                     alreadyExists |-> o[k] # Nil,
                     entryType     |-> IF c[k].type = "array" THEN "array" ELSE "string",
                     value         |-> Printed(c[k])]
        BY DEF CalculateChanges
      <3>2. k = Entrypoint
        BY <2>2, <3>1
      <3>. QED
        BY <3>1, <3>2, <1>3 DEF Printed
    <2>. QED
      BY <2>1, <2>2 DEF SetsEntrypoint
  <1>. QED
    BY <1>1, <1>2, <1>4

(* appendAndReplace writes the value of the entrypoint diff (lines        *)
(* 341-353).                                                               *)
LEMMA ApplyOk ==
  ASSUME NEW ds, NEW f \in File, SetsEntrypoint(ds),
         AppendAndReplace(ds, f).res = "ok"
  PROVE  AppendAndReplace(ds, f).content.kv[Entrypoint] = Str(PremainName)
  <1>1. Entrypoint \in Keys
    BY DEF Keys, Searched
  <1>2. (CHOOSE d \in ds : d.key = Entrypoint).value = Str(PremainName)
    BY DEF SetsEntrypoint
  <1>. QED
    BY <1>1, <1>2 DEF AppendAndReplace, SetsEntrypoint, File

(* What appendAndReplace writes when it succeeds is the patched text.    *)
LEMMA AppendPatched ==
  ASSUME NEW ds, NEW f, AppendAndReplace(ds, f).res = "ok"
  PROVE  AppendAndReplace(ds, f).content = Patched(ds, f)
  BY DEF AppendAndReplace, Patched

(* A killed write of a file with the premain entrypoint leaves a prefix   *)
(* that every later run refuses.                                           *)
LEMMA CutRefused ==
  ASSUME NEW f, NEW b \in BOOLEAN, f.kv[Entrypoint] = Str(PremainName)
  PROVE  Refused(Cut(f, b))
  <1>1. Entrypoint \in Keys
    BY DEF Keys, Searched
  <1>. QED
    BY <1>1 DEF Cut, Refused, Prepared

(* A run on a refused manifest stops at addToGramineManifest. *)
LEMMA RefusedStops ==
  ASSUME ReadManifest, Refused(manifest)
  PROVE  pc' = "idle" /\ outcome' \in {"alreadyPrepared", "parseError", "noEntrypoint"}
  <1>1. CASE Prepared(manifest)
    BY <1>1 DEF ReadManifest, Stop
  <1>2. CASE ~Prepared(manifest) /\ manifest.kv[Entrypoint] = Nil
    <2>1. ParseTreeForChanges(manifest.kv).res = "noEntrypoint"
      BY <1>2 DEF ParseTreeForChanges
    <2>. QED
      BY <1>2, <2>1 DEF ReadManifest, Stop
  <1>. QED
    BY <1>1, <1>2 DEF Refused

(* The values go-toml returns, by type. *)
LEMMA NilOnly ==
  ASSUME NEW v, IsValue(v), v.type = "nil"
  PROVE  v = Nil
  BY DEF IsValue, Str, Int, Bool, Arr, Table, Passthrough, Nil

LEMMA StrOnly ==
  ASSUME NEW v, IsValue(v), v.type = "string"
  PROVE  v = Str(v.s)
  BY DEF IsValue, Str, Int, Bool, Arr, Table, Passthrough, Nil

LEMMA BoolOnly ==
  ASSUME NEW v, IsValue(v), v.type = "bool"
  PROVE  v = Bool(v.b)
  BY DEF IsValue, Str, Int, Bool, Arr, Table, Passthrough, Nil

(* The patched text holds, at each key, the printed change when the key    *)
(* is in both maps and the old value otherwise (calculateChanges emits     *)
(* one diff per such key, appendAndReplace writes it).                     *)
LEMMA PatchedAt ==
  ASSUME NEW o, NEW c, NEW f \in File, NEW k \in Keys
  PROVE  Patched(CalculateChanges(o, c), f).kv[k] =
           IF k \in DOMAIN o \cap DOMAIN c THEN Printed(c[k]) ELSE f.kv[k]
  <1> DEFINE ds == CalculateChanges(o, c)
             Diff(j) == [key           |-> j,
                         alreadyExists |-> o[j] # Nil,
                         entryType     |-> IF c[j].type = "array" THEN "array" ELSE "string",
                         value         |-> Printed(c[j])]
  <1>1. ds = {Diff(j) : j \in DOMAIN o \cap DOMAIN c}
    BY DEF CalculateChanges
  <1>2. Patched(ds, f).kv[k] = IF \E d \in ds : d.key = k
                                THEN (CHOOSE d \in ds : d.key = k).value
                                ELSE f.kv[k]
    BY DEF Patched, File
  <1>3. CASE k \in DOMAIN o \cap DOMAIN c
    <2>1. Diff(k) \in ds /\ Diff(k).key = k
      BY <1>1, <1>3
    <2>2. \A d \in ds : d.key = k => d = Diff(k)
      BY <1>1
    <2>3. (CHOOSE d \in ds : d.key = k) = Diff(k)
      BY <2>1, <2>2
    <2>4. Patched(ds, f).kv[k] = Diff(k).value
      <3> HIDE DEF Diff
      <3>. QED
        BY <1>2, <2>1, <2>3
    <2>. QED
      BY <1>3, <2>4
  <1>4. CASE k \notin DOMAIN o \cap DOMAIN c
    <2>1. ~\E d \in ds : d.key = k
      <3>1. SUFFICES ASSUME NEW d \in ds, d.key = k PROVE FALSE
        OBVIOUS
      <3>2. PICK j \in DOMAIN o \cap DOMAIN c : d = Diff(j)
        BY <1>1
      <3>3. d.key = j
        BY <3>2
      <3>. QED
        BY <1>4, <3>1, <3>2, <3>3
    <2>. QED
      BY <1>2, <1>4, <2>1
  <1>. QED
    BY <1>3, <1>4

(* insertFile changes only the declaration of its file type, or the      *)
(* legacy key it builds (lines 362-380).                                  *)
LEMMA InsertFileChanges ==
  ASSUME NEW tree, NEW ft, NEW fn
  PROVE  DOMAIN InsertFile(tree, ft, fn).chg \subseteq {ft, LegacyKey(ft, fn)}
  <1> DEFINE t == tree[ft].type
  <1>1. CASE t = "nil"
    BY <1>1, Zenon DEF InsertFile
  <1>2. CASE t = "table"
    BY <1>2, Zenon DEF InsertFile
  <1>3. CASE t = "array"
    BY <1>3, Zenon DEF InsertFile
  <1>4. CASE t \notin {"nil", "table", "array"}
    <2>1. InsertFile(tree, ft, fn).chg = <<>>
      BY <1>4, Zenon DEF InsertFile
    <2>. QED
      BY <2>1
  <1>. QED
    BY <1>1, <1>2, <1>3, <1>4

(* The diffs of a successful parseTreeForChanges make every resource of  *)
(* ResourcesPrepared right (lines 129-170): the entrypoint is replaced,   *)
(* argv0 is added from the old entrypoint (a string, or line 134 panics), *)
(* and each of remote attestation, enclave size and thread number is     *)
(* either set or already right.                                           *)
LEMMA ParseReady ==
  ASSUME NEW f \in Inputs, ParseTreeForChanges(f.kv).res = "ok"
  PROVE  Ready(Patched(CalculateChanges(ParseTreeForChanges(f.kv).original,
                                        ParseTreeForChanges(f.kv).changes), f), f)
  <1> DEFINE tree == f.kv
             tf   == InsertFile(tree, Trusted, PremainName)
             af   == InsertFile(tree, Allowed, UUIDName)
             orig == [k \in Searched \cup tf.orig \cup af.orig |-> tree[k]]
             upd  == {Entrypoint}
                     \cup (IF orig[Argv0] = Nil THEN {Argv0} ELSE {})
                     \cup (IF HostEnvOff(orig) THEN {e \in EnvKeys : orig[e] = Nil} ELSE {})
                     \cup (IF RemoteAttOff(orig) THEN {RemoteAtt} ELSE {})
                     \cup (IF EnclaveTooSmall(orig) THEN {EnclaveSz} ELSE {})
                     \cup (IF TooFewThreads(orig) THEN {ThreadNum} ELSE {})
             new(k) == CASE k = Entrypoint -> Str(PremainName)
                         [] k = Argv0      -> orig[Entrypoint]
                         [] k \in EnvKeys  -> Str(PassthroughText)
                         [] k = RemoteAtt  -> Bool(TRUE)
                         [] k = EnclaveSz  -> Str("1024M")
                         [] k = ThreadNum  -> Int(16)
             chg  == [k \in upd \cup DOMAIN tf.chg \cup DOMAIN af.chg |->
                        IF k \in upd THEN new(k)
                        ELSE IF k \in DOMAIN tf.chg THEN tf.chg[k]
                        ELSE af.chg[k]]
             P    == Patched(CalculateChanges(orig, chg), f)
  <1>1. tree[Entrypoint] # Nil /\ ~(tf.err \/ af.err) /\ ~Panics(orig)
    BY DEF ParseTreeForChanges
  <1>2. ParseTreeForChanges(tree).original = orig /\ ParseTreeForChanges(tree).changes = chg
    BY <1>1 DEF ParseTreeForChanges
  <1>3. f \in File /\ \A k \in Keys : IsValue(tree[k])
    BY InputsAssumption
  <1>4. /\ DOMAIN tf.chg \subseteq {Trusted, LegacyKey(Trusted, PremainName)}
        /\ DOMAIN af.chg \subseteq {Allowed, LegacyKey(Allowed, UUIDName)}
    BY InsertFileChanges
  <1>5. /\ Searched \cap {Trusted, Allowed} = {}
        /\ Searched \subseteq Keys
    BY DEF Searched, Keys, Entrypoint, HostEnv, Argv0, RemoteAtt, EnclaveSz,
           ThreadNum, EnvKeys, Trusted, Allowed
  <1>6. \A k \in Searched : /\ k \in DOMAIN orig /\ orig[k] = tree[k]
                            /\ (k \in DOMAIN chg <=> k \in upd)
                            /\ (k \in upd => chg[k] = new(k))
    BY <1>4, <1>5, KeysDistinct
  <1>7. \A k \in Searched : P.kv[k] = IF k \in upd THEN Printed(new(k)) ELSE tree[k]
    <2> TAKE k \in Searched
    <2>0. k \in Keys /\ f \in File
      BY <1>3, <1>5
    <2>1. P.kv[k] = IF k \in DOMAIN orig \cap DOMAIN chg THEN Printed(chg[k]) ELSE tree[k]
      <3> HIDE DEF orig, chg
      <3>. QED
        BY <2>0, PatchedAt
    <2>. QED
      <3> HIDE DEF orig, chg, new, upd
      <3>. QED
        BY <2>1, <1>6
  <1>8. /\ Entrypoint \in Searched /\ Argv0 \in Searched /\ RemoteAtt \in Searched
        /\ EnclaveSz \in Searched /\ ThreadNum \in Searched
        /\ Argv0 \notin {Entrypoint, RemoteAtt, EnclaveSz, ThreadNum} \cup EnvKeys
        /\ RemoteAtt \notin {Entrypoint, EnclaveSz, ThreadNum} \cup EnvKeys
        /\ EnclaveSz \notin {Entrypoint, ThreadNum} \cup EnvKeys
        /\ ThreadNum \notin {Entrypoint} \cup EnvKeys
        /\ Entrypoint \notin EnvKeys
    BY DEF Searched, Entrypoint, HostEnv, Argv0, RemoteAtt, EnclaveSz, ThreadNum, EnvKeys
  <1>9. P.kv[Entrypoint] = Str(PremainName)
    <2>1. Entrypoint \in upd
      OBVIOUS
    <2>2. new(Entrypoint) = Str(PremainName)
      BY <1>8, Zenon
    <2>3. Printed(Str(PremainName)) = Str(PremainName)
      <3>1. Str(PremainName).type = "string" /\ Str(PremainName).s = PremainName
        BY DEF Str, Nil
      <3>. QED
        BY <3>1 DEF Printed
    <2>. QED
      <3> HIDE DEF orig, chg, new, upd, P
      <3>. QED
        BY <1>7, <1>8, <2>1, <2>2, <2>3
  <1>10. P.kv[Argv0] = IF tree[Argv0] = Nil THEN tree[Entrypoint] ELSE tree[Argv0]
    <2>1. CASE tree[Argv0] = Nil
      <3>1. Argv0 \in upd /\ new(Argv0) = tree[Entrypoint]
        BY <1>6, <1>8, <2>1
      <3>2. tree[Entrypoint].type = "string"
        BY <1>1, <1>6, <1>8, <2>1 DEF Panics
      <3>3. tree[Entrypoint] = Str(tree[Entrypoint].s)
        BY <1>3, <1>5, <1>8, <3>2, StrOnly
      <3>4. Printed(tree[Entrypoint]) = tree[Entrypoint]
        BY <3>2, <3>3 DEF Printed
      <3>. QED
        <4> HIDE DEF orig, chg, new, upd, P
        <4>. QED
          BY <1>7, <1>8, <2>1, <3>1, <3>4
    <2>2. CASE tree[Argv0] # Nil
      <3>1. Argv0 \notin upd
        BY <1>6, <1>8, <2>2
      <3>. QED
        <4> HIDE DEF orig, chg, new, upd, P
        <4>. QED
          BY <1>7, <1>8, <2>2, <3>1
    <2>. QED
      BY <2>1, <2>2
  <1>11. P.kv[RemoteAtt] = Bool(TRUE)
    <2>1. CASE RemoteAttOff(orig)
      <3>1. RemoteAtt \in upd /\ new(RemoteAtt) = Bool(TRUE)
        BY <1>8, <2>1
      <3>2. Printed(Bool(TRUE)) = Bool(TRUE)
        BY DEF Printed, Bool, Nil
      <3>. QED
        <4> HIDE DEF orig, chg, new, upd, P
        <4>. QED
          BY <1>7, <1>8, <3>1, <3>2
    <2>2. CASE ~RemoteAttOff(orig)
      <3>1. RemoteAtt \notin upd
        BY <1>8, <2>2
      <3>2. tree[RemoteAtt] # Nil /\ tree[RemoteAtt].b /\ tree[RemoteAtt].type = "bool"
        BY <1>1, <1>6, <1>8, <2>2 DEF RemoteAttOff, Panics
      <3>3. tree[RemoteAtt] = Bool(TRUE)
        BY <1>3, <1>5, <1>8, <3>2, BoolOnly
      <3>. QED
        <4> HIDE DEF orig, chg, new, upd, P
        <4>. QED
          BY <1>7, <1>8, <3>1, <3>3
    <2>. QED
      BY <2>1, <2>2
  <1>12. P.kv[EnclaveSz] # Nil /\ P.kv[EnclaveSz].s \notin BelowOneGB
    <2>1. CASE EnclaveTooSmall(orig)
      <3>1. EnclaveSz \in upd /\ new(EnclaveSz) = Str("1024M")
        BY <1>8, <2>1
      <3>2. Printed(Str("1024M")) # Nil /\ Printed(Str("1024M")).s \notin BelowOneGB
        <4>1. Str("1024M").type = "string" /\ Str("1024M").s = "1024M"
          BY DEF Str, Nil
        <4>2. Printed(Str("1024M")) = Str("1024M")
          BY <4>1 DEF Printed
        <4>3. Str("1024M") # Nil
          <5>1. Nil.type = "nil"
            BY DEF Nil
          <5>. QED
            BY <4>1, <5>1
        <4>. QED
          BY <4>1, <4>2, <4>3 DEF BelowOneGB
      <3>. QED
        <4> HIDE DEF orig, chg, new, upd, P
        <4>. QED
          BY <1>7, <1>8, <3>1, <3>2
    <2>2. CASE ~EnclaveTooSmall(orig)
      <3>1. EnclaveSz \notin upd
        BY <1>8, <2>2
      <3>2. orig[EnclaveSz] = tree[EnclaveSz]
        BY <1>6, <1>8
      <3>3. P.kv[EnclaveSz] = tree[EnclaveSz]
        <4> HIDE DEF orig, chg, new, upd, P
        <4>. QED
          BY <1>7, <1>8, <3>1
      <3>. QED
        <4> HIDE DEF orig
        <4>. QED
          BY <2>2, <3>2, <3>3 DEF EnclaveTooSmall
    <2>. QED
      BY <2>1, <2>2
  <1>13. P.kv[ThreadNum].n >= 16
    <2>1. CASE TooFewThreads(orig)
      <3>1. ThreadNum \in upd /\ new(ThreadNum) = Int(16)
        BY <1>8, <2>1
      <3>2. Printed(Int(16)).n = 16
        <4>1. Int(16).type = "int" /\ Int(16).n = 16
          BY DEF Int, Nil
        <4>2. Printed(Int(16)) = Int(16)
          BY <4>1 DEF Printed
        <4>. QED
          BY <4>1, <4>2
      <3>3. P.kv[ThreadNum] = Printed(new(ThreadNum))
        <4> HIDE DEF orig, chg, new, upd, P
        <4>. QED
          BY <1>7, <1>8, <3>1
      <3>. QED
        <4> HIDE DEF new, P
        <4>. QED
          BY <3>1, <3>2, <3>3
    <2>2. CASE ~TooFewThreads(orig)
      <3>1. ThreadNum \notin upd
        BY <1>8, <2>2
      <3>2. tree[ThreadNum].n \in Nat
        BY <1>3, <1>5, <1>8 DEF File, Value
      <3>3. orig[ThreadNum] = tree[ThreadNum]
        BY <1>6, <1>8
      <3>4. tree[ThreadNum].n >= 16
        <4> HIDE DEF orig
        <4>. QED
          BY <2>2, <3>2, <3>3 DEF TooFewThreads
      <3>. QED
        <4> HIDE DEF orig, chg, new, upd, P
        <4>. QED
          BY <1>7, <1>8, <3>1, <3>4
    <2>. QED
      BY <2>1, <2>2
  <1>14. Ready(P, f)
    BY <1>9, <1>10, <1>11, <1>12, <1>13 DEF Ready
  <1>. QED
    <2> HIDE DEF orig, chg
    <2>. QED
      BY <1>2, <1>14

(* A manifest of the user's on which parseTreeForChanges panics has a     *)
(* value of a type Gramine does not accept (lines 134-168).                *)
LEMMA PanicIllTyped ==
  ASSUME NEW f \in Inputs, ParseTreeForChanges(f.kv).res = "panic"
  PROVE  ~WellTyped(f.kv)
  <1>1. Panics(f.kv)
    <2> DEFINE tree == f.kv
               tf   == InsertFile(tree, Trusted, PremainName)
               af   == InsertFile(tree, Allowed, UUIDName)
               orig == [k \in Searched \cup tf.orig \cup af.orig |-> tree[k]]
    <2>1. Panics(orig)
      BY DEF ParseTreeForChanges
    <2>2. \A k \in Searched : orig[k] = tree[k]
      OBVIOUS
    <2>. QED
      BY <2>1, <2>2 DEF Panics, Searched
  <1>2. \A k \in Searched : f.kv[k].type = "nil" => f.kv[k] = Nil
    <2>1. \A k \in Searched : IsValue(f.kv[k])
      BY InputsAssumption DEF Keys
    <2>. QED
      BY <2>1, NilOnly
  <1>. QED
    BY <1>1, <1>2 DEF Panics, WellTyped, Searched, Nil

-----------------------------------------------------------------------------
LEMMA InitIInv == Init => IInv
  BY DEF Init, IInv, PC, Written

LEMMA StepIInv == IInv /\ [Next]_vars => IInv'
  <1> SUFFICES ASSUME IInv, [Next]_vars PROVE IInv'
    OBVIOUS
  <1>1. CASE Start
    BY <1>1 DEF Start, IInv, PC, Written
  <1>2. CASE ReadManifest
    <2>1. CASE pc' = "idle"
      <3>1. outcome' = "panic" => ~WellTyped(input.kv)
        <4>1. CASE Refused(manifest)
          BY <1>2, <4>1, RefusedStops
        <4>2. CASE ~Refused(manifest)
          <5>1. manifest = input /\ input \in Inputs
            BY <4>2 DEF IInv
          <5>2. outcome' = "panic" => ParseTreeForChanges(manifest.kv).res = "panic"
            BY <1>2, <2>1 DEF ReadManifest, Stop
          <5>. QED
            BY <5>1, <5>2, PanicIllTyped
        <4>. QED
          BY <4>1, <4>2
      <3>. QED
        BY <1>2, <2>1, <3>1 DEF ReadManifest, IInv, PC, Written
    <2>2. CASE pc' # "idle"
      <3>1. ~Refused(manifest)
        BY <1>2, <2>2, RefusedStops
      <3>2. manifest = input
        BY <3>1 DEF IInv
      <3>3. LET r == ParseTreeForChanges(manifest.kv)
            IN  r.res = "ok" /\ diffs' = CalculateChanges(r.original, r.changes)
                /\ pc' = "prompt"
        BY <1>2, <2>2 DEF ReadManifest, Stop
      <3>4. SetsEntrypoint(diffs')
        BY <3>3, ParseOk
      <3>5. Ready(Patched(diffs', input), input)
        <4>1. input \in Inputs
          BY DEF IInv
        <4>. QED
          BY <3>2, <3>3, <4>1, ParseReady
      <3>. QED
        BY <1>2, <3>2, <3>3, <3>4, <3>5 DEF ReadManifest, Stop, IInv, PC, Written
    <2>. QED
      BY <2>1, <2>2
  <1>3. CASE Prompt
    BY <1>3 DEF Prompt, Stop, IInv, PC, Written
  <1>4. CASE Apply
    <2>1. manifest = input /\ SetsEntrypoint(diffs) /\ manifest \in File
      BY <1>4, InputsAssumption DEF Apply, IInv
    <2>2. AppendAndReplace(diffs, manifest).res = "ok" =>
            AppendAndReplace(diffs, manifest).content.kv[Entrypoint] = Str(PremainName)
      BY <2>1, ApplyOk
    <2>3. AppendAndReplace(diffs, manifest).res = "ok" =>
            Ready(AppendAndReplace(diffs, manifest).content, input)
      <3>1. Ready(Patched(diffs, input), input)
        BY <1>4 DEF Apply, IInv
      <3>. QED
        BY <2>1, <3>1, AppendPatched
    <2>. QED
      BY <1>4, <2>1, <2>2, <2>3 DEF Apply, Stop, IInv, PC, Written
  <1>5. CASE WriteBackup
    BY <1>5 DEF WriteBackup, Stop, IInv, PC, Written
  <1>6. CASE WriteManifest
    <2>1. backup = {input} /\ modified.kv[Entrypoint] = Str(PremainName)
      BY <1>6 DEF WriteManifest, IInv
    <2>2. Refused(modified)
      BY <2>1 DEF Refused, Prepared
    <2>3. \A b \in BOOLEAN : Refused(Cut(modified, b))
      BY <2>1, CutRefused
    <2>4. Ready(modified, input)
      BY <1>6 DEF WriteManifest, IInv
    <2>5. \A b \in BOOLEAN : Cut(modified, b).cut
      BY DEF Cut
    <2>. QED
      BY <1>6, <2>1, <2>2, <2>3, <2>4, <2>5 DEF WriteManifest, Stop, IInv, PC, Written
  <1>7. CASE Download \/ Kill
    BY <1>7 DEF Download, Kill, Stop, IInv, PC, Written
  <1>8. CASE UNCHANGED vars
    BY <1>8 DEF vars, IInv, Written
  <1>. QED
    BY <1>1, <1>2, <1>3, <1>4, <1>5, <1>6, <1>7, <1>8 DEF Next

THEOREM InvariantHolds == Spec => []IInv
  BY InitIInv, StepIInv, PTL DEF Spec

(* Whatever the user does -- decline, rerun the command, kill it between  *)
(* two steps or in the middle of writing the backup or the manifest --    *)
(* the original manifest survives on disk as the manifest or as its .bak  *)
(* (performChanges writes the backup first, lines 248-260, and every run  *)
(* on a file the command wrote stops before writing, lines 74-103).       *)
THEOREM OriginalSurvives == Spec => []OriginalRecoverable
  <1>1. IInv => OriginalRecoverable
    BY DEF IInv, OriginalRecoverable
  <1>. QED
    BY <1>1, InvariantHolds, PTL
(* The command panics only on a manifest of the user's with a value of a   *)
(* type Gramine does not accept: the type assertions of                    *)
(* parseTreeForChanges (lines 134-168) are each guarded by the nil checks  *)
(* of the code, and a file the command wrote is refused before parsing.   *)
THEOREM PanicOnlyIllTyped == Spec => []NoPanicWellTyped
  <1>1. IInv => NoPanicWellTyped
    BY DEF IInv, NoPanicWellTyped
  <1>. QED
    BY <1>1, InvariantHolds, PTL

(* A manifest the command wrote over the user's has premain-libos as      *)
(* entrypoint, the application as argv0, remote attestation on, at least  *)
(* 1 GiB of enclave and 16 threads (parseTreeForChanges, lines 129-170):  *)
(* the diffs computed by the run carry them, appendAndReplace writes them, *)
(* and a write killed half way leaves a cut file, which is not counted.   *)
THEOREM ResourcesReady == Spec => []ResourcesPrepared
  <1>1. IInv => ResourcesPrepared
    BY DEF IInv, ResourcesPrepared, Ready
  <1>. QED
    BY <1>1, InvariantHolds, PTL


-----------------------------------------------------------------------------
(* Types.  TypeOK is not inductive alone: Apply writes the values of the   *)
(* diffs into the text, so the diffs ReadManifest computes must hold keys  *)
(* of the manifest and values of its type.                                 *)

(* Every diff names a key of the manifest and holds a TOML value. *)
DiffsTyped == \A d \in diffs : d.key \in Keys /\ d.value \in Value

TInv == TypeOK /\ DiffsTyped

FST == INSTANCE FiniteSetTheorems

(* The constructors of values build values. *)
LEMMA ValueCons ==
  /\ Nil \in Value
  /\ \A x \in STRING : Str(x) \in Value
  /\ \A k \in Nat : Int(k) \in Value
  /\ \A x \in BOOLEAN : Bool(x) \in Value
  /\ \A fs \in SUBSET STRING : Arr(fs) \in Value
  <1>1. Nil \in Value
    <2>1. 0 \in Nat
      OBVIOUS
    <2>. QED
      BY <2>1, EntriesAreStrings, Zenon DEF Nil, Value, ValType
  <1>2. \A x \in STRING : Str(x) \in Value
    BY <1>1, Zenon DEF Str, Value, ValType
  <1>3. \A k \in Nat : Int(k) \in Value
    BY <1>1, Zenon DEF Int, Value, ValType
  <1>4. \A x \in BOOLEAN : Bool(x) \in Value
    BY <1>1, Zenon DEF Bool, Value, ValType
  <1>5. \A fs \in SUBSET STRING : Arr(fs) \in Value
    BY <1>1, Zenon DEF Arr, Value, ValType
  <1>. QED
    BY <1>1, <1>2, <1>3, <1>4, <1>5

(* calculateChanges prints a value as a value (lines 186-205). *)
LEMMA PrintedValue ==
  ASSUME NEW v \in Value
  PROVE  Printed(v) \in Value
  <1>1. v.s \in STRING /\ v.n \in Nat /\ v.b \in BOOLEAN /\ v.files \in SUBSET STRING
    BY DEF Value
  <1>2. Printed(v) \in {Str(v.s), Arr(v.files), Int(v.n), Bool(v.b)}
    BY Zenon DEF Printed
  <1>. QED
    BY <1>1, <1>2, ValueCons

(* insertFile reads only its own declaration and adds values (lines       *)
(* 362-380).                                                               *)
LEMMA InsertFileValues ==
  ASSUME NEW tree \in [Keys -> Value], NEW ft \in {Trusted, Allowed},
         NEW fn \in {PremainName, UUIDName}
  PROVE  /\ InsertFile(tree, ft, fn).orig \subseteq {ft}
         /\ \A k \in DOMAIN InsertFile(tree, ft, fn).chg :
               InsertFile(tree, ft, fn).chg[k] \in Value
  <1> DEFINE t     == tree[ft].type
             entry == "file:" \o fn
  <1>1. entry \in STRING /\ tree[ft].files \in SUBSET STRING
    <2>1. ft \in Keys
      BY DEF Keys
    <2>. QED
      BY <2>1, EntriesAreStrings DEF Value
  <1> HIDE DEF entry
  <1>2. CASE t = "nil"
    <2>1. InsertFile(tree, ft, fn) = [err |-> FALSE, orig |-> {},
                                      chg |-> [k \in {ft} |-> Arr({entry})]]
      BY <1>2, Zenon DEF InsertFile, entry
    <2>. QED
      BY <1>1, <2>1, ValueCons
  <1>3. CASE t = "table"
    <2>1. InsertFile(tree, ft, fn) = [err |-> FALSE, orig |-> {},
                                      chg |-> [k \in {LegacyKey(ft, fn)} |-> Str(entry)]]
      BY <1>3, Zenon DEF InsertFile, entry
    <2>. QED
      BY <1>1, <2>1, ValueCons
  <1>4. CASE t = "array"
    <2>1. InsertFile(tree, ft, fn) = [err |-> FALSE, orig |-> {ft},
                                      chg |-> [k \in {ft} |-> Arr(tree[ft].files \cup {entry})]]
      BY <1>4, Zenon DEF InsertFile, entry
    <2>. QED
      BY <1>1, <2>1, ValueCons
  <1>5. CASE t \notin {"nil", "table", "array"}
    <2>1. InsertFile(tree, ft, fn) = [err |-> TRUE, orig |-> {}, chg |-> <<>>]
      BY <1>5, Zenon DEF InsertFile
    <2>. QED
      BY <2>1
  <1>. QED
    BY <1>2, <1>3, <1>4, <1>5


(* parseTreeForChanges ends in one of its errors, its panic, or success   *)
(* (lines 100-172).                                                        *)
LEMMA ParseRes ==
  ASSUME NEW tree
  PROVE  ParseTreeForChanges(tree).res \in {"noEntrypoint", "unreadableFiles", "panic", "ok"}
  BY DEF ParseTreeForChanges

(* On a manifest of TOML values, the diffs calculateChanges makes of a    *)
(* successful parseTreeForChanges name keys of the manifest and hold      *)
(* values (lines 99-211).                                                  *)
LEMMA ParseValues ==
  ASSUME NEW tree \in [Keys -> Value], ParseTreeForChanges(tree).res = "ok"
  PROVE  \A d \in CalculateChanges(ParseTreeForChanges(tree).original,
                                   ParseTreeForChanges(tree).changes) :
            d.key \in Keys /\ d.value \in Value
  <1> DEFINE tf   == InsertFile(tree, Trusted, PremainName)
             af   == InsertFile(tree, Allowed, UUIDName)
             orig == [k \in Searched \cup tf.orig \cup af.orig |-> tree[k]]
             upd  == {Entrypoint}
                     \cup (IF orig[Argv0] = Nil THEN {Argv0} ELSE {})
                     \cup (IF HostEnvOff(orig) THEN {e \in EnvKeys : orig[e] = Nil} ELSE {})
                     \cup (IF RemoteAttOff(orig) THEN {RemoteAtt} ELSE {})
                     \cup (IF EnclaveTooSmall(orig) THEN {EnclaveSz} ELSE {})
                     \cup (IF TooFewThreads(orig) THEN {ThreadNum} ELSE {})
             new(k) == CASE k = Entrypoint -> Str(PremainName)
                         [] k = Argv0      -> orig[Entrypoint]
                         [] k \in EnvKeys  -> Str(PassthroughText)
                         [] k = RemoteAtt  -> Bool(TRUE)
                         [] k = EnclaveSz  -> Str("1024M")
                         [] k = ThreadNum  -> Int(16)
             chg  == [k \in upd \cup DOMAIN tf.chg \cup DOMAIN af.chg |->
                        IF k \in upd THEN new(k)
                        ELSE IF k \in DOMAIN tf.chg THEN tf.chg[k]
                        ELSE af.chg[k]]
  <1>1. tree[Entrypoint] # Nil /\ ~(tf.err \/ af.err) /\ ~Panics(orig)
    BY DEF ParseTreeForChanges
  <1>2. ParseTreeForChanges(tree).original = orig /\ ParseTreeForChanges(tree).changes = chg
    BY <1>1 DEF ParseTreeForChanges
  <1>3. /\ tf.orig \subseteq {Trusted}
        /\ af.orig \subseteq {Allowed}
        /\ \A k \in DOMAIN tf.chg : tf.chg[k] \in Value
        /\ \A k \in DOMAIN af.chg : af.chg[k] \in Value
    BY InsertFileValues
  <1>4. DOMAIN orig \subseteq Keys
    BY <1>3 DEF Keys
  <1>5. \A k \in upd : new(k) \in Value
    <2>1. Entrypoint \in Searched /\ tree[Entrypoint] \in Value /\ 16 \in Nat
      BY DEF Searched, Keys
    <2>2. orig[Entrypoint] \in Value
      BY <2>1
    <2>3. /\ Str(PremainName) \in Value /\ Str(PassthroughText) \in Value
          /\ Str("1024M") \in Value /\ Bool(TRUE) \in Value /\ Int(16) \in Value
      BY <2>1, ValueCons, EntriesAreStrings, Zenon
    <2>4. upd \subseteq {Entrypoint, Argv0, RemoteAtt, EnclaveSz, ThreadNum} \cup EnvKeys
      OBVIOUS
    <2>. QED
      BY <2>2, <2>3, <2>4, Zenon
  <1>6. \A k \in DOMAIN chg : chg[k] \in Value
    <2> SUFFICES ASSUME NEW k \in DOMAIN chg PROVE chg[k] \in Value
      OBVIOUS
    <2>1. k \in upd \cup DOMAIN tf.chg \cup DOMAIN af.chg
          /\ chg[k] = IF k \in upd THEN new(k)
                      ELSE IF k \in DOMAIN tf.chg THEN tf.chg[k]
                      ELSE af.chg[k]
      OBVIOUS
    <2>. QED
      <3> HIDE DEF tf, af, upd, new
      <3>. QED
        BY <1>3, <1>5, <2>1
  <1>. QED
    <2> SUFFICES ASSUME NEW d \in CalculateChanges(orig, chg)
                 PROVE  d.key \in Keys /\ d.value \in Value
      BY <1>2
    <2>1. PICK k \in DOMAIN orig \cap DOMAIN chg :
              d = [key           |-> k,
                   alreadyExists |-> orig[k] # Nil,
                   entryType     |-> IF chg[k].type = "array" THEN "array" ELSE "string",
                   value         |-> Printed(chg[k])]
      BY DEF CalculateChanges
    <2>. QED
      <3> HIDE DEF orig, chg
      <3>. QED
        BY <1>4, <1>6, <2>1, PrintedValue

(* appendAndReplace of diffs holding values leaves a file of values.     *)
LEMMA PatchedFile ==
  ASSUME NEW ds, NEW f \in File, \A d \in ds : d.value \in Value
  PROVE  Patched(ds, f) \in File
  BY DEF Patched, File

(* A killed write leaves a file of values.                                *)
LEMMA CutFile ==
  ASSUME NEW f \in File, NEW b \in BOOLEAN
  PROVE  Cut(f, b) \in File
  BY ValueCons DEF Cut, File


-----------------------------------------------------------------------------
LEMMA InitTInv == Init => TInv
  <1> SUFFICES ASSUME Init PROVE TInv
    OBVIOUS
  <1>1. input \in File /\ MaxRuns \in Nat
    BY InputsAssumption, KeysDistinct DEF Init
  <1>2. Cardinality({}) = 0
    <2>1. FST!Cardinality({}) = Cardinality({})
      BY DEF FST!Cardinality, Cardinality
    <2>. QED
      BY <2>1, FST!FS_EmptySet
  <1>. QED
    BY <1>1, <1>2 DEF Init, TInv, TypeOK, DiffsTyped, PC, Outcome

LEMMA StepTInv == IInv /\ TInv /\ [Next]_vars => TInv'
  <1> SUFFICES ASSUME IInv, TInv, [Next]_vars PROVE TInv'
    OBVIOUS
  <1>0. MaxRuns \in Nat
    BY KeysDistinct
  <1>1. CASE Start
    BY <1>0, <1>1 DEF Start, TInv, TypeOK, DiffsTyped, PC
  <1>2. CASE ReadManifest
    <2>1. manifest.kv \in [Keys -> Value]
      BY DEF TInv, TypeOK, File
    <2>2. /\ pc' \in {"idle", "prompt"}
          /\ diffs' \in {diffs, CalculateChanges(ParseTreeForChanges(manifest.kv).original,
                                                 ParseTreeForChanges(manifest.kv).changes)}
          /\ diffs' # diffs => ParseTreeForChanges(manifest.kv).res = "ok"
      BY <1>2 DEF ReadManifest, Stop
    <2>3. outcome' \in Outcome
      <3>1. ParseTreeForChanges(manifest.kv).res
              \in {"noEntrypoint", "unreadableFiles", "panic", "ok"}
        BY ParseRes
      <3>2. outcome' \in {outcome, "alreadyPrepared", "parseError", "noEntrypoint",
                          "unreadableFiles", "panic"}
        BY <1>2, <3>1 DEF ReadManifest, Stop
      <3>3. outcome \in Outcome
        BY DEF TInv, TypeOK
      <3>. QED
        BY <3>2, <3>3, Zenon DEF Outcome
    <2>4. DiffsTyped'
      BY <2>1, <2>2, ParseValues DEF TInv, DiffsTyped
    <2>. QED
      BY <1>2, <2>2, <2>3, <2>4 DEF ReadManifest, TInv, TypeOK, PC
  <1>3. CASE Prompt
    BY <1>3 DEF Prompt, Stop, TInv, TypeOK, DiffsTyped, PC, Outcome
  <1>4. CASE Apply
    <2>1. AppendAndReplace(diffs, manifest).res = "ok" =>
            AppendAndReplace(diffs, manifest).content \in File
      BY AppendPatched, PatchedFile DEF TInv, TypeOK, DiffsTyped
    <2>. QED
      BY <1>4, <2>1 DEF Apply, Stop, TInv, TypeOK, DiffsTyped, PC, Outcome
  <1>5. CASE WriteBackup
    <2>1. \A x : Cardinality({x}) = 1
      <3> TAKE x
      <3>1. FST!Cardinality({x}) = Cardinality({x})
        BY DEF FST!Cardinality, Cardinality
      <3>. QED
        BY <3>1, FST!FS_Singleton
    <2>2. content \in File /\ \A b \in BOOLEAN : Cut(content, b) \in File
      BY CutFile DEF TInv, TypeOK
    <2>3. backup' \in SUBSET File /\ Cardinality(backup') <= 1
      <3>1. CASE backup' = backup
        BY <3>1 DEF TInv, TypeOK
      <3>2. CASE backup' # backup
        <4>1. CASE backup' = {content}
          BY <2>1, <2>2, <4>1
        <4>2. CASE backup' # {content}
          <5>1. PICK b \in BOOLEAN : backup' = {Cut(content, b)}
            BY <1>5, <3>2, <4>2 DEF WriteBackup, Stop
          <5>. QED
            BY <2>1, <2>2, <5>1
        <4>. QED
          BY <4>1, <4>2
      <3>. QED
        BY <3>1, <3>2
    <2>. QED
      BY <1>5, <2>3 DEF WriteBackup, Stop, TInv, TypeOK, DiffsTyped, PC, Outcome
  <1>6. CASE WriteManifest
    <2>1. modified \in File /\ \A b \in BOOLEAN : Cut(modified, b) \in File
      BY CutFile DEF TInv, TypeOK
    <2>. QED
      BY <1>6, <2>1 DEF WriteManifest, Stop, TInv, TypeOK, DiffsTyped, PC, Outcome
  <1>7. CASE Download \/ Kill
    BY <1>7 DEF Download, Kill, Stop, TInv, TypeOK, DiffsTyped, PC, Outcome
  <1>8. CASE UNCHANGED vars
    BY <1>8 DEF vars, TInv, TypeOK, DiffsTyped
  <1>. QED
    BY <1>1, <1>2, <1>3, <1>4, <1>5, <1>6, <1>7, <1>8 DEF Next

(* Every file the command reads or writes -- the manifest, the .bak file  *)
(* (at most one), the re-read and the modified text -- holds a TOML value *)
(* for each key, whatever runs are started, declined, killed or failed:  *)
(* the diffs appendAndReplace writes come from parseTreeForChanges of the *)
(* manifest as read (lines 99-211, 310-357), and a killed write leaves a *)
(* prefix of a file of values.  TypeOK is not inductive alone, so it is   *)
(* proved with IInv and DiffsTyped.                                        *)
THEOREM TypeCorrect == Spec => []TypeOK
  <1>1. Spec => [](IInv /\ TInv)
    BY InitIInv, StepIInv, InitTInv, StepTInv, PTL DEF Spec
  <1>. QED
    BY <1>1, PTL DEF TInv

====
