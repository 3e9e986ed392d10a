-------------------------- MODULE MCGraminePrepare --------------------------
(* Instances of GraminePrepare: the manifests a user may start from.       *)
EXTENDS GraminePrepare

(* A manifest with the given values of the searched keys; the EDG          *)
(* variables are absent (a manifest naming one is `marker' anyway).        *)
MkInput(e, h, a, ra, sz, t, tf, af, m, fl) ==
    [kv |-> [k \in Keys |->
               CASE k = Entrypoint -> e  [] k = HostEnv   -> h
                 [] k = Argv0      -> a  [] k = RemoteAtt -> ra
                 [] k = EnclaveSz  -> sz [] k = ThreadNum -> t
                 [] k = Trusted    -> tf [] k = Allowed   -> af
                 [] OTHER          -> Nil],
     marker |-> m, flat |-> fl, cut |-> FALSE]

AppFiles == {"file:app"}

(* Every shape of every searched value, including ill-typed ones.          *)
MCAllInputs ==
    { MkInput(e, h, a, ra, sz, t, tf, af, m, fl) :
        e  \in {Nil, Str("app")},
        h  \in {Nil, Bool(FALSE), Bool(TRUE), Str("true")},
        a  \in {Nil, Str("custom")},
        ra \in {Nil, Bool(FALSE), Bool(TRUE)},
        sz \in {Nil, Int(1)} \cup {Str(x) : x \in Sizes},
        t  \in {Nil, Int(8), Int(16), Str("16")},
        tf \in {Nil, Table(AppFiles), Arr(AppFiles), Str("other")},
        af \in {Nil, Table(AppFiles), Arr(AppFiles)},
        m  \in BOOLEAN,
        fl \in BOOLEAN }

(* Well-typed manifests, flat or not, with every form of file declaration,*)
(* for the runs with reruns and kills.                                     *)
MCRerunInputs ==
    { MkInput(Str("app"), h, a, ra, sz, t, tf, tf, FALSE, fl) :
        h  \in {Nil, Bool(TRUE)},
        a  \in {Nil, Str("custom")},
        ra \in {Nil, Bool(TRUE)},
        sz \in {Nil, Str("2G")},
        t  \in {Nil, Int(16)},
        tf \in {Nil, Table(AppFiles), Arr(AppFiles)},
        fl \in BOOLEAN }
=============================================================================
