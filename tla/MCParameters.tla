---------------------------- MODULE MCParameters ----------------------------
(* A small instance of Parameters: two user secrets of which only s1 can  *)
(* be declared, an Env with a greeting and, optionally, manifest values    *)
(* for EDG_CA and MARBLE_TTLS_CONFIG, one file, and two TLS tags that      *)
(* share port 443 (t2 with a user certificate and client auth disabled).   *)
EXTENDS Parameters

MCEnvNames    == {"GREETING", "EDG_CA", "MARBLE_TTLS_CONFIG"}
MCFileNames   == {"/app/cfg"}
MCSecretNames == {"s1", "s2"}
MCTags        == {"t1", "t2"}
MCPorts       == {"443", "8443"}
MCAddrs       == {"db"}

Greetings == {Text, SyntaxError,
              Action("raw", "Marblerun.SealKey.Public"),
              Action("pem", "Marblerun.SealKey"),
              Action("pem", "Secrets.s1.Cert"),
              Action("hex", "Secrets.s2")}

MCTLSDefs ==
    ("t1" :> [incoming |-> <<[port |-> "443", cert |-> "", disableClientAuth |-> FALSE]>>,
              outgoing |-> <<[addr |-> "db", port |-> "443"]>>])
    @@ ("t2" :> [incoming |-> <<[port |-> "443", cert |-> "s1", disableClientAuth |-> TRUE],
                               [port |-> "8443", cert |-> "", disableClientAuth |-> FALSE]>>,
                 outgoing |-> <<>>])

MCMarbles ==
    {[env |-> ("GREETING" :> g) @@ [e \in extra |-> Text],
      files |-> fs,
      tls |-> t,
      secrets |-> ("s1" :> d) @@ ("s2" :> "none"),
      tlsDefs |-> MCTLSDefs] :
        g \in Greetings,
        extra \in SUBSET {"EDG_CA", "MARBLE_TTLS_CONFIG"},
        fs \in {<<>>, "/app/cfg" :> Action("base64", "Secrets.s1")},
        t \in {<<>>, <<"t1">>, <<"t1", "t2">>},
        d \in SecretDecl}
=============================================================================
