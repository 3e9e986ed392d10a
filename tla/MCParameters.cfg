CONSTANTS
    Marbles <- MCMarbles
    EnvNames <- MCEnvNames
    FileNames <- MCFileNames
    SecretNames <- MCSecretNames
    Tags <- MCTags
    Ports <- MCPorts
    Addrs <- MCAddrs
INIT Init
NEXT Next
INVARIANT TypeOK ReservedEnvWins SecretsResolved TTLSDelivered
CHECK_DEADLOCK FALSE
