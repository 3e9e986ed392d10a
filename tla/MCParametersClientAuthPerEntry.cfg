CONSTANTS
    Marbles <- MCMarbles
    EnvNames <- MCEnvNames
    FileNames <- MCFileNames
    SecretNames <- MCSecretNames
    Tags <- MCTags
    Ports <- MCPorts
    Addrs <- MCAddrs
INIT Init
NEXT Next
INVARIANT ClientAuthPerEntry
CHECK_DEADLOCK FALSE
