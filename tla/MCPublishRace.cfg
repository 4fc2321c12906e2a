SPECIFICATION DeployedSpec
CONSTANTS
    Empty = empty
    Routed = routed
    Broken = broken
    Contents = {empty, routed, broken}
    Versions = {v1, v2}
    Server = server
    Cli = cli
    Deployments = {"racing"}
    Procs = {server, cli}
    Compiles <- ServerAndCli
    Composes = {routed}
    Requests = {r1}
    MaxRevision = 1
    Bootstrap = bootstrap
    NoVersion = noVersion
    NoEvent = noEvent
SYMMETRY Symmetric
INVARIANT PublishedWasCompiled
