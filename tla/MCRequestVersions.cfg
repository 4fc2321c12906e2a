SPECIFICATION DeployedSpec
CONSTANTS
    Empty = empty
    Routed = routed
    Broken = broken
    Contents = {empty, routed}
    Versions = {v1, v2}
    Server = server
    Cli = cli
    Deployments = {"alone"}
    Procs = {server, cli}
    Compiles <- ServerAndCli
    Composes = {routed}
    Requests = {r1}
    MaxRevision = 1
    Bootstrap = bootstrap
    NoVersion = noVersion
    NoEvent = noEvent
SYMMETRY Symmetric
INVARIANT RequestUsesOneVersion
