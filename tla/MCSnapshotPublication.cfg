SPECIFICATION DeployedSpec
CONSTANTS
    Empty = empty
    Routed = routed
    Broken = broken
    Contents = {empty, routed, broken}
    Versions = {v1, v2, v3}
    Server = server
    Cli = cli
    Deployments = {"alone", "shared"}
    Procs = {server, cli}
    Compiles <- ServerAndCli
    Composes = {routed}
    Requests = {r1}
    MaxRevision = 2
    Bootstrap = bootstrap
    NoVersion = noVersion
    NoEvent = noEvent
SYMMETRY Symmetric
INVARIANTS
    AloneConsistent
    ActivationsSound
    CurrentIdMeansGraph
