SPECIFICATION Spec
CONSTANTS
    f1 = f1
    f2 = f2
    team = team
    other = other
    Names = {main, release}
    Main = main
    Commits = {1, 2}
    NoCommit = NoCommit
    NoRef = NoRef
    MaxPushes = 2
    TopKeys = {sub}
    NestedKeys = {enabled, size}
    On = on
    Off = off
    Subchart = sub
    Enabled = enabled
    Files = {f1, f2}
    FileLists <- MCFileLists
    Missing = Missing
    Namespaces = {team, other}
    Placements <- MCPlacements
    MaxLive = 2
INVARIANTS
    TypeOK
    ChecksOutWhatWasNamed
    ValuesAsLayered
    ReadingWasTrue
    IndInv
PROPERTY RendersSteadyState
