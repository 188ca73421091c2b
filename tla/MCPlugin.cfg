SPECIFICATION FairSpec
CONSTANTS
    Absent = Absent
    Plugins <- MCPlugins
    Names = {"x", "y"}
    Specs = {1, 2}
    ConfigMap = "x"
    Renders <- MCRenders
    Dependencies <- MCDependencies
    Source <- MCSource
    Initial <- MCInitial
    Kinds <- MCKinds
    MaxEdits = 2
    MaxFaults = 1
INVARIANTS
    TypeOK
    InstalledIsThere
    RemovedIsGone
PROPERTY Settles
CHECK_DEADLOCK FALSE
