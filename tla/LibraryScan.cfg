CONSTANTS
    config = config
    archive = archive
    slave = slave
    data = data
    Files = {config, archive}
    Members <- MCMembers
    Configs = {config}
    ScanPaths <- MCScanPaths
    Variants = {"variant"}
    Needs <- MCNeeds
    Versions = {1, 2}
    ScanLimit = 2
    ChangeLimit = 2
SPECIFICATION Spec
INVARIANTS
    ScanIsAccurate
    LibraryFollows
PROPERTIES
    IndexIsStable
