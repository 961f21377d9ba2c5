CONSTANTS
    disk1 = disk1
    disk2 = disk2
    twin = twin
    kick = kick
    ext = ext
    gamefiles = gamefiles
    cd = cd
    Sources = {disk1, disk2, twin, kick, ext, gamefiles, cd}
    Found = {disk1, disk2, twin, kick, gamefiles, cd}
    LocalFiles = {}
    Unset = Unset
    Internal = Internal
    SaveDiskData = SaveDiskData
    StartupFiles = StartupFiles
    MaxImages = 4
    BaseName <- MCBaseName
    Conf <- MCConf
    Games = {"floppy game", "drive game"}
    Launches = {1, 2}
    Linkable = {gamefiles}
    Hollow = Hollow
    Media <- MCMedia
    PlayLimit = 2
SPECIFICATION Spec
INVARIANTS
    MediaReady
    OnlyChangesSaved
PROPERTIES
    RestoresLatest
    StartComesBack
