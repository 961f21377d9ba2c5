\* One floppy drive and a list of two, one CD-ROM drive and a list of one, a
\* Kickstart of the player's own and two in the file database.
CONSTANTS
    SubModels <- MCSubModels
    FirstMain = "A1000"
    DefaultMain = "A500"
    UnknownMain = "A9000"
    CDBased = {"CD32"}
    DefaultRoms <- MCDefaultRoms
    Roms = {"kick12", "kick13"}
    OwnRoms = {"own"}
    Disks = {"disk"}
    CDs = {"cd"}
    Summed = {"own", "disk"}
    FloppyDrives <- MCFloppyDrives
    FloppyList <- MCFloppyList
    CDDrives <- MCCDDrives
    CDList <- MCCDList
    ConfigFiles <- MCConfigFiles
    EditLimit = 4
CHECK_DEADLOCK FALSE
SPECIFICATION Spec
INVARIANT SavedAsStored
