---------------------------- MODULE LaunchFiles ----------------------------
(***************************************************************************)
(* How a launch turns a configuration into a temporary directory and the   *)
(* configuration FS-UAE gets: the prepare_* and copy_* methods of          *)
(* fsgs/amiga/launchhandler.py, as operators on a launch.                  *)
(*                                                                         *)
(* A launch p has p.conf, the configuration, p.temp, the files and drive   *)
(* directories in the temporary directory with their contents, and p.ok,   *)
(* FALSE once a method has raised.  What a configuration key refers to is  *)
(* a source; what it was copied to is Temp(name), and the copied content   *)
(* is the source again.  A drive's directory counts as one file.  Files of *)
(* one name replace each other: nothing looks for clashes.                 *)
(***************************************************************************)
EXTENDS Integers, Sequences, FiniteSets, Functions

CONSTANTS
    Sources,      \* files, archives and directories a configuration can name
    BaseName,     \* [Sources -> STRING], os.path.basename
    Found,        \* the sources that exist or that the file database finds
    LocalFiles,   \* those that are plain files on this machine
    Unset,        \* an empty configuration value
    Internal,     \* the Kickstart replacement built into the emulator
    SaveDiskData, \* amiga/adf_save_disk.dat
    StartupFiles, \* what copy_hd_files writes to boot from
    MaxImages     \* Amiga.MAX_FLOPPY_IMAGES

Temp(name) == <<"temp", name>>

Failed(p) == [p EXCEPT !.ok = FALSE]

(* Some files put where others are. *)
Onto(files, there) ==
    [name \in DOMAIN files \cup DOMAIN there |-> IF name \in DOMAIN files THEN files[name] ELSE there[name]]

(* The content of name in the temporary directory becomes c. *)
OneFile(name, c) == [n \in {name} |-> c]
PutFile(p, name, c) == [p EXCEPT !.temp = Onto(OneFile(name, c), @)]

LastAt(places) == CHOOSE i \in places : \A j \in places : j <= i

(***************************************************************************)
(* The entries of a list that are in srcs go to the temporary directory    *)
(* one after the other, under their own names; a file that has the name    *)
(* already is removed.  The launch fails with the first that is not there  *)
(* (copy_game_file).                                                       *)
(***************************************************************************)
CopyAll(p, list, srcs) ==
    LET Called(name) == {i \in DOMAIN list : list[i] \in srcs /\ BaseName[list[i]] = name}
    IN  IF srcs \subseteq Found
        THEN [p EXCEPT !.temp = Onto([name \in {BaseName[s] : s \in srcs} |-> list[LastAt(Called(name))]], @)]
        ELSE Failed(p)

(* The values of a list after their files were copied. *)
Copied(list, srcs) == [i \in DOMAIN list |-> IF list[i] \in srcs THEN Temp(BaseName[list[i]]) ELSE list[i]]

(***************************************************************************)
(* A ROM that is not configured is the first default one the file database *)
(* has; without any the launch fails.                                      *)
(***************************************************************************)
FirstFound(srcs) ==
    LET found == {i \in DOMAIN srcs : srcs[i] \in Found}
    IN  IF found = {} THEN Unset ELSE srcs[CHOOSE i \in found : \A j \in found : i <= j]

RomFiles(conf) ==
    [i \in DOMAIN conf.roms |->
        IF conf.roms[i].file = Unset THEN FirstFound(conf.roms[i].defaults) ELSE conf.roms[i].file]

PrepareRoms(p) ==
    LET roms == p.conf.roms
        file == RomFiles(p.conf)
        srcs == Range(file) \ {Internal}
        dest == Copied(file, srcs)
    IN  [CopyAll(p, file, srcs) EXCEPT !.conf.roms =
            [i \in DOMAIN roms |-> [file |-> dest[i], defaults |-> roms[i].defaults]]]

(***************************************************************************)
(* The images to copy are all that are set, but for those that the player  *)
(* wants to be written to and the emulator can write.                      *)
(***************************************************************************)
ToCopy(conf, list) ==
    {s \in Range(list) \ {Unset} : ~(conf.writable /\ s \in LocalFiles)}

AllUnset(list) == \A i \in DOMAIN list : list[i] = Unset

(* An empty list of images is filled from the drives: the i-th entry with  *)
(* what is in the i-th drive that is not empty.                            *)
NthInserted(drives, i) ==
    {j \in DOMAIN drives : drives[j] # Unset /\ Cardinality({k \in 1..j : drives[k] # Unset}) = i}

ListFromDrives(images, drives) ==
    IF AllUnset(images)
    THEN [i \in DOMAIN images |->
            IF NthInserted(drives, i) = {} THEN Unset
            ELSE drives[CHOOSE j \in NthInserted(drives, i) : TRUE]]
    ELSE images

(* The save disk goes behind the last image. *)
AddSaveDisk(p) ==
    LET used == {i \in DOMAIN p.conf.images : p.conf.images[i] # Unset}
        next == 1 + LastAt(used \cup {0})
    IN  IF p.conf.save_disk
        THEN [PutFile(p, "Save Disk.adf", SaveDiskData)
                EXCEPT !.conf.images = Onto(OneFile(next, Temp("Save Disk.adf")), @)]
        ELSE p

(***************************************************************************)
(* The drives first, then the list, which is filled from what the drives   *)
(* held before they were prepared.                                         *)
(***************************************************************************)
PrepareFloppies(p) ==
    LET drives == p.conf.drives
        images == ListFromDrives(p.conf.images, drives)
        srcs == ToCopy(p.conf, drives) \cup ToCopy(p.conf, images)
    IN  AddSaveDisk([CopyAll(p, drives \o images, srcs) EXCEPT !.conf.drives = Copied(drives, srcs),
                                                             !.conf.images = Copied(images, srcs)])

(***************************************************************************)
(* All the files of a database game are copied, whatever its CD-ROM drives *)
(* and images name is then found there; other CD-ROMs are used in place.   *)
(***************************************************************************)
PrepareCdroms(p) ==
    LET files == p.conf.cd_files
        moved == IF files = <<>> THEN {} ELSE Sources
        cds == Copied(p.conf.cds, moved)
    IN  [CopyAll(p, files, Range(files)) EXCEPT !.conf.cds = cds,
            !.conf.cd_images = ListFromDrives(Copied(@, moved), cds)]

(***************************************************************************)
(* Hard drives, by kind: a URL is downloaded; a game's files, an archive   *)
(* (also a downloaded one) or an XML description is unpacked to DH<i>, and *)
(* so is a template, which names its directory itself: the loader writes   *)
(* none but DH0, for the first drive.  Anything else is used in place.  An *)
(* emulator state would name the temporary directory, so states are        *)
(* switched off for what is unpacked.                                      *)
(***************************************************************************)
DriveDir == [i \in 0..9 |-> <<"DH0", "DH1", "DH2", "DH3", "DH4", "DH5", "DH6", "DH7", "DH8", "DH9">>[i + 1]]
Unpacked == {"game", "archive", "template"}
HardDriveKinds == Unpacked \cup {"none", "url", "local"}

PrepareHardDrives(p) ==
    LET hds == p.conf.hds
        Copies == {i \in DOMAIN hds : hds[i].kind \in Unpacked \cup {"url"}}
        dest == [i \in Copies |->
                    IF hds[i].kind \in Unpacked THEN DriveDir[i] ELSE BaseName[hds[i].src]]
        Called(name) == {i \in Copies : dest[i] = name}
        states == p.conf.save_states /\ (p.conf.unsafe_save_states
                                            \/ \A i \in DOMAIN hds : hds[i].kind \notin Unpacked)
    IN  IF \A i \in Copies : hds[i].src \in Found
        THEN [p EXCEPT
                !.temp = Onto([name \in Range(dest) |-> hds[LastAt(Called(name))].src], @),
                !.conf.hds = [i \in DOMAIN hds |->
                    IF i \in Copies THEN [hds[i] EXCEPT !.src = Temp(dest[i])] ELSE hds[i]],
                !.conf.save_states = states]
        ELSE Failed(p)

(***************************************************************************)
(* What a WHDLoad game, an installer or a startup command needs to boot is *)
(* written to DH0, which becomes the first drive if there is none.         *)
(* WHDLoad's slave must be there already.                                  *)
(***************************************************************************)
CopyHdFiles(p) ==
    CASE p.conf.boot = "none" -> p
      [] p.conf.boot = "whdload" /\ "DH0" \notin DOMAIN p.temp -> Failed(p)
      [] OTHER -> [PutFile(p, "DH0/S", StartupFiles) EXCEPT
                    !.conf.hds[0] = IF @.kind = "none" THEN [kind |-> "boot", src |-> Temp("DH0")] ELSE @]
-----------------------------------------------------------------------------
(* What the emulator finds under a value of the configuration. *)
Opens(p, value) ==
    IF \E name \in DOMAIN p.temp : value = Temp(name)
    THEN p.temp[CHOOSE name \in DOMAIN p.temp : value = Temp(name)]
    ELSE value

(* What a launch of conf may put in the temporary directory under a name.  *)
Downloads(conf) == {i \in DOMAIN conf.hds : conf.hds[i].kind = "url"}
Brought(conf) ==
    (Range(RomFiles(conf)) \cup Range(conf.drives) \cup Range(conf.images) \cup Range(conf.cd_files)
        \cup {conf.hds[i].src : i \in Downloads(conf)})
    \cap Sources

Namesakes(conf, name) ==
    {s \in Brought(conf) : BaseName[s] = name}
        \cup (IF conf.save_disk /\ name = "Save Disk.adf" THEN {SaveDiskData} ELSE {})

(* s is opened, or what has its name in the same configuration: s itself,  *)
(* if nothing else has.                                                    *)
OpensMedium(p, conf, value, s) ==
    \/ Opens(p, value) = s
    \/ s \in Sources /\ Opens(p, value) \in Namesakes(conf, BaseName[s])

(***************************************************************************)
(* Every drive and every entry of the lists the player filled has the      *)
(* medium the player put there, and every empty list those of its drives,  *)
(* although all of them are copied to one directory and renamed on the way.*)
(* Where files of one configuration have one name, it may be another of    *)
(* them.  No ROM is missing.                                               *)
(***************************************************************************)
MediaInPlace(p, asked) ==
    /\ \A key \in {"drives", "cds"} : \A i \in DOMAIN asked[key] :
            OpensMedium(p, asked, p.conf[key][i], asked[key][i])
    /\ \A keys \in {<<"images", "drives">>, <<"cd_images", "cds">>} :
            LET want == ListFromDrives(asked[keys[1]], asked[keys[2]])
            IN  \A i \in DOMAIN want : want[i] # Unset =>
                    OpensMedium(p, asked, p.conf[keys[1]][i], want[i])
    /\ \A i \in Downloads(asked) : OpensMedium(p, asked, p.conf.hds[i].src, asked.hds[i].src)
    /\ \A i \in DOMAIN asked.hds \ Downloads(asked) : asked.hds[i].kind # "none" =>
            Opens(p, p.conf.hds[i].src) = asked.hds[i].src
    /\ LET file == RomFiles(asked)
       IN  \A i \in DOMAIN file :
            /\ file[i] \in Found \cup {Internal}
            /\ OpensMedium(p, asked, p.conf.roms[i].file, file[i])
=============================================================================
