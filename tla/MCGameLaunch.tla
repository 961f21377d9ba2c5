---------------------------- MODULE MCGameLaunch ----------------------------
(* A game on floppy disks, with a save disk, and one of the game database, *)
(* whose files are found in a directory, with a CD.  The first disk and    *)
(* its twin, of another directory, have one name.                          *)
EXTENDS GameLaunch, TLC

CONSTANTS disk1, disk2, twin, kick, ext, gamefiles, cd

MCBaseName ==
    [s \in Sources |->
        CASE s = disk1   -> "Disk 1.adf"
          [] s = disk2   -> "Disk 2.adf"
          [] s = twin    -> "Disk 1.adf"
          [] s = kick    -> "Kick.rom"
          [] s = ext     -> "Ext.rom"
          [] s = gamefiles -> "Game"
          [] s = cd      -> "Game.cue"]

Empty(n) == [i \in 1..n |-> Unset]

MCConf ==
    [g \in {"floppy game", "drive game"} |->
      IF g = "floppy game"
      THEN [roms |-> <<[file |-> Unset, defaults |-> <<ext, kick>>]>>,
            drives |-> <<disk1, twin, disk2>>, images |-> Empty(MaxImages), writable |-> FALSE,
            save_disk |-> TRUE, cds |-> Empty(1), cd_images |-> Empty(1), cd_files |-> <<>>,
            hds |-> (0 :> [kind |-> "none", src |-> Unset]), boot |-> "startup",
            save_states |-> TRUE, unsafe_save_states |-> FALSE]
      ELSE [roms |-> <<[file |-> Internal, defaults |-> <<>>]>>,
            drives |-> Empty(3), images |-> Empty(MaxImages), writable |-> FALSE,
            save_disk |-> FALSE, cds |-> <<cd>>, cd_images |-> Empty(1), cd_files |-> <<cd>>,
            hds |-> (0 :> [kind |-> "game", src |-> gamefiles]), boot |-> "whdload",
            save_states |-> TRUE, unsafe_save_states |-> FALSE]]

MCMedia == {"DH0"}
=============================================================================
