----------------------------- MODULE GameLaunch -----------------------------
(***************************************************************************)
(* Launching games and keeping what is played: LauncherApp.start_game, the *)
(* launch dialog, the task thread that runs LaunchHandler.run_sequence,    *)
(* and the saved changes of GameChangeHandler in a directory that          *)
(* SaveHandler chooses.                                                    *)
(*                                                                         *)
(* A launch runs on a thread of its own while the player goes on using the *)
(* launcher: selects another configuration (which clears __running, so     *)
(* that Start works again), opens and closes the netplay page (which makes *)
(* and drops the current Netplay object that SaveHandler asks for).  Two   *)
(* launches can therefore run at once, also of one game, and save to one   *)
(* directory.  A game named on the command line is launched without a main *)
(* window, and its launch can be cancelled.  Any step can raise.           *)
(*                                                                         *)
(* The changed files are restored in one step and saved file by file.      *)
(***************************************************************************)
EXTENDS LaunchFiles

CONSTANTS
    Games,       \* the configurations
    Conf,        \* [Games -> the values LaunchFiles works on]
    Launches,    \* the launches, a set of numbers
    Linkable,    \* sources of which a launch gets a hard link instead of a copy
    Hollow,      \* the content of a file left empty
    Media,       \* the names a played game can change
    PlayLimit    \* bound of the model: changes made by playing

Asked == {Conf[g] : g \in Games}

(***************************************************************************)
(* No file is called as a drive's directory is.  One that is called as the *)
(* save disk is copied, not linked: prepare_floppies writes the save disk  *)
(* into what has its name.                                                 *)
(***************************************************************************)
OwnNames == Range(DriveDir) \cup {"DH0/S"}
ASSUME NameAssumption ==
    /\ \A s \in Sources : BaseName[s] \notin OwnNames
    /\ \A s \in Linkable : BaseName[s] # "Save Disk.adf"

(***************************************************************************)
(* What a configuration is.  If its CD is a file of a database game, so    *)
(* are all its CDs.  What is in the temporary directory is no source.      *)
(***************************************************************************)
ASSUME ConfAssumption ==
    /\ Found \subseteq Sources
    /\ {Unset, Internal} \cap Sources = {} /\ Unset # Internal
    /\ \A name \in OwnNames \cup {"Save Disk.adf"} \cup {BaseName[s] : s \in Sources} :
            Temp(name) \notin Sources \cup {Unset, Internal}
    /\ \A conf \in Asked :
        /\ {"roms", "drives", "images", "cds", "cd_images", "cd_files", "hds",
            "save_disk"} \subseteq DOMAIN conf
        /\ \A key \in {"drives", "images", "cds", "cd_images"} : conf[key] \in Seq(Sources \cup {Unset})
        /\ conf.cd_files \in Seq(Sources)
        /\ conf.cd_files # <<>> =>
                Range(conf.cds) \cup Range(conf.cd_images) \subseteq Range(conf.cd_files) \cup {Unset}
        /\ conf.roms \in Seq([file : Sources \cup {Unset, Internal}, defaults : Seq(Sources)])
        /\ DOMAIN conf.hds \subseteq 0..9
        /\ \A i \in DOMAIN conf.hds :
                conf.hds[i] \in [kind : HardDriveKinds, src : Sources \cup {Unset}]

(* The directories SaveHandler chooses from. *)
Dirs == Games \cup {"Default", "Net Play"}

(* What nobody changed by playing; a change makes something else. *)
Pristine == Sources \cup {SaveDiskData, StartupFiles}
ASSUME PlayAssumption ==
    /\ Unset \notin Dirs
    /\ Linkable \subseteq Sources
    /\ PlayLimit \in Nat
    /\ Hollow \notin Pristine
    /\ \A g \in Games, n \in 1..PlayLimit : <<g, n>> \notin Pristine \cup {Hollow}

VARIABLES
    window,     \* LauncherWindow.current() is a window
    netplay,    \* Netplay.current() is an object
    running,    \* the configuration's __running
    pc,         \* where the thread of each launch is
    job,        \* the LaunchHandler and SaveHandler of each launch
    onDisk,     \* what the files that are linked to, not copied, hold
    saved,      \* save_states_dir: the files of each directory
    plays,      \* history: how many changes were made by playing
    finished    \* history: per directory, what each file was when last saved by a launch that ended well

vars == <<window, netplay, running, pc, job, onDisk, saved, plays, finished>>

NoFiles == <<>>

Steps == {"none", "prepare", "changes", "run", "save", "cleanup", "complete", "failed", "ended"}

TypeOK ==
    /\ window \in BOOLEAN /\ netplay \in BOOLEAN
    /\ running \in BOOLEAN
    /\ pc \in [Launches -> Steps]
    /\ DOMAIN saved = Dirs
    /\ plays \in 0..PlayLimit
    /\ \A l \in Launches : pc[l] # "none" => job[l].game \in Games /\ job[l].stop \in BOOLEAN

Init ==
    /\ window \in BOOLEAN
    /\ netplay = FALSE
    /\ running = FALSE
    /\ pc = [l \in Launches |-> "none"]
    /\ job = [l \in Launches |-> Unset]
    /\ onDisk = [s \in Linkable |-> s]
    /\ saved = [d \in Dirs |-> NoFiles]
    /\ plays = 0
    /\ finished = [d \in Dirs |-> NoFiles]
-----------------------------------------------------------------------------
(* The player and the UI thread *)

(***************************************************************************)
(* LauncherConfig.load sets every key it does not know to "", __running    *)
(* with them.  Which configuration is loaded is left to its start.         *)
(***************************************************************************)
Select ==
    /\ window /\ running /\ running' = FALSE
    /\ UNCHANGED <<window, netplay, pc, job, onDisk, saved, plays, finished>>

(* The netplay page is opened or closed. *)
OpenNetplay ==
    /\ window /\ ~netplay
    /\ netplay' = TRUE
    /\ UNCHANGED <<window, running, pc, job, onDisk, saved, plays, finished>>

CloseNetplay ==
    /\ netplay
    /\ netplay' = FALSE
    /\ UNCHANGED <<window, running, pc, job, onDisk, saved, plays, finished>>

(* The launcher is quit and started again, with or without a main window. *)
Restart ==
    /\ \A l \in Launches : pc[l] \in {"none", "ended"}
    /\ window' \in BOOLEAN /\ netplay' = FALSE /\ running' = FALSE
    /\ UNCHANGED <<pc, job, onDisk, saved, plays, finished>>

(***************************************************************************)
(* Start, a double click on a configuration (which does not look at        *)
(* __running), or the start of a netplay game: do_start_game, which then   *)
(* resets the netplay keys.  Without a window it is the one game named on  *)
(* the command line.  The handlers copy the configuration.                 *)
(***************************************************************************)
StartLocalGame(l, g, asNetplay) ==
    /\ pc[l] = "none" /\ \A k \in Launches : pc[k] = "none" => l <= k
    /\ window \/ \A k \in Launches : pc[k] \in {"none", "ended"}
    /\ asNetplay => netplay
    /\ pc' = [pc EXCEPT ![l] = "prepare"]
    /\ job' = [job EXCEPT ![l] =
            [game |-> g, netplay_game |-> asNetplay, stop |-> FALSE,
             temp |-> NoFiles, old |-> NoFiles, dir |-> Unset,
             todo |-> {}, played |-> {}, contested |-> {}]]
    /\ running' = TRUE
    /\ UNCHANGED <<window, netplay, onDisk, saved, plays, finished>>

(***************************************************************************)
(* Cancel, or closing the launch dialog, which is shown if there is no     *)
(* main window.  Nothing looks at the flag once the emulator was started:  *)
(* later ones are left out.                                                *)
(***************************************************************************)
Cancel(l) ==
    /\ ~window /\ pc[l] \in {"prepare", "changes"} /\ ~job[l].stop
    /\ job' = [job EXCEPT ![l].stop = TRUE]
    /\ \/ UNCHANGED running
       \/ running' = FALSE
    /\ UNCHANGED <<window, netplay, pc, onDisk, saved, plays, finished>>

(* Mutant: the error dialog leaves __running as it is. *)
CloseDialogOnError(l) ==
    /\ pc[l] \in {"complete", "failed"}
    /\ pc' = [pc EXCEPT ![l] = "ended"]
    /\ running' = (running /\ pc[l] = "failed")
    /\ UNCHANGED <<window, netplay, job, onDisk, saved, plays, finished>>

(***************************************************************************)
(* The task has finished or failed: the dialog shows the error, if any,    *)
(* and closes, and __closed clears __running, whoever set it.              *)
(***************************************************************************)
CloseDialog(l) ==
    /\ pc[l] \in {"complete", "failed"}
    /\ pc' = [pc EXCEPT ![l] = "ended"]
    /\ running' = FALSE
    /\ UNCHANGED <<window, netplay, job, onDisk, saved, plays, finished>>
-----------------------------------------------------------------------------
(* The task thread *)

(***************************************************************************)
(* The netplay object is the current one; whether the launch is of a       *)
(* netplay game was read when it was started.                              *)
(***************************************************************************)
StateDir(l) ==
    IF ~netplay THEN job[l].game
    ELSE IF job[l].netplay_game THEN "Net Play" ELSE "Default"

Goto(l, step) == pc' = [pc EXCEPT ![l] = step]

(* What is left of a launch that is over: what it may have been saving. *)
Over(p) == [p EXCEPT !.stop = FALSE, !.netplay_game = FALSE, !.temp = NoFiles,
                     !.old = NoFiles, !.todo = {},
                     !.played = IF p.dir = Unset THEN {} ELSE @]

(* What raises on the thread ends the task: nothing is saved or cleaned up. *)
Fail(l) ==
    /\ Goto(l, "failed")
    /\ job' = [job EXCEPT ![l] = Over(@)]
    /\ UNCHANGED <<window, netplay, running, onDisk, saved, plays, finished>>

(***************************************************************************)
(* What the stages of prepare make of a configuration, in their order: the *)
(* same in every launch, and nothing another launch can see.               *)
(***************************************************************************)
Prepared ==
    [g \in Games |->
        CopyHdFiles(PrepareHardDrives(PrepareCdroms(PrepareFloppies(PrepareRoms(
            [conf |-> Conf[g], temp |-> NoFiles, ok |-> TRUE])))))]

(* The launch of l as LaunchFiles has it, with the files it has got. *)
Launched(l) == [Prepared[job[l].game] EXCEPT !.temp = job[l].temp]

(***************************************************************************)
(* copy_game_file links a file to its source where it can: what is written *)
(* to either is then in both.  Links holds those of a launch, Contents     *)
(* what all its files have in them, and Aliases those that share a source. *)
(***************************************************************************)
Holding(temp, disk) ==
    [name \in DOMAIN temp |-> IF temp[name] \in Linkable THEN disk[temp[name]] ELSE temp[name]]
Contents(l) == Holding(job[l].temp, onDisk)

Links(l) == {name \in DOMAIN job[l].temp : job[l].temp[name] \in Linkable}
LinksTo(l, srcs) == {name \in Links(l) : job[l].temp[name] \in srcs}
Aliases(l) == {name \in Links(l) : LinksTo(l, {job[l].temp[name]}) # {name}}

(* The files of launch l become files, in place. *)
Written(l, files) == {job[l].temp[name] : name \in Links(l) \cap DOMAIN files}
DiskWith(l, files) ==
    [s \in Linkable |->
        IF s \in Written(l, files)
        THEN files[CHOOSE name \in LinksTo(l, {s}) : name \in DOMAIN files]
        ELSE onDisk[s]]
TempWith(l, files) == Onto(Restrict(files, DOMAIN files \ Links(l)), job[l].temp)

(* What another launch has a link to as well is contested there: history. *)
WriteFiles(l, files, update) ==
    /\ onDisk' = DiskWith(l, files)
    /\ job' = [k \in Launches |->
            CASE k = l -> [update EXCEPT !.temp = TempWith(l, files)]
              [] k # l /\ pc[k] \in {"run", "save", "cleanup"} ->
                    [job[k] EXCEPT !.contested = @ \cup LinksTo(k, Written(l, files))]
              [] OTHER -> job[k]]

(* Mutant: the stages do not look at the stop flag. *)
NeverStops(l, step) == step

StopsAt(l, step) == IF job[l].stop THEN "cleanup" ELSE step

(***************************************************************************)
(* The stages of prepare, a look at the stop flag behind each.  One that   *)
(* copies a drive looks at the flag itself and leaves its work half done.  *)
(***************************************************************************)
Prepare(l) ==
    /\ pc[l] = "prepare"
    /\ LET p == Prepared[job[l].game]
       IN  /\ p.ok
           /\ \E left \in SUBSET (IF job[l].stop THEN DOMAIN p.temp \cap Range(DriveDir) ELSE {}) :
                job' = [job EXCEPT ![l].temp = Restrict(p.temp, DOMAIN p.temp \ left)]
    /\ Goto(l, StopsAt(l, "changes"))
    /\ UNCHANGED <<window, netplay, running, onDisk, saved, plays, finished>>

(* Mutant: a file that is there already is not replaced. *)
MissingFiles(l) == Restrict(saved[StateDir(l)], DOMAIN saved[StateDir(l)] \ DOMAIN job[l].temp)

SavedFiles(l) == saved[StateDir(l)]

(***************************************************************************)
(* init_changes merges the saved files into the temporary directory and    *)
(* notes what every file is then.  The theme and the extra settings come   *)
(* next; then the flag is looked at for the last time.                     *)
(***************************************************************************)
RestoreChanges(l) ==
    /\ pc[l] = "changes"
    /\ LET files == SavedFiles(l)
       IN  WriteFiles(l, files,
               [job[l] EXCEPT !.old = Holding(TempWith(l, files), DiskWith(l, files)),
                              !.contested = Aliases(l)])
    /\ Goto(l, StopsAt(l, "run"))
    /\ UNCHANGED <<window, netplay, running, saved, plays, finished>>

(* The player changes, makes or deletes a file of the game. *)
Play(l, name) ==
    /\ pc[l] = "run" /\ plays < PlayLimit
    /\ plays' = plays + 1
    /\ LET p == [job[l] EXCEPT !.played = @ \cup {name}]
       IN  \/ WriteFiles(l, OneFile(name, <<job[l].game, plays + 1>>), p)
           \/ /\ name \in DOMAIN p.temp
              /\ job' = [job EXCEPT ![l] = [p EXCEPT !.temp = Restrict(@, DOMAIN @ \ {name})]]
              /\ UNCHANGED onDisk
    /\ UNCHANGED <<window, netplay, running, pc, saved, finished>>

(***************************************************************************)
(* A medium or ROM is missing, fs-uae cannot be started, or anything else  *)
(* raises.                                                                 *)
(***************************************************************************)
ThreadFails(l) == pc[l] \in {"prepare", "changes", "run", "save"} /\ Fail(l)

(* Mutant: every file is saved. *)
EveryFile(old, new) == DOMAIN new

Changed(old, new) == {name \in DOMAIN new : name \notin DOMAIN old \/ old[name] # new[name]}
Removed(p) == DOMAIN p.old \ DOMAIN p.temp

(* History: files that another launch is saving to the same directory.     *)
Contested(l) ==
    {name \in job[l].played : \E k \in Launches \ {l} :
        pc[k] \in {"save", "cleanup"} /\ job[k].dir = StateDir(l) /\ name \in job[k].played}

(***************************************************************************)
(* process.wait returns, and update_changes compares the files with those  *)
(* noted before the game.                                                  *)
(***************************************************************************)
EmulatorExits(l) ==
    /\ pc[l] = "run"
    /\ job' = [job EXCEPT ![l].dir = StateDir(l), ![l].todo = Changed(job[l].old, Contents(l)),
                          ![l].contested = @ \cup Contested(l)]
    /\ Goto(l, "save")
    /\ UNCHANGED <<window, netplay, running, onDisk, saved, plays, finished>>

SaveFile(l) ==
    /\ pc[l] = "save"
    /\ \E name \in job[l].todo :
        /\ saved' = [saved EXCEPT ![job[l].dir] = Onto(OneFile(name, Contents(l)[name]), @)]
        /\ job' = [job EXCEPT ![l].todo = @ \ {name}]
    /\ UNCHANGED <<window, netplay, running, pc, onDisk, plays, finished>>

(***************************************************************************)
(* A deleted file is to be noted in the state directory; but a string is   *)
(* written to a file opened for bytes, which raises when the file has been *)
(* truncated.                                                              *)
(***************************************************************************)
SaveRemoved(l) ==
    /\ pc[l] = "save" /\ job[l].todo = {}
    /\ \/ /\ Removed(job[l]) = {}
          /\ Goto(l, "cleanup")
          /\ UNCHANGED <<job, saved>>
       \/ \E name \in Removed(job[l]) :
          /\ saved' = [saved EXCEPT ![job[l].dir] = Onto(OneFile(name, Hollow), @)]
          /\ Goto(l, "failed")
          /\ job' = [job EXCEPT ![l] = Over(@)]
    /\ UNCHANGED <<window, netplay, running, onDisk, plays, finished>>

(***************************************************************************)
(* The temporary directory goes; a state directory without files, too,     *)
(* which here it never was.                                                *)
(***************************************************************************)
Cleanup(l) ==
    /\ pc[l] = "cleanup"
    /\ Goto(l, "complete")
    /\ job' = [job EXCEPT ![l] = [Over(@) EXCEPT !.played = {}]]
    /\ finished' = IF job[l].dir = Unset THEN finished
                   ELSE [finished EXCEPT ![job[l].dir] =
                            Onto(Restrict(Contents(l), job[l].played \cap DOMAIN job[l].temp), @)]
    /\ UNCHANGED <<window, netplay, running, onDisk, saved, plays>>

Thread(l) ==
    \/ Prepare(l) \/ RestoreChanges(l) \/ EmulatorExits(l) \/ ThreadFails(l)
    \/ SaveFile(l) \/ SaveRemoved(l) \/ Cleanup(l)

Next ==
    \/ Select \/ OpenNetplay \/ CloseNetplay \/ Restart
    \/ \E l \in Launches :
        \/ \E g \in Games, asNetplay \in BOOLEAN : StartLocalGame(l, g, asNetplay)
        \/ Cancel(l) \/ CloseDialog(l) \/ Thread(l)
        \/ \E name \in Media : Play(l, name)

(***************************************************************************)
(* The thread runs, the player leaves the emulator some time, and the UI   *)
(* thread gets to what was posted to it.                                   *)
(***************************************************************************)
Spec ==
    /\ Init /\ [][Next]_vars
    /\ \A l \in Launches : WF_vars(Thread(l)) /\ WF_vars(CloseDialog(l))
-----------------------------------------------------------------------------
(* Properties *)

(***************************************************************************)
(* The emulator is started only on a complete set of media, each in the    *)
(* drive it was asked for, wherever a cancellation caught the copying; of  *)
(* files with one name one is there for all of them (prepare, run_sequence,*)
(* the prepare_* methods).                                                 *)
(***************************************************************************)
MediaReady == \A l \in Launches : pc[l] = "changes" => MediaInPlace(Launched(l), Conf[job[l].game])

(* Files of d that a launch is saving, or failed to save, or raced for, or *)
(* shared with a launch that wrote to them meanwhile.                      *)
Disturbed(d) ==
    UNION {job[k].played \cup job[k].contested :
            k \in {k \in Launches : pc[k] # "none" /\ job[k].dir = d}}

(***************************************************************************)
(* A launch that restores from a directory finds there every file as it    *)
(* was left by the last launch that played it and ended well, also when    *)
(* that one was cancelled after its emulator had started (init, update).   *)
(* Files that are links to one source cannot all be as they were.          *)
(***************************************************************************)
RestoresLatest ==
    [][\A l \in Launches : pc[l] = "changes" /\ pc'[l] = "run" =>
        \A name \in DOMAIN finished[StateDir(l)] \ (Disturbed(StateDir(l)) \cup Aliases(l)) :
            Contents(l)'[name] = finished[StateDir(l)][name]]_vars

(***************************************************************************)
(* Nothing but what was changed by playing is saved: a pristine file in    *)
(* the saved ones would hide a newer version of the game for good.         *)
(***************************************************************************)
OnlyChangesSaved ==
    \A d \in Dirs : \A name \in DOMAIN saved[d] :
        saved[d][name] \notin Pristine

(***************************************************************************)
(* The Start button comes back, however launches fail, are cancelled or    *)
(* overlap (__closed, on_error, on_complete).                              *)
(***************************************************************************)
StartComesBack == running ~> ~running
=============================================================================
