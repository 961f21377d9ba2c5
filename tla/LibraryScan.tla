---------------------------- MODULE LibraryScan ----------------------------
(***************************************************************************)
(* Indexing the player's files: the scanner thread, Scanner.scan_thread,   *)
(* with its FileScanner, ConfigurationScanner and GameScanner, the two     *)
(* SQLite databases they write, and the startup scan, which uses another   *)
(* connection to the same databases from the main thread.                  *)
(*                                                                         *)
(* The file database lists the files of the scan directories with their    *)
(* contents; the library lists configurations, and for each variant of a   *)
(* game whether its files are there.  The thread commits the first per     *)
(* directory, the second when it ends; what it has not committed is lost   *)
(* if it raises or the launcher dies.  Meanwhile the player presses Stop,  *)
(* changes files, or quits.                                                *)
(*                                                                         *)
(* A file that cannot be read counts as absent, an archive that is damaged *)
(* as one with the members before the damage.  Size and modification time  *)
(* are a version.  A time stamp is the number of the scan that made it: no *)
(* two scans add a file within one second.                                 *)
(***************************************************************************)
EXTENDS Integers, Sequences, FiniteSets

CONSTANTS
    Files,       \* paths
    Members,     \* [Files -> the files packed in each]
    Configs,     \* the paths of .fs-uae files
    ScanPaths,   \* the settings of the scan directories: sequences of sets of paths
    Variants,    \* entries of the game database
    Needs,       \* [Variants -> the contents each is made of]
    Versions,    \* what a file can be changed to
    ScanLimit,   \* bound of the model: scans
    ChangeLimit  \* bound of the model: changes on disk

Absent == 0
Unsized == -1     \* the version of what is added without size and time
Never == 0
NoRow == [file |-> Absent, ver |-> Absent, items |-> {}]

ASSUME ScanAssumption ==
    /\ Absent \notin Files /\ Versions \subseteq Nat \ {Absent}
    /\ Configs \subseteq Files
    /\ ScanPaths \subseteq Seq(SUBSET Files)
    /\ \A v \in Variants : \A c \in Configs, ver \in Versions : <<c, ver>> \notin Needs[v]
    /\ ScanLimit \in Nat /\ ChangeLimit \in Nat

VARIABLES
    disk,     \* the version of each file
    db,       \* the file database: rows, and when one was last added and deleted
    tx,       \* its rows as the scanner thread sees them
    lib,      \* the library: configurations, variants, and the cached stamps
    libTx,    \* the same as the scanner thread sees it
    held,     \* the main thread has changed the file database and not committed
    stop,     \* Scanner.stop_flag
    pc,       \* where the scanner thread is
    scan,     \* the local state of the thread
    scans,    \* the number of scans so far
    changes,  \* the number of changes so far
    cut       \* history: versions of files whose contents were not read to the end

vars == <<disk, db, tx, lib, libTx, held, stop, pc, scan, scans, changes, cut>>

Steps == {"idle", "dir", "files", "others", "scanned", "configs", "games", "end"}
Contents(f, ver) == {<<f, ver>>} \cup {<<m, ver>> : m \in Members[f]}
Items(rows) == UNION {r.items : r \in rows}
Row(f, ver, items) == [file |-> f, ver |-> ver, items |-> items]

(* A thread with nothing to do. *)
Idle == [path |-> <<>>, dir |-> 0, todo |-> {}, left |-> {}, others |-> {}, reading |-> NoRow, inserted |-> FALSE,
         files |-> FALSE, failed |-> FALSE, changed |-> {}]

Rows == [file : Files, ver : Versions \cup {Unsized},
         items : SUBSET ((Files \cup UNION {Members[f] : f \in Files}) \X Versions)]
Libraries == [configs : SUBSET Configs, have : SUBSET Variants, known : SUBSET Variants,
              ins : 0..ScanLimit, del : 0..ScanLimit]

ScanStates ==
    [path : ScanPaths \cup {<<>>}, dir : Nat, todo : SUBSET Files, left : SUBSET Rows,
     others : SUBSET Rows, reading : Rows \cup {NoRow}, inserted : BOOLEAN,
     files : BOOLEAN, failed : BOOLEAN, changed : SUBSET Files]

TypeOK ==
    /\ disk \in [Files -> Versions \cup {Absent}]
    /\ db \in [rows : SUBSET Rows, ins : 0..ScanLimit, del : 0..ScanLimit]
    /\ tx \subseteq Rows
    /\ lib \in Libraries /\ libTx \in Libraries
    /\ held \in BOOLEAN /\ stop \in BOOLEAN
    /\ pc \in Steps
    /\ scan \in ScanStates
    /\ scans \in 0..ScanLimit /\ changes \in 0..ChangeLimit
    /\ cut \subseteq Files \X Versions

(* A new installation, with files that were there before. *)
Init ==
    /\ disk \in [Files -> {v \in Versions : \A w \in Versions : v <= w}]
    /\ db = [rows |-> {}, ins |-> Never, del |-> Never] /\ tx = {}
    /\ lib = [configs |-> {}, have |-> {}, known |-> {}, ins |-> Never, del |-> Never] /\ libTx = lib
    /\ held = FALSE /\ stop = FALSE
    /\ pc = "idle" /\ scan = Idle
    /\ scans = 0 /\ changes = 0 /\ cut = {}
-----------------------------------------------------------------------------
(* The player *)

(* A file is made, changed or deleted. *)
ChangeFile(f) ==
    /\ changes < ChangeLimit /\ changes' = changes + 1
    /\ \E ver \in (Versions \cup {Absent}) \ {disk[f]} : disk' = [disk EXCEPT ![f] = ver]
    /\ scan' = IF pc = "idle" THEN scan ELSE [scan EXCEPT !.changed = @ \cup {f}]
    /\ UNCHANGED <<db, tx, lib, libTx, held, stop, pc, scans, cut>>

(* The Scan button: nothing happens while a scan is running. *)
StartScan(path, files) ==
    /\ pc = "idle" /\ scans < ScanLimit
    /\ scans' = scans + 1
    /\ stop' = FALSE
    /\ pc' = IF files THEN "dir" ELSE "configs"
    /\ scan' = [Idle EXCEPT !.files = files, !.path = IF files THEN path ELSE <<>>,
                             !.others = IF files THEN db.rows ELSE {}]
    /\ tx' = db.rows /\ libTx' = lib
    /\ UNCHANGED <<disk, db, lib, held, changes, cut>>

(* The Stop button, or closing the dialog, while it still matters. *)
Stop ==
    /\ pc \notin {"idle", "end"} /\ ~stop
    /\ stop' = TRUE
    /\ UNCHANGED <<disk, db, tx, lib, libTx, held, pc, scan, scans, changes, cut>>

(***************************************************************************)
(* The launcher dies or is quit, and is started: config_startup_scan, which*)
(* does nothing if the directory seems unchanged, puts the difference into *)
(* both databases, but commits the library only.  The file database is     *)
(* committed if the Kickstarts are scanned, too.  Otherwise the main       *)
(* thread's transaction stays open, and keeps others from writing; its     *)
(* changes are lost with the launcher.                                     *)
(***************************************************************************)
Restart ==
    LET there == {c \in Configs : disk[c] # Absent}
        stale == (there \ lib.configs) \cup (lib.configs \ there)
        rows == {r \in db.rows : r.file \notin stale}
                    \cup {Row(c, Unsized, {<<c, disk[c]>>}) : c \in there \ lib.configs}
    IN  /\ pc' = "idle" /\ scan' = Idle /\ stop' = FALSE
        /\ \/ /\ held' = FALSE
              /\ UNCHANGED <<db, lib>>
           \/ /\ stale # {}
              /\ lib' = [lib EXCEPT !.configs = there]
              /\ \/ held' = TRUE /\ UNCHANGED db
                 \/ held' = FALSE /\ db' = [db EXCEPT !.rows = rows]
        /\ tx' = db'.rows /\ libTx' = lib'
        /\ UNCHANGED <<disk, scans, changes, cut>>
-----------------------------------------------------------------------------
(* FileScanner *)

(* Mutant: what a directory confirms is still purged behind the last one. *)
AllOtherRows(rows) == scan.others

(* What is outside the directory with these rows, too. *)
OtherRows(rows) == scan.others \ rows

(***************************************************************************)
(* The files of the next directory are listed, and its rows in the         *)
(* database: those that no file confirms will be purged.                   *)
(***************************************************************************)
EnterDir ==
    /\ pc = "dir"
    /\ IF scan.dir = Len(scan.path)
       THEN /\ pc' = "others"
            /\ UNCHANGED scan
       ELSE LET paths == scan.path[scan.dir + 1]
                rows == {r \in tx : r.file \in paths}
            IN  /\ pc' = "files"
                /\ scan' = [scan EXCEPT !.dir = @ + 1, !.todo = {f \in paths : disk[f] # Absent},
                                        !.left = rows, !.others = OtherRows(rows)]
    /\ UNCHANGED <<disk, db, tx, lib, libTx, held, stop, scans, changes, cut>>

(* Mutant: a file whose path is known is taken as indexed. *)
SamePath(f) == {r \in tx : r.file = f}

KnownRows(f) == {r \in tx : r.file = f /\ r.ver = disk[f]}

(***************************************************************************)
(* A file that has its row is left alone; for another a row is added, and  *)
(* then one for each of its members.  A file that has gone is passed over, *)
(* and so is one that cannot be added because the database is locked:      *)
(* scan_dir swallows what scan_file raises.                                *)
(***************************************************************************)
ScanFile ==
    /\ pc = "files" /\ scan.reading = NoRow /\ ~stop
    /\ \E f \in scan.todo :
        LET known == KnownRows(f)
            row == Row(f, disk[f], {<<f, disk[f]>>})
            next == [scan EXCEPT !.todo = @ \ {f}]
        IN  \/ /\ known # {}
               /\ scan' = [next EXCEPT !.left = @ \ known]
               /\ UNCHANGED tx
            \/ /\ known = {} /\ disk[f] # Absent /\ ~held
               /\ tx' = tx \cup {row}
               /\ scan' = [next EXCEPT !.inserted = TRUE, !.reading = row]
            \/ /\ known = {} /\ (disk[f] = Absent \/ held)
               /\ scan' = next
               /\ UNCHANGED tx
    /\ UNCHANGED <<disk, db, lib, libTx, held, stop, pc, scans, changes, cut>>

(* The members that the row does not have yet. *)
Unread(r) == {m \in Members[r.file] : <<m, r.ver>> \notin r.items}

(* The next of the members; an archive that has changed may not be readable. *)
ScanMember ==
    LET r == scan.reading
    IN  /\ pc = "files" /\ r # NoRow /\ ~stop
        /\ Unread(r) # {}
        /\ \/ LET m == CHOOSE m \in Unread(r) : TRUE
                   grown == [r EXCEPT !.items = @ \cup {<<m, r.ver>>}]
              IN  /\ tx' = (tx \ {r}) \cup {grown}
                  /\ scan' = [scan EXCEPT !.reading = grown]
                  /\ UNCHANGED cut
           \/ /\ disk[r.file] # r.ver
              /\ scan' = [scan EXCEPT !.reading = NoRow]
              /\ cut' = cut \cup {<<r.file, r.ver>>}
              /\ UNCHANGED tx
        /\ UNCHANGED <<disk, db, lib, libTx, held, stop, pc, scans, changes>>

(* The archive has been read, or Stop was pressed: its row stays as it is. *)
EndFile ==
    LET r == scan.reading
    IN  /\ pc = "files" /\ r # NoRow /\ (Unread(r) = {} \/ stop)
        /\ scan' = [scan EXCEPT !.reading = NoRow]
        /\ cut' = IF Unread(r) = {} THEN cut ELSE cut \cup {<<r.file, r.ver>>}
        /\ UNCHANGED <<disk, db, tx, lib, libTx, held, stop, pc, scans, changes>>

(***************************************************************************)
(* What raises ends the thread: its changes are rolled back, but for what  *)
(* FileScanner has committed.                                              *)
(***************************************************************************)
Raise ==
    /\ pc' = "end"
    /\ scan' = [scan EXCEPT !.failed = TRUE, !.reading = NoRow, !.todo = {}, !.left = {}, !.others = {}]
    /\ tx' = db.rows /\ libTx' = lib
    /\ UNCHANGED <<disk, db, lib, held, stop, scans, changes, cut>>

ScanRaises == pc \in {"dir", "files", "others", "configs", "games"} /\ Raise

(* Mutant: the stamps get lost. *)
Unstamped(d) == d

(* When something was last added and deleted. *)
Stamped(d) == [d EXCEPT !.ins = IF scan.inserted THEN scans ELSE @,
                        !.del = IF scan.left # {} THEN scans ELSE @]

(* scan_dir returns. *)
DirIsDone == pc = "files" /\ scan.reading = NoRow /\ (scan.todo = {} \/ stop)

(***************************************************************************)
(* All files were looked at, or Stop was pressed: the rows that are left   *)
(* are purged, and the directory is committed.                             *)
(***************************************************************************)
FinishDir ==
    /\ DirIsDone /\ ~(held /\ scan.left # {})
    /\ db' = [Stamped(db) EXCEPT !.rows = tx \ scan.left]
    /\ tx' = db'.rows
    /\ scan' = [scan EXCEPT !.inserted = FALSE, !.left = {}, !.todo = {}]
    /\ pc' = "dir"
    /\ UNCHANGED <<disk, lib, libTx, held, stop, scans, changes, cut>>

(***************************************************************************)
(* The rows of other directories are purged, without a stamp; that is      *)
(* rolled back if Stop was pressed.                                        *)
(***************************************************************************)
PurgeOthers ==
    /\ pc = "others" /\ ~(held /\ scan.others # {})
    /\ db' = IF stop THEN db ELSE [db EXCEPT !.rows = tx \ scan.others]
    /\ tx' = db'.rows
    /\ pc' = "scanned"
    /\ UNCHANGED <<disk, lib, libTx, held, stop, scan, scans, changes, cut>>

(* To purge rows of a database that the main thread keeps locked raises. *)
LockRaises ==
    /\ held
    /\ \/ DirIsDone /\ scan.left # {}
       \/ pc = "others" /\ scan.others # {}
    /\ Raise
-----------------------------------------------------------------------------
(* ConfigurationScanner and GameScanner *)

AfterFiles ==
    /\ pc = "scanned"
    /\ pc' = IF stop THEN "end" ELSE "configs"
    /\ UNCHANGED <<disk, db, tx, lib, libTx, held, stop, scan, scans, changes, cut>>

(* Stop leaves the loop over the files, and what it has not seen is deleted. *)
ScanConfigs ==
    /\ pc = "configs"
    /\ LET found == {r.file : r \in tx} \cap Configs
       IN  \E seen \in SUBSET found :
            /\ stop \/ seen = found
            /\ libTx' = [libTx EXCEPT !.configs = seen]
    /\ pc' = "games"
    /\ UNCHANGED <<disk, db, tx, lib, held, stop, scan, scans, changes, cut>>

(* get_last_event_stamps takes both stamps from the first column. *)
EventStamps == [ins |-> db.ins, del |-> db.ins]

(* A variant is looked at again if files came or went since the last time. *)
Skipped(v) ==
    /\ v \in libTx.known
    /\ IF v \in libTx.have THEN EventStamps.del = libTx.del ELSE EventStamps.ins = libTx.ins

Available(v) == Needs[v] \subseteq Items(tx)

(***************************************************************************)
(* Every variant is checked that is not skipped, or whose entry has        *)
(* changed; if Stop leaves some unseen, the stamps are not noted.          *)
(***************************************************************************)
ScanGames ==
    /\ pc = "games"
    /\ \E checked \in SUBSET Variants :
        /\ stop \/ {v \in Variants : ~Skipped(v)} \subseteq checked
        /\ LET seen == [libTx EXCEPT !.known = @ \cup checked,
                                     !.have = (@ \ checked) \cup {v \in checked : Available(v)}]
           IN  libTx' = IF stop THEN seen
                        ELSE [seen EXCEPT !.ins = EventStamps.ins, !.del = EventStamps.del]
    /\ pc' = "end"
    /\ UNCHANGED <<disk, db, tx, lib, held, stop, scan, scans, changes, cut>>

(* The library is committed, unless something was raised. *)
EndScan ==
    /\ pc = "end"
    /\ lib' = libTx
    /\ pc' = "idle" /\ scan' = Idle
    /\ UNCHANGED <<disk, db, tx, libTx, held, stop, scans, changes, cut>>

ScannerThread ==
    \/ EnterDir \/ ScanFile \/ ScanMember \/ EndFile \/ FinishDir \/ PurgeOthers
    \/ AfterFiles \/ ScanConfigs \/ ScanGames \/ EndScan \/ LockRaises

Next ==
    \/ \E f \in Files : ChangeFile(f)
    \/ \E path \in ScanPaths, files \in BOOLEAN : StartScan(path, files)
    \/ Stop \/ Restart \/ ScannerThread \/ ScanRaises

Spec == Init /\ [][Next]_vars
-----------------------------------------------------------------------------
(* Properties *)

Scanned == UNION {scan.path[i] : i \in DOMAIN scan.path}

(* A scan has come to its end undisturbed. *)
Complete == pc = "end" /\ ~stop /\ ~scan.failed

(***************************************************************************)
(* After it every file that did not change meanwhile has exactly one row,  *)
(* of its present version and with all its contents; what is gone or not   *)
(* in the scan directories has none.  An archive whose reading was cut     *)
(* short once has lost its chance, and the files of a launcher whose       *)
(* startup scan keeps the database locked cannot be added (scan, scan_dir, *)
(* scan_file, purge_file_ids).                                             *)
(***************************************************************************)
ScanIsAccurate ==
    Complete /\ scan.files /\ ~held =>
        \A f \in Files \ scan.changed :
            LET rows == {r \in db.rows : r.file = f}
            IN  IF f \notin Scanned \/ disk[f] = Absent THEN rows = {}
                ELSE /\ Cardinality(rows) = 1
                     /\ \A r \in rows : r.ver = disk[f] /\ (<<f, r.ver>> \in cut \/ r.items = Contents(f, r.ver))

(***************************************************************************)
(* What is indexed and has not changed stays indexed while a scan works on *)
(* it, however often it commits or fails, unless Stop was pressed: a game  *)
(* that is started meanwhile finds its files.                              *)
(***************************************************************************)
IndexIsStable ==
    [][pc # "idle" /\ pc' # "idle" /\ ~stop =>
        \A r \in db.rows :
            r.file \in Scanned \ scan.changed /\ r.ver = disk[r.file] => r \in db'.rows]_vars

(***************************************************************************)
(* After a complete scan the configurations are those of the file database *)
(* and a variant whose files are all there can be played, whatever scan    *)
(* added them: also one that was stopped, or failed, before it got to the  *)
(* games.  A variant whose files have gone cannot, if anything was added   *)
(* since the library last noted the stamps: that is when listed variants   *)
(* are looked at again (ScanHelper, update_last_event_stamps).             *)
(***************************************************************************)
LibraryFollows ==
    Complete =>
        /\ libTx.configs = {r.file : r \in db.rows} \cap Configs
        /\ \A v \in Variants : Needs[v] \subseteq Items(db.rows) => v \in libTx.have
        /\ db.ins # lib.del => \A v \in libTx.have : Needs[v] \subseteq Items(db.rows)
=============================================================================
